----------------------------- MODULE MC_ModeCfg -----------------------------
(* Model-checking instance of ModeCfg: two message ids, two assignable    *)
(* addresses; the loss and forgery bounds are set per run in the cfg.     *)
EXTENDS ModeCfg

CONSTANTS a1, a2

MC_MsgIds == {1, 2}
MC_Addrs == {a1, a2}

=============================================================================
