--------------------------- MODULE MC_ModeCfgCodec ---------------------------
(* Model-checking instance of ModeCfgCodec: two assignable addresses.     *)
EXTENDS ModeCfgCodec

CONSTANTS a1, a2

MC_Addrs == {a1, a2}

=============================================================================
