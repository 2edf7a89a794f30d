--------------------------- MODULE ModeCfgExchange ---------------------------
(***************************************************************************)
(* What the ModeCfg exchange promises (spec section 4.4), without         *)
(* messages, message ids or timers.  Each side is idle, waiting for its   *)
(* peer, done, or dead (deleted after its retransmissions ran out).       *)
(*                                                                         *)
(* Pull: the initiator asks; the responder answers a request only once    *)
(* one was made; the initiator completes only on the answer and then      *)
(* holds the offered address.                                              *)
(* Push: the responder offers; the initiator applies only an offer that   *)
(* was made; the responder completes only once the initiator has applied  *)
(* it.                                                                      *)
(* In both modes nothing is applied when nothing was offered.             *)
(***************************************************************************)
CONSTANTS
    Addrs,      \* addresses, the any-address included
    AnyAddr     \* "nothing configured"

VARIABLES
    mode,       \* "pull" or "push"
    ini,        \* the initiator's phase
    rsp,        \* the responder's phase
    addr,       \* the initiator's own source address
    offer       \* the address the responder is configured to hand out

vars == <<mode, ini, rsp, addr, offer>>

Phases == {"idle", "waiting", "done", "dead"}

(* The address the initiator holds once it has taken the offer.          *)
Taken == IF offer = AnyAddr THEN addr ELSE offer

Init ==
    /\ mode \in {"pull", "push"}
    /\ ini = "idle" /\ rsp = "idle"
    /\ addr \in Addrs /\ offer \in Addrs

Ask ==
    /\ mode = "pull" /\ ini = "idle"
    /\ ini' = "waiting"
    /\ UNCHANGED <<mode, rsp, addr, offer>>

Answer ==
    /\ mode = "pull" /\ rsp = "idle" /\ ini # "idle"
    /\ rsp' = "done"
    /\ UNCHANGED <<mode, ini, addr, offer>>

TakeAnswer ==
    /\ mode = "pull" /\ ini = "waiting" /\ rsp = "done"
    /\ ini' = "done" /\ addr' = Taken
    /\ UNCHANGED <<mode, rsp, offer>>

Offer ==
    /\ mode = "push" /\ rsp = "idle"
    /\ rsp' = "waiting"
    /\ UNCHANGED <<mode, ini, addr, offer>>

AwaitOffer ==
    /\ mode = "push" /\ ini = "idle"
    /\ ini' = "waiting"
    /\ UNCHANGED <<mode, rsp, addr, offer>>

TakeOffer ==
    /\ mode = "push" /\ ini = "waiting" /\ rsp # "idle"
    /\ ini' = "done" /\ addr' = Taken
    /\ UNCHANGED <<mode, rsp, offer>>

Acknowledged ==
    /\ mode = "push" /\ rsp = "waiting" /\ ini = "done"
    /\ rsp' = "done"
    /\ UNCHANGED <<mode, ini, addr, offer>>

(* The side that waits for an answer gives up on its peer.                *)
GiveUp ==
    \/ /\ mode = "pull" /\ ini = "waiting"
       /\ ini' = "dead"
       /\ UNCHANGED <<mode, rsp, addr, offer>>
    \/ /\ mode = "push" /\ rsp = "waiting"
       /\ rsp' = "dead"
       /\ UNCHANGED <<mode, ini, addr, offer>>

Next ==
    \/ Ask \/ Answer \/ TakeAnswer
    \/ Offer \/ AwaitOffer \/ TakeOffer \/ Acknowledged
    \/ GiveUp

Spec == Init /\ [][Next]_vars
=============================================================================
