------------------------- MODULE ModeCfgScheduleProofs -------------------------
(***************************************************************************)
(* The retransmission schedule of a ModeCfg session, for every choice of  *)
(* the constants: a session is deleted as a dead peer only after its      *)
(* request went out RETRANSMIT_TRIES + 1 times and the whole backoff of   *)
(* get_retransmit_timeout(0 .. RETRANSMIT_TRIES) has elapsed since the    *)
(* first transmission (DeadPeerSchedule).                                  *)
(*                                                                         *)
(* The inductive invariant SchedInv ties every pending EVENT_RETRANSMIT   *)
(* to the history: its try count is one less than the transmissions so    *)
(* far, and its deadline is the first transmission's time plus the        *)
(* timeouts of tries 0 .. try.  It needs one more fact: a session that has *)
(* not sent yet (MODE_CFG_I0, MAIN_R3) has no retransmit event, because   *)
(* modecfg_send_msg keeps a pending event but restarts the history.       *)
(***************************************************************************)
EXTENDS ModeCfgProofs

(* The partial sums of the backoff, the function TotalBackoff's           *)
(* definition stands for.                                                  *)
Backoff ==
    CHOOSE total : total = [n \in 0 .. RETRANSMIT_TRIES |->
                              IF n = 0 THEN get_retransmit_timeout(0)
                              ELSE total[n - 1] + get_retransmit_timeout(n)]

(* A retransmit event is pending.                                          *)
Pending(p) == st_event[p].type = "EVENT_RETRANSMIT"

(* A pending event is try number try of the current request: the request *)
(* went out try + 1 times and its deadline is the backoff of tries 0 ..   *)
(* try after the first transmission.                                       *)
Clock(p) ==
    Pending(p) =>
        /\ st_event[p].try <= RETRANSMIT_TRIES
        /\ xmits[p] = st_event[p].try + 1
        /\ st_event[p].at = sentAt[p] + Backoff[st_event[p].try]

(* A session that has not sent its request or SET has no retransmit event. *)
Fresh(p) == st_state[p] \in {"MODE_CFG_I0", "MAIN_R3"} => ~Pending(p)

SchedInv ==
    /\ TypeInv
    /\ \A p \in Peers : Clock(p) /\ Fresh(p)

-----------------------------------------------------------------------------
(* The retransmission timeouts of configuration.c, 4000 * 1.8^n truncated. *)
LEMMA TimeoutValues ==
    /\ get_retransmit_timeout(0) = 4000
    /\ get_retransmit_timeout(1) = 7200
    /\ get_retransmit_timeout(2) = 12960
    /\ get_retransmit_timeout(3) = 23328
    /\ get_retransmit_timeout(4) = 41990
    /\ get_retransmit_timeout(5) = 75582
    /\ \A n \in Nat : n > RETRANSMIT_TRIES => get_retransmit_timeout(n) = 0
BY DEF get_retransmit_timeout, RETRANSMIT_TRIES, RETRANSMIT_TIMEOUT,
       RETRANSMIT_BASE_NUM, RETRANSMIT_BASE_DEN

(* The partial sums, computed.                                             *)
BackoffSums ==
    [n \in 0 .. 5 |-> CASE n = 0 -> 4000 [] n = 1 -> 11200 [] n = 2 -> 24160
                        [] n = 3 -> 47488 [] n = 4 -> 89478 [] n = 5 -> 165060]

(* The partial sums satisfy their recursion; the explicit sums are a      *)
(* function that does, so the one the definition chooses exists.          *)
LEMMA BackoffFix ==
    /\ Backoff[0] = get_retransmit_timeout(0)
    /\ \A n \in 1 .. RETRANSMIT_TRIES :
          Backoff[n] = Backoff[n - 1] + get_retransmit_timeout(n)
    /\ \A n \in 0 .. RETRANSMIT_TRIES : Backoff[n] \in Nat
<1>1. BackoffSums = [n \in 0 .. RETRANSMIT_TRIES |->
                       IF n = 0 THEN get_retransmit_timeout(0)
                       ELSE BackoffSums[n - 1] + get_retransmit_timeout(n)]
  BY TimeoutValues DEF BackoffSums, RETRANSMIT_TRIES
<1>2. Backoff = [n \in 0 .. RETRANSMIT_TRIES |->
                   IF n = 0 THEN get_retransmit_timeout(0)
                   ELSE Backoff[n - 1] + get_retransmit_timeout(n)]
  <2>1. \E g : g = [n \in 0 .. RETRANSMIT_TRIES |->
                      IF n = 0 THEN get_retransmit_timeout(0)
                      ELSE g[n - 1] + get_retransmit_timeout(n)]
    BY <1>1, Zenon
  <2>2. QED
    BY <2>1 DEF Backoff
<1>3. Backoff[0] \in Nat
  BY <1>2, TimeoutValues DEF RETRANSMIT_TRIES
<1>4. \A n \in 1 .. RETRANSMIT_TRIES :
          Backoff[n] = Backoff[n - 1] + get_retransmit_timeout(n)
  BY <1>2 DEF RETRANSMIT_TRIES
<1>5. \A n \in 0 .. RETRANSMIT_TRIES : Backoff[n] \in Nat
  <2>1. Backoff[1] \in Nat
    BY <1>3, <1>4, TimeoutValues DEF RETRANSMIT_TRIES
  <2>2. Backoff[2] \in Nat
    BY <2>1, <1>4, TimeoutValues DEF RETRANSMIT_TRIES
  <2>3. Backoff[3] \in Nat
    BY <2>2, <1>4, TimeoutValues DEF RETRANSMIT_TRIES
  <2>4. Backoff[4] \in Nat
    BY <2>3, <1>4, TimeoutValues DEF RETRANSMIT_TRIES
  <2>5. Backoff[5] \in Nat
    BY <2>4, <1>4, TimeoutValues DEF RETRANSMIT_TRIES
  <2>6. QED
    BY <1>3, <2>1, <2>2, <2>3, <2>4, <2>5 DEF RETRANSMIT_TRIES
<1>6. QED
  BY <1>2, <1>4, <1>5 DEF RETRANSMIT_TRIES

(* TotalBackoff is the last partial sum.                                   *)
LEMMA TotalBackoffLast == TotalBackoff = Backoff[RETRANSMIT_TRIES]
BY DEF TotalBackoff, Backoff

-----------------------------------------------------------------------------
(* modecfg_send_msg from a session without a pending retransmit event     *)
(* schedules try 0 at now + get_retransmit_timeout(0) and starts the      *)
(* history of the new request.                                             *)
LEMMA SendMsgSched ==
    ASSUME NEW p \in Peers, NEW t, NEW ia, modecfg_send_msg(p, t, ia), ~Pending(p)
    PROVE  /\ st_event' = [st_event EXCEPT ![p] =
                             [type |-> "EVENT_RETRANSMIT",
                              at |-> now + EVENT_RETRANSMIT_DELAY_0, try |-> 0]]
           /\ xmits' = [xmits EXCEPT ![p] = 1]
           /\ sentAt' = [sentAt EXCEPT ![p] = now]
BY DEF modecfg_send_msg, Pending

(* The four handlers and a failed parse leave the event and the history   *)
(* alone, and never enter MODE_CFG_I0, MAIN_R3 or DELETED.                 *)
LEMMA ReceiveSched ==
    ASSUME TypeInv, NEW m, Receive(m)
    PROVE  /\ UNCHANGED <<st_event, xmits, sentAt>>
           /\ \A p \in Peers :
                 st_state'[p] \in {"MODE_CFG_I0", "MAIN_R3", "DELETED"}
                    => st_state'[p] = st_state[p]
<1> USE DEF TypeInv, TypeOK, Peers
<1>1. CASE modecfg_inR0(m)
  BY <1>1 DEF modecfg_inR0
<1>2. CASE modecfg_inR1(m)
  BY <1>2 DEF modecfg_inR1
<1>3. CASE modecfg_inI1(m)
  BY <1>3 DEF modecfg_inI1
<1>4. CASE modecfg_inI2(m)
  BY <1>4 DEF modecfg_inI2
<1>5. CASE modecfg_parse_msg_fails(Dest(m), m)
  BY <1>5 DEF modecfg_parse_msg_fails
<1>6. QED
  BY <1>1, <1>2, <1>3, <1>4, <1>5 DEF Receive

LEMMA InitSched == Init => SchedInv
<1> SUFFICES ASSUME Init PROVE SchedInv
  OBVIOUS
<1>1. TypeInv
  BY InitTypeInv
<1>2. \A p \in Peers : ~Pending(p)
  BY DEF Init, Pending, Peers, NoEvent
<1>3. QED
  BY <1>1, <1>2 DEF SchedInv, Clock, Fresh

(* Each step keeps every pending event in step with the history: a send   *)
(* starts both at try 0, a retransmission advances both by one try, and   *)
(* cancelling or giving up removes the event.                              *)
LEMMA NextSched == SchedInv /\ [Next]_vars => SchedInv'
<1> SUFFICES ASSUME SchedInv, [Next]_vars PROVE SchedInv'
  OBVIOUS
<1> USE DEF Peers
<1>0. /\ TypeInv /\ TypeInv'
      /\ \A p \in Peers : Clock(p) /\ Fresh(p)
  BY NextTypeInv DEF SchedInv
<1>b. /\ Backoff[0] = EVENT_RETRANSMIT_DELAY_0
      /\ \A n \in 1 .. RETRANSMIT_TRIES :
            Backoff[n] = Backoff[n - 1] + get_retransmit_timeout(n)
  BY BackoffFix DEF EVENT_RETRANSMIT_DELAY_0
<1> SUFFICES ASSUME NEW q \in Peers PROVE Clock(q)' /\ Fresh(q)'
  BY <1>0 DEF SchedInv
<1>1. ASSUME NEW p \in Peers, NEW t, NEW ia,
             st_state[p] \in {"MODE_CFG_I0", "MAIN_R3"},
             st_state'[p] \notin {"MODE_CFG_I0", "MAIN_R3"},
             \A r \in Peers \ {p} : st_state'[r] = st_state[r],
             modecfg_send_msg(p, t, ia)
      PROVE  Clock(q)' /\ Fresh(q)'
  <2>1. ~Pending(p)
    BY <1>0, <1>1 DEF Fresh
  <2>2. /\ st_event' = [st_event EXCEPT ![p] =
                          [type |-> "EVENT_RETRANSMIT",
                           at |-> now + EVENT_RETRANSMIT_DELAY_0, try |-> 0]]
        /\ xmits' = [xmits EXCEPT ![p] = 1]
        /\ sentAt' = [sentAt EXCEPT ![p] = now]
    BY <1>1, <2>1, SendMsgSched
  <2>3. CASE q = p
    BY <1>0, <1>1, <1>b, <2>2, <2>3 DEF Clock, Fresh, Pending, TypeInv, TypeOK,
                                      RETRANSMIT_TRIES
  <2>4. CASE q # p
    BY <1>0, <1>1, <2>2, <2>4 DEF Clock, Fresh, Pending, TypeInv, TypeOK
  <2>5. QED
    BY <2>3, <2>4
<1>2. CASE modecfg_send_request
  <2>1. st_state' = [st_state EXCEPT !["I"] = "MODE_CFG_I1"]
        /\ modecfg_send_msg("I", "ISAKMP_CFG_REQUEST",
              [init_internal_addr EXCEPT
                  !.attr_set = {INTERNAL_IP4_ADDRESS, INTERNAL_IP4_NETMASK}])
        /\ st_state["I"] = "MODE_CFG_I0"
    BY <1>2 DEF modecfg_send_request
  <2>2. QED
    BY <1>0, <1>1, <2>1 DEF TypeInv, TypeOK
<1>3. CASE modecfg_send_set
  <2>1. st_state' = [st_state EXCEPT !["R"] = "MODE_CFG_R1"]
        /\ modecfg_send_msg("R", "ISAKMP_CFG_SET", get_internal_addr(r_that))
        /\ st_state["R"] = "MAIN_R3"
    BY <1>3 DEF modecfg_send_set
  <2>2. QED
    BY <1>0, <1>1, <2>1 DEF TypeInv, TypeOK
<1>4. CASE StartPush
  BY <1>0, <1>4 DEF StartPush, Clock, Fresh, Pending, TypeInv, TypeOK
<1>5. ASSUME NEW m, Receive(m) PROVE Clock(q)' /\ Fresh(q)'
  <2>1. /\ UNCHANGED <<st_event, xmits, sentAt>>
        /\ st_state'[q] \in {"MODE_CFG_I0", "MAIN_R3"} => st_state'[q] = st_state[q]
    BY <1>0, <1>5, ReceiveSched
  <2>2. QED
    BY <1>0, <2>1 DEF Clock, Fresh, Pending
<1>6. CASE \E m \in net : Deliver(m)
  BY <1>5, <1>6 DEF Deliver
<1>7. CASE Forge
  BY <1>5, <1>7 DEF Forge
<1>8. CASE \E m \in net : Lose(m)
  BY <1>0, <1>8 DEF Lose, session_vars, Clock, Fresh, Pending
<1>9. ASSUME NEW p \in Peers, RetransmitCancel(p) PROVE Clock(q)' /\ Fresh(q)'
  BY <1>0, <1>9 DEF RetransmitCancel, Clock, Fresh, Pending, NoEvent,
                    TypeInv, TypeOK
<1>10. ASSUME NEW p \in Peers, Retransmit(p) PROVE Clock(q)' /\ Fresh(q)'
  <2> DEFINE k == st_event[p].try
  <2>1. Pending(p) /\ k \in Nat /\ st_event[p].at \in Nat
    BY <1>0, <1>10 DEF Retransmit, TimerDue, Pending, TypeInv, TypeOK, Event
  <2>2. /\ get_retransmit_timeout(k + 1) # 0
        /\ st_event' = [st_event EXCEPT ![p] =
                          [type |-> "EVENT_RETRANSMIT",
                           at |-> st_event[p].at + get_retransmit_timeout(k + 1),
                           try |-> k + 1]]
        /\ xmits' = [xmits EXCEPT ![p] = xmits[p] + 1]
        /\ UNCHANGED <<st_state, sentAt>>
    BY <1>10 DEF Retransmit
  <2>3. k + 1 \in 1 .. RETRANSMIT_TRIES
    BY <2>1, <2>2, RetransmitTimeoutBudget
  <2>4. Backoff[k + 1] = Backoff[k] + get_retransmit_timeout(k + 1)
    BY <1>b, <2>1, <2>3
  <2>5. CASE q = p
    <3>1. xmits[p] = k + 1 /\ st_event[p].at = sentAt[p] + Backoff[k]
      BY <1>0, <2>1 DEF Clock
    <3>2. /\ st_event'[p].type = "EVENT_RETRANSMIT"
          /\ st_event'[p].try = k + 1
          /\ st_event'[p].at = st_event[p].at + get_retransmit_timeout(k + 1)
          /\ xmits'[p] = xmits[p] + 1
          /\ sentAt'[p] = sentAt[p]
      BY <1>0, <2>2 DEF TypeInv, TypeOK
    <3>a. /\ Backoff[k] \in Nat /\ get_retransmit_timeout(k + 1) \in Nat
          /\ sentAt[p] \in Nat
      <4>1. k \in 0 .. RETRANSMIT_TRIES
        BY <2>1, <2>3 DEF RETRANSMIT_TRIES
      <4>2. Backoff[k] \in Nat
        BY <4>1, BackoffFix
      <4>3. get_retransmit_timeout(k + 1) \in Nat
        BY <2>1, RetransmitTimeoutType
      <4>4. QED
        BY <1>0, <4>2, <4>3 DEF TypeInv, TypeOK
    <3>3. Clock(p)'
      BY <2>3, <2>4, <3>1, <3>2, <3>a DEF Clock, Pending
    <3>4. Fresh(p)'
      <4>1. st_state[p] \notin {"MODE_CFG_I0", "MAIN_R3"}
        BY <1>0, <2>1 DEF Fresh
      <4>2. QED
        BY <2>2, <4>1 DEF Fresh
    <3>5. QED
      BY <2>5, <3>3, <3>4
  <2>6. CASE q # p
    BY <1>0, <2>2, <2>6 DEF Clock, Fresh, Pending, TypeInv, TypeOK
  <2>7. QED
    BY <2>5, <2>6
<1>11. ASSUME NEW p \in Peers, RetransmitGiveUp(p) PROVE Clock(q)' /\ Fresh(q)'
  BY <1>0, <1>11 DEF RetransmitGiveUp, Clock, Fresh, Pending, NoEvent,
                     TypeInv, TypeOK
<1>12. CASE UNCHANGED vars
  BY <1>0, <1>12 DEF vars, session_vars, Clock, Fresh, Pending
<1>13. QED
  BY <1>2, <1>3, <1>4, <1>6, <1>7, <1>8, <1>9, <1>10, <1>11, <1>12 DEF Next

(* Within the budget every timeout is positive: the driver gives up only  *)
(* once try + 1 exceeds RETRANSMIT_TRIES.                                  *)
LEMMA GiveUpAtLastTry ==
    ASSUME NEW k \in 0 .. RETRANSMIT_TRIES, get_retransmit_timeout(k + 1) = 0
    PROVE  k = RETRANSMIT_TRIES
<1>1. k + 1 > RETRANSMIT_TRIES
  BY TimeoutValues DEF RETRANSMIT_TRIES
<1>2. QED
  BY <1>1 DEF RETRANSMIT_TRIES

(* Only the retransmission driver's give-up deletes a session.             *)
LEMMA OnlyGiveUpDeletes ==
    ASSUME TypeInv, [Next]_vars, NEW p \in Peers,
           st_state[p] # "DELETED", st_state'[p] = "DELETED"
    PROVE  RetransmitGiveUp(p)
<1> USE DEF Peers, TypeInv, TypeOK
<1>1. ASSUME NEW m, Receive(m) PROVE FALSE
  BY <1>1, ReceiveSched
<1>2. ASSUME NEW r \in Peers, RetransmitGiveUp(r), r # p PROVE FALSE
  BY <1>2 DEF RetransmitGiveUp
<1>3. ~modecfg_send_request /\ ~modecfg_send_set /\ ~StartPush
  BY DEF modecfg_send_request, modecfg_send_set, StartPush
<1>4. ~(\E m \in net : Deliver(m)) /\ ~Forge
  BY <1>1 DEF Deliver, Forge
<1>5. ~\E m \in net : Lose(m)
  BY DEF Lose, session_vars
<1>6. \A r \in Peers : ~RetransmitCancel(r) /\ ~Retransmit(r)
  BY DEF RetransmitCancel, Retransmit
<1>7. ~UNCHANGED vars
  BY DEF vars, session_vars
<1>a. Next
  BY <1>7
<1>8. \E r \in Peers : RetransmitGiveUp(r)
  BY <1>a, <1>3, <1>4, <1>5, <1>6 DEF Next
<1>9. QED
  BY <1>2, <1>8

-----------------------------------------------------------------------------
(* A ModeCfg session is declared a dead peer and deleted only after its   *)
(* request or SET was sent RETRANSMIT_TRIES + 1 times and the full        *)
(* backoff of get_retransmit_timeout(0 .. RETRANSMIT_TRIES) has passed    *)
(* since the first transmission, whatever the network and attacker did    *)
(* in between (a forged datagram may zero st_msgid but leaves the event   *)
(* and its count in step).                                                 *)
THEOREM DeadPeerScheduleHolds == Spec => DeadPeerSchedule
<1>1. SchedInv /\ [Next]_vars =>
        [\A p \in Peers :
            st_state[p] # "DELETED" /\ st_state'[p] = "DELETED" =>
               /\ xmits[p] = RETRANSMIT_TRIES + 1
               /\ now' - sentAt[p] = TotalBackoff]_vars
  <2> SUFFICES ASSUME SchedInv, [Next]_vars, NEW p \in Peers,
                      st_state[p] # "DELETED", st_state'[p] = "DELETED"
               PROVE  /\ xmits[p] = RETRANSMIT_TRIES + 1
                      /\ now' - sentAt[p] = TotalBackoff
    OBVIOUS
  <2>1. RetransmitGiveUp(p)
    BY OnlyGiveUpDeletes DEF SchedInv
  <2>2. Pending(p) /\ Clock(p)
    BY <2>1 DEF RetransmitGiveUp, TimerDue, Pending, SchedInv
  <2> DEFINE k == st_event[p].try
  <2>3. /\ k \in 0 .. RETRANSMIT_TRIES
        /\ xmits[p] = k + 1
        /\ st_event[p].at = sentAt[p] + Backoff[k]
    BY <2>2 DEF Clock, SchedInv, TypeInv, TypeOK, Event, Peers
  <2>4. k = RETRANSMIT_TRIES
    BY <2>1, <2>3, GiveUpAtLastTry DEF RetransmitGiveUp
  <2>5. now' = st_event[p].at
    BY <2>1 DEF RetransmitGiveUp
  <2>6. Backoff[RETRANSMIT_TRIES] \in Nat /\ sentAt[p] \in Nat
    BY BackoffFix DEF SchedInv, TypeInv, TypeOK, RETRANSMIT_TRIES, Peers
  <2>7. QED
    BY <2>3, <2>4, <2>5, <2>6, TotalBackoffLast
<1>2. QED
  BY <1>1, InitSched, NextSched, PTL DEF Spec, DeadPeerSchedule

=============================================================================
