---------------------------- MODULE ModeCfgProofs ----------------------------
(***************************************************************************)
(* Proofs about the ModeCfg exchange, for every choice of the constants   *)
(* that satisfies ConstantsAssumption.                                     *)
(***************************************************************************)
EXTENDS ModeCfg, TLAPS

USE ConstantsAssumption

-----------------------------------------------------------------------------
(* Lemmas about the helpers of modecfg.c and configuration.c.             *)

(* get_retransmit_timeout returns a natural number (zero past the budget). *)
LEMMA RetransmitTimeoutType ==
    ASSUME NEW n \in Nat
    PROVE  get_retransmit_timeout(n) \in Nat
<1> USE DEF get_retransmit_timeout, RETRANSMIT_TRIES, RETRANSMIT_TIMEOUT,
            RETRANSMIT_BASE_NUM, RETRANSMIT_BASE_DEN
<1>1. CASE n > 5
  BY <1>1
<1>2. CASE n = 0  BY <1>2
<1>3. CASE n = 1  BY <1>3
<1>4. CASE n = 2  BY <1>4
<1>5. CASE n = 3  BY <1>5
<1>6. CASE n = 4  BY <1>6
<1>7. CASE n = 5  BY <1>7
<1>8. QED
  BY <1>1, <1>2, <1>3, <1>4, <1>5, <1>6, <1>7

(* A non-zero timeout is only given for a count within the budget.        *)
LEMMA RetransmitTimeoutBudget ==
    ASSUME NEW n \in Nat, get_retransmit_timeout(n) # 0
    PROVE  n <= RETRANSMIT_TRIES
BY DEF get_retransmit_timeout, RETRANSMIT_TRIES

LEMMA ParseAttributesType ==
    ASSUME NEW tlvs \in SUBSET TLV
    PROVE  modecfg_parse_attributes(tlvs) \in InternalAddr
<1>1. {t.kind : t \in tlvs} \in SUBSET Kinds
  BY DEF TLV
<1>2. modecfg_parse_attributes(tlvs).ipaddr \in Addr
  <2>1. CASE \E t \in tlvs : t.kind = INTERNAL_IP4_ADDRESS /\ t.value # AnyAddr
    <3>1. PICK t0 \in tlvs : t0 = CHOOSE t \in tlvs : t.kind = INTERNAL_IP4_ADDRESS
                                                   /\ t.value # AnyAddr
      BY <2>1
    <3>2. t0.value \in Addr
      BY <3>1, <2>1 DEF TLV
    <3>3. QED
      BY <2>1, <3>1, <3>2 DEF modecfg_parse_attributes
  <2>2. CASE ~\E t \in tlvs : t.kind = INTERNAL_IP4_ADDRESS /\ t.value # AnyAddr
    BY <2>2 DEF modecfg_parse_attributes, Addr
  <2>3. QED
    BY <2>1, <2>2
<1>3. QED
  BY <1>1, <1>2 DEF modecfg_parse_attributes, InternalAddr

LEMMA BuildMsgType ==
    ASSUME NEW id \in {0} \cup MsgIds, NEW t \in MsgTypes, NEW ia \in InternalAddr
    PROVE  modecfg_build_msg(id, t, ia) \in Msg
<1>1. EncodeAttrs(ia) \in SUBSET TLV
  BY DEF EncodeAttrs, TLV, InternalAddr, Addr
<1>2. QED
  BY <1>1 DEF modecfg_build_msg, Msg

LEMMA InternalAddrType ==
    ASSUME NEW that \in End
    PROVE  /\ get_internal_addr(that) \in InternalAddr
           /\ get_internal_addr_client(that) \in End
           /\ init_internal_addr \in InternalAddr
           /\ \A S \in SUBSET Kinds :
                 [init_internal_addr EXCEPT !.attr_set = S] \in InternalAddr
BY DEF get_internal_addr, get_internal_addr_client, init_internal_addr,
       InternalAddr, End, Kinds, Addr

LEMMA SetInternalAddrType ==
    ASSUME NEW this \in End, NEW ia \in InternalAddr
    PROVE  set_internal_addr(this, ia) \in End
BY DEF set_internal_addr, End, InternalAddr, Addr

LEMMA ForgedMsgsType == ForgedMsgs \subseteq Msg
BY DEF ForgedMsgs, Msg, TLV, Addr, Kinds, INTERNAL_IP4_ADDRESS

-----------------------------------------------------------------------------
(* Type correctness.  TypeOK alone is not inductive: Retransmit puts      *)
(* st_tpacket[p] on the network, which must then be a datagram.  TypeInv *)
(* adds that a pending retransmit event always has one.                   *)

(* modecfg_send_msg keeps the session variables it writes well typed and  *)
(* leaves a datagram cached for the retransmit event it may schedule.     *)
LEMMA SendMsgType ==
    ASSUME TypeInv, NEW p \in Peers, NEW t \in MsgTypes, NEW ia \in InternalAddr,
           modecfg_send_msg(p, t, ia)
    PROVE  /\ st_msgid' \in [Peers -> {0} \cup MsgIds]
           /\ st_tpacket' \in [Peers -> Msg \cup {NoPacket}]
           /\ net' \subseteq Msg
           /\ st_event' \in [Peers -> Event]
           /\ \A q \in Peers : st_event'[q].type = "EVENT_RETRANSMIT"
                                  => st_tpacket'[q] \in Msg
           /\ st_started' \in [Peers -> BOOLEAN]
           /\ xmits' \in [Peers -> Nat]
           /\ sentAt' \in [Peers -> Nat]
<1> USE DEF TypeInv, TypeOK, Peers, conn_vars, RETRANSMIT_TRIES
<1>1. PICK id \in MsgIds :
        LET m == modecfg_build_msg(id, t, ia) IN
        /\ st_msgid' = [st_msgid EXCEPT ![p] = id]
        /\ st_tpacket' = [st_tpacket EXCEPT ![p] = m]
        /\ net' = net \cup {m}
        /\ st_event' =
              IF st_event[p].type # "EVENT_RETRANSMIT"
              THEN [st_event EXCEPT ![p] =
                      [type |-> "EVENT_RETRANSMIT",
                       at |-> now + EVENT_RETRANSMIT_DELAY_0, try |-> 0]]
              ELSE st_event
        /\ st_started' = [st_started EXCEPT ![p] = TRUE]
        /\ xmits' = [xmits EXCEPT ![p] = 1]
        /\ sentAt' = [sentAt EXCEPT ![p] = now]
  BY DEF modecfg_send_msg
<1> DEFINE m == modecfg_build_msg(id, t, ia)
<1>2. m \in Msg
  BY BuildMsgType
<1>3. EVENT_RETRANSMIT_DELAY_0 \in Nat
  BY RetransmitTimeoutType DEF EVENT_RETRANSMIT_DELAY_0
<1>4. st_tpacket' \in [Peers -> Msg \cup {NoPacket}] /\ st_tpacket'[p] \in Msg
  BY <1>1, <1>2
<1>5. st_event' \in [Peers -> Event]
  BY <1>1, <1>3 DEF Event, EventTypes, RETRANSMIT_TRIES
<1>6. \A q \in Peers : st_event'[q].type = "EVENT_RETRANSMIT" => st_tpacket'[q] \in Msg
  <2> SUFFICES ASSUME NEW q \in Peers, st_event'[q].type = "EVENT_RETRANSMIT"
               PROVE  st_tpacket'[q] \in Msg
    OBVIOUS
  <2>1. CASE q = p
    BY <2>1, <1>4
  <2>2. CASE q # p
    <3>1. st_event'[q] = st_event[q] /\ st_tpacket'[q] = st_tpacket[q]
      BY <2>2, <1>1
    <3>2. QED
      BY <3>1
  <2>3. QED
    BY <2>1, <2>2
<1>7. QED
  BY <1>1, <1>2, <1>4, <1>5, <1>6

(* Every handler, and the early return they share, preserves TypeInv.     *)
LEMMA ReceiveType ==
    ASSUME TypeInv, NEW m \in Msg, Receive(m), forged' \in 0 .. MaxForged
    PROVE  TypeInv'
<1> USE DEF TypeInv, TypeOK, Peers, conn_vars, RETRANSMIT_TRIES
<1>1. modecfg_parse_attributes(m.tlvs) \in InternalAddr
  BY ParseAttributesType DEF Msg
<1>2. m.msgid \in {0} \cup MsgIds
  BY DEF Msg
<1>3. CASE modecfg_inR0(m)
  <2>1. get_internal_addr(r_that) \in InternalAddr /\ get_internal_addr_client(r_that) \in End
    BY InternalAddrType
  <2>2. modecfg_build_msg(m.msgid, "ISAKMP_CFG_REPLY", get_internal_addr(r_that)) \in Msg
    BY <1>2, <2>1, BuildMsgType DEF MsgTypes
  <2>3. QED
    BY <1>3, <2>1, <2>2 DEF modecfg_inR0, States
<1>4. CASE modecfg_inR1(m)
  BY <1>4 DEF modecfg_inR1, States
<1>5. CASE modecfg_inI1(m)
  <2>1. set_internal_addr(i_this, modecfg_parse_attributes(m.tlvs)) \in End
    BY <1>1, SetInternalAddrType
  <2>2. set_internal_addr_applies(modecfg_parse_attributes(m.tlvs)) \in BOOLEAN
    BY DEF set_internal_addr_applies
  <2>3. QED
    BY <1>5, <2>1, <2>2 DEF modecfg_inI1, States
<1>6. CASE modecfg_inI2(m)
  <2> DEFINE ia == modecfg_parse_attributes(m.tlvs)
             ack == modecfg_build_msg(m.msgid, "ISAKMP_CFG_ACK",
                       [init_internal_addr EXCEPT
                           !.attr_set = ia.attr_set \cap SUPPORTED_ATTR_SET])
  <2>1. set_internal_addr(i_this, ia) \in End
    BY <1>1, SetInternalAddrType
  <2>2. ia.attr_set \cap SUPPORTED_ATTR_SET \in SUBSET Kinds
    BY <1>1 DEF InternalAddr
  <2>3. [init_internal_addr EXCEPT !.attr_set = ia.attr_set \cap SUPPORTED_ATTR_SET]
          \in InternalAddr
    BY <2>2, InternalAddrType
  <2>4. ack \in Msg
    BY <1>2, <2>3, BuildMsgType DEF MsgTypes
  <2>5. set_internal_addr_applies(ia) \in BOOLEAN
    BY DEF set_internal_addr_applies
  <2>6. QED
    BY <1>6, <2>1, <2>4, <2>5 DEF modecfg_inI2, States
<1>7. CASE modecfg_parse_msg_fails(Dest(m), m)
  BY <1>7, <1>2 DEF modecfg_parse_msg_fails, Dest, Peers
<1>8. QED
  BY <1>3, <1>4, <1>5, <1>6, <1>7 DEF Receive

(* The three steps of the retransmission driver preserve TypeInv.         *)
LEMMA DriverType ==
    ASSUME TypeInv, NEW p \in Peers,
           RetransmitCancel(p) \/ Retransmit(p) \/ RetransmitGiveUp(p)
    PROVE  TypeInv'
<1> USE DEF TypeInv, TypeOK, Peers, conn_vars, RETRANSMIT_TRIES
<1>1. st_event[p].at \in Nat /\ st_event[p].try \in Nat
  BY DEF Event
<1>2. CASE RetransmitCancel(p)
  BY <1>2, <1>1 DEF RetransmitCancel, NoEvent, Event, EventTypes
<1>3. CASE Retransmit(p)
  <2> DEFINE t == get_retransmit_timeout(st_event[p].try + 1)
  <2>1. t \in Nat /\ t # 0
    BY <1>1, <1>3, RetransmitTimeoutType DEF Retransmit
  <2>2. st_event[p].try + 1 <= RETRANSMIT_TRIES
    BY <1>1, <2>1, RetransmitTimeoutBudget
  <2>3. st_tpacket[p] \in Msg
    BY <1>3 DEF Retransmit, TimerDue
  <2>4. QED
    BY <1>1, <1>3, <2>1, <2>2, <2>3 DEF Retransmit, Event, EventTypes
<1>4. CASE RetransmitGiveUp(p)
  BY <1>4, <1>1 DEF RetransmitGiveUp, NoEvent, Event, EventTypes, States
<1>5. QED
  BY <1>2, <1>3, <1>4

LEMMA InitTypeInv == Init => TypeInv
<1> SUFFICES ASSUME Init PROVE TypeInv
  OBVIOUS
<1> USE DEF Init, TypeInv, TypeOK, Peers
<1>1. st_state \in [Peers -> States]
  BY DEF States
<1>2. st_event \in [Peers -> Event] /\ \A p \in Peers : st_event[p].type # "EVENT_RETRANSMIT"
  BY DEF Event, EventTypes, NoEvent, RETRANSMIT_TRIES
<1>3. \A a \in Addr : [host_srcip |-> a, client |-> [addr |-> Host, maskbits |-> 32],
                        has_client |-> FALSE] \in End
  BY DEF End
<1>4. i_this \in End /\ r_that \in End
  <2>1. PICK a \in Addr : i_this = [host_srcip |-> a, client |-> [addr |-> Host, maskbits |-> 32],
                                    has_client |-> FALSE]
    OBVIOUS
  <2>2. PICK b \in Addr : r_that = [host_srcip |-> b, client |-> [addr |-> Host, maskbits |-> 32],
                                    has_client |-> FALSE]
    OBVIOUS
  <2>3. QED
    BY <1>3, <2>1, <2>2
<1>5. QED
  BY <1>1, <1>2, <1>4

LEMMA NextTypeInv == TypeInv /\ [Next]_vars => TypeInv'
<1> SUFFICES ASSUME TypeInv, [Next]_vars PROVE TypeInv'
  OBVIOUS
<1> USE DEF Peers, conn_vars, RETRANSMIT_TRIES
<1>1. CASE modecfg_send_request
  <2>1. [init_internal_addr EXCEPT
            !.attr_set = {INTERNAL_IP4_ADDRESS, INTERNAL_IP4_NETMASK}] \in InternalAddr
    BY InternalAddrType DEF TypeInv, TypeOK, Kinds
  <2>2. QED
    BY <1>1, <2>1, SendMsgType DEF modecfg_send_request, TypeInv, TypeOK,
                                  States, MsgTypes
<1>2. CASE modecfg_send_set
  <2>1. get_internal_addr(r_that) \in InternalAddr /\ get_internal_addr_client(r_that) \in End
    BY InternalAddrType DEF TypeInv, TypeOK
  <2>2. QED
    BY <1>2, <2>1, SendMsgType DEF modecfg_send_set, TypeInv, TypeOK,
                                  States, MsgTypes
<1>3. CASE StartPush
  BY <1>3 DEF StartPush, TypeInv, TypeOK, States
<1>4. CASE \E m \in net : Deliver(m)
  BY <1>4, ReceiveType DEF Deliver, TypeInv, TypeOK
<1>5. CASE Forge
  <2>1. PICK m \in ForgedMsgs : Receive(m) /\ forged' = forged + 1
    BY <1>5 DEF Forge
  <2>2. forged' \in 0 .. MaxForged
    BY <1>5, <2>1 DEF Forge, TypeInv, TypeOK
  <2>3. QED
    BY <2>1, <2>2, ForgedMsgsType, ReceiveType
<1>6. CASE \E m \in net : Lose(m)
  <2>1. PICK m \in net : Lose(m)
    BY <1>6
  <2>2. QED
    BY <2>1 DEF Lose, TypeInv, TypeOK, session_vars
<1>7. CASE \E p \in Peers : RetransmitCancel(p) \/ Retransmit(p) \/ RetransmitGiveUp(p)
  BY <1>7, DriverType
<1>8. CASE UNCHANGED vars
  BY <1>8 DEF vars, session_vars, conn_vars, TypeInv, TypeOK
<1>9. QED
  BY <1>1, <1>2, <1>3, <1>4, <1>5, <1>6, <1>7, <1>8 DEF Next

(* Every reachable state is well typed: session variables, the cached and *)
(* in-flight datagrams, the connection ends and the event clock.          *)
THEOREM TypeCorrect == Spec => []TypeOK
<1>1. Init => TypeInv
  BY InitTypeInv
<1>2. TypeInv /\ [Next]_vars => TypeInv'
  BY NextTypeInv
<1>3. TypeInv => TypeOK
  BY DEF TypeInv
<1>4. QED
  BY <1>1, <1>2, <1>3, PTL DEF Spec

-----------------------------------------------------------------------------
(* CompletionOrder.  The side that finishes on a received message (the    *)
(* initiator on a REPLY in pull mode, the responder on an ACK in push     *)
(* mode) needs a datagram with a valid HASH, and only the peer's handler  *)
(* that finishes the peer's side produces one: forged datagrams never     *)
(* pass CHECK_QUICK_HASH, and retransmission only resends the REQUEST or  *)
(* SET the session itself cached.  CompletionInv states this per mode.    *)

PullInv ==
    /\ st_state["R"] \in {"MODE_CFG_R0", "MODE_CFG_R2"}
    /\ st_state["I"] \in {"MODE_CFG_I0", "MODE_CFG_I1", "MODE_CFG_I3", "DELETED"}
    /\ st_event["R"].type # "EVENT_RETRANSMIT"
    /\ st_event["I"].type = "EVENT_RETRANSMIT"
           => st_tpacket["I"].type = "ISAKMP_CFG_REQUEST"
    /\ \A m \in net : modecfg_hash_ok(m) /\ m.type = "ISAKMP_CFG_REPLY"
                        => st_state["R"] = "MODE_CFG_R2"
    /\ st_state["I"] = "MODE_CFG_I3" => st_state["R"] = "MODE_CFG_R2"

PushInv ==
    /\ st_state["R"] \in {"MAIN_R3", "MODE_CFG_R1", "MODE_CFG_R2", "DELETED"}
    /\ st_state["I"] \in {"MODE_CFG_I0", "MODE_CFG_I2", "MODE_CFG_I3"}
    /\ st_event["I"].type # "EVENT_RETRANSMIT"
    /\ st_event["R"].type = "EVENT_RETRANSMIT"
           => st_tpacket["R"].type = "ISAKMP_CFG_SET"
    /\ \A m \in net : modecfg_hash_ok(m) /\ m.type = "ISAKMP_CFG_ACK"
                        => st_state["I"] = "MODE_CFG_I3"
    /\ st_state["R"] = "MODE_CFG_R2" => st_state["I"] = "MODE_CFG_I3"

CompletionInv ==
    /\ TypeInv
    /\ mode = "pull" => PullInv
    /\ mode = "push" => PushInv

(* A STF_OK parse means the HASH matched and the type was the expected one. *)
LEMMA ParseOk ==
    ASSUME NEW m, NEW t, modecfg_parse_msg(m, t) = "STF_OK"
    PROVE  modecfg_hash_ok(m) /\ m.type = t
<1>1. CASE ~modecfg_hash_ok(m)
  <2>1. modecfg_parse_msg(m, t) = "STF_FAIL"
    BY <1>1 DEF modecfg_parse_msg
  <2>2. QED
    BY <2>1
<1>2. CASE modecfg_hash_ok(m) /\ m.type # t
  <2>1. modecfg_parse_msg(m, t) = "STF_IGNORE"
    BY <1>2 DEF modecfg_parse_msg
  <2>2. QED
    BY <2>1
<1>3. QED
  BY <1>1, <1>2

(* A forged datagram never passes CHECK_QUICK_HASH.                        *)
LEMMA ForgedNotOk ==
    ASSUME NEW m \in ForgedMsgs
    PROVE  ~modecfg_hash_ok(m)
<1>1. m.hashid = BadHash /\ m.msgid \in {0} \cup MsgIds
  BY DEF ForgedMsgs
<1>2. BadHash \notin {0} \cup MsgIds
  <2>1. BadHash \notin Nat /\ MsgIds \subseteq Nat
    BY ConstantsAssumption
  <2>2. 0 \in Nat
    OBVIOUS
  <2>3. QED
    BY <2>1, <2>2, Zenon
<1>3. m.hashid # m.msgid
  BY <1>1, <1>2
<1>4. QED
  BY <1>3 DEF modecfg_hash_ok

(* What modecfg_build_msg produces carries a valid HASH of its own type.  *)
LEMMA BuildMsgOk ==
    ASSUME NEW id, NEW t, NEW ia
    PROVE  /\ modecfg_build_msg(id, t, ia).type = t
           /\ modecfg_hash_ok(modecfg_build_msg(id, t, ia))
BY DEF modecfg_build_msg, modecfg_hash_ok

(* The four handlers and their shared early return keep CompletionInv's    *)
(* per-mode part, for a datagram of the network or one without a valid    *)
(* HASH.                                                                   *)
LEMMA ReceiveCompletion ==
    ASSUME CompletionInv, NEW m, Receive(m),
           m \in net \/ ~modecfg_hash_ok(m)
    PROVE  /\ mode' = mode
           /\ mode = "pull" => PullInv'
           /\ mode = "push" => PushInv'
<1> USE DEF CompletionInv, TypeInv, TypeOK, Peers
<1>1. CASE modecfg_inR0(m)
  <2> DEFINE reply == modecfg_build_msg(m.msgid, "ISAKMP_CFG_REPLY",
                                        get_internal_addr(r_that))
  <2>1. reply.type = "ISAKMP_CFG_REPLY" /\ modecfg_hash_ok(reply)
    BY BuildMsgOk
  <2>2. mode = "pull"
    BY <1>1 DEF modecfg_inR0, PushInv
  <2>3. /\ mode' = mode
        /\ st_state' = [st_state EXCEPT !["R"] = "MODE_CFG_R2"]
        /\ net' = net \cup {reply}
        /\ st_event' = st_event
        /\ st_tpacket'["I"] = st_tpacket["I"]
    BY <1>1 DEF modecfg_inR0
  <2>4. \A x \in net' : modecfg_hash_ok(x) /\ x.type = "ISAKMP_CFG_REPLY"
                          => st_state'["R"] = "MODE_CFG_R2"
    BY <2>3
  <2>5. QED
    BY <2>2, <2>3, <2>4 DEF PullInv
<1>2. CASE modecfg_inR1(m)
  <2>1. modecfg_hash_ok(m) /\ m.type = "ISAKMP_CFG_ACK"
    BY <1>2, ParseOk DEF modecfg_inR1
  <2>2. mode = "push"
    BY <1>2 DEF modecfg_inR1, PullInv
  <2>3. st_state["I"] = "MODE_CFG_I3"
    BY <2>1, <2>2 DEF PushInv
  <2>4. QED
    BY <1>2, <2>2, <2>3 DEF modecfg_inR1, PushInv
<1>3. CASE modecfg_inI1(m)
  <2>1. modecfg_hash_ok(m) /\ m.type = "ISAKMP_CFG_REPLY"
    BY <1>3, ParseOk DEF modecfg_inI1
  <2>2. mode = "pull"
    BY <1>3 DEF modecfg_inI1, PushInv
  <2>3. st_state["R"] = "MODE_CFG_R2"
    BY <2>1, <2>2 DEF PullInv
  <2>4. QED
    BY <1>3, <2>2, <2>3 DEF modecfg_inI1, PullInv
<1>4. CASE modecfg_inI2(m)
  <2> DEFINE ia == modecfg_parse_attributes(m.tlvs)
             ack == modecfg_build_msg(m.msgid, "ISAKMP_CFG_ACK",
                       [init_internal_addr EXCEPT
                           !.attr_set = ia.attr_set \cap SUPPORTED_ATTR_SET])
  <2>1. ack.type = "ISAKMP_CFG_ACK" /\ modecfg_hash_ok(ack)
    BY BuildMsgOk
  <2>2. mode = "push"
    BY <1>4 DEF modecfg_inI2, PullInv
  <2>3. /\ mode' = mode
        /\ st_state' = [st_state EXCEPT !["I"] = "MODE_CFG_I3"]
        /\ net' = net \cup {ack}
        /\ st_event' = st_event
        /\ st_tpacket'["R"] = st_tpacket["R"]
    BY <1>4 DEF modecfg_inI2
  <2>4. \A x \in net' : modecfg_hash_ok(x) /\ x.type = "ISAKMP_CFG_ACK"
                          => st_state'["I"] = "MODE_CFG_I3"
    BY <2>3
  <2>5. QED
    BY <2>2, <2>3, <2>4 DEF PushInv
<1>5. CASE modecfg_parse_msg_fails(Dest(m), m)
  BY <1>5 DEF modecfg_parse_msg_fails, PullInv, PushInv
<1>6. QED
  BY <1>1, <1>2, <1>3, <1>4, <1>5 DEF Receive

(* modecfg_send_msg caches and sends one datagram with a valid HASH of   *)
(* the given type, and leaves the peer session's event alone.             *)
LEMMA SendMsgShape ==
    ASSUME NEW p \in Peers, NEW t, NEW ia, modecfg_send_msg(p, t, ia)
    PROVE  \E m : /\ m.type = t
                  /\ modecfg_hash_ok(m)
                  /\ st_tpacket' = [st_tpacket EXCEPT ![p] = m]
                  /\ net' = net \cup {m}
                  /\ \A q \in Peers \ {p} : st_event'[q] = st_event[q]
<1>1. PICK id \in MsgIds :
        LET m == modecfg_build_msg(id, t, ia) IN
        /\ st_tpacket' = [st_tpacket EXCEPT ![p] = m]
        /\ net' = net \cup {m}
        /\ st_event' =
              IF st_event[p].type # "EVENT_RETRANSMIT"
              THEN [st_event EXCEPT ![p] =
                      [type |-> "EVENT_RETRANSMIT",
                       at |-> now + EVENT_RETRANSMIT_DELAY_0, try |-> 0]]
              ELSE st_event
  BY DEF modecfg_send_msg
<1>2. \A q \in Peers \ {p} : st_event'[q] = st_event[q]
  BY <1>1
<1>3. QED
  BY <1>1, <1>2, BuildMsgOk

(* Every step of the model keeps CompletionInv.                            *)
LEMMA NextCompletion == CompletionInv /\ [Next]_vars => CompletionInv'
<1> SUFFICES ASSUME CompletionInv, [Next]_vars PROVE CompletionInv'
  OBVIOUS
<1>0. TypeInv'
  BY NextTypeInv DEF CompletionInv
<1> USE DEF CompletionInv, TypeInv, TypeOK, Peers
<1>1. CASE modecfg_send_request
  <2>1. PICK m : /\ m.type = "ISAKMP_CFG_REQUEST"
                 /\ st_tpacket' = [st_tpacket EXCEPT !["I"] = m]
                 /\ net' = net \cup {m}
                 /\ st_event'["R"] = st_event["R"]
    BY <1>1, SendMsgShape DEF modecfg_send_request
  <2>2. /\ mode = "pull" /\ mode' = mode
        /\ st_state' = [st_state EXCEPT !["I"] = "MODE_CFG_I1"]
    BY <1>1 DEF modecfg_send_request
  <2>3. QED
    BY <1>0, <2>1, <2>2 DEF PullInv
<1>2. CASE modecfg_send_set
  <2>1. PICK m : /\ m.type = "ISAKMP_CFG_SET"
                 /\ st_tpacket' = [st_tpacket EXCEPT !["R"] = m]
                 /\ net' = net \cup {m}
                 /\ st_event'["I"] = st_event["I"]
    BY <1>2, SendMsgShape DEF modecfg_send_set
  <2>2. /\ mode = "push" /\ mode' = mode
        /\ st_state' = [st_state EXCEPT !["R"] = "MODE_CFG_R1"]
    BY <1>2 DEF modecfg_send_set
  <2>3. QED
    BY <1>0, <2>1, <2>2 DEF PushInv
<1>3. CASE StartPush
  BY <1>0, <1>3 DEF StartPush, PushInv
<1>4. CASE \E m \in net : Deliver(m)
  <2>1. PICK m \in net : Deliver(m)
    BY <1>4
  <2>2. QED
    BY <1>0, <2>1, ReceiveCompletion DEF Deliver
<1>5. CASE Forge
  <2>1. PICK m \in ForgedMsgs : Receive(m)
    BY <1>5 DEF Forge
  <2>2. QED
    BY <1>0, <2>1, ReceiveCompletion, ForgedNotOk
<1>6. CASE \E m \in net : Lose(m)
  <2>1. PICK m \in net : Lose(m)
    BY <1>6
  <2>2. QED
    BY <1>0, <2>1 DEF Lose, session_vars, PullInv, PushInv
<1>7. CASE \E p \in Peers : RetransmitCancel(p) \/ Retransmit(p) \/ RetransmitGiveUp(p)
  <2>1. PICK p \in Peers : RetransmitCancel(p) \/ Retransmit(p) \/ RetransmitGiveUp(p)
    BY <1>7
  <2>2. st_event[p].type = "EVENT_RETRANSMIT"
    BY <2>1 DEF RetransmitCancel, Retransmit, RetransmitGiveUp, TimerDue
  <2>3. mode = "pull" => p = "I"
    BY <2>2 DEF PullInv
  <2>4. mode = "push" => p = "R"
    BY <2>2 DEF PushInv
  <2>5. CASE RetransmitCancel(p)
    BY <1>0, <2>5 DEF RetransmitCancel, NoEvent, PullInv, PushInv
  <2>6. CASE Retransmit(p)
    BY <1>0, <2>2, <2>3, <2>4, <2>6 DEF Retransmit, PullInv, PushInv
  <2>7. CASE RetransmitGiveUp(p)
    BY <1>0, <2>3, <2>4, <2>7 DEF RetransmitGiveUp, NoEvent, PullInv, PushInv
  <2>8. QED
    BY <2>1, <2>5, <2>6, <2>7
<1>8. CASE UNCHANGED vars
  BY <1>8 DEF vars, session_vars, conn_vars, PullInv, PushInv
<1>9. QED
  BY <1>1, <1>2, <1>3, <1>4, <1>5, <1>6, <1>7, <1>8 DEF Next

LEMMA InitCompletion == Init => CompletionInv
<1> SUFFICES ASSUME Init PROVE CompletionInv
  OBVIOUS
<1>1. TypeInv
  BY InitTypeInv
<1>2. QED
  BY <1>1 DEF Init, CompletionInv, PullInv, PushInv, Peers, NoEvent

(* In every behaviour the session that finishes on a received message     *)
(* (the initiator on the REPLY in pull mode, the responder on the ACK in  *)
(* push mode) finishes only after its peer has (modecfg_inR0 before       *)
(* modecfg_inI1, modecfg_inI2 before modecfg_inR1), whatever datagrams    *)
(* the network loses, duplicates or reorders and an attacker injects.     *)
THEOREM CompletionOrderHolds == Spec => []CompletionOrder
<1>1. Init => CompletionInv
  BY InitCompletion
<1>2. CompletionInv /\ [Next]_vars => CompletionInv'
  BY NextCompletion
<1>3. CompletionInv => CompletionOrder
  BY DEF CompletionInv, PullInv, PushInv, CompletionOrder
<1>4. QED
  BY <1>1, <1>2, <1>3, PTL DEF Spec

=============================================================================
