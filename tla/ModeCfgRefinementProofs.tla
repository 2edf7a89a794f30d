------------------------- MODULE ModeCfgRefinementProofs -------------------------
(***************************************************************************)
(* Proof that the ModeCfg exchange of modecfg.c implements the abstract   *)
(* exchange ModeCfgExchange under the mapping of ModeCfg.tla, for every   *)
(* choice of the constants that satisfies ConstantsAssumption.            *)
(***************************************************************************)
EXTENDS ModeCfgProofs

(* What the model must remember beyond CompletionInv for every step to be *)
(* an abstract step: a REQUEST or SET with a valid HASH exists only once  *)
(* its sender left its idle state; a session holding a retransmit event   *)
(* that has not been cancelled is waiting for its answer; and every REPLY *)
(* or SET with a valid HASH carries the address the responder offers.     *)
PullRefInv ==
    /\ \A m \in net : modecfg_hash_ok(m) /\ m.type = "ISAKMP_CFG_REQUEST"
                        => st_state["I"] # "MODE_CFG_I0"
    /\ st_event["I"].type = "EVENT_RETRANSMIT"
           => st_state["I"] \in {"MODE_CFG_I1", "MODE_CFG_I3"}
    /\ st_state["I"] = "MODE_CFG_I3" => st_msgid["I"] = 0

PushRefInv ==
    /\ \A m \in net : modecfg_hash_ok(m) /\ m.type = "ISAKMP_CFG_SET"
                        => st_state["R"] # "MAIN_R3"
    /\ st_event["R"].type = "EVENT_RETRANSMIT"
           => st_state["R"] \in {"MODE_CFG_R1", "MODE_CFG_R2"}
    /\ st_state["R"] = "MODE_CFG_R2" => st_msgid["R"] = 0
    /\ st_event["R"].type = "EVENT_RETRANSMIT"
           => st_tpacket["R"].tlvs = EncodeAttrs(get_internal_addr(r_that))

OfferInv ==
    \A m \in net : modecfg_hash_ok(m) /\ m.type \in {"ISAKMP_CFG_REPLY", "ISAKMP_CFG_SET"}
                     => m.tlvs = EncodeAttrs(get_internal_addr(r_that))

RefInv ==
    /\ CompletionInv
    /\ mode = "pull" => PullRefInv
    /\ mode = "push" => PushRefInv
    /\ OfferInv

-----------------------------------------------------------------------------
(* Lemmas about the helpers.                                               *)

(* get_internal_addr_client rewrites the peer's client, never the address *)
(* get_internal_addr offers.                                               *)
LEMMA OfferStable ==
    ASSUME NEW x \in End
    PROVE  /\ get_internal_addr_client(x).host_srcip = x.host_srcip
           /\ get_internal_addr(get_internal_addr_client(x)) = get_internal_addr(x)
BY DEF get_internal_addr_client, get_internal_addr, End

(* The address survives modecfg_build_msg's encoding and                  *)
(* modecfg_parse_attributes: set_internal_addr leaves the receiver with   *)
(* the offered address, or with its own when nothing was offered.        *)
LEMMA TakenAddr ==
    ASSUME NEW x \in End, NEW this \in End
    PROVE  set_internal_addr(this,
               modecfg_parse_attributes(EncodeAttrs(get_internal_addr(x)))).host_srcip
           = IF x.host_srcip = AnyAddr THEN this.host_srcip ELSE x.host_srcip
<1> DEFINE tlvs == EncodeAttrs(get_internal_addr(x))
           ia == modecfg_parse_attributes(tlvs)
<1>1. CASE x.host_srcip = AnyAddr
  <2>1. tlvs = {}
    BY <1>1 DEF EncodeAttrs, get_internal_addr
  <2>2. ~set_internal_addr_applies(ia)
    BY <2>1 DEF set_internal_addr_applies, modecfg_parse_attributes
  <2>3. QED
    BY <1>1, <2>2 DEF set_internal_addr
<1>2. CASE x.host_srcip # AnyAddr
  <2> DEFINE h == x.host_srcip
             ta == [kind |-> INTERNAL_IP4_ADDRESS, value |-> h]
             tn == [kind |-> INTERNAL_IP4_NETMASK, value |-> AnyAddr]
  <2>1. tlvs = {ta, tn}
    BY <1>2 DEF EncodeAttrs, get_internal_addr, INTERNAL_IP4_ADDRESS,
                INTERNAL_IP4_NETMASK
  <2>2. \A t \in tlvs : t.kind = INTERNAL_IP4_ADDRESS /\ t.value # AnyAddr <=> t = ta
    BY <2>1, <1>2 DEF INTERNAL_IP4_ADDRESS, INTERNAL_IP4_NETMASK
  <2>3. ia.ipaddr = h
    BY <2>1, <2>2 DEF modecfg_parse_attributes
  <2>4. INTERNAL_IP4_ADDRESS \in ia.attr_set
    BY <2>1 DEF modecfg_parse_attributes
  <2>5. set_internal_addr_applies(ia)
    BY <1>2, <2>3, <2>4 DEF set_internal_addr_applies
  <2>6. QED
    BY <1>2, <2>3, <2>5 DEF set_internal_addr
<1>3. QED
  BY <1>1, <1>2

(* modecfg_send_msg caches and sends one datagram with a valid HASH, the  *)
(* given type and the encoding of the given attributes, schedules a       *)
(* retransmit event, and leaves the other session alone.                  *)
LEMMA SendMsgRef ==
    ASSUME TypeOK, NEW p \in Peers, NEW t, NEW ia, modecfg_send_msg(p, t, ia)
    PROVE  \E m : /\ m.type = t /\ modecfg_hash_ok(m) /\ m.tlvs = EncodeAttrs(ia)
                  /\ st_tpacket' = [st_tpacket EXCEPT ![p] = m]
                  /\ net' = net \cup {m}
                  /\ st_event'[p].type = "EVENT_RETRANSMIT"
                  /\ \A q \in Peers \ {p} : /\ st_event'[q] = st_event[q]
                                            /\ st_msgid'[q] = st_msgid[q]
<1>1. PICK id \in MsgIds :
        LET m == modecfg_build_msg(id, t, ia) IN
        /\ st_msgid' = [st_msgid EXCEPT ![p] = id]
        /\ st_tpacket' = [st_tpacket EXCEPT ![p] = m]
        /\ net' = net \cup {m}
        /\ st_event' =
              IF st_event[p].type # "EVENT_RETRANSMIT"
              THEN [st_event EXCEPT ![p] =
                      [type |-> "EVENT_RETRANSMIT",
                       at |-> now + EVENT_RETRANSMIT_DELAY_0, try |-> 0]]
              ELSE st_event
  BY DEF modecfg_send_msg
<1>2. st_event'[p].type = "EVENT_RETRANSMIT"
  BY <1>1 DEF TypeOK
<1>3. \A q \in Peers \ {p} : st_event'[q] = st_event[q] /\ st_msgid'[q] = st_msgid[q]
  BY <1>1
<1>4. QED
  BY <1>1, <1>2, <1>3, BuildMsgOk DEF modecfg_build_msg

-----------------------------------------------------------------------------
(* RefInv is inductive.                                                    *)

(* The handlers and their shared early return keep the parts of RefInv    *)
(* beyond CompletionInv, for a datagram of the network or one without a   *)
(* valid HASH.                                                             *)
LEMMA ReceiveRef ==
    ASSUME RefInv, NEW m, Receive(m), m \in net \/ ~modecfg_hash_ok(m)
    PROVE  /\ mode = "pull" => PullRefInv'
           /\ mode = "push" => PushRefInv'
           /\ OfferInv'
<1> USE DEF RefInv, CompletionInv, TypeInv, TypeOK, Peers, conn_vars
<1>1. CASE modecfg_inR0(m)
  <2> DEFINE reply == modecfg_build_msg(m.msgid, "ISAKMP_CFG_REPLY",
                                        get_internal_addr(r_that))
  <2>1. /\ reply.type = "ISAKMP_CFG_REPLY"
        /\ reply.tlvs = EncodeAttrs(get_internal_addr(r_that))
    BY DEF modecfg_build_msg
  <2>2. mode = "pull"
    BY <1>1 DEF modecfg_inR0, PushInv
  <2>3. get_internal_addr(r_that') = get_internal_addr(r_that)
    BY <1>1, OfferStable DEF modecfg_inR0
  <2>4. /\ st_state' = [st_state EXCEPT !["R"] = "MODE_CFG_R2"]
        /\ st_msgid' = [st_msgid EXCEPT !["R"] = 0]
        /\ net' = net \cup {reply}
        /\ st_event' = st_event
    BY <1>1 DEF modecfg_inR0
  <2>5. QED
    BY <2>1, <2>2, <2>3, <2>4 DEF PullRefInv, OfferInv
<1>2. CASE modecfg_inR1(m)
  <2>1. mode = "push"
    BY <1>2 DEF modecfg_inR1, PullInv
  <2>2. QED
    BY <1>2, <2>1 DEF modecfg_inR1, PushRefInv, OfferInv
<1>3. CASE modecfg_inI1(m)
  <2>1. mode = "pull"
    BY <1>3 DEF modecfg_inI1, PushInv
  <2>2. QED
    BY <1>3, <2>1 DEF modecfg_inI1, PullRefInv, OfferInv
<1>4. CASE modecfg_inI2(m)
  <2> DEFINE ia == modecfg_parse_attributes(m.tlvs)
             ack == modecfg_build_msg(m.msgid, "ISAKMP_CFG_ACK",
                       [init_internal_addr EXCEPT
                           !.attr_set = ia.attr_set \cap SUPPORTED_ATTR_SET])
  <2>1. ack.type = "ISAKMP_CFG_ACK"
    BY DEF modecfg_build_msg
  <2>2. mode = "push"
    BY <1>4 DEF modecfg_inI2, PullInv
  <2>3. /\ st_state' = [st_state EXCEPT !["I"] = "MODE_CFG_I3"]
        /\ st_msgid' = [st_msgid EXCEPT !["I"] = 0]
        /\ net' = net \cup {ack}
        /\ st_event' = st_event
        /\ st_tpacket'["R"] = st_tpacket["R"]
        /\ r_that' = r_that
    BY <1>4 DEF modecfg_inI2
  <2>4. QED
    BY <2>1, <2>2, <2>3 DEF PushRefInv, OfferInv
<1>5. CASE modecfg_parse_msg_fails(Dest(m), m)
  <2>1. st_state[Dest(m)] \in {"MODE_CFG_R0", "MODE_CFG_R1", "MODE_CFG_I1",
                               "MODE_CFG_I2"}
    BY <1>5 DEF modecfg_parse_msg_fails, Expected
  <2>2. Dest(m) \in Peers
    BY DEF Dest
  <2>3. QED
    BY <1>5, <2>1, <2>2 DEF modecfg_parse_msg_fails, PullRefInv, PushRefInv,
                            OfferInv
<1>6. QED
  BY <1>1, <1>2, <1>3, <1>4, <1>5 DEF Receive

LEMMA NextRefInv == RefInv /\ [Next]_vars => RefInv'
<1> SUFFICES ASSUME RefInv, [Next]_vars PROVE RefInv'
  OBVIOUS
<1>0. CompletionInv'
  BY NextCompletion DEF RefInv
<1> USE DEF RefInv, CompletionInv, TypeInv, TypeOK, Peers, conn_vars
<1>1. CASE modecfg_send_request
  <2>1. PICK m : /\ m.type = "ISAKMP_CFG_REQUEST"
                 /\ st_tpacket' = [st_tpacket EXCEPT !["I"] = m]
                 /\ net' = net \cup {m}
                 /\ st_event'["I"].type = "EVENT_RETRANSMIT"
                 /\ st_event'["R"] = st_event["R"] /\ st_msgid'["R"] = st_msgid["R"]
    BY <1>1, SendMsgRef DEF modecfg_send_request
  <2>2. /\ mode = "pull" /\ mode' = mode /\ r_that' = r_that
        /\ st_state' = [st_state EXCEPT !["I"] = "MODE_CFG_I1"]
    BY <1>1 DEF modecfg_send_request
  <2>3. QED
    BY <1>0, <2>1, <2>2 DEF PullRefInv, OfferInv
<1>2. CASE modecfg_send_set
  <2>1. PICK m : /\ m.type = "ISAKMP_CFG_SET"
                 /\ m.tlvs = EncodeAttrs(get_internal_addr(r_that))
                 /\ st_tpacket' = [st_tpacket EXCEPT !["R"] = m]
                 /\ net' = net \cup {m}
                 /\ st_event'["R"].type = "EVENT_RETRANSMIT"
                 /\ st_event'["I"] = st_event["I"] /\ st_msgid'["I"] = st_msgid["I"]
    BY <1>2, SendMsgRef DEF modecfg_send_set
  <2>2. /\ mode = "push" /\ mode' = mode
        /\ st_state' = [st_state EXCEPT !["R"] = "MODE_CFG_R1"]
    BY <1>2 DEF modecfg_send_set
  <2>3. get_internal_addr(r_that') = get_internal_addr(r_that)
    BY <1>2, OfferStable DEF modecfg_send_set
  <2>4. QED
    BY <1>0, <2>1, <2>2, <2>3 DEF PushRefInv, OfferInv
<1>3. CASE StartPush
  BY <1>0, <1>3 DEF StartPush, PushRefInv, PullRefInv, OfferInv, conn_vars
<1>4. CASE \E m \in net : Deliver(m)
  <2>1. PICK m \in net : Deliver(m)
    BY <1>4
  <2>2. QED
    BY <1>0, <2>1, ReceiveRef, ReceiveCompletion DEF Deliver
<1>5. CASE Forge
  <2>1. PICK m \in ForgedMsgs : Receive(m)
    BY <1>5 DEF Forge
  <2>2. QED
    BY <1>0, <2>1, ReceiveRef, ReceiveCompletion, ForgedNotOk
<1>6. CASE \E m \in net : Lose(m)
  <2>1. PICK m \in net : Lose(m)
    BY <1>6
  <2>2. QED
    BY <1>0, <2>1 DEF Lose, session_vars, conn_vars, PullRefInv, PushRefInv,
                      OfferInv
<1>7. CASE \E p \in Peers : RetransmitCancel(p) \/ Retransmit(p) \/ RetransmitGiveUp(p)
  <2>1. PICK p \in Peers : RetransmitCancel(p) \/ Retransmit(p) \/ RetransmitGiveUp(p)
    BY <1>7
  <2>2. st_event[p].type = "EVENT_RETRANSMIT"
    BY <2>1 DEF RetransmitCancel, Retransmit, RetransmitGiveUp, TimerDue
  <2>3. mode = "pull" => p = "I"
    BY <2>2 DEF PullInv
  <2>4. mode = "push" => p = "R"
    BY <2>2 DEF PushInv
  <2>5. CASE RetransmitCancel(p)
    BY <1>0, <2>5 DEF RetransmitCancel, NoEvent, conn_vars, PullRefInv,
                      PushRefInv, OfferInv
  <2>6. CASE Retransmit(p)
    <3>1. mode = "pull" => /\ st_tpacket[p].type = "ISAKMP_CFG_REQUEST"
                           /\ st_state["I"] # "MODE_CFG_I0"
      BY <2>2, <2>3 DEF PullInv, PullRefInv
    <3>2. mode = "push" => /\ st_tpacket[p].type = "ISAKMP_CFG_SET"
                           /\ st_state["R"] # "MAIN_R3"
                           /\ st_tpacket[p].tlvs = EncodeAttrs(get_internal_addr(r_that))
      BY <2>2, <2>4 DEF PushInv, PushRefInv
    <3>3. /\ net' = net \cup {st_tpacket[p]}
          /\ UNCHANGED <<mode, st_state, st_msgid, st_tpacket, r_that>>
          /\ st_event'[p].type = "EVENT_RETRANSMIT"
          /\ \A q \in Peers \ {p} : st_event'[q] = st_event[q]
      BY <2>6 DEF Retransmit, conn_vars
    <3>4. CASE mode = "pull"
      <4>1. p = "I" /\ st_event'["R"] = st_event["R"]
        BY <2>3, <3>3, <3>4
      <4>2. PullRefInv'
        BY <2>2, <3>1, <3>3, <3>4, <4>1 DEF PullRefInv
      <4>3. OfferInv'
        BY <3>1, <3>3, <3>4 DEF OfferInv
      <4>4. QED
        BY <1>0, <3>3, <3>4, <4>2, <4>3
    <3>5. CASE mode = "push"
      <4>1. p = "R" /\ st_event'["R"].type = "EVENT_RETRANSMIT"
        BY <2>4, <3>3, <3>5
      <4>2. PushRefInv'
        BY <2>2, <3>2, <3>3, <3>5, <4>1 DEF PushRefInv
      <4>3. OfferInv'
        BY <3>2, <3>3, <3>5, <4>1 DEF OfferInv
      <4>4. QED
        BY <1>0, <3>3, <3>5, <4>2, <4>3
    <3>6. QED
      BY <3>4, <3>5
  <2>7. CASE RetransmitGiveUp(p)
    BY <1>0, <2>3, <2>4, <2>7 DEF RetransmitGiveUp, NoEvent, conn_vars,
                                  PullRefInv, PushRefInv, OfferInv
  <2>8. QED
    BY <2>1, <2>5, <2>6, <2>7
<1>8. CASE UNCHANGED vars
  BY <1>0, <1>8 DEF vars, session_vars, conn_vars, PullRefInv, PushRefInv, OfferInv
<1>9. QED
  BY <1>1, <1>2, <1>3, <1>4, <1>5, <1>6, <1>7, <1>8 DEF Next

-----------------------------------------------------------------------------
(* Every step maps to a step of ModeCfgExchange or to a stutter.          *)

LEMMA InitRef == Init => RefInv /\ Exchange!Init
<1> SUFFICES ASSUME Init PROVE RefInv /\ Exchange!Init
  OBVIOUS
<1>1. CompletionInv
  BY InitCompletion
<1>2. i_this.host_srcip \in Addr /\ r_that.host_srcip \in Addr
  BY DEF Init
<1>3. RefInv
  BY <1>1 DEF Init, RefInv, PullRefInv, PushRefInv, OfferInv, NoEvent, Peers
<1>4. Exchange!Init
  BY <1>2 DEF Init, Exchange!Init, IniPhase, RspPhase
<1>5. QED
  BY <1>3, <1>4

(* The handlers map to Answer, Acknowledged, TakeAnswer and TakeOffer,    *)
(* their early return to a stutter.                                       *)
LEMMA ReceiveStep ==
    ASSUME RefInv, NEW m, Receive(m), m \in net \/ ~modecfg_hash_ok(m)
    PROVE  [Exchange!Next]_Exchange!vars
<1> USE DEF RefInv, CompletionInv, TypeInv, TypeOK, Peers, conn_vars
<1>1. CASE modecfg_inR0(m)
  <2>1. modecfg_hash_ok(m) /\ m.type = "ISAKMP_CFG_REQUEST" /\ m \in net
    BY <1>1, ParseOk DEF modecfg_inR0
  <2>2. mode = "pull"
    BY <1>1 DEF modecfg_inR0, PushInv
  <2>3. st_state["I"] # "MODE_CFG_I0"
    BY <2>1, <2>2 DEF PullRefInv
  <2>4. r_that'.host_srcip = r_that.host_srcip
    BY <1>1, OfferStable DEF modecfg_inR0
  <2>5. Exchange!Answer
    BY <1>1, <2>2, <2>3, <2>4 DEF modecfg_inR0, Exchange!Answer, IniPhase,
                                  RspPhase
  <2>6. QED
    BY <2>5 DEF Exchange!Next
<1>2. CASE modecfg_inR1(m)
  <2>1. modecfg_hash_ok(m) /\ m.type = "ISAKMP_CFG_ACK" /\ m \in net
    BY <1>2, ParseOk DEF modecfg_inR1
  <2>2. mode = "push"
    BY <1>2 DEF modecfg_inR1, PullInv
  <2>3. st_state["I"] = "MODE_CFG_I3"
    BY <2>1, <2>2 DEF PushInv
  <2>4. Exchange!Acknowledged
    BY <1>2, <2>2, <2>3 DEF modecfg_inR1, Exchange!Acknowledged, IniPhase,
                            RspPhase
  <2>5. QED
    BY <2>4 DEF Exchange!Next
<1>3. CASE modecfg_inI1(m)
  <2>1. modecfg_hash_ok(m) /\ m.type = "ISAKMP_CFG_REPLY" /\ m \in net
    BY <1>3, ParseOk DEF modecfg_inI1
  <2>2. mode = "pull"
    BY <1>3 DEF modecfg_inI1, PushInv
  <2>3. st_state["R"] = "MODE_CFG_R2"
    BY <2>1, <2>2 DEF PullInv
  <2>4. m.tlvs = EncodeAttrs(get_internal_addr(r_that))
    BY <2>1 DEF OfferInv
  <2>5. i_this'.host_srcip = IF r_that.host_srcip = AnyAddr THEN i_this.host_srcip
                             ELSE r_that.host_srcip
    BY <1>3, <2>4, TakenAddr DEF modecfg_inI1
  <2>6. Exchange!TakeAnswer
    BY <1>3, <2>2, <2>3, <2>5 DEF modecfg_inI1, Exchange!TakeAnswer,
                                  Exchange!Taken, IniPhase, RspPhase
  <2>7. QED
    BY <2>6 DEF Exchange!Next
<1>4. CASE modecfg_inI2(m)
  <2>1. modecfg_hash_ok(m) /\ m.type = "ISAKMP_CFG_SET" /\ m \in net
    BY <1>4, ParseOk DEF modecfg_inI2
  <2>2. mode = "push"
    BY <1>4 DEF modecfg_inI2, PullInv
  <2>3. st_state["R"] \in {"MODE_CFG_R1", "MODE_CFG_R2", "DELETED"}
    BY <2>1, <2>2 DEF PushInv, PushRefInv
  <2>4. m.tlvs = EncodeAttrs(get_internal_addr(r_that))
    BY <2>1 DEF OfferInv
  <2>5. i_this'.host_srcip = IF r_that.host_srcip = AnyAddr THEN i_this.host_srcip
                             ELSE r_that.host_srcip
    BY <1>4, <2>4, TakenAddr DEF modecfg_inI2
  <2>6. Exchange!TakeOffer
    BY <1>4, <2>2, <2>3, <2>5 DEF modecfg_inI2, Exchange!TakeOffer,
                                  Exchange!Taken, IniPhase, RspPhase
  <2>7. QED
    BY <2>6 DEF Exchange!Next
<1>5. CASE modecfg_parse_msg_fails(Dest(m), m)
  BY <1>5 DEF modecfg_parse_msg_fails, Exchange!vars, IniPhase, RspPhase
<1>6. QED
  BY <1>1, <1>2, <1>3, <1>4, <1>5 DEF Receive

(* The senders map to Ask, Offer and AwaitOffer, the network to stutters, *)
(* and the retransmission driver's give-up to GiveUp.                      *)
LEMMA NextRef == RefInv /\ [Next]_vars => [Exchange!Next]_Exchange!vars
<1> SUFFICES ASSUME RefInv, [Next]_vars PROVE [Exchange!Next]_Exchange!vars
  OBVIOUS
<1> USE DEF RefInv, CompletionInv, TypeInv, TypeOK, Peers, conn_vars
<1>1. CASE modecfg_send_request
  <2>1. Exchange!Ask
    BY <1>1 DEF modecfg_send_request, Exchange!Ask, IniPhase, RspPhase
  <2>2. QED
    BY <2>1 DEF Exchange!Next
<1>2. CASE modecfg_send_set
  <2>1. r_that'.host_srcip = r_that.host_srcip
    BY <1>2, OfferStable DEF modecfg_send_set
  <2>2. Exchange!Offer
    BY <1>2, <2>1 DEF modecfg_send_set, Exchange!Offer, IniPhase, RspPhase
  <2>3. QED
    BY <2>2 DEF Exchange!Next
<1>3. CASE StartPush
  <2>1. Exchange!AwaitOffer
    BY <1>3 DEF StartPush, Exchange!AwaitOffer, IniPhase, RspPhase
  <2>2. QED
    BY <2>1 DEF Exchange!Next
<1>4. CASE \E m \in net : Deliver(m)
  BY <1>4, ReceiveStep DEF Deliver
<1>5. CASE Forge
  <2>1. PICK m \in ForgedMsgs : Receive(m)
    BY <1>5 DEF Forge
  <2>2. QED
    BY <2>1, ReceiveStep, ForgedNotOk
<1>6. CASE \E m \in net : Lose(m)
  BY <1>6 DEF Lose, session_vars, Exchange!vars, IniPhase, RspPhase
<1>7. CASE \E p \in Peers : RetransmitCancel(p) \/ Retransmit(p) \/ RetransmitGiveUp(p)
  <2>1. PICK p \in Peers : RetransmitCancel(p) \/ Retransmit(p) \/ RetransmitGiveUp(p)
    BY <1>7
  <2>2. CASE RetransmitCancel(p) \/ Retransmit(p)
    BY <2>2 DEF RetransmitCancel, Retransmit, Exchange!vars, IniPhase, RspPhase
  <2>3. CASE RetransmitGiveUp(p)
    <3>1. st_event[p].type = "EVENT_RETRANSMIT" /\ st_msgid[p] # 0
      BY <2>3 DEF RetransmitGiveUp, TimerDue
    <3>2. mode = "pull" => p = "I" /\ st_state["I"] = "MODE_CFG_I1"
      BY <3>1 DEF PullInv, PullRefInv
    <3>3. mode = "push" => p = "R" /\ st_state["R"] = "MODE_CFG_R1"
      BY <3>1 DEF PushInv, PushRefInv
    <3>4. /\ st_state' = [st_state EXCEPT ![p] = "DELETED"]
          /\ UNCHANGED <<mode, i_this, r_that>>
      BY <2>3 DEF RetransmitGiveUp
    <3>5. Exchange!GiveUp
      BY <3>2, <3>3, <3>4 DEF Exchange!GiveUp, IniPhase, RspPhase
    <3>6. QED
      BY <3>5 DEF Exchange!Next
  <2>4. QED
    BY <2>1, <2>2, <2>3
<1>8. CASE UNCHANGED vars
  BY <1>8 DEF vars, session_vars, Exchange!vars, IniPhase, RspPhase
<1>9. QED
  BY <1>1, <1>2, <1>3, <1>4, <1>5, <1>6, <1>7, <1>8 DEF Next

(* For every choice of message ids, addresses and loss and forgery        *)
(* bounds, the ModeCfg exchange of modecfg.c implements ModeCfgExchange:  *)
(* whatever the network loses, duplicates or reorders and an attacker     *)
(* injects, the responder answers only a request that was sent, the       *)
(* initiator applies only the answer or offer its peer sent, holding      *)
(* exactly the configured address afterwards, the responder completes     *)
(* only once the initiator applied the offer, and a session is deleted    *)
(* only while it waits for its peer.                                      *)
THEOREM RefinementHolds == Spec => ExchangeRefinement
<1>1. Init => RefInv /\ Exchange!Init
  BY InitRef
<1>2. RefInv /\ [Next]_vars => RefInv'
  BY NextRefInv
<1>3. RefInv /\ [Next]_vars => [Exchange!Next]_Exchange!vars
  BY NextRef
<1>4. QED
  BY <1>1, <1>2, <1>3, PTL DEF Spec, ExchangeRefinement, Exchange!Spec

=============================================================================
