------------------------ MODULE ModeCfgAddressProofs ------------------------
(***************************************************************************)
(* Proof of AddressAgreement for every choice of the constants that       *)
(* satisfies ConstantsAssumption: the address the initiator applies is    *)
(* the one the responder's policy names.                                   *)
(***************************************************************************)
EXTENDS ModeCfgRefinementProofs

(* The responder's end for the initiator is a fixed point of the side     *)
(* effect of get_internal_addr: the client /32 is already in place.       *)
Fixed == r_that = get_internal_addr_client(r_that)

(* What AddressAgreement rests on, beyond RefInv: once the responder has  *)
(* offered (a REPLY or SET with a valid HASH exists, or its SET is        *)
(* queued for retransmission), get_internal_addr has already rewritten    *)
(* r_that, so a later call changes nothing; and a finished initiator saw  *)
(* such an offer.                                                          *)
AddrInv ==
    /\ \A m \in net : modecfg_hash_ok(m)
                        /\ m.type \in {"ISAKMP_CFG_REPLY", "ISAKMP_CFG_SET"}
                        => Fixed
    /\ st_event["R"].type = "EVENT_RETRANSMIT" => Fixed
    /\ st_state["I"] = "MODE_CFG_I3" => Fixed
    /\ AddressAgreement

-----------------------------------------------------------------------------
(* Lemmas about the helpers.                                               *)

(* get_internal_addr_client is idempotent and keeps an End an End.         *)
LEMMA ClientIdempotent ==
    ASSUME NEW x \in End
    PROVE  /\ get_internal_addr_client(x) \in End
           /\ get_internal_addr_client(get_internal_addr_client(x))
                = get_internal_addr_client(x)
BY DEF get_internal_addr_client, End

(* The offer survives encoding and parsing: set_internal_addr applies     *)
(* exactly when the responder has an address for the peer, and then the   *)
(* parsed address is that one.                                             *)
LEMMA OfferParsed ==
    ASSUME NEW x \in End
    PROVE  LET ia == modecfg_parse_attributes(EncodeAttrs(get_internal_addr(x)))
           IN  /\ set_internal_addr_applies(ia) <=> x.host_srcip # AnyAddr
               /\ set_internal_addr_applies(ia) => ia.ipaddr = x.host_srcip
<1> DEFINE tlvs == EncodeAttrs(get_internal_addr(x))
           ia == modecfg_parse_attributes(tlvs)
<1> SUFFICES /\ set_internal_addr_applies(ia) <=> x.host_srcip # AnyAddr
             /\ set_internal_addr_applies(ia) => ia.ipaddr = x.host_srcip
  OBVIOUS
<1>1. CASE x.host_srcip = AnyAddr
  <2>1. tlvs = {}
    BY <1>1 DEF EncodeAttrs, get_internal_addr
  <2>2. ~set_internal_addr_applies(ia)
    BY <2>1 DEF set_internal_addr_applies, modecfg_parse_attributes
  <2>3. QED
    BY <1>1, <2>2
<1>2. CASE x.host_srcip # AnyAddr
  <2> DEFINE h == x.host_srcip
             ta == [kind |-> INTERNAL_IP4_ADDRESS, value |-> h]
             tn == [kind |-> INTERNAL_IP4_NETMASK, value |-> AnyAddr]
  <2>1. tlvs = {ta, tn}
    BY <1>2 DEF EncodeAttrs, get_internal_addr, INTERNAL_IP4_ADDRESS,
                INTERNAL_IP4_NETMASK
  <2>2. \A t \in tlvs : t.kind = INTERNAL_IP4_ADDRESS /\ t.value # AnyAddr <=> t = ta
    BY <2>1, <1>2 DEF INTERNAL_IP4_ADDRESS, INTERNAL_IP4_NETMASK
  <2>3. ia.ipaddr = h
    BY <2>1, <2>2 DEF modecfg_parse_attributes
  <2>4. INTERNAL_IP4_ADDRESS \in ia.attr_set
    BY <2>1 DEF modecfg_parse_attributes
  <2>5. set_internal_addr_applies(ia)
    BY <1>2, <2>3, <2>4 DEF set_internal_addr_applies
  <2>6. QED
    BY <1>2, <2>3, <2>5
<1>3. QED
  BY <1>1, <1>2

(* The initiator's handler applied the responder's offer: after           *)
(* set_internal_addr on the parsed offer, the ends agree.                 *)
LEMMA ApplyOffer ==
    ASSUME NEW rt \in End, NEW it \in End,
           rt = get_internal_addr_client(rt)
    PROVE  LET ia == modecfg_parse_attributes(EncodeAttrs(get_internal_addr(rt)))
               it2 == set_internal_addr(it, ia)
               vs == set_internal_addr_applies(ia)
           IN  /\ vs <=> rt.host_srcip # AnyAddr
               /\ vs => /\ it2.host_srcip = rt.host_srcip
                        /\ it2.client = [addr |-> rt.host_srcip, maskbits |-> 32]
                        /\ it2.has_client
                        /\ rt.client = it2.client
                        /\ rt.has_client
<1> DEFINE ia == modecfg_parse_attributes(EncodeAttrs(get_internal_addr(rt)))
           it2 == set_internal_addr(it, ia)
           vs == set_internal_addr_applies(ia)
<1>1. vs <=> rt.host_srcip # AnyAddr
  BY OfferParsed
<1>2. vs => ia.ipaddr = rt.host_srcip
  BY OfferParsed
<1>3. ASSUME vs
      PROVE  /\ it2.host_srcip = rt.host_srcip
             /\ it2.client = [addr |-> rt.host_srcip, maskbits |-> 32]
             /\ it2.has_client
             /\ rt.client = it2.client
             /\ rt.has_client
  <2>1. it2 = [it EXCEPT !.host_srcip = ia.ipaddr,
                         !.client = [addr |-> ia.ipaddr, maskbits |-> 32],
                         !.has_client = TRUE]
    BY <1>3 DEF set_internal_addr
  <2>2. rt.client = [addr |-> rt.host_srcip, maskbits |-> 32] /\ rt.has_client
    BY <1>1, <1>3 DEF get_internal_addr_client, End
  <2>3. QED
    BY <1>2, <1>3, <2>1, <2>2 DEF End
<1>4. QED
  BY <1>1, <1>3

-----------------------------------------------------------------------------
(* AddrInv is inductive.                                                   *)

(* A step that at most re-applies get_internal_addr_client to r_that and  *)
(* leaves the initiator's end, its vars_set and (unless it leaves it) its *)
(* MODE_CFG_I3 state alone keeps the agreement of a finished initiator.   *)
LEMMA FrameAddr ==
    ASSUME TypeOK, AddrInv,
           r_that' = r_that \/ r_that' = get_internal_addr_client(r_that),
           i_this' = i_this, st_vars_set' = st_vars_set,
           st_state'["I"] = st_state["I"] \/ st_state'["I"] # "MODE_CFG_I3"
    PROVE  /\ r_that' = get_internal_addr_client(r_that) => Fixed'
           /\ Fixed => Fixed'
           /\ st_state'["I"] = "MODE_CFG_I3" => Fixed' /\ AddressAgreement'
<1>1. r_that' = get_internal_addr_client(r_that) => Fixed'
  BY ClientIdempotent DEF Fixed, TypeOK
<1>2. Fixed => r_that' = r_that
  BY DEF Fixed
<1>3. Fixed => Fixed'
  BY <1>2 DEF Fixed
<1>4. ASSUME st_state'["I"] = "MODE_CFG_I3" PROVE Fixed' /\ AddressAgreement'
  <2>1. st_state["I"] = "MODE_CFG_I3" /\ Fixed /\ AddressAgreement
    BY <1>4 DEF AddrInv
  <2>2. r_that' = r_that
    BY <1>2, <2>1
  <2>3. QED
    BY <1>3, <1>4, <2>1, <2>2 DEF AddressAgreement
<1>5. QED
  BY <1>1, <1>3, <1>4

(* The handlers keep AddrInv, for a datagram of the network or one        *)
(* without a valid HASH.                                                   *)
LEMMA ReceiveAddr ==
    ASSUME RefInv, AddrInv, NEW m, Receive(m), m \in net \/ ~modecfg_hash_ok(m)
    PROVE  AddrInv'
<1>0. TypeOK
  BY DEF RefInv, CompletionInv, TypeInv
<1>1. CASE modecfg_inR0(m)
  <2> DEFINE reply == modecfg_build_msg(m.msgid, "ISAKMP_CFG_REPLY",
                                        get_internal_addr(r_that))
  <2>1. /\ r_that' = get_internal_addr_client(r_that)
        /\ UNCHANGED <<st_event, st_vars_set, i_this>>
        /\ st_state'["I"] = st_state["I"]
    BY <1>1 DEF modecfg_inR0
  <2>2. Fixed' /\ (st_state'["I"] = "MODE_CFG_I3" => AddressAgreement')
    BY <1>0, <2>1, FrameAddr
  <2>3. QED
    BY <2>2 DEF AddrInv, AddressAgreement
<1>2. CASE modecfg_inR1(m)
  <2>1. /\ UNCHANGED <<st_event, st_vars_set, i_this, r_that, net>>
        /\ st_state'["I"] = st_state["I"]
    BY <1>2 DEF modecfg_inR1, conn_vars
  <2>2. /\ Fixed => Fixed'
        /\ st_state'["I"] = "MODE_CFG_I3" => Fixed' /\ AddressAgreement'
    BY <1>0, <2>1, FrameAddr
  <2>3. QED
    BY <2>1, <2>2 DEF AddrInv, AddressAgreement
<1>3. CASE modecfg_inI1(m) \/ modecfg_inI2(m)
  <2> DEFINE ia == modecfg_parse_attributes(m.tlvs)
  <2>1. /\ modecfg_hash_ok(m)
        /\ m.type \in {"ISAKMP_CFG_REPLY", "ISAKMP_CFG_SET"}
        /\ st_vars_set' = [st_vars_set EXCEPT !["I"] = set_internal_addr_applies(ia)]
        /\ i_this' = set_internal_addr(i_this, ia)
        /\ st_state' = [st_state EXCEPT !["I"] = "MODE_CFG_I3"]
        /\ UNCHANGED <<st_event, r_that>>
        /\ \A x \in net' : x \in net \/ x.type = "ISAKMP_CFG_ACK"
    BY <1>3, ParseOk, BuildMsgOk DEF modecfg_inI1, modecfg_inI2
  <2>2. m \in net
    BY <2>1
  <2>3. Fixed /\ m.tlvs = EncodeAttrs(get_internal_addr(r_that))
    BY <2>1, <2>2 DEF AddrInv, RefInv, OfferInv
  <2>4. Fixed'
    BY <2>1, <2>3 DEF Fixed
  <2>5. AddressAgreement'
    <3>1. st_vars_set'["I"] = set_internal_addr_applies(ia)
      BY <1>0, <2>1 DEF TypeOK, Peers
    <3>2. QED
      BY <1>0, <2>1, <2>3, <3>1, ApplyOffer DEF TypeOK, Fixed, AddressAgreement
  <2>6. QED
    BY <2>1, <2>4, <2>5 DEF AddrInv
<1>4. CASE modecfg_parse_msg_fails(Dest(m), m)
  <2>1. /\ UNCHANGED <<st_state, st_event, st_vars_set, i_this, r_that, net>>
    BY <1>4 DEF modecfg_parse_msg_fails, conn_vars
  <2>2. QED
    BY <2>1 DEF AddrInv, Fixed, AddressAgreement
<1>5. QED
  BY <1>1, <1>2, <1>3, <1>4 DEF Receive

LEMMA NextAddr == RefInv /\ AddrInv /\ [Next]_vars => AddrInv'
<1> SUFFICES ASSUME RefInv, AddrInv, [Next]_vars PROVE AddrInv'
  OBVIOUS
<1>0. TypeOK
  BY DEF RefInv, CompletionInv, TypeInv
<1>1. CASE modecfg_send_request
  <2>1. PICK m : /\ m.type = "ISAKMP_CFG_REQUEST"
                 /\ net' = net \cup {m}
                 /\ st_event'["R"] = st_event["R"]
    BY <1>0, <1>1, SendMsgRef DEF modecfg_send_request, Peers
  <2>2. /\ UNCHANGED <<st_vars_set, i_this, r_that>>
        /\ st_state'["I"] = "MODE_CFG_I1"
    BY <1>0, <1>1 DEF modecfg_send_request, conn_vars, TypeOK, Peers
  <2>3. /\ Fixed => Fixed'
        /\ st_state'["I"] = "MODE_CFG_I3" => Fixed' /\ AddressAgreement'
    BY <1>0, <2>2, FrameAddr
  <2>4. QED
    BY <2>1, <2>2, <2>3 DEF AddrInv, AddressAgreement
<1>2. CASE modecfg_send_set
  <2>1. /\ r_that' = get_internal_addr_client(r_that)
        /\ UNCHANGED <<st_vars_set, i_this>>
        /\ st_state'["I"] = st_state["I"]
    BY <1>2 DEF modecfg_send_set
  <2>2. Fixed' /\ (st_state'["I"] = "MODE_CFG_I3" => AddressAgreement')
    BY <1>0, <2>1, FrameAddr
  <2>3. QED
    BY <2>2 DEF AddrInv, AddressAgreement
<1>3. CASE StartPush
  <2>1. /\ UNCHANGED <<st_event, st_vars_set, i_this, r_that, net>>
        /\ st_state'["I"] = "MODE_CFG_I2"
    BY <1>0, <1>3 DEF StartPush, conn_vars, TypeOK, Peers
  <2>2. Fixed => Fixed'
    BY <1>0, <2>1, FrameAddr
  <2>3. QED
    BY <2>1, <2>2 DEF AddrInv, AddressAgreement
<1>4. CASE \E m \in net : Deliver(m)
  <2>1. PICK m \in net : Deliver(m)
    BY <1>4
  <2>2. QED
    BY <2>1, ReceiveAddr DEF Deliver
<1>5. CASE Forge
  <2>1. PICK m \in ForgedMsgs : Receive(m)
    BY <1>5 DEF Forge
  <2>2. QED
    BY <2>1, ReceiveAddr, ForgedNotOk
<1>6. CASE \E m \in net : Lose(m)
  <2>1. PICK m \in net : Lose(m)
    BY <1>6
  <2>2. /\ UNCHANGED <<st_state, st_event, st_vars_set, i_this, r_that>>
        /\ net' \subseteq net
    BY <2>1 DEF Lose, session_vars, conn_vars
  <2>3. QED
    BY <2>2 DEF AddrInv, Fixed, AddressAgreement
<1>7. CASE \E p \in Peers : RetransmitCancel(p) \/ Retransmit(p) \/ RetransmitGiveUp(p)
  <2>1. PICK p \in Peers : RetransmitCancel(p) \/ Retransmit(p) \/ RetransmitGiveUp(p)
    BY <1>7
  <2>2. /\ UNCHANGED <<st_vars_set, i_this, r_that>>
        /\ st_state'["I"] = st_state["I"] \/ st_state'["I"] = "DELETED"
        /\ st_event'["R"] = st_event["R"] \/ st_event'["R"].type # "EVENT_RETRANSMIT"
           \/ (p = "R" /\ st_event["R"].type = "EVENT_RETRANSMIT")
    BY <1>0, <2>1 DEF RetransmitCancel, Retransmit, RetransmitGiveUp, TimerDue,
                      NoEvent, conn_vars, TypeOK, Peers
  <2>3. /\ Fixed => Fixed'
        /\ st_state'["I"] = "MODE_CFG_I3" => Fixed' /\ AddressAgreement'
    BY <1>0, <2>2, FrameAddr
  <2>4. \A x \in net' : modecfg_hash_ok(x)
                          /\ x.type \in {"ISAKMP_CFG_REPLY", "ISAKMP_CFG_SET"}
                          => Fixed
    <3>1. CASE Retransmit(p)
      <4>1. st_event[p].type = "EVENT_RETRANSMIT" /\ net' = net \cup {st_tpacket[p]}
        BY <3>1 DEF Retransmit, TimerDue
      <4>2. mode = "pull" => p = "I" /\ st_tpacket[p].type = "ISAKMP_CFG_REQUEST"
        BY <4>1 DEF RefInv, CompletionInv, PullInv, Peers
      <4>3. mode = "push" => p = "R"
        BY <4>1 DEF RefInv, CompletionInv, PushInv, Peers
      <4>4. mode \in {"pull", "push"}
        BY <1>0 DEF TypeOK
      <4>5. QED
        BY <4>1, <4>2, <4>3, <4>4 DEF AddrInv
    <3>2. CASE RetransmitCancel(p) \/ RetransmitGiveUp(p)
      BY <3>2 DEF RetransmitCancel, RetransmitGiveUp, AddrInv
    <3>3. QED
      BY <2>1, <3>1, <3>2
  <2>5. QED
    BY <2>2, <2>3, <2>4 DEF AddrInv, AddressAgreement
<1>8. CASE UNCHANGED vars
  BY <1>8 DEF vars, session_vars, conn_vars, AddrInv, Fixed, AddressAgreement
<1>9. QED
  BY <1>1, <1>2, <1>3, <1>4, <1>5, <1>6, <1>7, <1>8 DEF Next

LEMMA InitAddr == Init => AddrInv
  BY DEF Init, AddrInv, AddressAgreement, NoEvent, Peers

(* For every choice of the constants, a finished initiator has applied    *)
(* exactly the address the responder configured for it, with its /32      *)
(* client, and the responder's policy names that same client; when there  *)
(* was nothing to assign, nothing was applied.  Lost, duplicated,         *)
(* reordered and forged datagrams, retransmissions and the dead-peer      *)
(* deletion cannot break this agreement of modecfg_inI1/inI2 with         *)
(* modecfg_inR0/modecfg_send_set.                                          *)
THEOREM AddressAgreementHolds == Spec => []AddressAgreement
<1>1. Init => RefInv /\ AddrInv
  BY InitRef, InitAddr
<1>2. RefInv /\ AddrInv /\ [Next]_vars => RefInv' /\ AddrInv'
  BY NextRefInv, NextAddr
<1>3. AddrInv => AddressAgreement
  BY DEF AddrInv
<1>4. QED
  BY <1>1, <1>2, <1>3, PTL DEF Spec
=============================================================================
