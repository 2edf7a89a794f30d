------------------------------- MODULE ModeCfg -------------------------------
(***************************************************************************)
(* The ModeCfg exchange of pluto (src/programs/pluto/modecfg.c) between   *)
(* one initiator session "I" and one responder session "R" of the same    *)
(* ISAKMP SA, over a network that loses (boundedly), duplicates and       *)
(* reorders datagrams and on which an attacker may inject datagrams that  *)
(* carry the SA's cookies but not a valid HASH.                            *)
(*                                                                         *)
(* Pull mode: I sends REQUEST (modecfg_send_request), R answers REPLY      *)
(* (modecfg_inR0), I applies the address (modecfg_inI1).                   *)
(* Push mode: R sends SET (modecfg_send_set), I applies it and answers     *)
(* ACK (modecfg_inI2), R consumes the ACK (modecfg_inR1).                  *)
(*                                                                         *)
(* Each session is served by one worker at a time (spec section 5), so    *)
(* every handler is one atomic step.  The dispatcher that calls the       *)
(* handlers, the state table and the retransmission driver are not under  *)
(* src/ and follow spec section 4.5.                                       *)
(***************************************************************************)
EXTENDS Integers, FiniteSets, Configuration

CONSTANTS
    MsgIds,      \* the non-zero message ids generate_msgid may return
    Addrs,       \* IPv4 addresses other than the any-address
    AnyAddr,     \* the any-address 0.0.0.0 (isanyaddr)
    Host,        \* a peer's own host address (its default client /32)
    BadHash,     \* a HASH payload no session key produced
    NoPacket,    \* an empty st_tpacket (nothing sent yet)
    MaxLoss,     \* bound on datagrams the network drops
    MaxForged    \* bound on forged datagrams injected

ASSUME ConstantsAssumption ==
    /\ MsgIds \subseteq Nat \ {0}
    /\ MsgIds # {}
    /\ AnyAddr \notin Addrs
    /\ Host \notin Addrs \cup {AnyAddr}
    /\ BadHash \notin Nat
    /\ NoPacket \notin Nat
    /\ MaxLoss \in Nat
    /\ MaxForged \in Nat

VARIABLES
    mode,        \* the connection's ModeCfg policy: "pull" or "push"
    st_state,    \* st->st_state of each session
    st_msgid,    \* st->st_msgid
    st_event,    \* st->st_event: type, deadline and retransmit count
    st_tpacket,  \* st->st_tpacket: the last datagram sent, for retransmission
    st_started,  \* st->st_modecfg.started
    st_vars_set, \* st->st_modecfg.vars_set
    i_this,      \* the initiator's c->spd.this (its own end)
    r_that,      \* the responder's c->spd.that (the initiator's end)
    net,         \* datagrams that may still be delivered
    now,         \* the event clock in milliseconds
    lost,        \* datagrams dropped so far
    forged,      \* forged datagrams injected so far
    xmits,       \* history: transmissions of the session's current request
    sentAt       \* history: time of its first transmission

session_vars == <<st_state, st_msgid, st_event, st_tpacket, st_started,
                  st_vars_set>>
conn_vars == <<i_this, r_that>>
vars == <<mode, session_vars, conn_vars, net, now, lost, forged, xmits, sentAt>>

Peers == {"I", "R"}
Addr == Addrs \cup {AnyAddr}

-----------------------------------------------------------------------------
(* Attribute kinds, message types and the internal_addr record.           *)

INTERNAL_IP4_ADDRESS == "IP4_ADDRESS"
INTERNAL_IP4_NETMASK == "IP4_NETMASK"
INTERNAL_IP4_DNS == "IP4_DNS"
INTERNAL_IP4_NBNS == "IP4_NBNS"
INTERNAL_IP4_SUBNET == "IP4_SUBNET"
Kinds == {INTERNAL_IP4_ADDRESS, INTERNAL_IP4_NETMASK, INTERNAL_IP4_DNS,
          INTERNAL_IP4_NBNS, INTERNAL_IP4_SUBNET}

SUPPORTED_ATTR_SET == {INTERNAL_IP4_ADDRESS, INTERNAL_IP4_NETMASK,
                       INTERNAL_IP4_DNS, INTERNAL_IP4_NBNS}

MsgTypes == {"ISAKMP_CFG_REQUEST", "ISAKMP_CFG_REPLY",
             "ISAKMP_CFG_SET", "ISAKMP_CFG_ACK"}

(* The dns[] and wins[] fields stay the any-address on every path of this *)
(* code (get_internal_addr has no source for them), so the record keeps   *)
(* only attr_set and ipaddr.                                               *)
InternalAddr == [attr_set : SUBSET Kinds, ipaddr : Addr]

init_internal_addr == [attr_set |-> {}, ipaddr |-> AnyAddr]

(* One TLV attribute: its kind and the address it carries, AnyAddr for a  *)
(* zero-length value or a value that is not an address (a netmask).       *)
TLV == [kind : Kinds, value : Addr]

(* A ModeCfg datagram: header msgid, the msgid its HASH was computed over *)
(* (BadHash for a forged one), the ATTR payload type and its attributes.  *)
Msg == [type : MsgTypes, msgid : {0} \cup MsgIds,
        hashid : MsgIds \cup {0, BadHash}, tlvs : SUBSET TLV]

End == [host_srcip : Addr,
        client : [addr : Addr \cup {Host}, maskbits : {32}],
        has_client : BOOLEAN]

EventTypes == {"EVENT_NULL", "EVENT_SA_REPLACE", "EVENT_RETRANSMIT"}
Event == [type : EventTypes, at : Nat, try : 0 .. RETRANSMIT_TRIES + 1]
NoEvent == [type |-> "EVENT_NULL", at |-> 0, try |-> 0]

States == {"MODE_CFG_I0", "MODE_CFG_I1", "MODE_CFG_I2", "MODE_CFG_I3",
           "MAIN_R3", "MODE_CFG_R0", "MODE_CFG_R1", "MODE_CFG_R2",
           "DELETED"}

(* The ISAKMP_CFG message a session in each state expects (state table). *)
Expected == [MODE_CFG_R0 |-> "ISAKMP_CFG_REQUEST",
             MODE_CFG_R1 |-> "ISAKMP_CFG_ACK",
             MODE_CFG_I1 |-> "ISAKMP_CFG_REPLY",
             MODE_CFG_I2 |-> "ISAKMP_CFG_SET"]

(* REQUEST and ACK travel to the responder, REPLY and SET to the initiator. *)
Dest(m) == IF m.type \in {"ISAKMP_CFG_REQUEST", "ISAKMP_CFG_ACK"}
           THEN "R" ELSE "I"

-----------------------------------------------------------------------------
(* Helpers of modecfg.c.                                                   *)

(* Seeded fault for mutation testing: offers the client address instead  *)
(* of host_srcip.                                                          *)
get_internal_addr_client_field(that) ==
    [attr_set |-> IF that.host_srcip = AnyAddr THEN {}
                  ELSE {INTERNAL_IP4_ADDRESS, INTERNAL_IP4_NETMASK},
     ipaddr |-> that.client.addr]

(* get_internal_addr: the address configured for the peer (rightsourceip) *)
(* is offered with its netmask; no DNS or WINS source exists.             *)
get_internal_addr(that) ==
    [attr_set |-> IF that.host_srcip = AnyAddr THEN {}
                  ELSE {INTERNAL_IP4_ADDRESS, INTERNAL_IP4_NETMASK},
     ipaddr |-> that.host_srcip]

(* Its side effect on the connection: the peer's client becomes srcip/32. *)
get_internal_addr_client(that) ==
    IF that.host_srcip = AnyAddr THEN that
    ELSE [that EXCEPT !.client = [addr |-> that.host_srcip, maskbits |-> 32],
                      !.has_client = TRUE]

(* set_internal_addr applies an address iff the ADDRESS kind came with a  *)
(* non-any value; it then replaces srcip and the client subnet.           *)
set_internal_addr_applies(ia) ==
    INTERNAL_IP4_ADDRESS \in ia.attr_set /\ ia.ipaddr # AnyAddr

(* Seeded fault for mutation testing: the client subnet is not updated.   *)
set_internal_addr_no_client(this, ia) ==
    IF set_internal_addr_applies(ia)
    THEN [this EXCEPT !.host_srcip = ia.ipaddr, !.has_client = TRUE]
    ELSE this

set_internal_addr(this, ia) ==
    IF set_internal_addr_applies(ia)
    THEN [this EXCEPT !.host_srcip = ia.ipaddr,
                      !.client = [addr |-> ia.ipaddr, maskbits |-> 32],
                      !.has_client = TRUE]
    ELSE this

(* The attribute loop of modecfg_build_msg: one TLV per kind in attr_set; *)
(* the ADDRESS TLV carries ipaddr when it is not the any-address.         *)
EncodeAttrs(ia) ==
    {[kind |-> k,
      value |-> IF k = INTERNAL_IP4_ADDRESS THEN ia.ipaddr ELSE AnyAddr] :
        k \in ia.attr_set}

(* modecfg_build_msg: HASH over st_msgid, then the ATTR payload.  The     *)
(* header msgid is the session's st_msgid as well.                        *)
modecfg_build_msg(msgid, msg_type, ia) ==
    [type |-> msg_type, msgid |-> msgid, hashid |-> msgid,
     tlvs |-> EncodeAttrs(ia)]

(* modecfg_parse_attributes: every kind sets its bit; a 4-byte ADDRESS    *)
(* value sets ipaddr.                                                      *)
modecfg_parse_attributes(tlvs) ==
    [attr_set |-> {t.kind : t \in tlvs},
     ipaddr |-> IF \E t \in tlvs : t.kind = INTERNAL_IP4_ADDRESS /\ t.value # AnyAddr
                THEN (CHOOSE t \in tlvs : t.kind = INTERNAL_IP4_ADDRESS
                                          /\ t.value # AnyAddr).value
                ELSE AnyAddr]

(* CHECK_QUICK_HASH recomputes the HMAC over st_msgid, which              *)
(* modecfg_parse_msg has just set to the header msgid.                    *)
modecfg_hash_ok(m) == m.hashid = m.msgid

(* modecfg_parse_msg: the status of the parse of m for the expected type. *)
modecfg_parse_msg(m, isama_type) ==
    IF ~modecfg_hash_ok(m) THEN "STF_FAIL"
    ELSE IF m.type = isama_type THEN "STF_OK"
    ELSE "STF_IGNORE"

-----------------------------------------------------------------------------
(* Sending: modecfg_send_msg and its two callers.                         *)

(* The first retransmission delay, retransmit_timeout(try = 0).          *)
EVENT_RETRANSMIT_DELAY_0 == get_retransmit_timeout(0)

(* Seeded fault for mutation testing: a retransmit event is scheduled only *)
(* when the session has no event at all.                                   *)
modecfg_send_msg_no_retransmit(p, msg_type, ia) ==
    \E id \in MsgIds :
        LET m == modecfg_build_msg(id, msg_type, ia) IN
        /\ st_msgid' = [st_msgid EXCEPT ![p] = id]
        /\ st_tpacket' = [st_tpacket EXCEPT ![p] = m]
        /\ net' = net \cup {m}
        /\ st_event' =
              IF st_event[p].type = "EVENT_NULL"
              THEN [st_event EXCEPT ![p] =
                      [type |-> "EVENT_RETRANSMIT",
                       at |-> now + EVENT_RETRANSMIT_DELAY_0, try |-> 0]]
              ELSE st_event
        /\ st_started' = [st_started EXCEPT ![p] = TRUE]
        /\ xmits' = [xmits EXCEPT ![p] = 1]
        /\ sentAt' = [sentAt EXCEPT ![p] = now]

(* modecfg_send_msg: a fresh msgid, the datagram cached in st_tpacket and *)
(* sent, and a retransmit event scheduled unless one is already pending.  *)
modecfg_send_msg(p, msg_type, ia) ==
    \E id \in MsgIds :
        LET m == modecfg_build_msg(id, msg_type, ia) IN
        /\ st_msgid' = [st_msgid EXCEPT ![p] = id]
        /\ st_tpacket' = [st_tpacket EXCEPT ![p] = m]
        /\ net' = net \cup {m}
        /\ st_event' =
              IF st_event[p].type # "EVENT_RETRANSMIT"
              THEN [st_event EXCEPT ![p] =
                      [type |-> "EVENT_RETRANSMIT",
                       at |-> now + EVENT_RETRANSMIT_DELAY_0, try |-> 0]]
              ELSE st_event
        /\ st_started' = [st_started EXCEPT ![p] = TRUE]
        /\ xmits' = [xmits EXCEPT ![p] = 1]
        /\ sentAt' = [sentAt EXCEPT ![p] = now]

(* modecfg_send_request: pull mode, the initiator asks for an address.    *)
modecfg_send_request ==
    /\ mode = "pull"
    /\ st_state["I"] = "MODE_CFG_I0"
    /\ st_state' = [st_state EXCEPT !["I"] = "MODE_CFG_I1"]
    /\ modecfg_send_msg("I", "ISAKMP_CFG_REQUEST",
          [init_internal_addr EXCEPT
              !.attr_set = {INTERNAL_IP4_ADDRESS, INTERNAL_IP4_NETMASK}])
    /\ UNCHANGED <<mode, st_vars_set, conn_vars, now, lost, forged>>

(* modecfg_send_set: push mode, the responder hands out the address.      *)
modecfg_send_set ==
    /\ mode = "push"
    /\ st_state["R"] = "MAIN_R3"
    /\ st_state' = [st_state EXCEPT !["R"] = "MODE_CFG_R1"]
    /\ r_that' = get_internal_addr_client(r_that)
    /\ modecfg_send_msg("R", "ISAKMP_CFG_SET", get_internal_addr(r_that))
    /\ UNCHANGED <<mode, st_vars_set, i_this, now, lost, forged>>

(* Dispatcher (spec 4.5): in push mode the initiator waits for SET.       *)
StartPush ==
    /\ mode = "push"
    /\ st_state["I"] = "MODE_CFG_I0"
    /\ st_state' = [st_state EXCEPT !["I"] = "MODE_CFG_I2"]
    /\ UNCHANGED <<mode, st_msgid, st_event, st_tpacket, st_started,
                   st_vars_set, conn_vars, net, now, lost, forged, xmits,
                   sentAt>>

-----------------------------------------------------------------------------
(* Receiving: the four state transition functions.  Each starts with      *)
(* modecfg_parse_msg, which sets st_msgid from the header first.          *)

(* Every handler returns early when the parse is not STF_OK; the only     *)
(* trace it leaves is st_msgid, already overwritten by the header msgid.  *)
modecfg_parse_msg_fails(p, m) ==
    /\ st_state[p] \in DOMAIN Expected
    /\ modecfg_parse_msg(m, Expected[st_state[p]]) # "STF_OK"
    /\ st_msgid' = [st_msgid EXCEPT ![p] = m.msgid]
    /\ UNCHANGED <<mode, st_state, st_event, st_tpacket, st_started,
                   st_vars_set, conn_vars, net, now, lost, xmits, sentAt>>

(* modecfg_inR0: answer a REQUEST with the configured address.  The       *)
(* dispatcher sends the reply (SMF_REPLY) and ends the exchange.          *)
modecfg_inR0(m) ==
    /\ st_state["R"] = "MODE_CFG_R0"
    /\ modecfg_parse_msg(m, "ISAKMP_CFG_REQUEST") = "STF_OK"
    /\ LET reply == modecfg_build_msg(m.msgid, "ISAKMP_CFG_REPLY",
                                      get_internal_addr(r_that))
       IN /\ net' = net \cup {reply}
          /\ st_tpacket' = [st_tpacket EXCEPT !["R"] = reply]
    /\ r_that' = get_internal_addr_client(r_that)
    /\ st_msgid' = [st_msgid EXCEPT !["R"] = 0]
    /\ st_state' = [st_state EXCEPT !["R"] = "MODE_CFG_R2"]
    /\ UNCHANGED <<mode, st_event, st_started, st_vars_set, i_this, now, lost,
                   xmits, sentAt>>

(* Seeded fault for mutation testing: the parse status is not checked.   *)
modecfg_inR1_unchecked(m) ==
    /\ st_state["R"] = "MODE_CFG_R1"
    /\ st_msgid' = [st_msgid EXCEPT !["R"] = 0]
    /\ st_state' = [st_state EXCEPT !["R"] = "MODE_CFG_R2"]
    /\ UNCHANGED <<mode, st_event, st_tpacket, st_started, st_vars_set,
                   conn_vars, net, now, lost, xmits, sentAt>>

(* modecfg_inR1: the ACK closes the push exchange.                         *)
modecfg_inR1(m) ==
    /\ st_state["R"] = "MODE_CFG_R1"
    /\ modecfg_parse_msg(m, "ISAKMP_CFG_ACK") = "STF_OK"
    /\ st_msgid' = [st_msgid EXCEPT !["R"] = 0]
    /\ st_state' = [st_state EXCEPT !["R"] = "MODE_CFG_R2"]
    /\ UNCHANGED <<mode, st_event, st_tpacket, st_started, st_vars_set,
                   conn_vars, net, now, lost, xmits, sentAt>>

(* modecfg_inI1: apply the address of the REPLY.                          *)
modecfg_inI1(m) ==
    /\ st_state["I"] = "MODE_CFG_I1"
    /\ modecfg_parse_msg(m, "ISAKMP_CFG_REPLY") = "STF_OK"
    /\ LET ia == modecfg_parse_attributes(m.tlvs) IN
       /\ st_vars_set' = [st_vars_set EXCEPT !["I"] = set_internal_addr_applies(ia)]
       /\ i_this' = set_internal_addr(i_this, ia)
    /\ st_msgid' = [st_msgid EXCEPT !["I"] = 0]
    /\ st_state' = [st_state EXCEPT !["I"] = "MODE_CFG_I3"]
    /\ UNCHANGED <<mode, st_event, st_tpacket, st_started, r_that, net, now,
                   lost, xmits, sentAt>>

(* Seeded fault for mutation testing: the SET is applied whatever the     *)
(* parse status.                                                           *)
modecfg_inI2_unchecked(m) ==
    /\ st_state["I"] = "MODE_CFG_I2"
    /\ LET ia == modecfg_parse_attributes(m.tlvs)
           ack == modecfg_build_msg(m.msgid, "ISAKMP_CFG_ACK",
                     [init_internal_addr EXCEPT
                         !.attr_set = ia.attr_set \cap SUPPORTED_ATTR_SET])
       IN /\ st_vars_set' = [st_vars_set EXCEPT !["I"] = set_internal_addr_applies(ia)]
          /\ i_this' = set_internal_addr(i_this, ia)
          /\ net' = net \cup {ack}
          /\ st_tpacket' = [st_tpacket EXCEPT !["I"] = ack]
    /\ st_msgid' = [st_msgid EXCEPT !["I"] = 0]
    /\ st_state' = [st_state EXCEPT !["I"] = "MODE_CFG_I3"]
    /\ UNCHANGED <<mode, st_event, st_started, r_that, now, lost, xmits, sentAt>>

(* modecfg_inI2: apply the address of the SET and acknowledge every       *)
(* supported kind with a zero-length attribute.                           *)
modecfg_inI2(m) ==
    /\ st_state["I"] = "MODE_CFG_I2"
    /\ modecfg_parse_msg(m, "ISAKMP_CFG_SET") = "STF_OK"
    /\ LET ia == modecfg_parse_attributes(m.tlvs)
           ack == modecfg_build_msg(m.msgid, "ISAKMP_CFG_ACK",
                     [init_internal_addr EXCEPT
                         !.attr_set = ia.attr_set \cap SUPPORTED_ATTR_SET])
       IN /\ st_vars_set' = [st_vars_set EXCEPT !["I"] = set_internal_addr_applies(ia)]
          /\ i_this' = set_internal_addr(i_this, ia)
          /\ net' = net \cup {ack}
          /\ st_tpacket' = [st_tpacket EXCEPT !["I"] = ack]
    /\ st_msgid' = [st_msgid EXCEPT !["I"] = 0]
    /\ st_state' = [st_state EXCEPT !["I"] = "MODE_CFG_I3"]
    /\ UNCHANGED <<mode, st_event, st_started, r_that, now, lost, xmits, sentAt>>

(* The dispatcher hands a datagram to the handler of the state of the     *)
(* session it is addressed to; in any other state it is dropped.          *)
Receive(m) ==
    \/ modecfg_inR0(m)
    \/ modecfg_inR1(m)
    \/ modecfg_inI1(m)
    \/ modecfg_inI2(m)
    \/ modecfg_parse_msg_fails(Dest(m), m)

(* A datagram of the network is delivered; it stays available, since the  *)
(* network may deliver it again.                                           *)
Deliver(m) ==
    /\ m \in net
    /\ Receive(m)
    /\ UNCHANGED forged

(* An attacker on the path injects a datagram with the SA's cookies and   *)
(* any header msgid and type, but cannot compute the HASH.               *)
ForgedMsgs == [type : MsgTypes, msgid : {0} \cup MsgIds, hashid : {BadHash},
               tlvs : {{[kind |-> INTERNAL_IP4_ADDRESS, value |-> a]} : a \in Addrs}]

Forge ==
    /\ forged < MaxForged
    /\ \E m \in ForgedMsgs :
          /\ Receive(m)
          /\ forged' = forged + 1

(* The network drops a datagram (and all its future duplicates).         *)
Lose(m) ==
    /\ lost < MaxLoss
    /\ m \in net
    /\ net' = net \ {m}
    /\ lost' = lost + 1
    /\ UNCHANGED <<mode, session_vars, conn_vars, now, forged, xmits, sentAt>>

-----------------------------------------------------------------------------
(* The retransmission driver (spec 4.5): the earliest pending retransmit  *)
(* event fires and advances the clock to its deadline.                    *)

TimerDue(p) ==
    /\ st_event[p].type = "EVENT_RETRANSMIT"
    /\ \A q \in Peers : st_event[q].type = "EVENT_RETRANSMIT"
                          => st_event[p].at <= st_event[q].at

(* The reply has arrived (st_msgid is back to 0): the event is cancelled. *)
RetransmitCancel(p) ==
    /\ TimerDue(p)
    /\ st_msgid[p] = 0
    /\ now' = st_event[p].at
    /\ st_event' = [st_event EXCEPT ![p] = NoEvent]
    /\ UNCHANGED <<mode, st_state, st_msgid, st_tpacket, st_started,
                   st_vars_set, conn_vars, net, lost, forged, xmits, sentAt>>

(* No reply yet and budget left: resend the cached datagram.              *)
Retransmit(p) ==
    /\ TimerDue(p)
    /\ st_msgid[p] # 0
    /\ get_retransmit_timeout(st_event[p].try + 1) # 0
    /\ now' = st_event[p].at
    /\ net' = net \cup {st_tpacket[p]}
    /\ st_event' = [st_event EXCEPT ![p] =
          [type |-> "EVENT_RETRANSMIT",
           at |-> st_event[p].at + get_retransmit_timeout(st_event[p].try + 1),
           try |-> st_event[p].try + 1]]
    /\ xmits' = [xmits EXCEPT ![p] = xmits[p] + 1]
    /\ UNCHANGED <<mode, st_state, st_msgid, st_tpacket, st_started,
                   st_vars_set, conn_vars, lost, forged, sentAt>>

(* Budget exhausted: the peer is dead and the session is deleted.         *)
RetransmitGiveUp(p) ==
    /\ TimerDue(p)
    /\ st_msgid[p] # 0
    /\ get_retransmit_timeout(st_event[p].try + 1) = 0
    /\ now' = st_event[p].at
    /\ st_state' = [st_state EXCEPT ![p] = "DELETED"]
    /\ st_event' = [st_event EXCEPT ![p] = NoEvent]
    /\ UNCHANGED <<mode, st_msgid, st_tpacket, st_started, st_vars_set,
                   conn_vars, net, lost, forged, xmits, sentAt>>

-----------------------------------------------------------------------------

(* After phase 1: the initiator in MODE_CFG_I0, the responder waiting for *)
(* a REQUEST (pull) or about to push (MAIN_R3), both with their phase-1   *)
(* EVENT_SA_REPLACE pending; any configured source addresses.             *)
Init ==
    /\ mode \in {"pull", "push"}
    /\ st_state = [I |-> "MODE_CFG_I0",
                   R |-> IF mode = "pull" THEN "MODE_CFG_R0" ELSE "MAIN_R3"]
    /\ st_msgid = [p \in Peers |-> 0]
    /\ st_event = [p \in Peers |-> [NoEvent EXCEPT !.type = "EVENT_SA_REPLACE"]]
    /\ st_tpacket = [p \in Peers |-> NoPacket]
    /\ st_started = [p \in Peers |-> FALSE]
    /\ st_vars_set = [p \in Peers |-> FALSE]
    /\ i_this \in {[host_srcip |-> a, client |-> [addr |-> Host, maskbits |-> 32],
                    has_client |-> FALSE] : a \in Addr}
    /\ r_that \in {[host_srcip |-> a, client |-> [addr |-> Host, maskbits |-> 32],
                    has_client |-> FALSE] : a \in Addr}
    /\ net = {}
    /\ now = 0
    /\ lost = 0
    /\ forged = 0
    /\ xmits = [p \in Peers |-> 0]
    /\ sentAt = [p \in Peers |-> 0]

Next ==
    \/ modecfg_send_request
    \/ modecfg_send_set
    \/ StartPush
    \/ \E m \in net : Deliver(m)
    \/ Forge
    \/ \E m \in net : Lose(m)
    \/ \E p \in Peers : RetransmitCancel(p) \/ Retransmit(p) \/ RetransmitGiveUp(p)

Spec == Init /\ [][Next]_vars

(* The daemon's event loop fires every due timer and starts ModeCfg once  *)
(* phase 1 is done; nothing is assumed of the network.                    *)
Fairness ==
    /\ WF_vars(modecfg_send_request)
    /\ WF_vars(modecfg_send_set)
    /\ WF_vars(StartPush)
    /\ \A p \in Peers : WF_vars(RetransmitCancel(p) \/ Retransmit(p)
                                \/ RetransmitGiveUp(p))

LiveSpec == Spec /\ Fairness

(* A network that delivers every kind of datagram it still holds.        *)
FairDeliverySpec ==
    LiveSpec /\ \A t \in MsgTypes : WF_vars(\E m \in net : m.type = t /\ Deliver(m))

-----------------------------------------------------------------------------
(* Properties.                                                             *)

TypeOK ==
    /\ mode \in {"pull", "push"}
    /\ st_state \in [Peers -> States]
    /\ st_msgid \in [Peers -> {0} \cup MsgIds]
    /\ st_event \in [Peers -> Event]
    /\ st_tpacket \in [Peers -> Msg \cup {NoPacket}]
    /\ st_started \in [Peers -> BOOLEAN]
    /\ st_vars_set \in [Peers -> BOOLEAN]
    /\ i_this \in End
    /\ r_that \in End
    /\ net \subseteq Msg
    /\ now \in Nat
    /\ lost \in 0 .. MaxLoss
    /\ forged \in 0 .. MaxForged
    /\ xmits \in [Peers -> Nat]
    /\ sentAt \in [Peers -> Nat]

(* The inductive form of TypeOK: a pending retransmit event always has a  *)
(* cached datagram to resend (modecfg_send_msg fills st_tpacket before it  *)
(* schedules EVENT_RETRANSMIT).                                            *)
TypeInv ==
    /\ TypeOK
    /\ \A p \in Peers : st_event[p].type = "EVENT_RETRANSMIT" => st_tpacket[p] \in Msg

(* Once the initiator has finished ModeCfg, it holds exactly the address  *)
(* the responder configured for it (modecfg_inI1/inI2 via                 *)
(* set_internal_addr), with a /32 client, and the responder's policy for  *)
(* the peer (get_internal_addr) names that same client; when the          *)
(* responder had nothing to assign, nothing was applied.  Duplicated,     *)
(* reordered, lost and forged datagrams must not change this.            *)
AddressAgreement ==
    st_state["I"] = "MODE_CFG_I3" =>
        /\ st_vars_set["I"] <=> r_that.host_srcip # AnyAddr
        /\ st_vars_set["I"] =>
              /\ i_this.host_srcip = r_that.host_srcip
              /\ i_this.client = [addr |-> r_that.host_srcip, maskbits |-> 32]
              /\ i_this.has_client
              /\ r_that.client = i_this.client
              /\ r_that.has_client

(* A session that receives the last message of an exchange completes only *)
(* after its peer sent it: in pull mode the initiator finishes (inI1)     *)
(* only after the responder answered (inR0); in push mode the responder   *)
(* finishes (inR1) only after the initiator acknowledged (inI2).          *)
CompletionOrder ==
    /\ mode = "pull" /\ st_state["I"] = "MODE_CFG_I3" => st_state["R"] = "MODE_CFG_R2"
    /\ mode = "push" /\ st_state["R"] = "MODE_CFG_R2" => st_state["I"] = "MODE_CFG_I3"

(* The sum of get_retransmit_timeout(0) .. get_retransmit_timeout(TRIES). *)
TotalBackoff ==
    LET total[n \in 0 .. RETRANSMIT_TRIES] ==
            IF n = 0 THEN get_retransmit_timeout(0)
            ELSE total[n - 1] + get_retransmit_timeout(n)
    IN  total[RETRANSMIT_TRIES]

(* A session is declared dead (spec 4.1 and 8) only after its request was *)
(* sent RETRANSMIT_TRIES + 1 = 6 times and TotalBackoff (165 s) has       *)
(* passed since the first transmission: the seventh attempt never occurs. *)
DeadPeerSchedule ==
    [][\A p \in Peers :
          st_state[p] # "DELETED" /\ st_state'[p] = "DELETED" =>
             /\ xmits[p] = RETRANSMIT_TRIES + 1
             /\ now' - sentAt[p] = TotalBackoff]_vars

(* Every exchange a session starts ends: a session waiting for a reply    *)
(* (MODE_CFG_I1 or MODE_CFG_R1) completes or is deleted by the            *)
(* retransmission driver.                                                  *)
ExchangeTerminates ==
    \A p \in Peers :
        st_state[p] \in {"MODE_CFG_I1", "MODE_CFG_R1"}
            ~> st_state[p] \in {"MODE_CFG_I3", "MODE_CFG_R2", "DELETED"}

(* Spec section 8: st_msgid is zero iff no exchange is in flight, i.e.    *)
(* non-zero exactly while the session waits for the answer to a datagram  *)
(* it sent (MODE_CFG_I1, MODE_CFG_R1).                                     *)
MsgIdZeroIffIdle ==
    \A p \in Peers :
        st_state[p] # "DELETED" =>
            (st_msgid[p] # 0 <=> st_state[p] \in {"MODE_CFG_I1", "MODE_CFG_R1"})

(* Spec section 1: retransmission keeps the exchange resilient on an      *)
(* unreliable transport, so with a single lost datagram ModeCfg still     *)
(* completes at both ends.                                                 *)
BothComplete ==
    <>(st_state["I"] = "MODE_CFG_I3" /\ st_state["R"] = "MODE_CFG_R2")

-----------------------------------------------------------------------------
(* Refinement: the exchange implements ModeCfgExchange.  A session's      *)
(* st_state gives its phase; the initiator's own address is i_this's      *)
(* host_srcip and the offer is the responder's rightsourceip for it.      *)

IniPhase ==
    IF st_state["I"] = "MODE_CFG_I0" THEN "idle"
    ELSE IF st_state["I"] \in {"MODE_CFG_I1", "MODE_CFG_I2"} THEN "waiting"
    ELSE IF st_state["I"] = "MODE_CFG_I3" THEN "done"
    ELSE "dead"

RspPhase ==
    IF st_state["R"] \in {"MODE_CFG_R0", "MAIN_R3"} THEN "idle"
    ELSE IF st_state["R"] = "MODE_CFG_R1" THEN "waiting"
    ELSE IF st_state["R"] = "MODE_CFG_R2" THEN "done"
    ELSE "dead"

Exchange == INSTANCE ModeCfgExchange
    WITH Addrs <- Addr, ini <- IniPhase, rsp <- RspPhase,
         addr <- i_this.host_srcip, offer <- r_that.host_srcip

(* Every step of the handlers, the network and the retransmission driver  *)
(* is a step of the abstract exchange or leaves its phases and addresses  *)
(* alone: no session completes on a message its peer never sent (a       *)
(* forged, stale or duplicated datagram included), and the initiator      *)
(* takes exactly the offered address.                                      *)
ExchangeRefinement == Exchange!Spec

=============================================================================
