----------------------------- MODULE ModeCfgCodec -----------------------------
(***************************************************************************)
(* The ModeCfg attribute codec of pluto (src/programs/pluto/modecfg.c):   *)
(* the attribute loop of modecfg_build_msg, which walks attr_set bit by   *)
(* bit and, for DNS and NBNS, may stay on a kind to emit a second server  *)
(* (dont_advance), and modecfg_parse_attributes, which reads the TLVs     *)
(* back into a fresh internal_addr.                                        *)
(*                                                                         *)
(* One message is built and parsed: either this code encodes a record it  *)
(* can really hold (the request, get_internal_addr's offer, or the ACK    *)
(* echoing a peer's kinds) for the initiator to decode, or a peer of       *)
(* another implementation sends an attribute list.  A TLV is its kind and *)
(* its value: an address, a 32-bit number, a subnet, or Empty for a       *)
(* zero-length value.  Wire encoding and the HASH are left to ModeCfg.    *)
(***************************************************************************)
EXTENDS Integers, Sequences, SequencesExt

CONSTANTS
    Addrs,       \* IPv4 addresses other than the any-address
    AnyAddr,     \* 0.0.0.0
    Host         \* the sender's own client address

(* The ModeCfg attribute kinds (RFC draft numbering used by pluto).       *)
INTERNAL_IP4_ADDRESS == 1
INTERNAL_IP4_NETMASK == 2
INTERNAL_IP4_DNS == 3
INTERNAL_IP4_NBNS == 4
INTERNAL_ADDRESS_EXPIRY == 5
INTERNAL_IP4_SUBNET == 13

SUPPORTED_ATTR_SET == {INTERNAL_IP4_ADDRESS, INTERNAL_IP4_NETMASK,
                       INTERNAL_IP4_DNS, INTERNAL_IP4_NBNS}

Addr == Addrs \cup {AnyAddr}
Empty == "zero-length"

(* struct internal_addr.                                                   *)
InternalAddr == [attr_set : SUBSET (0 .. INTERNAL_IP4_SUBNET), ipaddr : Addr,
                 dns : [0 .. 1 -> Addr], wins : [0 .. 1 -> Addr]]

init_internal_addr ==
    [attr_set |-> {}, ipaddr |-> AnyAddr,
     dns |-> [i \in 0 .. 1 |-> AnyAddr], wins |-> [i \in 0 .. 1 |-> AnyAddr]]

(* The subnet mask bytes of the INTERNAL_IP4_SUBNET branch: byte t takes  *)
(* bits[m] while fewer than 8 mask bits remain, else 0xff.                *)
SubnetBits == <<0, 128, 192, 224, 240, 248, 252, 254>>

MaskBytes(maskbits) ==
    [t \in 0 .. 3 |->
        LET m == IF maskbits - 8 * t < 0 THEN 0 ELSE maskbits - 8 * t
        IN IF m < 8 THEN SubnetBits[m + 1] ELSE 255]

(* The INTERNAL_IP4_NETMASK value, the four bytes of a u_int: 0 for a /0  *)
(* client, 0xffffffff (in either byte order) otherwise.                    *)
NetmaskValue(maskbits) ==
    IF maskbits = 0 THEN <<0, 0, 0, 0>> ELSE <<255, 255, 255, 255>>

(* An address attribute: its 4 bytes when not the any-address.            *)
AddrValue(a) == IF a # AnyAddr THEN a ELSE Empty

(* One pass of the attribute loop of modecfg_build_msg from attr_type t,  *)
(* with the DNS and WINS indices d and w, for a sender whose own client   *)
(* is self.  A present bit emits one TLV; DNS and NBNS stay on their kind *)
(* while another non-any server follows the one just emitted.            *)
RECURSIVE EmitFrom(_, _, _, _, _)
EmitFrom(t, ia, d, w, self) ==
    IF \A k \in ia.attr_set : k < t THEN <<>>
    ELSE IF t \notin ia.attr_set THEN EmitFrom(t + 1, ia, d, w, self)
    ELSE IF t = INTERNAL_IP4_DNS THEN
        LET d2 == IF ia.dns[d] # AnyAddr THEN d + 1 ELSE d
            stay == d2 < 2 /\ ia.dns[d2] # AnyAddr
        IN <<[kind |-> t, value |-> AddrValue(ia.dns[d])]>>
           \o EmitFrom(IF stay THEN t ELSE t + 1, ia, d2, w, self)
    ELSE IF t = INTERNAL_IP4_NBNS THEN
        LET w2 == IF ia.wins[w] # AnyAddr THEN w + 1 ELSE w
            stay == w2 < 2 /\ ia.wins[w2] # AnyAddr
        IN <<[kind |-> t, value |-> AddrValue(ia.wins[w])]>>
           \o EmitFrom(IF stay THEN t ELSE t + 1, ia, d, w2, self)
    ELSE
        LET value ==
              IF t = INTERNAL_IP4_ADDRESS THEN AddrValue(ia.ipaddr)
              ELSE IF t = INTERNAL_IP4_NETMASK THEN NetmaskValue(self.maskbits)
              ELSE IF t = INTERNAL_IP4_SUBNET
                   THEN <<self.addr, MaskBytes(self.maskbits)>>
              ELSE Empty
        IN <<[kind |-> t, value |-> value]>> \o EmitFrom(t + 1, ia, d, w, self)

(* The ATTR payload modecfg_build_msg emits for ia.                        *)
modecfg_build_attrs(ia, self) == EmitFrom(0, ia, 0, 0, self)

(* Seeded fault for mutation testing: the ADDRESS case does not fall      *)
(* through to the flag update.                                             *)
parse_attribute_no_fallthrough(ia, attr) ==
    CASE attr.kind = INTERNAL_IP4_ADDRESS ->
            IF attr.value \in Addr THEN [ia EXCEPT !.ipaddr = attr.value] ELSE ia
      [] attr.kind \in {INTERNAL_IP4_NETMASK, INTERNAL_IP4_DNS,
                        INTERNAL_IP4_SUBNET, INTERNAL_IP4_NBNS} ->
            [ia EXCEPT !.attr_set = @ \cup {attr.kind}]
      [] OTHER -> ia

(* One iteration of modecfg_parse_attributes: a 4-byte ADDRESS value sets *)
(* ipaddr and falls through; the five known kinds set their bit; any      *)
(* other kind is logged and skipped.                                       *)
parse_attribute(ia, attr) ==
    LET ia2 == IF attr.kind = INTERNAL_IP4_ADDRESS /\ attr.value \in Addr
               THEN [ia EXCEPT !.ipaddr = attr.value] ELSE ia
    IN IF attr.kind \in {INTERNAL_IP4_ADDRESS, INTERNAL_IP4_NETMASK,
                         INTERNAL_IP4_DNS, INTERNAL_IP4_SUBNET, INTERNAL_IP4_NBNS}
       THEN [ia2 EXCEPT !.attr_set = @ \cup {attr.kind}]
       ELSE ia2

(* modecfg_parse_attributes into the fresh candidate of modecfg_parse_msg. *)
modecfg_parse_attributes(attrs) == FoldLeft(parse_attribute, init_internal_addr, attrs)

-----------------------------------------------------------------------------
(* The records this code encodes: the REQUEST (ADDRESS and NETMASK, all   *)
(* any), get_internal_addr's offer (nothing, or ADDRESS and NETMASK with  *)
(* the configured address) and the ACK, which echoes the supported kinds  *)
(* of the SET with every value any.  No path fills dns[] or wins[].       *)
OwnRecords ==
    {[init_internal_addr EXCEPT !.attr_set = S] : S \in SUBSET SUPPORTED_ATTR_SET}
    \cup {[init_internal_addr EXCEPT
              !.attr_set = {INTERNAL_IP4_ADDRESS, INTERNAL_IP4_NETMASK},
              !.ipaddr = a] : a \in Addrs}

(* The sender's own client (spd.this.client) that the NETMASK and SUBNET  *)
(* values are taken from.                                                  *)
Selves == [addr : Addrs \cup {Host}, maskbits : {0, 24, 32}]

(* Attribute lists a peer of another implementation may send: up to two  *)
(* TLVs, addresses for the address kinds.                                  *)
PeerTLVs == {[kind |-> k, value |-> v] :
                k \in {INTERNAL_IP4_ADDRESS, INTERNAL_IP4_DNS, INTERNAL_IP4_NBNS},
                v \in Addrs \cup {Empty}}
            \cup {[kind |-> INTERNAL_ADDRESS_EXPIRY, value |-> Empty]}
PeerAttrs == {<<>>} \cup {<<x>> : x \in PeerTLVs} \cup {<<x, y>> : x, y \in PeerTLVs}

VARIABLES
    src,       \* "own": this code encodes ia; "peer": another implementation
    ia,        \* the record this code encodes
    wire,      \* the attribute list on the wire
    got,       \* what modecfg_parse_attributes returned
    stage      \* "idle", "sent", "parsed"

vars == <<src, ia, wire, got, stage>>

Init ==
    /\ src \in {"own", "peer"}
    /\ ia \in IF src = "own" THEN OwnRecords ELSE {init_internal_addr}
    /\ wire = <<>>
    /\ got = init_internal_addr
    /\ stage = "idle"

(* This code sends: modecfg_build_msg's attribute loop.                   *)
modecfg_build_msg ==
    /\ src = "own" /\ stage = "idle"
    /\ \E self \in Selves : wire' = modecfg_build_attrs(ia, self)
    /\ stage' = "sent"
    /\ UNCHANGED <<src, ia, got>>

(* A peer of another implementation sends its own attribute list.        *)
PeerSends ==
    /\ src = "peer" /\ stage = "idle"
    /\ wire' \in PeerAttrs
    /\ stage' = "sent"
    /\ UNCHANGED <<src, ia, got>>

(* The receiver parses the attribute payload.                             *)
Receive ==
    /\ stage = "sent"
    /\ got' = modecfg_parse_attributes(wire)
    /\ stage' = "parsed"
    /\ UNCHANGED <<src, ia, wire>>

Next == modecfg_build_msg \/ PeerSends \/ Receive

Spec == Init /\ [][Next]_vars

-----------------------------------------------------------------------------
(* Spec section 8: encode-then-decode of an InternalAddress preserves     *)
(* ipaddr, dns, wins and attr_set restricted to the supported kinds, for  *)
(* every record modecfg_send_request, modecfg_send_set and modecfg_inI2   *)
(* encode, whatever the sender's own client.                               *)
RoundTrip ==
    src = "own" /\ stage = "parsed" =>
        /\ got.attr_set = ia.attr_set \cap SUPPORTED_ATTR_SET
        /\ got.ipaddr = ia.ipaddr
        /\ got.dns = ia.dns
        /\ got.wins = ia.wins

(* The servers of one kind that a received list carries, in order.        *)
Servers(attrs, k) ==
    LET vs == SelectSeq([i \in 1 .. Len(attrs) |-> attrs[i]],
                        LAMBDA x : x.kind = k /\ x.value \in Addrs)
    IN [i \in 0 .. 1 |-> IF i < Len(vs) THEN vs[i + 1].value ELSE AnyAddr]

(* Spec 4.4, receive column: a DNS or NBNS attribute is parsed as an      *)
(* address, so the decoded record holds the servers a peer sent.          *)
DecodeKeepsServers ==
    stage = "parsed" =>
        /\ got.dns = Servers(wire, INTERNAL_IP4_DNS)
        /\ got.wins = Servers(wire, INTERNAL_IP4_NBNS)
=============================================================================
