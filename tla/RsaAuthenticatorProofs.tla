------------------------ MODULE RsaAuthenticatorProofs ------------------------
(***************************************************************************)
(* Proof that the RSA authenticator authenticates the peer for every      *)
(* configuration of principals, keys and IKE_SA ends.                     *)
(***************************************************************************)
EXTENDS RsaAuthenticator, TLAPS

(* Every AUTH payload on the wire was emitted by a successful build at    *)
(* some end, signed with a key whose private half that end's owner holds. *)
WireInv ==
    \A p \in wire : \E f \in Ends :
        /\ built[f] = "SUCCESS"
        /\ p = BuiltPayload(f)
        /\ PubKey[Me[f]] \in Keys
        /\ Holder[PubKey[Me[f]]] = Me[f]

(* The status verify computes for payload p at end e.                     *)
VerifyResult(e, p) ==
    IF p.method # "AUTH_RSA" THEN "INVALID_ARG"
    ELSE IF TrustedKey[Peer[e]] = NoKey THEN "NOT_FOUND"
    ELSE verify_emsa_pkcs1_signature(TrustedKey[Peer[e]], VerifyOctets(e),
                                     p.data)

(* An end that ran verify recorded the status of the payload it was      *)
(* given, and an AUTH_RSA payload from the network carries a real key.    *)
RecvInv ==
    /\ received = [e \in Ends |-> received[e]]
    /\ \A e \in Ends : received[e] # NoPayload =>
          /\ verified[e] = VerifyResult(e, received[e])
          /\ received[e].method = "AUTH_RSA" => received[e].data.key \in Keys

(* The inductive invariant behind PeerAuthenticated and               *)
(* HonestPayloadAccepted.                                                  *)
AuthInv ==
    /\ phase \in [Ends -> {"none", "live", "freed"}]
    /\ built \in [Ends -> Status]
    /\ verified \in [Ends -> Status]
    /\ WireInv
    /\ RecvInv
    /\ PeerAuthenticated

USE AuthAssumption

LEMMA OppDiffers ==
    ASSUME NEW r \in Roles PROVE Opp(r) # r
  BY DEF Opp, Roles

(* A signature that verifies at e under a key held by an honest principal *)
(* was built by the other end of e's IKE_SA, owned by e's peer.           *)
LEMMA SignatureOrigin ==
    ASSUME WireInv,
           NEW e \in Ends, NEW sig \in KnownSigs,
           sig.key = TrustedKey[Peer[e]], sig.octets = VerifyOctets(e),
           Peer[e] \in Honest, TrustedKey[Peer[e]] # NoKey,
           Holder[TrustedKey[Peer[e]]] = Peer[e]
    PROVE  \E f \in Ends : /\ Sa[f] = Sa[e] /\ Role[f] # Role[e]
                           /\ Me[f] = Peer[e] /\ built[f] = "SUCCESS"
<1>1. CASE sig \in {p.data : p \in wire}
  <2>1. PICK p \in wire : sig = p.data
    BY <1>1
  <2>2. PICK f \in Ends : built[f] = "SUCCESS" /\ p = BuiltPayload(f)
    BY <2>1 DEF WireInv
  <2>3. BuildOctets(f) = VerifyOctets(e)
    BY <2>1, <2>2 DEF BuiltPayload
  <2>4. Sa[f] = Sa[e] /\ Role[f] = Opp(Role[e]) /\ Me[f] = Peer[e]
    BY <2>3 DEF BuildOctets, VerifyOctets, build_tbs_octets
  <2>5. Role[f] # Role[e]
    BY <2>4, OppDiffers
  <2>6. QED
    BY <2>2, <2>4, <2>5
<1>2. CASE sig \notin {p.data : p \in wire}
  <2>1. sig.key \in AttackerKeys
    BY <1>2 DEF KnownSigs
  <2>2. Holder[sig.key] \notin Honest
    BY <2>1 DEF AttackerKeys
  <2>3. QED
    BY <2>2
<1>3. QED
  BY <1>1, <1>2

(* Every signature the network can send carries a key of Keys.             *)
LEMMA KnownKeys ==
    ASSUME WireInv PROVE \A s \in KnownSigs : s.key \in Keys
  BY DEF WireInv, KnownSigs, BuiltPayload, AttackerKeys

LEMMA InitAuth == Init => AuthInv
  BY DEF Init, AuthInv, WireInv, RecvInv, PeerAuthenticated, Status

LEMMA NextAuth == AuthInv /\ [Next]_vars => AuthInv'
<1> SUFFICES ASSUME AuthInv, [Next]_vars PROVE AuthInv'
  OBVIOUS
<1> USE DEF AuthInv
<1>1. ASSUME NEW e \in Ends, rsa_authenticator_create(e) \/ destroy(e)
      PROVE AuthInv'
  BY <1>1 DEF rsa_authenticator_create, destroy, WireInv, RecvInv,
             PeerAuthenticated
<1>2. ASSUME NEW e \in Ends, build(e) PROVE AuthInv'
  <2> DEFINE status == IF PubKey[Me[e]] = NoKey THEN "NOT_FOUND"
                       ELSE IF Holder[PubKey[Me[e]]] # Me[e] THEN "NOT_FOUND"
                       ELSE "SUCCESS"
  <2>1. /\ built[e] = "NONE"
        /\ built' = [built EXCEPT ![e] = status]
        /\ wire' = IF status = "SUCCESS" THEN wire \cup {BuiltPayload(e)}
                   ELSE wire
        /\ UNCHANGED <<phase, verified>>
    BY <1>2 DEF build
  <2>2. \A f \in Ends : built[f] = "SUCCESS" => built'[f] = "SUCCESS"
    BY <2>1
  <2>3. status = "SUCCESS" => /\ PubKey[Me[e]] \in Keys
                              /\ Holder[PubKey[Me[e]]] = Me[e]
    OBVIOUS
  <2>4. built' \in [Ends -> Status]
    BY <2>1 DEF Status
  <2>5. WireInv'
    BY <2>1, <2>2, <2>3 DEF WireInv
  <2>6. PeerAuthenticated'
    BY <2>1, <2>2 DEF PeerAuthenticated
  <2>7. RecvInv'
    BY <1>2 DEF build, RecvInv
  <2>8. QED
    BY <2>1, <2>4, <2>5, <2>6, <2>7
<1>3. ASSUME NEW e \in Ends, NEW p \in Payloads, verify(e, p) PROVE AuthInv'
  <2> DEFINE pk == TrustedKey[Peer[e]]
             status == IF p.method # "AUTH_RSA" THEN "INVALID_ARG"
                       ELSE IF pk = NoKey THEN "NOT_FOUND"
                       ELSE verify_emsa_pkcs1_signature(pk, VerifyOctets(e),
                                                        p.data)
  <2>1. /\ verified' = [verified EXCEPT ![e] = status]
        /\ received' = [received EXCEPT ![e] = p]
        /\ UNCHANGED <<phase, built, wire>>
    BY <1>3 DEF verify
  <2>2. verified' \in [Ends -> Status]
    BY <2>1 DEF Status, verify_emsa_pkcs1_signature
  <2>3. WireInv'
    BY <2>1 DEF WireInv, BuiltPayload, BuildOctets, build_tbs_octets
  <2>4. status = "SUCCESS" =>
          /\ p.data \in KnownSigs
          /\ p.data.key = pk /\ p.data.octets = VerifyOctets(e)
          /\ pk # NoKey
    <3>1. status = "SUCCESS" => p.method = "AUTH_RSA"
      OBVIOUS
    <3>2. p.method = "AUTH_RSA" => p.data \in KnownSigs
      BY DEF Payloads
    <3>3. QED
      BY <3>1, <3>2 DEF verify_emsa_pkcs1_signature
  <2>5. PeerAuthenticated'
    <3> SUFFICES ASSUME NEW g \in Ends, verified'[g] = "SUCCESS",
                        Peer[g] \in Honest, TrustedKey[Peer[g]] # NoKey,
                        Holder[TrustedKey[Peer[g]]] = Peer[g]
                 PROVE  \E f \in Ends : /\ Sa[f] = Sa[g] /\ Role[f] # Role[g]
                                        /\ Me[f] = Peer[g]
                                        /\ built'[f] = "SUCCESS"
      BY DEF PeerAuthenticated
    <3>1. CASE g = e
      <4>1. status = "SUCCESS"
        BY <2>1, <3>1
      <4>2. QED
        BY <2>1, <2>4, <4>1, <3>1, SignatureOrigin
    <3>2. CASE g # e
      BY <2>1, <3>2 DEF PeerAuthenticated
    <3>3. QED
      BY <3>1, <3>2
  <2>6. RecvInv'
    <3>1. status = VerifyResult(e, p)
      BY DEF VerifyResult
    <3>2. p.method = "AUTH_RSA" => p.data.key \in Keys
      BY KnownKeys DEF Payloads
    <3>3. QED
      BY <2>1, <3>1, <3>2 DEF RecvInv
  <2>7. QED
    BY <2>1, <2>2, <2>3, <2>5, <2>6
<1>4. CASE UNCHANGED vars
  BY <1>4 DEF vars, WireInv, RecvInv, PeerAuthenticated
<1>5. QED
  BY <1>1, <1>2, <1>3, <1>4 DEF Next

(* For every configuration of principals, keys and trust, an end whose    *)
(* verify accepted a peer that is honest and holds the key trusted for    *)
(* it has a partner end of the same IKE_SA, owned by that peer, whose     *)
(* build succeeded: replayed, reflected and attacker-signed AUTH payloads *)
(* are refused by rsa_authenticator.c's verify.                           *)
THEOREM PeerAuthenticatedHolds == Spec => []PeerAuthenticated
<1>1. Init => AuthInv
  BY InitAuth
<1>2. AuthInv /\ [Next]_vars => AuthInv'
  BY NextAuth
<1>3. AuthInv => PeerAuthenticated
  BY DEF AuthInv
<1>4. QED
  BY <1>1, <1>2, <1>3, PTL DEF Spec

(* For every configuration, build and verify agree on the octets and the  *)
(* key: an end whose verify was given exactly the AUTH payload the other  *)
(* end of its IKE_SA built, under a trusted key that is the signer's own, *)
(* returned SUCCESS.  build_tbs_octets is fed the same IKE_SA_INIT, nonce, *)
(* id and SK_p on both sides, since get_auth_build of one side is         *)
(* get_auth_verify of the other.                                          *)
THEOREM HonestPayloadAcceptedHolds == Spec => []HonestPayloadAccepted
<1>1. AuthInv => HonestPayloadAccepted
  <2> SUFFICES ASSUME AuthInv, NEW e \in Ends, NEW f \in Ends,
                      Sa[f] = Sa[e], Role[f] # Role[e],
                      received[e] = BuiltPayload(f),
                      TrustedKey[Peer[e]] = PubKey[Me[f]]
               PROVE  verified[e] = "SUCCESS"
    BY DEF HonestPayloadAccepted
  <2>1. received[e] # NoPayload
    BY DEF BuiltPayload, NoPayload
  <2>2. /\ verified[e] = VerifyResult(e, BuiltPayload(f))
        /\ PubKey[Me[f]] \in Keys
    BY <2>1 DEF AuthInv, RecvInv, BuiltPayload
  <2>3. Role[f] = Opp(Role[e]) /\ Opp(Role[f]) = Role[e]
    BY DEF Opp, Roles
  <2>4. Me[f] = Peer[e]
    OBVIOUS
  <2>5. BuildOctets(f) = VerifyOctets(e)
    BY <2>3, <2>4 DEF BuildOctets, VerifyOctets, build_tbs_octets
  <2>6. QED
    BY <2>2, <2>5 DEF VerifyResult, BuiltPayload, verify_emsa_pkcs1_signature
<1>2. QED
  BY <1>1, InitAuth, NextAuth, PTL DEF Spec
=============================================================================
