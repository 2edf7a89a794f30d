--------------------------- MODULE RsaAuthenticator ---------------------------
(***************************************************************************)
(* The RSA signature authenticator of the IKE_AUTH exchange               *)
(* (src/src/charon/sa/authenticators/rsa_authenticator.c).  Each end of   *)
(* an IKE_SA owns one authenticator.  build signs the octets of           *)
(* build_tbs_octets with the private key of the end's own identity, and   *)
(* verify checks an AUTH payload against the octets of the peer with the  *)
(* public key the credential store trusts for the peer's identity.        *)
(*                                                                         *)
(* The signature primitives and the credential store are collaborators    *)
(* (spec section 6): a signature is the pair of the signing key and the   *)
(* octets, and verify_emsa_pkcs1_signature succeeds exactly when the key  *)
(* and the octets match.  build_tbs_octets concatenates the IKE_SA_INIT   *)
(* message, the nonce and prf(SK_p, ID): it is the record of its inputs,  *)
(* an injection as long as the prf does not collide.  The network is an   *)
(* attacker that replays every AUTH payload it has seen and signs any     *)
(* octets with the keys it holds.                                         *)
(***************************************************************************)
EXTENDS FiniteSets

CONSTANTS
    Principals,   \* identities
    Honest,       \* the principals whose daemons run this code
    Keys,         \* RSA key pairs, named by their public half
    NoKey,        \* NULL returned by a credential lookup
    NoOne,        \* the holder of a key whose private half is nowhere
    Ends,         \* IKE_SA ends, one authenticator each
    SAs,          \* IKE_SAs
    Me,           \* Me[e]: get_my_id of the end's IKE_SA
    Peer,         \* Peer[e]: get_other_id of the end's IKE_SA
    Sa,           \* Sa[e]: the IKE_SA the end belongs to
    Role,         \* Role[e]: "i" or "r"
    PubKey,       \* get_rsa_public_key(id)
    TrustedKey,   \* get_trusted_public_key(id)
    Holder        \* the daemon whose store holds the private key

Roles == {"i", "r"}

Opp(r) == IF r = "i" THEN "r" ELSE "i"

ASSUME AuthAssumption ==
    /\ Honest \subseteq Principals
    /\ NoKey \notin Keys /\ NoOne \notin Principals
    /\ Me \in [Ends -> Honest] /\ Peer \in [Ends -> Principals]
    /\ Sa \in [Ends -> SAs] /\ Role \in [Ends -> Roles]
    /\ PubKey \in [Principals -> Keys \cup {NoKey}]
    /\ TrustedKey \in [Principals -> Keys \cup {NoKey}]
    /\ Holder \in [Keys -> Principals \cup {NoOne}]
    \* the two ends of one IKE_SA name each other as peers
    /\ \A e, f \in Ends : Sa[e] = Sa[f] /\ Role[e] # Role[f] =>
          Peer[e] = Me[f] /\ Peer[f] = Me[e]

Status == {"NONE", "SUCCESS", "NOT_FOUND", "INVALID_ARG", "VERIFY_ERROR"}

VARIABLES
    phase,     \* "none" before rsa_authenticator_create, "live", "freed"
    built,     \* the status build returned, "NONE" before the call
    verified,  \* the status verify returned, "NONE" before the call
    wire,      \* every AUTH payload an authenticator built
    received   \* history: the AUTH payload verify was given, or NoPayload

vars == <<phase, built, verified, wire, received>>

(* build_tbs_octets(ike_sa_init, nonce, id, prf): the signer's            *)
(* IKE_SA_INIT message, the nonce of the other side and prf(SK_p, id).    *)
(* A message, a nonce and an SK_p are named by the IKE_SA and the side    *)
(* that produced them.                                                     *)
build_tbs_octets(init, nonce, id, prf) ==
    [init |-> init, nonce |-> nonce, id |-> id, prf |-> prf]

(* The octets build signs: its own IKE_SA_INIT, the other's nonce, its    *)
(* own id and get_auth_build (SK_p of its own side).                      *)
BuildOctets(e) ==
    build_tbs_octets(<<Sa[e], Role[e]>>, <<Sa[e], Opp(Role[e])>>, Me[e],
                     <<Sa[e], Role[e]>>)

(* Seeded fault for mutation testing: verify keyed with get_auth_build.  *)
VerifyOctets_auth_build(e) ==
    build_tbs_octets(<<Sa[e], Opp(Role[e])>>, <<Sa[e], Role[e]>>, Peer[e],
                     <<Sa[e], Role[e]>>)

(* The octets verify checks: the peer's IKE_SA_INIT, its own nonce, the   *)
(* peer's id and get_auth_verify (SK_p of the peer's side).               *)
VerifyOctets(e) ==
    build_tbs_octets(<<Sa[e], Opp(Role[e])>>, <<Sa[e], Role[e]>>, Peer[e],
                     <<Sa[e], Opp(Role[e])>>)

verify_emsa_pkcs1_signature(key, octets, sig) ==
    IF sig.key = key /\ sig.octets = octets THEN "SUCCESS" ELSE "VERIFY_ERROR"

(* What the network can put in an AUTH payload's data: every signature on *)
(* the wire, and the attacker's signatures over octets some verifier      *)
(* computes (a signature over any other octets fails like these do).      *)
AttackerKeys == {k \in Keys : Holder[k] \in Principals \ Honest}

KnownSigs ==
    {p.data : p \in wire}
    \cup {[key |-> k, octets |-> o] :
            k \in AttackerKeys, o \in {VerifyOctets(e) : e \in Ends}}

(* verify returns INVALID_ARG for every payload of another method before *)
(* it reads the data, so one such payload stands for all of them.        *)
Payloads ==
    [method : {"AUTH_RSA"}, data : KnownSigs]
    \cup {[method |-> "AUTH_PSK", data |-> [key |-> NoKey, octets |-> {}]]}

NoPayload == [method |-> "NONE"]

(* The AUTH payload build emits at end e.                                *)
BuiltPayload(e) ==
    [method |-> "AUTH_RSA",
     data |-> [key |-> PubKey[Me[e]], octets |-> BuildOctets(e)]]

(* rsa_authenticator_create: the IKE_SA allocates its authenticator.      *)
rsa_authenticator_create(e) ==
    /\ phase[e] = "none"
    /\ phase' = [phase EXCEPT ![e] = "live"]
    /\ UNCHANGED <<built, verified, wire, received>>

(* build: look up the own public key, then the matching private key,      *)
(* sign the octets and emit the AUTH payload.                             *)
build(e) ==
    LET my_pubkey == PubKey[Me[e]]
        status ==
            IF my_pubkey = NoKey THEN "NOT_FOUND"
            ELSE IF Holder[my_pubkey] # Me[e] THEN "NOT_FOUND"
            ELSE "SUCCESS"
    IN
    /\ phase[e] = "live" /\ built[e] = "NONE"
    /\ built' = [built EXCEPT ![e] = status]
    /\ wire' = IF status = "SUCCESS" THEN wire \cup {BuiltPayload(e)} ELSE wire
    /\ UNCHANGED <<phase, verified, received>>

(* Seeded fault for mutation testing: verify ignores the status of        *)
(* verify_emsa_pkcs1_signature.                                           *)
verify_unchecked(e, auth_payload) ==
    LET public_key == TrustedKey[Peer[e]]
        status ==
            IF auth_payload.method # "AUTH_RSA" THEN "INVALID_ARG"
            ELSE IF public_key = NoKey THEN "NOT_FOUND"
            ELSE "SUCCESS"
    IN
    /\ phase[e] = "live" /\ verified[e] = "NONE"
    /\ verified' = [verified EXCEPT ![e] = status]
    /\ received' = [received EXCEPT ![e] = auth_payload]
    /\ UNCHANGED <<phase, built, wire>>

(* verify: the method must be AUTH_RSA, the peer's id must have a trusted *)
(* public key, and the signature must be that key's over VerifyOctets.    *)
verify(e, auth_payload) ==
    LET public_key == TrustedKey[Peer[e]]
        status ==
            IF auth_payload.method # "AUTH_RSA" THEN "INVALID_ARG"
            ELSE IF public_key = NoKey THEN "NOT_FOUND"
            ELSE verify_emsa_pkcs1_signature(public_key, VerifyOctets(e),
                                             auth_payload.data)
    IN
    /\ phase[e] = "live" /\ verified[e] = "NONE"
    /\ verified' = [verified EXCEPT ![e] = status]
    /\ received' = [received EXCEPT ![e] = auth_payload]
    /\ UNCHANGED <<phase, built, wire>>

(* destroy frees the authenticator with its IKE_SA.                      *)
destroy(e) ==
    /\ phase[e] = "live"
    /\ phase' = [phase EXCEPT ![e] = "freed"]
    /\ UNCHANGED <<built, verified, wire, received>>

Init ==
    /\ phase = [e \in Ends |-> "none"]
    /\ built = [e \in Ends |-> "NONE"]
    /\ verified = [e \in Ends |-> "NONE"]
    /\ wire = {}
    /\ received = [e \in Ends |-> NoPayload]

Next ==
    \E e \in Ends :
        \/ rsa_authenticator_create(e)
        \/ build(e)
        \/ \E p \in Payloads : verify(e, p)
        \/ destroy(e)

Spec == Init /\ [][Next]_vars

-----------------------------------------------------------------------------
(* Authentication (IKEv2 AUTH with signatures): when verify accepts at    *)
(* end e a peer whose trusted key is held by that honest peer itself, the *)
(* other end of the same IKE_SA, owned by that peer, has run build        *)
(* successfully.  A replayed payload of another IKE_SA or of e's own side *)
(* and the attacker's own signatures are all refused.                     *)
PeerAuthenticated ==
    \A e \in Ends :
        /\ verified[e] = "SUCCESS"
        /\ Peer[e] \in Honest
        /\ TrustedKey[Peer[e]] # NoKey
        /\ Holder[TrustedKey[Peer[e]]] = Peer[e]
        => \E f \in Ends : /\ Sa[f] = Sa[e] /\ Role[f] # Role[e]
                           /\ Me[f] = Peer[e] /\ built[f] = "SUCCESS"

(* The two ends agree on the octets: when verify at one end of an        *)
(* IKE_SA is given the AUTH payload build emitted at the other end and    *)
(* the verifier trusts the signer's own key, it accepts, so honest ends   *)
(* never reject each other because build and verify computed different   *)
(* octets or keyed the prf with different sides' SK_p.                    *)
HonestPayloadAccepted ==
    \A e, f \in Ends :
        /\ Sa[f] = Sa[e] /\ Role[f] # Role[e]
        /\ received[e] = BuiltPayload(f)
        /\ TrustedKey[Peer[e]] = PubKey[Me[f]]
        => verified[e] = "SUCCESS"
=============================================================================
