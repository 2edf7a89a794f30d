------------------------- MODULE MC_RsaAuthenticator -------------------------
(***************************************************************************)
(* Four IKE_SAs between four principals:                                  *)
(*   x: alice (e1, initiator) and bob (e2, responder), both honest;       *)
(*   y: carol (e3, responder), whose private key is nowhere, believes     *)
(*      the initiator is alice, but it is mallory, who holds no key of    *)
(*      alice;                                                             *)
(*   z: alice (e4) believes she talks to carol, for whom she trusts no    *)
(*      key.  mallory signs with her own key km, trusted for her alone.   *)
(***************************************************************************)
EXTENDS RsaAuthenticator, TLC

CONSTANTS alice, bob, mallory, carol, ka, kb, km, kc, x, y, z,
          e1, e2, e3, e4

MC_Me == (e1 :> alice) @@ (e2 :> bob) @@ (e3 :> carol) @@ (e4 :> alice)
MC_Peer == (e1 :> bob) @@ (e2 :> alice) @@ (e3 :> alice) @@ (e4 :> carol)
MC_Sa == (e1 :> x) @@ (e2 :> x) @@ (e3 :> y) @@ (e4 :> z)
MC_Role == (e1 :> "i") @@ (e2 :> "r") @@ (e3 :> "r") @@ (e4 :> "i")
MC_PubKey == (alice :> ka) @@ (bob :> kb) @@ (mallory :> km) @@ (carol :> kc)
MC_TrustedKey == (alice :> ka) @@ (bob :> kb) @@ (mallory :> km)
                 @@ (carol :> NoKey)
MC_Holder == (ka :> alice) @@ (kb :> bob) @@ (km :> mallory) @@ (kc :> NoOne)
=============================================================================
