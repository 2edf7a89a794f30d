# TLA+ models of the strongSwan session core

This directory holds TLA+ specifications of the parts of this tree that have
state and concurrency: the Pluto ModeCfg exchange, the timing policy that
drives retransmission, the charon connection store and the RSA signature
authenticator of IKE_AUTH, the ModeCfg attribute codec and the loading of
X.509 attribute certificates. Each part has TLC configurations that check it
on small instances. TLAPS proofs cover every instance. They show:

- for the ModeCfg exchange: type correctness, the completion order, that the
  initiator applies exactly the address the responder offers, that a session
  is declared dead only after the full retransmission schedule, and that the
  exchange implements an abstract specification of what it promises;
- for the connection store: type correctness, that every refcount counts
  exactly its owners, that the priority lookup returns what the lookup
  contract names, and that no thread changes the list under an iterator;
- for the RSA authenticator: that it authenticates the peer, and that it
  accepts the honest partner's payload.

## The system and its parts

Spec §2 splits the daemon into components. The ones with source in this tree
are listed below.

| Part | Source | Module |
|---|---|---|
| C1 Timing policy | `src/src/charon/config/configuration.c` | `Configuration` |
| C2 Connection store | `src/src/charon/config/connections/local_connection_store.c` | `ConnectionStore` |
| C3 Internal address record | `src/programs/pluto/modecfg.c` 43-154, 181-319, 413-452 | `ModeCfg` (helpers), `ModeCfgCodec` (attribute codec) |
| C4 ModeCfg exchange | `src/programs/pluto/modecfg.c` 156-627 | `ModeCfg` (actions), `ModeCfgExchange` (abstract) |
| C5 Session dispatcher and retransmission driver | not in the tree | `ModeCfg` (from spec §4.5) |
| RSA authenticator | `src/src/charon/sa/authenticators/rsa_authenticator.c` | `RsaAuthenticator` |
| Attribute certificates | `src/src/libstrongswan/crypto/ac.c` | `AttributeCertificate` (loading) |

### How the parts interact

A datagram reaches a session (C5). C5 dispatches it, by the session's state,
to one of the ModeCfg handlers (C4):

| Handler | Session state | Message received |
|---|---|---|
| `modecfg_inR0` | responder, R0 | REQUEST |
| `modecfg_inR1` | responder, R1 | ACK |
| `modecfg_inI1` | initiator, I1 | REPLY |
| `modecfg_inI2` | initiator, I2 | SET |

Each handler works through the same steps:

1. `modecfg_parse_msg` checks the HMAC (CHECK_QUICK_HASH) and decodes the
   attributes into an internal address record (C3).
2. The handler applies the record to the connection (`set_internal_addr`) or
   reads it from the connection (`get_internal_addr`).
3. It builds the answer (`modecfg_build_msg`).

A session that starts an exchange does so through `modecfg_send_msg`, called
by `modecfg_send_request` in pull mode and `modecfg_send_set` in push mode.
`modecfg_send_msg` does three things:

- picks a message id;
- caches the datagram in `st_tpacket`;
- schedules `EVENT_RETRANSMIT`.

The driver (spec §4.5) then reacts when the event fires:

- If the reply has arrived, the event is cancelled.
- Otherwise it resends the cached datagram after
  `get_retransmit_timeout(try)` (C1).
- When that timeout is 0, it declares the peer dead and the session moves
  to DELETED.

The connection store (C2) is shared by charon's worker threads. It binds a
peer address to a configured connection. Lookups hand out refcounted
references.

## Modules

### `Configuration.tla` — timing policy (C1)

This module translates the constants and getters of configuration.c.

- `get_retransmit_timeout(n)` is `(4000 * 9^n) \div 5^n`. That is the code's
  `(u_int32_t)(RETRANSMIT_TIMEOUT * pow(1.8, n))`, truncated. For n ≤ 5 the
  double product lies on the same side of every integer as the exact one, so
  the integer form gives the same values.
- The result is 0 when `n > RETRANSMIT_TRIES`.
- The values are 4000, 7200, 12960, 23328, 41990 and 75582 ms. Their total is
  165060 ms, the "2min 45s" of the comment at lines 40-51.
- `get_retry_interval` is the set of values `30 - random() % 20` can take.

### `ModeCfg.tla` — the exchange (C3, C4, C5)

There are two sessions, `"I"` (initiator) and `"R"` (responder). Each
session's pluto `struct state` is kept as functions over the peers:

| Variable | What it holds |
|---|---|
| `st_state` | the session state |
| `st_msgid` | the message id |
| `st_event` | type, deadline and try count |
| `st_tpacket` | the cached datagram |
| `st_started` | `st_modecfg.started` |
| `st_vars_set` | `st_modecfg.vars_set` |

The connection ends that the handlers touch are `i_this` (the initiator's
`spd.this`) and `r_that` (the responder's `spd.that`).

The network `net` is a set of datagrams. Delivering a datagram leaves it in
the set, so duplication and reordering are always possible. `Lose` removes a
datagram, at most `MaxLoss` times. `Forge` injects a datagram with a wrong
HASH, at most `MaxForged` times.

Data is abstracted as follows:

- A datagram is a record of type, header msgid, the msgid its HMAC was
  computed over (`hashid`), and the set of TLVs.
- `modecfg_hash_ok` is `hashid = msgid`, because the HMAC covers st_msgid,
  which parse_msg has just set to the header msgid.
- Addresses are model values plus `AnyAddr`.

Each handler is one action that does the whole of its work:

- It parses, with the early return of parse_msg on a failed hash or a wrong
  type (`modecfg_parse_msg_fails`, which still writes `st_msgid`, as line 465
  does).
- It applies or reads the internal address.
- It builds and sends the answer (the dispatcher's SMF_REPLY).
- It resets `st_msgid` to 0 and takes the state transition.

`modecfg_send_request` and `modecfg_send_set` set the state and call
`modecfg_send_msg`, inside the same action.

The retransmission driver fires the earliest pending `EVENT_RETRANSMIT` and
advances `now` to its deadline. The actions that are modelled from the spec,
because their code is not in this tree, are marked `spec_modelled` in
PROJECT.json's map:

- the driver;
- the state-to-handler table `Expected`;
- the routing `Dest`;
- the push-mode start of the initiator;
- the network.

`xmits` and `sentAt` are history variables. They count transmissions and
record when the first one was sent, for `DeadPeerSchedule`.

### `ConnectionStore.tla` — the connection store (C2)

The state is:

- the list `connections`;
- the mutex holder;
- `alive` (the store has not been destroyed);
- the connection objects' `refcount`;
- the set `freed`;
- per thread: `pc`, `found` and `ref`.

Each thread does one store call at a time. A critical section that keeps the
mutex from lock to unlock is one step:

- add;
- lookup by hosts, with get_ref under the lock;
- delete;
- destroy.

`get_connection_by_name` is two steps, because the code unlocks at line 146
and only then calls get_ref at line 151.

The iterator takes the mutex in `create_iterator` and gives it back in
`iterator_destroy`.

`ScanHosts` is the priority loop of `get_connection_by_hosts`, written as a
recursive function over the list index. `SpecLookup` is the lookup contract
of spec §4.2/§8, stated declaratively. The connection_t refcount contract
(connection.c is not in the tree) is the one spec §9 describes:

- an object is created with one reference;
- `add_connection` moves that reference into the store;
- `get_ref` adds one;
- `destroy` drops one, and the last drop frees the object.

### `RsaAuthenticator.tla` — the RSA authenticator

Each IKE_SA end (`Ends`) owns one authenticator. Each end has an owner `Me`,
a believed peer `Peer`, an IKE_SA `Sa` and a role. The credential store is
three constant functions:

- `PubKey` stands for `get_rsa_public_key`;
- `TrustedKey` stands for `get_trusted_public_key`;
- `Holder` records whose store holds a key's private half.

The actions are `rsa_authenticator_create`, `build`, `verify` and `destroy`.

- `build` takes the two NOT_FOUND returns of lines 117-131. On success it
  puts `BuiltPayload(e)` on `wire`.
- `verify` takes the INVALID_ARG, NOT_FOUND and signature-status returns of
  lines 69-90. Its input is any payload the network can produce:
  - every payload on the wire;
  - a signature by an attacker key (held by a dishonest principal) over
    octets some verifier computes;
  - one payload of another method.

  A signature over other octets fails the same way, so the restriction
  loses nothing.

The signature primitives and `build_tbs_octets` (psk_authenticator.c, not in
the tree) are abstracted:

- A signature is the record of key and octets.
- The octets are the record of their four inputs. Each input is named by the
  IKE_SA and the side that produced it, which assumes the prf does not
  collide.

`received` is a history variable holding the payload verify was given.

### `ModeCfgExchange.tla` — what the exchange promises

An abstract specification of C4 without messages, message ids or timers.
Each side is `idle`, `waiting`, `done` or `dead`; `addr` is the initiator's
source address and `offer` the address the responder hands out.

- Pull: `Ask`, then `Answer` (only once asked), then `TakeAnswer` (only once
  answered), which sets `addr` to the offer, or leaves it when the offer is
  the any address.
- Push: `Offer` and `AwaitOffer`, then `TakeOffer` (only once offered), then
  `Acknowledged` (only once taken).
- `GiveUp`: the side that waits for an answer is deleted.

`ModeCfg.tla` ends with the refinement mapping. `IniPhase` maps I0 to idle,
I1 and I2 to waiting, I3 to done and DELETED to dead; `RspPhase` maps R0 and
MAIN_R3 to idle, R1 to waiting, R2 to done. `addr` is the initiator's
`host_srcip`, `offer` the responder's `that.host_srcip` (what
`get_internal_addr` offers). `ExchangeRefinement == Exchange!Spec` is the
property. A message step, a lost or forged datagram and a retransmission map
to stutters; a handler that changes a session's state maps to one abstract
step.

### `ModeCfgCodec.tla` — the attribute codec (C3)

The attribute loop of `modecfg_build_msg` (lines 207-310) and
`modecfg_parse_attributes` (413-452) on one message. A TLV is a kind and a
value: an address, the netmask bytes, an address and mask for SUBNET, or
an empty value.

- `EmitFrom` is the loop: it walks `attr_set` from kind 0, emits one TLV per
  set bit, and for DNS and NBNS stays on the kind while another non-any
  server follows (`dont_advance`).
- `parse_attribute` is one iteration of the parse loop: a 4-byte ADDRESS
  sets `ipaddr` and falls through to set its bit; NETMASK, DNS, SUBNET and
  NBNS set only their bit; other kinds are skipped. The parse is a
  `FoldLeft` over the list into `init_internal_addr`.
- `modecfg_build_msg` encodes one of `OwnRecords`, the records this code
  actually builds (the request, `get_internal_addr`'s offer, the ACK that
  echoes the supported kinds), for a sender whose own client is any of
  `Selves`. `PeerSends` puts a list of up to two TLVs from another
  implementation on the wire. `Receive` parses it.

The loop is a RECURSIVE operator, so the module is checked by TLC only.

### `AttributeCertificate.tla` — loading attribute certificates

`x509ac_create_from_file`, `x509ac_create_from_chunk`, `parse_certificate`,
`parse_directoryName` and `destroy` from `ac.c`. A blob is abstracted to
what the control flow depends on: the object at which `extract_object`
fails, the version, and how many generalNames each directoryName holds.

- `Handled(b, i)` says the handler of object `i` runs; `Rejects(b, i)` are
  the early returns (a version other than v2, an empty directoryName).
- `parse_certificate` returns FALSE on every path, as the code does at
  line 606.
- `x509ac_create_from_chunk` destroys the object on failure. `destroy`
  frees `certificate.ptr`, which releases the chunk only when the handler
  of object 0 set it; otherwise the pointer was never initialized
  (`wildFree`) and the chunk stays live.

## Runs

Every run uses `MC_ModeCfg` (msgids {1,2}, addresses {a1,a2} plus the any
address), `MC_ConnectionStore`, `MC_RsaAuthenticator`, `MC_ModeCfgCodec`
(addresses {a1,a2}) or `MC_AttributeCertificate` (two loads, up to two
generalNames per directoryName).

| Run | Expect | What it shows |
|---|---|---|
| `modecfg_safety` | pass | `TypeOK`; `AddressAgreement` (the initiator in I3 holds exactly the address the responder assigned, with a /32 client, and the responder's policy names the same client, or nothing was applied if nothing was assigned); `CompletionOrder` (I3 ⇒ R2 in pull mode, R2 ⇒ I3 in push mode); `DeadPeerSchedule` (a session is deleted only after 6 transmissions and 165060 ms). `ExchangeRefinement` (ModeCfg implements `ModeCfgExchange` under the mapping above). These hold under one lost and one forged datagram, with arbitrary duplication and reordering, in both modes (11,993 states). |
| `modecfg_liveness` | pass | `ExchangeTerminates`: a session in I1 or R1 reaches I3, R2 or DELETED, under up to two lost datagrams. |
| `modecfg_msgid` | violation | `MsgIdZeroIffIdle` (spec §8) fails in two steps. A forged datagram sets an idle responder's st_msgid. |
| `modecfg_lostreply` | violation | `BothComplete` (spec §1) fails. One lost REPLY leaves the responder in R2, dropping the retransmitted REQUESTs, and the initiator is deleted. |
| `modecfg_forgedcancel` | violation | `ExchangeTerminates` fails. A forged datagram with msgid 0 makes the waiting initiator's timer cancel itself, so after the REPLY is lost it waits forever. |
| `store_safety` | pass | `TypeOK` (including that get_ref is never reached with NULL); `RefcountAccounting` (the refcount of every live connection equals its owners: the creator before add, the list, and the threads holding references); `LookupAgreesWithSpec` (the priority scan equals the contract for every query on every reachable list); `IteratorSnapshotStable` (the list does not change while the mutex is held by an iterator). |
| `rsa_auth` | pass | On the four ends described under the bounds: `PeerAuthenticated` (verify accepting an honest peer that holds its trusted key implies the partner end, owned by that peer, built its payload: replays across IKE_SAs, reflections and attacker signatures fail); `HonestPayloadAccepted` (the payload built at one end verifies at the other when the verifier trusts the signer's key). |
| `codec_roundtrip` | pass | `RoundTrip` (spec §8): every record the code encodes decodes to the same supported kinds, address and servers, for every sender client (/0, /24, /32). |
| `codec_servers` | violation | `DecodeKeepsServers` (spec §4.4, receive column: DNS and NBNS are parsed as addresses) fails: a peer sends one DNS attribute with address a1, and the decoded record has the DNS bit but no server. |
| `ac_wildfree` | violation | `NoWildFree` fails in one step: `extract_object` fails at object 0, `destroy` frees the never-set `certificate.ptr`, and the chunk leaks. |
| `ac_load` | violation | `WellFormedLoads` fails in one step: a complete v2 attribute certificate passes every handler and `parse_certificate` still returns FALSE, so the load returns NULL. |
| `store_uaf` | violation | `NoUseAfterFree` fails in four steps: add c1; get_by_name(c1) unlocks; delete(c1) frees it; get_ref then touches freed memory. |

Each property of a passing run has a mutant in PROJECT.json: a plausible bug
in the mapped code that TLC then catches.

- `set_internal_addr` without the client update breaks `AddressAgreement`.
- `modecfg_inR1` without the parse check breaks `CompletionOrder`.
- `get_retransmit_timeout` giving up one try early breaks `DeadPeerSchedule`.
- `modecfg_send_msg` not scheduling the retransmit breaks
  `ExchangeTerminates`.
- `>=` in the scan breaks `LookupAgreesWithSpec`.
- A lookup without get_ref breaks `RefcountAccounting`.
- An add without the lock breaks `IteratorSnapshotStable`.
- Dropping `if (found)` breaks `TypeOK`.
- `verify` ignoring the signature status breaks `PeerAuthenticated`.
- `verify` keying the prf with `get_auth_build` breaks
  `HonestPayloadAccepted`.
- `modecfg_inI2` without the parse check breaks `ExchangeRefinement`: a
  forged SET makes the initiator take an address nobody offered.
- The ADDRESS case of the parse loop not falling through to the flag
  update breaks `RoundTrip`.

### Why these bounds suffice

**ModeCfg.**

- Two message ids let a forged or stale datagram carry an id different from
  the current exchange's, or the same one.
- Two addresses plus the any address cover three cases: an assigned address,
  a different configured address, and no assignment.
- One loss and one forgery exercise every early return of parse_msg and
  every driver branch. The violation runs show these budgets already reach
  the interesting failures.
- Retransmission runs the full budget of 6 tries, so the dead-peer schedule
  is checked at its real length.

**ConnectionStore.**

- Two threads are enough for every pairwise race on the single mutex.
- Three objects include a tie (c1 and c3 have the same name and hosts) and a
  wildcard peer (c2).

**RsaAuthenticator.** There are four ends:

- alice (e1) and bob (e2) share IKE_SA x;
- carol (e3) believes that mallory, who runs IKE_SA y, is alice;
- alice (e4) talks to carol, for whom she trusts no key.

Carol's private key is nowhere. Mallory holds her own key km.

This covers:

- every return of build and verify;
- a replay across IKE_SAs;
- a reflection;
- the attacker's own signatures.

With 975,607 distinct states it is the largest instance that finishes in
under two minutes. The proof covers every configuration.

**ModeCfgCodec.** The own records are every subset of the supported kinds
and an offer of each address; the sender's client has 0, 24 or 32 mask bits,
which covers the first, the partial and the last mask byte. Peer lists have
up to two TLVs, enough for a kind to repeat and for an unknown kind
(ADDRESS_EXPIRY) to be skipped between two known ones.

**AttributeCertificate.** Failing at every handled object, each version and
0, 1 or 2 generalNames per directoryName reach every early return of
`parse_certificate`; two loads show the leak accumulate.

### Fairness

`LiveSpec` assumes weak fairness of the two sends, of the push start, and of
each driver action per peer.

- Pluto's event loop always runs a due timer event, which justifies the
  fairness of the driver.
- The sends are performed by the dispatcher right after phase 1.

Message delivery is not assumed fair in `LiveSpec`: the network may lose or
hold a datagram. `FairDeliverySpec` adds fair delivery for `BothComplete`, so
that its violation is not due to a datagram that is never delivered.

## Proofs

`ModeCfgProofs.tla` proves `THEOREM TypeCorrect == Spec => []TypeOK` for
every value of the constants that satisfies `ConstantsAssumption`.

TypeOK is not inductive. `Retransmit` puts `st_tpacket[p]` on the network,
so the strengthening `TypeInv` adds that a pending `EVENT_RETRANSMIT` always
has a cached datagram. TLC checks `TypeInv` too.

The proof has three parts:

1. `Init => TypeInv`.
2. `TypeInv /\ [Next]_vars => TypeInv'`. This has one case per action. It
   rests on lemmas `SendMsgType`, `ReceiveType` and `DriverType`, and on
   lemmas about the helpers:
   - the timeout is a natural number, proved case by case for n = 0..5,
     since `9^n` needs a literal exponent;
   - parse and build return well-typed records;
   - set_internal_addr returns a connection end.
3. `TypeInv => TypeOK`, combined by PTL.

`THEOREM CompletionOrderHolds == Spec => []CompletionOrder` is also in
`ModeCfgProofs.tla`. Its inductive invariant `CompletionInv` adds `TypeInv`
and, per mode, a list of facts.

In pull mode (`PullInv`):

- the states each session can be in;
- only the initiator has a pending retransmit, and its cached datagram is a
  REQUEST;
- a REPLY with a valid HASH on the network implies the responder is in R2.

In push mode (`PushInv`), symmetrically:

- the states each session can be in;
- only the responder retransmits, and its cached datagram is a SET;
- an ACK with a valid HASH implies I3.

These facts are needed because CompletionOrder speaks only of states, while
what protects it is the content of the network. A forged datagram never
passes `modecfg_hash_ok` (lemma `ForgedNotOk`), and `ReceiveCompletion`
covers the four handlers.

`ModeCfgRefinementProofs.tla` proves
`THEOREM RefinementHolds == Spec => ExchangeRefinement`. `CompletionInv` is
not enough: an abstract `TakeAnswer` or `TakeOffer` must set `addr` to the
offer, so the invariant `RefInv` adds what the network and the timers carry:

- every REPLY or SET with a valid HASH on the network holds the attributes
  `get_internal_addr` gives for the responder (`OfferInv`);
- in pull mode a valid REQUEST implies the initiator has left I0, a pending
  retransmit at the initiator implies I1 or I3, and I3 implies st_msgid 0
  (`PullRefInv`); push mode has the mirror facts and that the cached SET
  holds the offer (`PushRefInv`).

Lemma `TakenAddr` is the round trip of the address through
`modecfg_build_msg`, `modecfg_parse_msg` and `set_internal_addr`;
`OfferStable` says no step changes the responder's offer. The proof shows
`Init => RefInv /\ Exchange!Init`, that `RefInv` is preserved, and that every
step under `RefInv` is an abstract step or a stutter (`NextRef`, one case per
handler and per mode), then combines them by PTL.

`RsaAuthenticatorProofs.tla` proves
`THEOREM PeerAuthenticatedHolds == Spec => []PeerAuthenticated` for every
configuration satisfying `AuthAssumption`.

The inductive invariant adds `WireInv`: every payload on the wire was
emitted by a successful build, with a key held by its builder. Lemma
`SignatureOrigin` then turns an accepted signature into its builder:

- a signature from the wire carries `BuildOctets(f) = VerifyOctets(e)`, and
  the record equality gives the same IKE_SA, the opposite role and
  `Me[f] = Peer[e]`;
- an attacker key cannot be the trusted key of an honest peer that holds it.

The same invariant, strengthened with `RecvInv`, proves
`THEOREM HonestPayloadAcceptedHolds == Spec => []HonestPayloadAccepted`.
`RecvInv` says that an end which ran verify recorded the status
`VerifyResult` of the payload it was given, and that an AUTH_RSA payload
from the network carries a key of `Keys` (lemma `KnownKeys`; `WireInv` now
also records that a successful build had a public key). Given the payload
the partner end built, the record equality of `build_tbs_octets` holds
because `Opp(Opp(r)) = r` and `Peer[e] = Me[f]` (from `AuthAssumption`), so
`verify_emsa_pkcs1_signature` returns SUCCESS.

`ModeCfgAddressProofs.tla` proves
`THEOREM AddressAgreementHolds == Spec => []AddressAgreement`. AddressAgreement
relates the initiator's end to the responder's `r_that`, which
`get_internal_addr_client` rewrites each time the responder offers. Its
inductive invariant is `RefInv /\ AddrInv`, where `AddrInv` adds:

- `Fixed`: once a REPLY or SET with a valid HASH exists, or the responder's
  SET is queued for retransmission, `r_that` is a fixed point of
  `get_internal_addr_client` (lemma `ClientIdempotent`), so a later offer
  changes nothing;
- a finished initiator has seen such an offer, so `Fixed` holds at I3.

Lemma `OfferParsed` says `set_internal_addr` applies exactly when the
responder has an address and then parses that address. Lemma `ApplyOffer`
derives the five equalities of AddressAgreement from it. `FrameAddr` covers
every step that leaves the initiator's end alone, and `ReceiveAddr` covers
the four handlers. A forged datagram never reaches `modecfg_inI1/inI2`
(`ForgedNotOk`).

`ConnectionStoreProofs.tla` proves two theorems for every set of threads and
connection objects:

- `THEOREM RefcountAccountingHolds == Spec => []RefcountAccounting`;
- `THEOREM IteratorSnapshotHolds == Spec => IteratorSnapshotStable`, the
  action property. Every action that writes the list requires `Ready`, so the
  mutex is free when the list changes.

RefcountAccounting speaks of unfreed objects only and counts list
occurrences, so it is not inductive. Its strengthening `CountInv` says:

- the list holds each object at most once, and only added ones. This holds
  because add_connection takes only an object it was never handed before;
- a thread in the middle of an operation (`get_ref`, `iterating`) holds no
  reference;
- every object, freed or not, has a refcount equal to `Owners(c)`. That is 1
  before add_connection, plus 1 while listed, plus the holders. A freed
  object has 0, and only the late get_ref of `get_connection_by_name` could
  raise it again.

The step proof has one case per action. It rests on lemmas about the
operators:

- `FirstNamed` returns 0 or an index (`NatMin`, from well-foundedness of <
  on Nat);
- `RemoveIdx` shortens the list by one and shifts its tail (`ConcatAround`,
  `RemoveIdxFacts`);
- an injective list has 0 or 1 occurrences of each object
  (`OccurrencesOnce`);
- changing one thread's reference moves it between holder sets
  (`HoldersUpdate`, `RefUpdate`);
- a refcount updated at any point stays a function into Int
  (`ExceptCount`).

`CountInv` does not type `ref`: `get_connection_by_hosts` stores
`ScanHosts(...)`, and each refcount equation holds pointwise for every
object whatever that value is.

`ConnectionStoreLookupProofs.tla` pins down that value and proves two more
theorems:

- `THEOREM LookupAgreesHolds == Spec => []LookupAgreesWithSpec`;
- `THEOREM StoreTypeCorrect == Spec => []TypeOK`, from `CountInv /\ TypeOK`
  (the refcount is never negative because it equals `Owners(c)`).

Both rest on lemma `ScanHostsSpec`: for every list of connection objects and
every query, `ScanHosts(list, h, o) = SpecLookup(list, h, o)`. `ScanHosts`
is a recursive function over the list's prefixes, so its definition stands
for the function that `CHOOSE` picks among those satisfying the recursion
(`ScanFcn`, lemma `ScanHostsUnfold`). The argument needs no induction
theorem:

- `Closed(list, h, o, n)` is the scan's result after n entries in closed
  form: the first exact match with priority 2, else the first wildcard match
  with priority 1, else NULL with 0;
- `ClosedStep` shows the closed form satisfies the recursion at every index.
  An entry takes the lead only with a strictly higher priority, and a later
  entry of equal priority leaves the least index in place (`LeastAdd`). So
  a function satisfying the recursion exists (`ClosedFcnFix`);
- `ScanUnique` shows any function satisfying it equals the closed form. At
  the least index where they differ (`NatMin`), both take the same step
  from the same previous result;
- at the full list, `Closed` is `SpecLookup` by definition.

`ModeCfgScheduleProofs.tla` proves
`THEOREM DeadPeerScheduleHolds == Spec => DeadPeerSchedule`, the action
property. Its invariant `SchedInv` adds two facts to `TypeInv`:

- `Clock`: a pending `EVENT_RETRANSMIT` with try count k has
  `xmits = k + 1`, k ≤ RETRANSMIT_TRIES, and deadline
  `sentAt + Backoff[k]`, where `Backoff[k]` sums the timeouts of tries
  0..k;
- `Fresh`: a session that has not sent yet (MODE_CFG_I0, MAIN_R3) has no
  retransmit event.

`Fresh` is needed because `modecfg_send_msg` keeps an already pending
event but restarts `xmits` and `sentAt`. A forged datagram may set
`st_msgid` but leaves the event and the history alone (`ReceiveSched`). Only
the driver's give-up deletes a session (`OnlyGiveUpDeletes`). Give-up happens
exactly when the next timeout is 0, and every timeout within the budget is
positive, so it happens at try 5 (`GiveUpAtLastTry`).

`TotalBackoff` is a recursive function over the constant range
0..RETRANSMIT_TRIES. The explicit partial sums `BackoffSums`, 4000, 11200,
24160, 47488, 89478 and 165060, satisfy its recursion. So the chosen function
exists, and its recursion equations are all the proof uses (`BackoffFix`).

TLC checked `CountInv`, `AddrInv` and `SchedInv` as invariants of the
runs' instances before they were proved.

Only TLC checks the following:

- every liveness property (`ExchangeTerminates` and the violated
  `BothComplete`): TLAPS cannot reason about ENABLED or fairness;
- `RoundTrip` of `ModeCfgCodec`. Its build loop `EmitFrom` is a RECURSIVE
  operator (its recursion does not follow one index: DNS and NBNS stay on
  their kind), and a module that reaches a RECURSIVE operator loses the SMT
  backend. Proving it would mean rewriting the codec's model, not checking
  it;
- `NoUseAfterFree`, which is violated;
- `AttributeCertificate`, whose runs are both violations.

## Not modelled

- **IKE phase 1, rekeying and MOBIKE** (spec C5 beyond ModeCfg): their code
  is not in this tree.
- **Attribute certificates beyond loading**: `is_valid`, the getters and
  the ietfAttr lists. `x509ac_create_from_chunk` never returns an object,
  so no caller can reach them. The ASN.1 parser and the PEM loader are not
  in this tree.
- **The RSA signature primitives and the credential store**: collaborators
  whose contract (spec §6) the RsaAuthenticator model states.
- **The TNC IMV plugin**: a constructor with no state of its own.
- **The kernel interface, x509, mobike and PTS**: headers only.
- **DNS/WINS values in `ModeCfg`**: never filled by `get_internal_addr`
  and dropped by the parser, so the exchange model carries only
  `attr_set` and `ipaddr`; `ModeCfgCodec` models them.
- **Buffer exhaustion in `modecfg_build_msg`**.
