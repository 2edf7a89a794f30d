------------------------ MODULE ConnectionStoreProofs ------------------------
(***************************************************************************)
(* Proofs about the connection store for every set of threads, connection *)
(* objects, names and hosts: the refcount accounting, and that no thread  *)
(* changes the list while another holds an iterator.                       *)
(***************************************************************************)
EXTENDS ConnectionStore, FiniteSetTheorems, SequenceTheorems, TLAPS

(* The threads whose entry of f is c.                                     *)
HoldSet(f, c) == {t \in Threads : f[t] = c}

(* The threads holding a reference to c from a lookup.                    *)
Holders(c) == HoldSet(ref, c)

(* c is an entry of the list.                                             *)
Listed(c) == \E i \in 1 .. Len(connections) : connections[i] = c

(* The owners of c: the configuration layer until add_connection hands    *)
(* its reference to the store, the list, and the threads holding it.      *)
Owners(c) ==
    (IF c \in added THEN 0 ELSE 1) + (IF Listed(c) THEN 1 ELSE 0)
    + Cardinality(Holders(c))

(* The inductive invariant behind RefcountAccounting.  Since            *)
(* add_connection only takes an object it was never handed before, the    *)
(* list holds each object at most once, and only added ones; a thread in  *)
(* the middle of an operation holds no reference; and the refcount of     *)
(* every object, freed or not, counts its owners.  After a free the count *)
(* is 0 and only the late get_ref of get_connection_by_name raises it.    *)
(* ref and found are only required to be functions on Threads: what       *)
(* ScanHosts returns is not known to the prover (see the README).         *)
CountInv ==
    /\ connections \in Seq(Conns)
    /\ added \subseteq Conns
    /\ refcount \in [Conns -> Int]
    /\ pc \in [Threads -> {"idle", "get_ref", "iterating"}]
    /\ ref = [t \in Threads |-> ref[t]]
    /\ found = [t \in Threads |-> found[t]]
    /\ \A i, j \in 1 .. Len(connections) :
          connections[i] = connections[j] => i = j
    /\ \A i \in 1 .. Len(connections) : connections[i] \in added
    /\ \A t \in Threads : pc[t] # "idle" => ref[t] = NoConn
    /\ \A c \in Conns : refcount[c] = Owners(c)

-----------------------------------------------------------------------------
(* Lemmas about the operators the store is built from.                     *)

(* Every non-empty set of naturals has a least element.                   *)
LEMMA NatMin ==
    ASSUME NEW T \in SUBSET Nat, T # {}
    PROVE  \E x \in T : \A y \in T : x <= y
<1>1. IsWellFoundedOn(OpToRel(<, Nat), Nat)
  BY NatLessThanWellFounded
<1>2. PICK x \in T : \A y \in T : ~(<<y, x>> \in OpToRel(<, Nat))
  BY <1>1, WFMin
<1>3. OpToRel(<, Nat) = {ss \in Nat \X Nat : ss[1] < ss[2]}
  BY Zenon DEF OpToRel
<1>4. \A y \in T : x <= y
  <2>1. TAKE y \in T
  <2>2. ~(<<y, x>> \in {ss \in Nat \X Nat : ss[1] < ss[2]})
    BY <1>2, <1>3, Zenon
  <2>3. QED
    BY <2>2
<1>5. QED
  BY <1>4

(* FirstNamed is 0 when no entry has the name, else the index of the      *)
(* first one that has it.                                                  *)
LEMMA FirstNamedType ==
    ASSUME NEW l \in Seq(Conns), NEW n
    PROVE  FirstNamed(l, n) = 0 \/ FirstNamed(l, n) \in 1 .. Len(l)
<1> DEFINE idx == {i \in 1 .. Len(l) : ConnCfg[l[i]].name = n}
<1>1. CASE idx = {}
  BY <1>1 DEF FirstNamed
<1>2. CASE idx # {}
  <2>0. idx \in SUBSET Nat
    OBVIOUS
  <2>1. \E i \in idx : \A j \in idx : i <= j
    BY <1>2, <2>0, NatMin
  <2>2. QED
    BY <1>2, <2>1 DEF FirstNamed
<1>3. QED
  BY <1>1, <1>2

(* Two lists that hold the entries of l before and after index i         *)
(* concatenate to l without its i-th entry.                                *)
LEMMA ConcatAround ==
    ASSUME NEW l \in Seq(Conns), NEW i \in 1 .. Len(l),
           NEW A \in Seq(Conns), NEW B \in Seq(Conns),
           Len(A) = i - 1, \A k \in 1 .. i - 1 : A[k] = l[k],
           Len(B) = Len(l) - i, \A k \in 1 .. Len(l) - i : B[k] = l[i + k]
    PROVE  /\ A \o B \in Seq(Conns)
           /\ Len(A \o B) = Len(l) - 1
           /\ \A j \in 1 .. Len(l) - 1 :
                 (A \o B)[j] = IF j < i THEN l[j] ELSE l[j + 1]
<1>0. \A s1, s2 \in Seq(Conns) :
        /\ s1 \o s2 \in Seq(Conns)
        /\ Len(s1 \o s2) = Len(s1) + Len(s2)
        /\ \A k \in 1 .. Len(s1) + Len(s2) :
              (s1 \o s2)[k] = IF k <= Len(s1) THEN s1[k] ELSE s2[k - Len(s1)]
  BY ConcatProperties
<1>1. /\ A \o B \in Seq(Conns)
      /\ Len(A \o B) = Len(A) + Len(B)
      /\ \A k \in 1 .. Len(A) + Len(B) :
            (A \o B)[k] = IF k <= Len(A) THEN A[k] ELSE B[k - Len(A)]
  BY <1>0
<1>2. Len(A) + Len(B) = Len(l) - 1
  OBVIOUS
<1>3. ASSUME NEW j \in 1 .. Len(l) - 1
      PROVE  (A \o B)[j] = IF j < i THEN l[j] ELSE l[j + 1]
  <2>1. (A \o B)[j] = IF j <= Len(A) THEN A[j] ELSE B[j - Len(A)]
    BY <1>1, <1>2
  <2>2. CASE j < i
    BY <2>1, <2>2
  <2>3. CASE ~(j < i)
    <3>1. j - Len(A) \in 1 .. Len(l) - i /\ i + (j - Len(A)) = j + 1
      BY <2>3
    <3>2. QED
      BY <2>1, <2>3, <3>1
  <2>4. QED
    BY <2>2, <2>3
<1>4. QED
  BY <1>1, <1>2, <1>3

(* iterator->remove: the list loses its i-th entry and keeps the others   *)
(* in order.                                                               *)
LEMMA RemoveIdxFacts ==
    ASSUME NEW l \in Seq(Conns), NEW i \in 1 .. Len(l)
    PROVE  /\ RemoveIdx(l, i) \in Seq(Conns)
           /\ Len(RemoveIdx(l, i)) = Len(l) - 1
           /\ \A j \in 1 .. Len(l) - 1 :
                 RemoveIdx(l, i)[j] = IF j < i THEN l[j] ELSE l[j + 1]
<1> DEFINE A == SubSeq(l, 1, i - 1)
           B == SubSeq(l, i + 1, Len(l))
<1>1. /\ A \in Seq(Conns) /\ Len(A) = i - 1
      /\ \A k \in 1 .. i - 1 : A[k] = l[k]
  BY SubSeqProperties
<1>2. /\ B \in Seq(Conns) /\ Len(B) = Len(l) - i
      /\ \A k \in 1 .. Len(l) - i : B[k] = l[i + k]
  BY SubSeqProperties
<1>3. RemoveIdx(l, i) = A \o B
  BY DEF RemoveIdx
<1> HIDE DEF A, B
<1>4. /\ A \o B \in Seq(Conns)
      /\ Len(A \o B) = Len(l) - 1
      /\ \A j \in 1 .. Len(l) - 1 :
            (A \o B)[j] = IF j < i THEN l[j] ELSE l[j + 1]
  BY <1>1, <1>2, ConcatAround
<1>5. QED
  BY <1>3, <1>4

(* A list without repetitions holds c once or not at all.               *)
LEMMA OccurrencesOnce ==
    ASSUME NEW l \in Seq(Conns), NEW c,
           \A i, j \in 1 .. Len(l) : l[i] = l[j] => i = j
    PROVE  Occurrences(l, c) = IF \E i \in 1 .. Len(l) : l[i] = c THEN 1 ELSE 0
<1> DEFINE occ == {i \in 1 .. Len(l) : l[i] = c}
<1>1. CASE \E i \in 1 .. Len(l) : l[i] = c
  <2>1. PICK i \in 1 .. Len(l) : l[i] = c
    BY <1>1
  <2>2. occ = {i}
    BY <2>1
  <2>3. QED
    BY <1>1, <2>2, FS_Singleton DEF Occurrences
<1>2. CASE ~\E i \in 1 .. Len(l) : l[i] = c
  <2>1. occ = {}
    BY <1>2
  <2>2. QED
    BY <1>2, <2>1, FS_EmptySet DEF Occurrences
<1>3. QED
  BY <1>1, <1>2

(* Changing one thread's reference moves that thread between the holder  *)
(* sets of the old and the new value.                                      *)
LEMMA HoldersUpdate ==
    ASSUME NEW f, f = [u \in Threads |-> f[u]], NEW t \in Threads, NEW x, NEW c
    PROVE  /\ IsFiniteSet(HoldSet(f, c))
           /\ Cardinality(HoldSet([f EXCEPT ![t] = x], c))
                = Cardinality(HoldSet(f, c))
                  + (IF x = c THEN 1 ELSE 0) - (IF f[t] = c THEN 1 ELSE 0)
<1> DEFINE H == HoldSet(f, c)
           G == HoldSet([f EXCEPT ![t] = x], c)
<1> SUFFICES /\ IsFiniteSet(H)
             /\ Cardinality(G) = Cardinality(H) + (IF x = c THEN 1 ELSE 0)
                                 - (IF f[t] = c THEN 1 ELSE 0)
  OBVIOUS
<1>0. H \in SUBSET Threads /\ IsFiniteSet(Threads)
  BY StoreAssumption DEF HoldSet
<1>1. IsFiniteSet(H) /\ Cardinality(H) \in Nat
  BY <1>0, FS_Subset, FS_CardinalityType
<1>6. \A u \in Threads : [f EXCEPT ![t] = x][u] = IF u = t THEN x ELSE f[u]
  OBVIOUS
<1>7. t \in H <=> f[t] = c
  BY DEF HoldSet
<1>2. /\ IsFiniteSet(H \ {t})
      /\ Cardinality(H \ {t}) = IF t \in H THEN Cardinality(H) - 1 ELSE Cardinality(H)
  BY <1>1, FS_RemoveElement
<1>3. CASE x = c
  <2>1. G = (H \ {t}) \cup {t}
    BY <1>3, <1>6 DEF HoldSet
  <2>2. Cardinality(G) = Cardinality(H \ {t}) + 1
    BY <1>2, <2>1, FS_AddElement
  <2>3. QED
    BY <1>1, <1>2, <1>3, <1>7, <2>2
<1>4. CASE x # c
  <2>1. G = H \ {t}
    BY <1>4, <1>6 DEF HoldSet
  <2>2. Cardinality(G) = Cardinality(H \ {t})
    BY <2>1
  <2>3. QED
    BY <1>1, <1>2, <1>4, <1>7, <2>2
<1>5. QED
  BY <1>1, <1>3, <1>4
(* A set of threads is finite.                                             *)
LEMMA ThreadSetFinite ==
    ASSUME NEW f, NEW c
    PROVE  /\ IsFiniteSet(HoldSet(f, c))
           /\ Cardinality(HoldSet(f, c)) \in Nat
  BY StoreAssumption, FS_Subset, FS_CardinalityType DEF HoldSet

(* The lists the store can hold after an append.                          *)
LEMMA AppendFacts ==
    ASSUME NEW l \in Seq(Conns), NEW c \in Conns
    PROVE  /\ Append(l, c) \in Seq(Conns)
           /\ Len(Append(l, c)) = Len(l) + 1
           /\ \A k \in 1 .. Len(l) : Append(l, c)[k] = l[k]
           /\ Append(l, c)[Len(l) + 1] = c
  OBVIOUS

(* Adding to one entry of a refcount function keeps it a refcount         *)
(* function, whether or not the entry is one of its objects.               *)
LEMMA ExceptCount ==
    ASSUME NEW rc \in [Conns -> Int], NEW x
    PROVE  /\ [rc EXCEPT ![x] = rc[x] + 1] \in [Conns -> Int]
           /\ [rc EXCEPT ![x] = rc[x] - 1] \in [Conns -> Int]
<1>1. CASE x \in Conns
  BY <1>1
<1>2. CASE x \notin Conns
  BY <1>2
<1>3. QED
  BY <1>1, <1>2

(* HoldersUpdate for the references the threads hold.                     *)
LEMMA RefUpdate ==
    ASSUME ref = [u \in Threads |-> ref[u]], NEW t \in Threads, NEW d, NEW x
    PROVE  Cardinality(HoldSet([ref EXCEPT ![t] = x], d))
              = Cardinality(HoldSet(ref, d)) + (IF x = d THEN 1 ELSE 0)
                - (IF ref[t] = d THEN 1 ELSE 0)
  BY HoldersUpdate

-----------------------------------------------------------------------------
USE StoreAssumption

LEMMA InitCount == Init => CountInv
<1> SUFFICES ASSUME Init PROVE CountInv
  OBVIOUS
<1>1. \A c \in Conns : Holders(c) = {}
  BY StoreAssumption DEF Init, Holders, HoldSet
<1>2. \A c \in Conns : ~Listed(c)
  BY DEF Init, Listed
<1>8. \A c \in Conns : Cardinality(Holders(c)) = 0
  BY <1>1, FS_EmptySet
<1>3. \A c \in Conns : refcount[c] = Owners(c)
  BY <1>2, <1>8 DEF Init, Owners
<1>4. /\ connections \in Seq(Conns) /\ added \subseteq Conns
      /\ refcount \in [Conns -> Int]
      /\ pc \in [Threads -> {"idle", "get_ref", "iterating"}]
  BY DEF Init
<1>5. ref = [t \in Threads |-> ref[t]] /\ found = [t \in Threads |-> found[t]]
  BY DEF Init
<1>6. /\ \A i, j \in 1 .. Len(connections) :
          connections[i] = connections[j] => i = j
      /\ \A i \in 1 .. Len(connections) : connections[i] \in added
      /\ \A t \in Threads : pc[t] # "idle" => ref[t] = NoConn
  BY DEF Init
<1>7. QED
  BY <1>3, <1>4, <1>5, <1>6 DEF CountInv

(* The list part of the invariant: membership, no repetition, only added   *)
(* objects.                                                                 *)
ListInv ==
    /\ connections \in Seq(Conns)
    /\ \A i, j \in 1 .. Len(connections) :
          connections[i] = connections[j] => i = j
    /\ \A i \in 1 .. Len(connections) : connections[i] \in added

LEMMA NextCount == CountInv /\ [Next]_vars => CountInv'
<1> SUFFICES ASSUME CountInv, [Next]_vars PROVE CountInv'
  OBVIOUS
<1>0. /\ ListInv
      /\ added \subseteq Conns
      /\ refcount \in [Conns -> Int]
      /\ pc \in [Threads -> {"idle", "get_ref", "iterating"}]
      /\ ref = [t \in Threads |-> ref[t]]
      /\ found = [t \in Threads |-> found[t]]
      /\ \A t \in Threads : pc[t] # "idle" => ref[t] = NoConn
      /\ \A c \in Conns : refcount[c] = Owners(c)
  BY DEF CountInv, ListInv
<1>h. ASSUME NEW d
      PROVE  Cardinality(Holders(d)) \in Nat /\ Cardinality(Holders(d)') \in Nat
  <2>1. Cardinality(HoldSet(ref, d)) \in Nat
    BY ThreadSetFinite
  <2>2. Cardinality(HoldSet(ref', d)) \in Nat
    BY ThreadSetFinite
  <2>3. QED
    BY <2>1, <2>2 DEF Holders
<1>1. ASSUME NEW t \in Threads, NEW c \in Conns, add_connection(t, c)
      PROVE  CountInv'
  <2>1. /\ connections' = Append(connections, c)
        /\ added' = added \cup {c}
        /\ c \notin added
        /\ UNCHANGED <<refcount, pc, found, ref>>
    BY <1>1 DEF add_connection, Ready
  <2>2. \A i \in 1 .. Len(connections) : connections[i] # c
    BY <1>0, <2>1 DEF ListInv
  <2>3. ListInv'
    BY <1>0, <2>1, <2>2, AppendFacts DEF ListInv
  <2>4. \A d \in Conns : Listed(d)' <=> Listed(d) \/ d = c
    BY <1>0, <2>1, AppendFacts DEF ListInv, Listed
  <2>5. \A d \in Conns : refcount'[d] = Owners(d)'
    <3> TAKE d \in Conns
    <3>1. Holders(d)' = Holders(d)
      BY <2>1 DEF Holders
    <3>2. d = c => ~Listed(d)
      BY <2>2 DEF Listed
    <3>3. QED
      BY <1>0, <1>h, <2>1, <2>4, <3>1, <3>2 DEF Owners
  <2>6. QED
    BY <1>0, <2>1, <2>3, <2>5 DEF CountInv, ListInv
<1>2. ASSUME NEW t \in Threads, NEW h \in Addr, NEW o \in Addr,
             get_connection_by_hosts(t, h, o)
      PROVE  CountInv'
  <2> DEFINE x == ScanHosts(connections, h, o)
  <2>1. /\ ref' = [ref EXCEPT ![t] = x]
        /\ refcount' = IF x = NoConn THEN refcount
                       ELSE [refcount EXCEPT ![x] = @ + 1]
        /\ ref[t] = NoConn /\ pc[t] = "idle"
        /\ UNCHANGED <<connections, added, pc, found>>
    BY <1>2 DEF get_connection_by_hosts, Ready
  <2> HIDE DEF x
  <2>2. \A d \in Conns : refcount'[d] = Owners(d)'
    <3> TAKE d \in Conns
    <3>1. Cardinality(Holders(d)') = Cardinality(Holders(d)) + (IF x = d THEN 1 ELSE 0)
      <4>1. Cardinality(HoldSet([ref EXCEPT ![t] = x], d))
              = Cardinality(HoldSet(ref, d)) + (IF x = d THEN 1 ELSE 0)
                - (IF ref[t] = d THEN 1 ELSE 0)
        BY <1>0, RefUpdate
      <4>3. Cardinality(HoldSet(ref, d)) \in Nat
        BY ThreadSetFinite
      <4>2. QED
        BY <2>1, <4>1, <4>3 DEF Holders
    <3>2. refcount'[d] = refcount[d] + (IF x = d THEN 1 ELSE 0)
      BY <1>0, <2>1
    <3>3. Listed(d)' = Listed(d)
      BY <2>1 DEF Listed
    <3>4. QED
      BY <1>0, <1>h, <2>1, <3>1, <3>2, <3>3 DEF Owners
  <2>3. refcount' \in [Conns -> Int]
    BY <1>0, <2>1, ExceptCount
  <2>4. QED
    BY <1>0, <2>1, <2>2, <2>3 DEF CountInv, ListInv
<1>3. ASSUME NEW t \in Threads, NEW n \in Names, get_connection_by_name(t, n)
      PROVE  CountInv'
  <2>1. /\ ref[t] = NoConn /\ pc[t] = "idle"
        /\ \/ UNCHANGED <<pc, found>>
           \/ /\ pc' = [pc EXCEPT ![t] = "get_ref"]
              /\ \E v : found' = [found EXCEPT ![t] = v]
        /\ UNCHANGED <<connections, added, refcount, freed, ref>>
    BY <1>3 DEF get_connection_by_name, Ready
  <2>2. \A d \in Conns : Owners(d)' = Owners(d)
    BY <2>1 DEF Owners, Listed, Holders
  <2>3. QED
    BY <1>0, <2>1, <2>2 DEF CountInv, ListInv
<1>4. ASSUME NEW t \in Threads, get_connection_by_name_ref(t)
      PROVE  CountInv'
  <2>1. /\ pc[t] = "get_ref"
        /\ refcount' = [refcount EXCEPT ![found[t]] = @ + 1]
        /\ ref' = [ref EXCEPT ![t] = found[t]]
        /\ pc' = [pc EXCEPT ![t] = "idle"]
        /\ found' = [found EXCEPT ![t] = NoConn]
        /\ UNCHANGED <<connections, added>>
    BY <1>4 DEF get_connection_by_name_ref
  <2>2. ref[t] = NoConn
    BY <1>0, <2>1
  <2>3. \A d \in Conns : refcount'[d] = Owners(d)'
    <3> TAKE d \in Conns
    <3>1. Cardinality(Holders(d)') = Cardinality(Holders(d)) + (IF found[t] = d THEN 1 ELSE 0)
      <4>1. Cardinality(HoldSet([ref EXCEPT ![t] = found[t]], d))
              = Cardinality(HoldSet(ref, d)) + (IF found[t] = d THEN 1 ELSE 0)
                - (IF ref[t] = d THEN 1 ELSE 0)
        BY <1>0, RefUpdate
      <4>3. Cardinality(HoldSet(ref, d)) \in Nat
        BY ThreadSetFinite
      <4>2. QED
        BY <2>1, <2>2, <4>1, <4>3 DEF Holders
    <3>2. refcount'[d] = refcount[d] + (IF found[t] = d THEN 1 ELSE 0)
      BY <1>0, <2>1
    <3>3. Listed(d)' = Listed(d)
      BY <2>1 DEF Listed
    <3>4. QED
      BY <1>0, <1>h, <2>1, <3>1, <3>2, <3>3 DEF Owners
  <2>4. refcount' \in [Conns -> Int]
    BY <1>0, <2>1, ExceptCount
  <2>5. QED
    BY <1>0, <2>1, <2>3, <2>4 DEF CountInv, ListInv
<1>5. ASSUME NEW t \in Threads, NEW n \in Names, delete_connection(t, n)
      PROVE  CountInv'
  <2> DEFINE i == FirstNamed(connections, n)
             l == connections
  <2>1. /\ ref[t] = NoConn
        /\ UNCHANGED <<mutex, alive, added, pc, found, ref>>
        /\ IF i = 0
           THEN UNCHANGED <<connections, refcount, freed>>
           ELSE /\ connections' = RemoveIdx(l, i)
                /\ refcount' = [refcount EXCEPT ![l[i]] = @ - 1]
    BY <1>5 DEF delete_connection, Ready, Unref
  <2>2. CASE i = 0
    <3>1. \A d \in Conns : Owners(d)' = Owners(d)
      BY <2>1, <2>2 DEF Owners, Listed, Holders
    <3>2. QED
      BY <1>0, <2>1, <2>2, <3>1 DEF CountInv, ListInv
  <2>3. CASE i # 0
    <3>1. i \in 1 .. Len(l)
      BY <1>0, <2>3, FirstNamedType DEF ListInv
    <3>2. /\ connections' \in Seq(Conns)
          /\ Len(connections') = Len(l) - 1
          /\ \A j \in 1 .. Len(l) - 1 :
                connections'[j] = IF j < i THEN l[j] ELSE l[j + 1]
      BY <1>0, <2>1, <2>3, <3>1, RemoveIdxFacts DEF ListInv
    <3>3. ListInv'
      <4> DEFINE idx(j) == IF j < i THEN j ELSE j + 1
      <4>1. \A j \in 1 .. Len(l) - 1 :
               idx(j) \in 1 .. Len(l) /\ connections'[j] = l[idx(j)]
        BY <3>1, <3>2
      <4>2. ASSUME NEW j1 \in 1 .. Len(l) - 1, NEW j2 \in 1 .. Len(l) - 1,
                   connections'[j1] = connections'[j2]
            PROVE  j1 = j2
        <5>0. /\ idx(j1) \in 1 .. Len(l) /\ idx(j2) \in 1 .. Len(l)
              /\ l[idx(j1)] = l[idx(j2)]
          BY <4>1, <4>2
        <5>1. idx(j1) = idx(j2)
          BY <1>0, <5>0, Zenon DEF ListInv
        <5>2. QED
          BY <3>1, <5>1
      <4>3. \A j \in 1 .. Len(l) - 1 : connections'[j] \in added'
        BY <1>0, <2>1, <4>1 DEF ListInv
      <4>4. QED
        BY <3>2, <4>2, <4>3 DEF ListInv
    <3>4. \A d \in Conns : Listed(d)' <=> Listed(d) /\ d # l[i]
      <4> TAKE d \in Conns
      <4>1. Listed(d)' => Listed(d) /\ d # l[i]
        <5> SUFFICES ASSUME NEW j \in 1 .. Len(l) - 1, connections'[j] = d
                     PROVE  Listed(d) /\ d # l[i]
          BY <3>2 DEF Listed
        <5>1. CASE j < i
          <6>1. j \in 1 .. Len(l) /\ l[j] = d /\ j # i
            BY <3>1, <3>2, <5>1
          <6>2. QED
            BY <1>0, <3>1, <6>1 DEF ListInv, Listed
        <5>2. CASE j >= i
          <6>1. j + 1 \in 1 .. Len(l) /\ l[j + 1] = d /\ j + 1 # i
            BY <3>1, <3>2, <5>2
          <6>2. QED
            BY <1>0, <3>1, <6>1 DEF ListInv, Listed
        <5>3. QED
          BY <5>1, <5>2, <3>1
      <4>2. Listed(d) /\ d # l[i] => Listed(d)'
        <5> SUFFICES ASSUME NEW k \in 1 .. Len(l), l[k] = d, d # l[i]
                     PROVE  Listed(d)'
          BY DEF Listed
        <5>1. CASE k < i
          <6>1. k \in 1 .. Len(l) - 1 /\ connections'[k] = d
            BY <3>1, <3>2, <5>1
          <6>2. QED
            BY <3>2, <6>1 DEF Listed
        <5>2. CASE k > i
          <6>1. k - 1 \in 1 .. Len(l) - 1 /\ connections'[k - 1] = d
            BY <3>1, <3>2, <5>2
          <6>2. QED
            BY <3>2, <6>1 DEF Listed
        <5>3. QED
          BY <5>1, <5>2, <3>1
      <4>3. QED
        BY <4>1, <4>2
    <3>5. Listed(l[i])
      BY <3>1 DEF Listed
    <3>6. l[i] \in Conns
      BY <1>0, <3>1 DEF ListInv
    <3>7. \A d \in Conns : refcount'[d] = Owners(d)'
      <4> TAKE d \in Conns
      <4>1. refcount'[d] = refcount[d] - (IF d = l[i] THEN 1 ELSE 0)
        BY <1>0, <2>1, <2>3, <3>6
      <4>2. Holders(d)' = Holders(d)
        BY <2>1 DEF Holders
      <4>3. QED
        BY <1>0, <1>h, <2>1, <3>4, <3>5, <4>1, <4>2 DEF Owners
    <3>8. refcount' \in [Conns -> Int]
      BY <1>0, <2>1, <2>3
    <3>9. QED
      BY <1>0, <2>1, <3>3, <3>7, <3>8 DEF CountInv, ListInv
  <2>4. QED
    BY <2>2, <2>3
<1>6. ASSUME NEW t \in Threads, create_iterator(t) \/ iterator_destroy(t)
      PROVE  CountInv'
  <2>1. /\ \/ ref[t] = NoConn /\ pc' = [pc EXCEPT ![t] = "iterating"]
           \/ pc' = [pc EXCEPT ![t] = "idle"]
        /\ UNCHANGED <<connections, added, refcount, found, ref>>
    BY <1>6 DEF create_iterator, iterator_destroy, Ready
  <2>2. \A d \in Conns : Owners(d)' = Owners(d)
    BY <2>1 DEF Owners, Listed, Holders
  <2>3. QED
    BY <1>0, <2>1, <2>2 DEF CountInv, ListInv
<1>7. ASSUME NEW t \in Threads, destroy(t)
      PROVE  CountInv'
  <2>1. /\ connections' = <<>>
        /\ refcount' = [c \in Conns |-> refcount[c] - Occurrences(connections, c)]
        /\ UNCHANGED <<added, pc, found, ref>>
    BY <1>7 DEF destroy, Occurrences
  <2>2. \A d \in Conns : Occurrences(connections, d) = IF Listed(d) THEN 1 ELSE 0
    BY <1>0, OccurrencesOnce DEF ListInv, Listed
  <2>3. \A d \in Conns : ~Listed(d)'
    BY <2>1 DEF Listed
  <2>4. \A d \in Conns : refcount'[d] = Owners(d)'
    <3> TAKE d \in Conns
    <3>1. Holders(d)' = Holders(d)
      BY <2>1 DEF Holders
    <3>2. Owners(d)' = (IF d \in added THEN 0 ELSE 1) + 0 + Cardinality(Holders(d))
      BY <2>1, <2>3, <3>1 DEF Owners
    <3>3. refcount'[d] = refcount[d] - (IF Listed(d) THEN 1 ELSE 0)
      BY <2>1, <2>2
    <3>4. QED
      BY <1>0, <1>h, <3>2, <3>3 DEF Owners
  <2>5. refcount' \in [Conns -> Int]
    BY <1>0, <2>1, <2>2
  <2>6. connections' \in Seq(Conns) /\ Len(connections') = 0
    BY <2>1
  <2>7. QED
    BY <1>0, <2>1, <2>4, <2>5, <2>6 DEF CountInv
<1>8. ASSUME NEW t \in Threads, Release(t)
      PROVE  CountInv'
  <2>1. /\ ref[t] # NoConn
        /\ refcount' = [refcount EXCEPT ![ref[t]] = @ - 1]
        /\ ref' = [ref EXCEPT ![t] = NoConn]
        /\ UNCHANGED <<connections, added, pc, found>>
    BY <1>8 DEF Release, Unref
  <2>2. \A d \in Conns : refcount'[d] = Owners(d)'
    <3> TAKE d \in Conns
    <3>1. Cardinality(Holders(d)') = Cardinality(Holders(d)) - (IF ref[t] = d THEN 1 ELSE 0)
      <4>1. Cardinality(HoldSet([ref EXCEPT ![t] = NoConn], d))
              = Cardinality(HoldSet(ref, d)) + (IF NoConn = d THEN 1 ELSE 0)
                - (IF ref[t] = d THEN 1 ELSE 0)
        BY <1>0, RefUpdate
      <4>3. Cardinality(HoldSet(ref, d)) \in Nat
        BY ThreadSetFinite
      <4>2. QED
        BY <2>1, <4>1, <4>3 DEF Holders
    <3>2. refcount'[d] = refcount[d] - (IF ref[t] = d THEN 1 ELSE 0)
      BY <1>0, <2>1
    <3>3. Listed(d)' = Listed(d)
      BY <2>1 DEF Listed
    <3>4. QED
      BY <1>0, <1>h, <2>1, <3>1, <3>2, <3>3 DEF Owners
  <2>3. refcount' \in [Conns -> Int]
    BY <1>0, <2>1, ExceptCount
  <2>4. QED
    BY <1>0, <2>1, <2>2, <2>3 DEF CountInv, ListInv
<1>9. CASE UNCHANGED vars
  <2>1. \A d \in Conns : Owners(d)' = Owners(d)
    BY <1>9 DEF vars, Owners, Listed, Holders
  <2>2. QED
    BY <1>0, <1>9, <2>1 DEF CountInv, vars, ListInv
<1>10. QED
  BY <1>1, <1>2, <1>3, <1>4, <1>5, <1>6, <1>7, <1>8, <1>9 DEF Next

(* The refcount accounting checked by the runs holds for every number of  *)
(* threads and connection objects: along every interleaving of            *)
(* add_connection, the two lookups, delete_connection, the iterator,     *)
(* destroy and the callers' connection->destroy, the refcount of every   *)
(* unfreed object is exactly the number of its owners.                    *)
THEOREM RefcountAccountingHolds == Spec => []RefcountAccounting
<1>1. CountInv => RefcountAccounting
  <2> SUFFICES ASSUME CountInv, NEW c \in Conns \ freed
               PROVE  refcount[c] = (IF c \in added THEN 0 ELSE 1)
                                    + Occurrences(connections, c)
                                    + Cardinality({t \in Threads : ref[t] = c})
    BY DEF RefcountAccounting
  <2>1. Occurrences(connections, c) = IF Listed(c) THEN 1 ELSE 0
    BY OccurrencesOnce DEF CountInv, Listed
  <2>2. Cardinality({t \in Threads : ref[t] = c}) = Cardinality(Holders(c))
    BY DEF Holders, HoldSet
  <2>3. QED
    BY <2>1, <2>2 DEF CountInv, Owners
<1>2. QED
  BY <1>1, InitCount, NextCount, PTL DEF Spec

(* While a thread holds the iterator of create_iterator (the mutex stays  *)
(* locked from create_iterator_locked to iterator->destroy), no step of  *)
(* any thread changes the list: every operation that writes it first     *)
(* takes the mutex.                                                        *)
THEOREM IteratorSnapshotHolds == Spec => IteratorSnapshotStable
<1>1. [Next]_vars => [mutex # NoThread /\ mutex' # NoThread => connections' = connections]_vars
  <2> SUFFICES ASSUME [Next]_vars, mutex # NoThread
               PROVE  connections' = connections
    BY DEF vars
  <2>1. ASSUME NEW t \in Threads, Ready(t) PROVE FALSE
    BY <2>1 DEF Ready
  <2>2. QED
    BY <2>1 DEF Next, vars, add_connection, get_connection_by_hosts,
       get_connection_by_name, get_connection_by_name_ref, delete_connection,
       create_iterator, iterator_destroy, destroy, Release
<1>2. QED
  BY <1>1, PTL DEF Spec, IteratorSnapshotStable
=============================================================================
