--------------------- MODULE ConnectionStoreLookupProofs ---------------------
(***************************************************************************)
(* What get_connection_by_hosts returns, for every list, every query and  *)
(* every configuration of connections: the priority scan of               *)
(* local_connection_store.c lines 58-125 picks the entry the lookup       *)
(* contract names (SpecLookup).  From that, the store's type invariant.  *)
(*                                                                         *)
(* ScanHosts is a recursive function over the list's prefixes.  Its       *)
(* value is pinned down without an induction theorem: a closed form of    *)
(* every prefix's result (Closed) satisfies the recursion pointwise, so   *)
(* the function the definition chooses exists; and any function that     *)
(* satisfies it agrees with the closed form at its least disagreement,    *)
(* which NatMin provides.                                                 *)
(***************************************************************************)
EXTENDS ConnectionStoreProofs

(* One step of the scan, as the body of ScanHosts' recursive function f.   *)
ScanBody(list, h, o, f, i) ==
    IF i = 0 THEN [found |-> NoConn, best |-> 0]
    ELSE IF /\ ConnCfg[list[i]].my_host = h
            /\ Prio(list[i], o) > f[i - 1].best
         THEN [found |-> list[i], best |-> Prio(list[i], o)]
         ELSE f[i - 1]

(* The function ScanHosts' definition stands for.                         *)
ScanFcn(list, h, o) ==
    CHOOSE f : f = [i \in 0 .. Len(list) |-> ScanBody(list, h, o, f, i)]

(* The least element of a set of indices.                                 *)
Least(S) == CHOOSE i \in S : \A j \in S : i <= j

(* The entries among the first n that match the query, and the exact ones. *)
Cands(list, h, o, n) ==
    {k \in 1 .. n : /\ ConnCfg[list[k]].my_host = h
                    /\ ConnCfg[list[k]].other_host \in {o, ANY}}
Exact(list, h, o, n) ==
    {k \in Cands(list, h, o, n) : ConnCfg[list[k]].other_host = o}

(* The scan's result after n entries, in closed form: the first exact     *)
(* match with priority 2, else the first wildcard match with priority 1,  *)
(* else nothing.                                                          *)
Closed(list, h, o, n) ==
    IF Exact(list, h, o, n) # {}
    THEN [found |-> list[Least(Exact(list, h, o, n))], best |-> 2]
    ELSE IF Cands(list, h, o, n) # {}
         THEN [found |-> list[Least(Cands(list, h, o, n))], best |-> 1]
         ELSE [found |-> NoConn, best |-> 0]

ClosedFcn(list, h, o) == [i \in 0 .. Len(list) |-> Closed(list, h, o, i)]

-----------------------------------------------------------------------------
(* The definition of ScanHosts is the chosen function at the full list.   *)
LEMMA ScanHostsUnfold ==
    ASSUME NEW list, NEW h, NEW o
    PROVE  ScanHosts(list, h, o) = ScanFcn(list, h, o)[Len(list)].found
BY DEF ScanHosts, ScanFcn, ScanBody

(* Least of a non-empty set of naturals is its minimum.                    *)
LEMMA LeastIsMin ==
    ASSUME NEW S \in SUBSET Nat, S # {}
    PROVE  /\ Least(S) \in S
           /\ \A j \in S : Least(S) <= j
BY NatMin DEF Least

(* Adding an index above every element keeps the least one.               *)
LEMMA LeastAdd ==
    ASSUME NEW S \in SUBSET Nat, S # {}, NEW i \in Nat, \A j \in S : j < i
    PROVE  Least(S \cup {i}) = Least(S)
<1>1. /\ Least(S) \in S
      /\ \A j \in S : Least(S) <= j
  BY LeastIsMin
<1>2. /\ Least(S \cup {i}) \in S \cup {i}
      /\ \A j \in S \cup {i} : Least(S \cup {i}) <= j
  BY LeastIsMin
<1>0. Least(S) \in Nat /\ Least(S \cup {i}) \in Nat
  BY <1>1, <1>2
<1>3. Least(S \cup {i}) # i
  <2>1. Least(S) < i /\ Least(S) \in S \cup {i}
    BY <1>1
  <2>2. Least(S \cup {i}) <= Least(S)
    BY <2>1, <1>2
  <2>3. QED
    BY <1>0, <2>1, <2>2
<1>4. Least(S \cup {i}) \in S
  BY <1>2, <1>3
<1>5. Least(S \cup {i}) <= Least(S) /\ Least(S) <= Least(S \cup {i})
  BY <1>1, <1>2, <1>4
<1>6. QED
  BY <1>0, <1>5

(* The least of a singleton.                                               *)
LEMMA LeastSingle ==
    ASSUME NEW i \in Nat
    PROVE  Least({i}) = i
BY LeastIsMin

(* The closed form at the empty prefix is the scan's starting point.      *)
LEMMA ClosedZero ==
    ASSUME NEW list, NEW h, NEW o, NEW f
    PROVE  Closed(list, h, o, 0) = ScanBody(list, h, o, f, 0)
<1>1. Cands(list, h, o, 0) = {} /\ Exact(list, h, o, 0) = {}
  BY DEF Cands, Exact
<1>2. QED
  BY <1>1 DEF Closed, ScanBody

(* The closed form satisfies the scan's recursion: one more entry either  *)
(* takes the lead with a strictly higher priority or leaves the result of *)
(* the shorter prefix as it was.                                           *)
LEMMA ClosedStep ==
    ASSUME NEW list \in Seq(Conns), NEW h, NEW o,
           NEW i \in 1 .. Len(list)
    PROVE  Closed(list, h, o, i) = ScanBody(list, h, o, ClosedFcn(list, h, o), i)
<1> DEFINE c == list[i]
           m == ConnCfg[c].my_host = h
           C0 == Cands(list, h, o, i - 1)
           E0 == Exact(list, h, o, i - 1)
           C1 == Cands(list, h, o, i)
           E1 == Exact(list, h, o, i)
           prev == Closed(list, h, o, i - 1)
<1>1. ScanBody(list, h, o, ClosedFcn(list, h, o), i)
        = IF m /\ Prio(c, o) > prev.best
          THEN [found |-> c, best |-> Prio(c, o)] ELSE prev
  BY DEF ScanBody, ClosedFcn
<1>2. /\ C1 = C0 \cup (IF m /\ ConnCfg[c].other_host \in {o, ANY} THEN {i} ELSE {})
      /\ E1 = E0 \cup (IF m /\ ConnCfg[c].other_host = o THEN {i} ELSE {})
  BY DEF Cands, Exact
<1>3. /\ E0 \subseteq C0
      /\ C0 \subseteq Nat
      /\ \A j \in C0 : j < i
  BY DEF Cands, Exact
<1>4. prev.best = IF E0 # {} THEN 2 ELSE IF C0 # {} THEN 1 ELSE 0
  BY DEF Closed
<1>5. Closed(list, h, o, i)
        = IF E1 # {} THEN [found |-> list[Least(E1)], best |-> 2]
          ELSE IF C1 # {} THEN [found |-> list[Least(C1)], best |-> 1]
          ELSE [found |-> NoConn, best |-> 0]
  BY DEF Closed
<1>6. prev = IF E0 # {} THEN [found |-> list[Least(E0)], best |-> 2]
             ELSE IF C0 # {} THEN [found |-> list[Least(C0)], best |-> 1]
             ELSE [found |-> NoConn, best |-> 0]
  BY DEF Closed
<1>7. CASE m /\ ConnCfg[c].other_host = o
  <2>1. Prio(c, o) = 2 /\ E1 = E0 \cup {i} /\ C1 = C0 \cup {i}
    BY <1>2, <1>7 DEF Prio
  <2>2. CASE E0 = {}
    <3>1. E1 = {i} /\ Least({i}) = i
      BY <2>1, <2>2, LeastSingle
    <3>2. prev.best < 2
      BY <1>4, <2>2
    <3>3. QED
      BY <1>1, <1>5, <1>7, <2>1, <3>1, <3>2
  <2>3. CASE E0 # {}
    <3>1. Least(E1) = Least(E0)
      BY <1>3, <2>1, <2>3, LeastAdd
    <3>2. prev.best = 2 /\ prev = [found |-> list[Least(E0)], best |-> 2]
      BY <1>4, <1>6, <2>3
    <3>3. E1 # {}
      BY <2>1
    <3>4. QED
      BY <1>1, <1>5, <2>1, <3>1, <3>2, <3>3
  <2>4. QED
    BY <2>2, <2>3
<1>8. CASE m /\ ConnCfg[c].other_host # o /\ ConnCfg[c].other_host = ANY
  <2>1. Prio(c, o) = 1 /\ E1 = E0 /\ C1 = C0 \cup {i}
    BY <1>2, <1>8 DEF Prio
  <2>2. CASE E0 # {}
    <3>1. prev.best = 2 /\ prev = [found |-> list[Least(E0)], best |-> 2]
      BY <1>4, <1>6, <2>2
    <3>2. QED
      BY <1>1, <1>5, <2>1, <2>2, <3>1
  <2>3. CASE E0 = {} /\ C0 # {}
    <3>1. Least(C1) = Least(C0)
      BY <1>3, <2>1, <2>3, LeastAdd
    <3>2. prev.best = 1 /\ prev = [found |-> list[Least(C0)], best |-> 1]
      BY <1>4, <1>6, <2>3
    <3>3. ScanBody(list, h, o, ClosedFcn(list, h, o), i) = prev
      BY <1>1, <2>1, <3>2
    <3>4. Closed(list, h, o, i) = [found |-> list[Least(C0)], best |-> 1]
      BY <1>5, <2>1, <2>3, <3>1
    <3>5. QED
      BY <3>2, <3>3, <3>4
  <2>4. CASE C0 = {}
    <3>1. E0 = {} /\ C1 = {i} /\ Least({i}) = i
      BY <1>3, <2>1, <2>4, LeastSingle
    <3>2. prev.best = 0
      BY <1>4, <3>1, <2>4
    <3>3. ScanBody(list, h, o, ClosedFcn(list, h, o), i)
            = [found |-> c, best |-> 1]
      BY <1>1, <1>8, <2>1, <3>2
    <3>4. Closed(list, h, o, i) = [found |-> list[i], best |-> 1]
      BY <1>5, <2>1, <3>1
    <3>5. QED
      BY <3>3, <3>4
  <2>5. QED
    BY <2>2, <2>3, <2>4
<1>9. CASE ~m \/ ConnCfg[c].other_host \notin {o, ANY}
  <2>1. C1 = C0 /\ E1 = E0
    BY <1>2, <1>9
  <2>2. ~(m /\ Prio(c, o) > prev.best)
    <3>1. CASE ~m
      BY <3>1
    <3>2. CASE ConnCfg[c].other_host \notin {o, ANY}
      <4>1. Prio(c, o) = 0
        BY <3>2 DEF Prio
      <4>2. prev.best \in {0, 1, 2}
        BY <1>4
      <4>3. QED
        BY <4>1, <4>2
    <3>3. QED
      BY <1>9, <3>1, <3>2
  <2>3. QED
    BY <1>1, <1>5, <1>6, <2>1, <2>2
<1>10. QED
  BY <1>7, <1>8, <1>9

(* So the closed form is a function the definition of ScanHosts can pick. *)
LEMMA ClosedFcnFix ==
    ASSUME NEW list \in Seq(Conns), NEW h, NEW o
    PROVE  ClosedFcn(list, h, o)
             = [i \in 0 .. Len(list) |-> ScanBody(list, h, o, ClosedFcn(list, h, o), i)]
<1> DEFINE G == ClosedFcn(list, h, o)
<1>1. ASSUME NEW i \in 0 .. Len(list)
      PROVE  G[i] = ScanBody(list, h, o, G, i)
  <2>1. G[i] = Closed(list, h, o, i)
    BY DEF ClosedFcn
  <2>2. CASE i = 0
    BY <2>1, <2>2, ClosedZero
  <2>3. CASE i # 0
    BY <2>1, <2>3, ClosedStep
  <2>4. QED
    BY <2>2, <2>3
<1>2. G = [i \in 0 .. Len(list) |-> G[i]]
  BY DEF ClosedFcn
<1>3. QED
  BY <1>1, <1>2

(* Any function satisfying the scan's recursion is the closed form: at    *)
(* the least index where they differ, both take the same step from the    *)
(* same previous result.                                                   *)
LEMMA ScanUnique ==
    ASSUME NEW list \in Seq(Conns), NEW h, NEW o, NEW f,
           f = [i \in 0 .. Len(list) |-> ScanBody(list, h, o, f, i)]
    PROVE  f = ClosedFcn(list, h, o)
<1> DEFINE G == ClosedFcn(list, h, o)
           Bad == {i \in 0 .. Len(list) : f[i] # G[i]}
<1>0. Len(list) \in Nat /\ Bad \subseteq Nat
  BY LenProperties
<1>1. G = [i \in 0 .. Len(list) |-> ScanBody(list, h, o, G, i)]
  BY ClosedFcnFix
<1>2. Bad = {}
  <2> SUFFICES ASSUME Bad # {} PROVE FALSE
    OBVIOUS
  <2>1. PICK k \in Bad : \A j \in Bad : k <= j
    BY <1>0, NatMin
  <2>2. CASE k = 0
    <3>0. 0 \in 0 .. Len(list)
      BY <1>0
    <3>1. f[0] = ScanBody(list, h, o, f, 0) /\ G[0] = ScanBody(list, h, o, G, 0)
      BY <1>1, <3>0, Zenon
    <3>2. ScanBody(list, h, o, f, 0) = ScanBody(list, h, o, G, 0)
      BY DEF ScanBody
    <3>3. QED
      BY <2>1, <2>2, <3>1, <3>2
  <2>3. CASE k # 0
    <3>1. k - 1 \in 0 .. Len(list) /\ k - 1 \notin Bad
      BY <2>1, <2>3
    <3>2. f[k - 1] = G[k - 1]
      BY <3>1
    <3>3. f[k] = ScanBody(list, h, o, f, k) /\ G[k] = ScanBody(list, h, o, G, k)
      BY <1>1, <2>1
    <3>4. ScanBody(list, h, o, f, k) = ScanBody(list, h, o, G, k)
      BY <3>2 DEF ScanBody
    <3>5. QED
      BY <2>1, <3>3, <3>4
  <2>4. QED
    BY <2>2, <2>3
<1>3. QED
  BY <1>1, <1>2

(* get_connection_by_hosts returns what the lookup contract names, for    *)
(* every list of connection objects and every query.                      *)
LEMMA ScanHostsSpec ==
    ASSUME NEW list \in Seq(Conns), NEW h, NEW o
    PROVE  ScanHosts(list, h, o) = SpecLookup(list, h, o)
<1> DEFINE F == ScanFcn(list, h, o)
<1>1. F = [i \in 0 .. Len(list) |-> ScanBody(list, h, o, F, i)]
  <2>1. \E g : g = [i \in 0 .. Len(list) |-> ScanBody(list, h, o, g, i)]
    BY ClosedFcnFix
  <2>2. QED
    BY <2>1 DEF ScanFcn
<1>2. F = ClosedFcn(list, h, o)
  BY <1>1, ScanUnique
<1>3. ScanHosts(list, h, o) = Closed(list, h, o, Len(list)).found
  BY <1>2, ScanHostsUnfold DEF ClosedFcn
<1>4. QED
  BY <1>3 DEF Closed, SpecLookup, Cands, Exact, Least

(* What the lookup returns is an object of the list or NULL.              *)
LEMMA ScanHostsType ==
    ASSUME NEW list \in Seq(Conns), NEW h, NEW o
    PROVE  ScanHosts(list, h, o) \in Conns \cup {NoConn}
<1> DEFINE E == Exact(list, h, o, Len(list))
           C == Cands(list, h, o, Len(list))
<1>1. ScanHosts(list, h, o) = Closed(list, h, o, Len(list)).found
  BY ScanHostsSpec DEF Closed, SpecLookup, Cands, Exact, Least
<1>2. E \subseteq 1 .. Len(list) /\ C \subseteq 1 .. Len(list)
  BY DEF Exact, Cands
<1>3. E # {} => Least(E) \in 1 .. Len(list)
  BY <1>2, LeastIsMin
<1>4. C # {} => Least(C) \in 1 .. Len(list)
  BY <1>2, LeastIsMin
<1>5. QED
  BY <1>1, <1>3, <1>4 DEF Closed

-----------------------------------------------------------------------------
(* The priority scan of get_connection_by_hosts agrees with the lookup    *)
(* contract in every reachable state of every instance: for every query,  *)
(* an exact remote match beats a wildcard and the earliest entry wins.    *)
THEOREM LookupAgreesHolds == Spec => []LookupAgreesWithSpec
<1>1. CountInv => LookupAgreesWithSpec
  BY ScanHostsSpec DEF CountInv, LookupAgreesWithSpec
<1>2. QED
  BY <1>1, InitCount, NextCount, PTL DEF Spec

-----------------------------------------------------------------------------
(* TypeOK is preserved by every step that keeps the refcount accounting.  *)
(* The only facts a step needs beyond TypeOK itself are that the lookup   *)
(* returns an object or NULL and that a refcount is never negative.       *)
LEMMA NextType ==
    TypeOK /\ CountInv /\ CountInv' /\ [Next]_vars => TypeOK'
<1> SUFFICES ASSUME TypeOK, CountInv, CountInv', [Next]_vars PROVE TypeOK'
  OBVIOUS
<1>a. ASSUME NEW c \in Conns PROVE refcount'[c] \in Nat
  <2>1. Cardinality(HoldSet(ref', c)) \in Nat
    BY ThreadSetFinite
  <2>2. refcount'[c] = Owners(c)'
    BY DEF CountInv
  <2>3. Owners(c)' = (IF c \in added' THEN 0 ELSE 1)
                     + (IF Listed(c)' THEN 1 ELSE 0)
                     + Cardinality(HoldSet(ref', c))
    BY DEF Owners, Holders, HoldSet
  <2>4. QED
    BY <2>1, <2>2, <2>3
<1>0. /\ connections' \in Seq(Conns)
      /\ added' \subseteq Conns
      /\ refcount' \in [Conns -> Nat]
      /\ pc' \in [Threads -> {"idle", "get_ref", "iterating"}]
  BY <1>a DEF CountInv
<1>1. ASSUME NEW t \in Threads, NEW c \in Conns, add_connection(t, c)
      PROVE  TypeOK'
  BY <1>0, <1>1 DEF add_connection, TypeOK
<1>2. ASSUME NEW t \in Threads, NEW h \in Addr, NEW o \in Addr,
             get_connection_by_hosts(t, h, o)
      PROVE  TypeOK'
  <2>1. ScanHosts(connections, h, o) \in Conns \cup {NoConn}
    BY ScanHostsType DEF TypeOK
  <2>2. QED
    BY <1>0, <1>2, <2>1 DEF get_connection_by_hosts, TypeOK
<1>3. ASSUME NEW t \in Threads, NEW n \in Names, get_connection_by_name(t, n)
      PROVE  TypeOK'
  <2> DEFINE i == FirstNamed(connections, n)
  <2>1. i # 0 => connections[i] \in Conns
    BY FirstNamedType DEF TypeOK
  <2>2. QED
    BY <1>0, <1>3, <2>1 DEF get_connection_by_name, TypeOK
<1>4. ASSUME NEW t \in Threads, get_connection_by_name_ref(t)
      PROVE  TypeOK'
  BY <1>0, <1>4 DEF get_connection_by_name_ref, TypeOK
<1>5. ASSUME NEW t \in Threads, NEW n \in Names, delete_connection(t, n)
      PROVE  TypeOK'
  <2> DEFINE i == FirstNamed(connections, n)
  <2>1. i # 0 => connections[i] \in Conns
    BY FirstNamedType DEF TypeOK
  <2>2. QED
    BY <1>0, <1>5, <2>1 DEF delete_connection, Unref, TypeOK
<1>6. ASSUME NEW t \in Threads, create_iterator(t) PROVE TypeOK'
  BY <1>0, <1>6 DEF create_iterator, TypeOK
<1>7. ASSUME NEW t \in Threads, iterator_destroy(t) PROVE TypeOK'
  BY <1>0, <1>7 DEF iterator_destroy, TypeOK
<1>8. ASSUME NEW t \in Threads, destroy(t) PROVE TypeOK'
  BY <1>0, <1>8 DEF destroy, TypeOK
<1>9. ASSUME NEW t \in Threads, Release(t) PROVE TypeOK'
  BY <1>0, <1>9 DEF Release, Unref, TypeOK
<1>10. CASE UNCHANGED vars
  BY <1>0, <1>10 DEF vars, TypeOK
<1>11. QED
  BY <1>1, <1>2, <1>3, <1>4, <1>5, <1>6, <1>7, <1>8, <1>9, <1>10 DEF Next

(* Every reachable state of the store is well typed for every instance:  *)
(* in particular a lookup hands out an object or NULL, the `found` that   *)
(* get_connection_by_name keeps across its unlock is an object, and no    *)
(* refcount drops below zero.                                              *)
THEOREM StoreTypeCorrect == Spec => []TypeOK
<1>1. Init => TypeOK
  BY StoreAssumption DEF Init, TypeOK
<1>2. QED
  BY <1>1, InitCount, NextCount, NextType, PTL DEF Spec

=============================================================================
