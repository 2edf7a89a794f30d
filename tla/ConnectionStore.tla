--------------------------- MODULE ConnectionStore ---------------------------
(***************************************************************************)
(* The charon connection store (src/src/charon/config/connections/        *)
(* local_connection_store.c): a linked list of refcounted connection_t    *)
(* objects guarded by one pthread mutex, used by several worker threads.  *)
(*                                                                         *)
(* Each thread runs one store operation at a time.  A critical section    *)
(* that does not let go of the mutex is one atomic step; the one place    *)
(* where the code does something with a connection after unlocking        *)
(* (get_connection_by_name, lines 146-152) is split into two steps.       *)
(* The refcount of connection_t (connection.c, not in the tree) follows   *)
(* the usual contract: created with one reference, get_ref adds one,      *)
(* destroy drops one and frees the object when none is left.              *)
(***************************************************************************)
EXTENDS Naturals, Sequences, FiniteSets

CONSTANTS
    Threads,    \* worker threads calling the store
    Conns,      \* connection_t objects built by the configuration layer
    Names,      \* connection names
    Hosts,      \* host addresses
    ANY,        \* the wildcard address (host_t is_anyaddr)
    NoConn,     \* NULL connection pointer
    NoThread,   \* the mutex is free
    ConnCfg     \* [Conns -> [name, my_host, other_host]], fixed per object

ASSUME StoreAssumption ==
    /\ IsFiniteSet(Threads)
    /\ ANY \notin Hosts
    /\ NoConn \notin Conns
    /\ NoThread \notin Threads
    /\ ConnCfg \in [Conns -> [name : Names, my_host : Hosts \cup {ANY},
                              other_host : Hosts \cup {ANY}]]

VARIABLES
    connections, \* this->connections, the list in insertion order
    mutex,       \* this->mutex: the holder, or NoThread
    alive,       \* the store has not been destroyed
    added,       \* objects handed to add_connection (their reference moved in)
    refcount,    \* connection_t refcount
    freed,       \* objects whose memory has been released
    pc,          \* where each thread is
    found,       \* get_connection_by_name's local `found`, across the unlock
    ref          \* the reference each thread holds, or NoConn

vars == <<connections, mutex, alive, added, refcount, freed, pc, found, ref>>

Addr == Hosts \cup {ANY}

-----------------------------------------------------------------------------
(* get_connection_by_hosts (lines 58-125).  The scan keeps the first     *)
(* candidate of strictly higher priority (prio > best_prio), so the      *)
(* earliest inserted connection wins a tie.  Priorities are the prio_t   *)
(* values PRIO_UNDEFINED = 0, PRIO_ADDR_ANY = 1, PRIO_ADDR_MATCH = 2.      *)
Prio(c, other_host) ==
    IF other_host = ConnCfg[c].other_host THEN 2
    ELSE IF ConnCfg[c].other_host = ANY THEN 1
    ELSE 0

(* Seeded fault for mutation testing: a tie replaces the earlier match.  *)
ScanHosts_ge(list, my_host, other_host) ==
    LET scan[i \in 0 .. Len(list)] ==
            IF i = 0 THEN [found |-> NoConn, best |-> 0]
            ELSE LET c == list[i] IN
                 IF /\ ConnCfg[c].my_host = my_host
                    /\ Prio(c, other_host) >= scan[i - 1].best
                    /\ Prio(c, other_host) > 0
                 THEN [found |-> c, best |-> Prio(c, other_host)]
                 ELSE scan[i - 1]
    IN  scan[Len(list)].found

ScanHosts(list, my_host, other_host) ==
    LET scan[i \in 0 .. Len(list)] ==
            IF i = 0 THEN [found |-> NoConn, best |-> 0]
            ELSE LET c == list[i] IN
                 IF /\ ConnCfg[c].my_host = my_host
                    /\ Prio(c, other_host) > scan[i - 1].best
                 THEN [found |-> c, best |-> Prio(c, other_host)]
                 ELSE scan[i - 1]
    IN  scan[Len(list)].found

(* The first element of the list with the given name (strcmp == 0, break). *)
FirstNamed(list, name) ==
    LET idx == {i \in 1 .. Len(list) : ConnCfg[list[i]].name = name}
    IN  IF idx = {} THEN 0 ELSE CHOOSE i \in idx : \A j \in idx : i <= j

(* list without its i-th element (iterator->remove).                       *)
RemoveIdx(list, i) == SubSeq(list, 1, i - 1) \o SubSeq(list, i + 1, Len(list))

(* connection->destroy: drop one reference; the last one frees the object. *)
Unref(rc, fr, c) ==
    /\ rc' = [rc EXCEPT ![c] = @ - 1]
    /\ fr' = IF rc[c] = 1 THEN fr \cup {c} ELSE fr

(* A thread may call the store when it is between operations, holds no   *)
(* reference and the mutex is free (pthread_mutex_lock would block).     *)
Ready(t) ==
    /\ alive
    /\ pc[t] = "idle"
    /\ ref[t] = NoConn
    /\ mutex = NoThread

-----------------------------------------------------------------------------
(* Seeded fault for mutation testing: insert_last without taking the     *)
(* mutex.                                                                  *)
add_connection_unlocked(t, c) ==
    /\ alive
    /\ pc[t] = "idle"
    /\ ref[t] = NoConn
    /\ c \notin added
    /\ connections' = Append(connections, c)
    /\ added' = added \cup {c}
    /\ UNCHANGED <<mutex, alive, refcount, freed, pc, found, ref>>

(* add_connection (lines 190-196): insert_last under the mutex; the      *)
(* caller's reference now belongs to the store.                          *)
add_connection(t, c) ==
    /\ Ready(t)
    /\ c \notin added
    /\ connections' = Append(connections, c)
    /\ added' = added \cup {c}
    /\ UNCHANGED <<mutex, alive, refcount, freed, pc, found, ref>>

(* Seeded fault for mutation testing: found->get_ref forgotten.          *)
get_connection_by_hosts_noref(t, my_host, other_host) ==
    /\ Ready(t)
    /\ ref' = [ref EXCEPT ![t] = ScanHosts(connections, my_host, other_host)]
    /\ UNCHANGED <<connections, mutex, alive, added, refcount, freed, pc, found>>

(* get_connection_by_hosts: scan and get_ref, all under the mutex.        *)
get_connection_by_hosts(t, my_host, other_host) ==
    /\ Ready(t)
    /\ LET c == ScanHosts(connections, my_host, other_host) IN
       /\ ref' = [ref EXCEPT ![t] = c]
       /\ refcount' = IF c = NoConn THEN refcount
                      ELSE [refcount EXCEPT ![c] = @ + 1]
    /\ UNCHANGED <<connections, mutex, alive, added, freed, pc, found>>

(* Seeded fault for mutation testing: the if (found) test of line 148   *)
(* dropped, so get_ref is reached with NULL.                              *)
get_connection_by_name_noguard(t, name) ==
    /\ Ready(t)
    /\ LET i == FirstNamed(connections, name) IN
       /\ found' = [found EXCEPT ![t] = IF i = 0 THEN NoConn ELSE connections[i]]
       /\ pc' = [pc EXCEPT ![t] = "get_ref"]
    /\ UNCHANGED <<connections, mutex, alive, added, refcount, freed, ref>>

(* get_connection_by_name, first half (lines 135-146): scan under the     *)
(* mutex and unlock, keeping the pointer in `found`.                      *)
get_connection_by_name(t, name) ==
    /\ Ready(t)
    /\ LET i == FirstNamed(connections, name) IN
       IF i = 0
       THEN UNCHANGED <<pc, found>>
       ELSE /\ found' = [found EXCEPT ![t] = connections[i]]
            /\ pc' = [pc EXCEPT ![t] = "get_ref"]
    /\ UNCHANGED <<connections, mutex, alive, added, refcount, freed, ref>>

(* get_connection_by_name, second half (lines 148-153): found->get_ref,   *)
(* after the mutex was released.                                          *)
get_connection_by_name_ref(t) ==
    /\ pc[t] = "get_ref"
    /\ refcount' = [refcount EXCEPT ![found[t]] = @ + 1]
    /\ ref' = [ref EXCEPT ![t] = found[t]]
    /\ pc' = [pc EXCEPT ![t] = "idle"]
    /\ found' = [found EXCEPT ![t] = NoConn]
    /\ UNCHANGED <<connections, mutex, alive, added, freed>>

(* Seeded fault for mutation testing: the entry is destroyed but not     *)
(* removed from the list (iterator->remove forgotten).                    *)
delete_connection_no_remove(t, name) ==
    /\ Ready(t)
    /\ LET i == FirstNamed(connections, name) IN
       IF i = 0
       THEN UNCHANGED <<connections, refcount, freed>>
       ELSE /\ UNCHANGED connections
            /\ Unref(refcount, freed, connections[i])
    /\ UNCHANGED <<mutex, alive, added, pc, found, ref>>

(* delete_connection (lines 159-185): remove the first entry of that name *)
(* and destroy it, under the mutex; NOT_FOUND leaves everything as is.    *)
delete_connection(t, name) ==
    /\ Ready(t)
    /\ LET i == FirstNamed(connections, name) IN
       IF i = 0
       THEN UNCHANGED <<connections, refcount, freed>>
       ELSE /\ connections' = RemoveIdx(connections, i)
            /\ Unref(refcount, freed, connections[i])
    /\ UNCHANGED <<mutex, alive, added, pc, found, ref>>

(* create_iterator (lines 201-205): create_iterator_locked takes the     *)
(* mutex for the iterator's lifetime; iterator->destroy releases it.     *)
create_iterator(t) ==
    /\ Ready(t)
    /\ mutex' = t
    /\ pc' = [pc EXCEPT ![t] = "iterating"]
    /\ UNCHANGED <<connections, alive, added, refcount, freed, found, ref>>

iterator_destroy(t) ==
    /\ pc[t] = "iterating"
    /\ mutex' = NoThread
    /\ pc' = [pc EXCEPT ![t] = "idle"]
    /\ UNCHANGED <<connections, alive, added, refcount, freed, found, ref>>

(* destroy (lines 210-216): destroy_offset drops the store's reference to *)
(* every entry; the store itself is freed.                                 *)
destroy(t) ==
    /\ Ready(t)
    /\ connections' = <<>>
    /\ refcount' = [c \in Conns |->
                      refcount[c] - Cardinality({i \in 1 .. Len(connections) :
                                                   connections[i] = c})]
    /\ freed' = freed \cup {c \in Conns : \E i \in 1 .. Len(connections) :
                                             /\ connections[i] = c
                                             /\ refcount[c] = 1}
    /\ alive' = FALSE
    /\ UNCHANGED <<mutex, added, pc, found, ref>>

(* The caller is done with the connection it looked up (connection->destroy). *)
Release(t) ==
    /\ ref[t] # NoConn
    /\ Unref(refcount, freed, ref[t])
    /\ ref' = [ref EXCEPT ![t] = NoConn]
    /\ UNCHANGED <<connections, mutex, alive, added, pc, found>>

-----------------------------------------------------------------------------
(* local_connection_store_create (lines 221-237): an empty list and a    *)
(* free mutex; every connection object exists with its one reference.    *)
Init ==
    /\ connections = <<>>
    /\ mutex = NoThread
    /\ alive = TRUE
    /\ added = {}
    /\ refcount = [c \in Conns |-> 1]
    /\ freed = {}
    /\ pc = [t \in Threads |-> "idle"]
    /\ found = [t \in Threads |-> NoConn]
    /\ ref = [t \in Threads |-> NoConn]

Next ==
    \E t \in Threads :
        \/ \E c \in Conns : add_connection(t, c)
        \/ \E h \in Addr, o \in Addr : get_connection_by_hosts(t, h, o)
        \/ \E n \in Names : get_connection_by_name(t, n)
        \/ get_connection_by_name_ref(t)
        \/ \E n \in Names : delete_connection(t, n)
        \/ create_iterator(t)
        \/ iterator_destroy(t)
        \/ destroy(t)
        \/ Release(t)

Spec == Init /\ [][Next]_vars

-----------------------------------------------------------------------------
(* Properties.                                                             *)

TypeOK ==
    /\ connections \in Seq(Conns)
    /\ mutex \in Threads \cup {NoThread}
    /\ alive \in BOOLEAN
    /\ added \subseteq Conns
    /\ refcount \in [Conns -> Nat]
    /\ freed \subseteq Conns
    /\ pc \in [Threads -> {"idle", "get_ref", "iterating"}]
    /\ found \in [Threads -> Conns \cup {NoConn}]
    /\ \A t \in Threads : pc[t] = "get_ref" => found[t] \in Conns
    /\ ref \in [Threads -> Conns \cup {NoConn}]

(* How often c occurs in the list.                                        *)
Occurrences(list, c) == Cardinality({i \in 1 .. Len(list) : list[i] = c})

(* Every live connection's refcount counts exactly its owners: the        *)
(* configuration layer before add_connection, the store while the object  *)
(* is listed, and each thread holding a reference from a lookup.  A lost  *)
(* or doubled get_ref/destroy on any path (delete, lookup, store destroy) *)
(* breaks it.                                                              *)
RefcountAccounting ==
    \A c \in Conns \ freed :
        refcount[c] = (IF c \in added THEN 0 ELSE 1)
                      + Occurrences(connections, c)
                      + Cardinality({t \in Threads : ref[t] = c})

(* The lookup contract of spec 4.2 and 8, stated from the whole list: the *)
(* candidates are the entries whose local address equals my_host and     *)
(* whose remote address is other_host or the wildcard; an exact remote   *)
(* beats the wildcard, and the earliest inserted wins among equals.       *)
SpecLookup(list, my_host, other_host) ==
    LET cands == {i \in 1 .. Len(list) :
                    /\ ConnCfg[list[i]].my_host = my_host
                    /\ ConnCfg[list[i]].other_host \in {other_host, ANY}}
        exact == {i \in cands : ConnCfg[list[i]].other_host = other_host}
        first(S) == CHOOSE i \in S : \A j \in S : i <= j
    IN  IF exact # {} THEN list[first(exact)]
        ELSE IF cands # {} THEN list[first(cands)]
        ELSE NoConn

(* The priority scan of get_connection_by_hosts returns, for every query  *)
(* and every list the threads can build, the connection the contract      *)
(* names.                                                                  *)
LookupAgreesWithSpec ==
    \A h \in Addr, o \in Addr :
        ScanHosts(connections, h, o) = SpecLookup(connections, h, o)

(* While a thread holds an iterator (the mutex), no other thread changes  *)
(* the list it walks: create_iterator's snapshot is stable (spec 5).      *)
IteratorSnapshotStable ==
    [][mutex # NoThread /\ mutex' # NoThread => connections' = connections]_vars

(* No thread touches a freed connection: neither the get_ref that         *)
(* get_connection_by_name makes after unlocking, nor later use of the     *)
(* reference it returns.                                                   *)
NoUseAfterFree ==
    \A t \in Threads :
        /\ pc[t] = "get_ref" => found[t] \notin freed
        /\ ref[t] # NoConn => ref[t] \notin freed

=============================================================================
