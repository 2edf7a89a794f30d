------------------------- MODULE MC_ConnectionStore -------------------------
(* Two threads, three connection objects: c1 and c3 share a name and a    *)
(* host pair (a tie for get_connection_by_hosts, a duplicate name for     *)
(* get_connection_by_name and delete_connection), c2 has a wildcard peer. *)
EXTENDS ConnectionStore

CONSTANTS t1, t2, c1, c2, c3, n1, n2, h1, h2

MC_Threads == {t1, t2}
MC_Conns == {c1, c2, c3}
MC_Names == {n1, n2}
MC_Hosts == {h1, h2}
MC_ConnCfg ==
    [c \in MC_Conns |->
        CASE c = c1 -> [name |-> n1, my_host |-> h1, other_host |-> h2]
          [] c = c2 -> [name |-> n2, my_host |-> h1, other_host |-> ANY]
          [] c = c3 -> [name |-> n1, my_host |-> h1, other_host |-> h2]]

=============================================================================
