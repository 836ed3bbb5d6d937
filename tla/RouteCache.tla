----------------------------- MODULE RouteCache -----------------------------
(***************************************************************************)
(* What RouteManager promises: a table of provider lists, one per method   *)
(* path, in which an update replaces the list of its own path in one step  *)
(* and touches no other.                                                   *)
(***************************************************************************)
CONSTANTS Paths, Nodes

VARIABLE table

Init == table = [p \in Paths |-> {}]

Replace(p, nodes) == table' = [table EXCEPT ![p] = nodes]

Next == \E p \in Paths, nodes \in SUBSET Nodes : Replace(p, nodes)

Spec == Init /\ [][Next]_table
=============================================================================
