---------------------------- MODULE MCMLCluster ----------------------------
(* Bounded instances of MLCluster for TLC. *)
EXTENDS MLCluster, TLC

CONSTANTS worker0, ps0

TwoNodes == {worker0, ps0}
AllRoles == {"worker", "ps"}
RolesOf == [n \in Node |-> IF n = worker0 THEN "worker" ELSE "ps"]
(* Two workers and no parameter server: the nodes are interchangeable. *)
SameRole == [n \in Node |-> "worker"]
Interchangeable == Permutations(Node)
=============================================================================
