---------------------------- MODULE MCAppMaster ----------------------------
(* A bounded instance of AppMaster for TLC. *)
EXTENDS AppMaster, TLC

CONSTANT worker0

OneNode == {worker0}
AllRoles == {"worker"}
RolesOf == [n \in Node |-> "worker"]
=============================================================================
