-------------------------- MODULE MCTaskLifecycle --------------------------
(* Model values for TaskLifecycle.                                            *)
EXTENDS TaskLifecycle

CONSTANTS a, b, d

\* b depends on a, d on b.
Chain == [t \in Task |-> CASE t = a -> {} [] t = b -> {a} [] t = d -> {b}]
AllSuccess == [t \in Task |-> "all_success"]
StopRestart == {RunMessage("stop_dag_run"), [action |-> "RESTART", task |-> b]}
=============================================================================
