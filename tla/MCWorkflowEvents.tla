-------------------------- MODULE MCWorkflowEvents --------------------------
(***************************************************************************)
(* WorkflowEvents with two contexts.  Event g is for context ctx, event f   *)
(* is for the default context, event h is broadcast and has two values.    *)
(***************************************************************************)
EXTENDS WorkflowEvents

CONSTANTS ctx, dflt, thr

Sent == {[key |-> "g", value |-> "x"], [key |-> "f", value |-> "x"],
         [key |-> "h", value |-> "x"], [key |-> "h", value |-> "y"]}

Extractor == [k \in {"f", "g", "h"} |->
                 CASE k = "f" -> {dflt} [] k = "g" -> {ctx} [] k = "h" -> Broadcast]

Config(keys, value, once, equals) == [keys |-> keys, value |-> value, once |-> once, equals |-> equals]

\* STOP when h is y, START when g was updated and h was x at some time.
StopRule == [events |-> <<Config({"h"}, "y", TRUE, TRUE)>>, all |-> FALSE, action |-> "STOP"]
StartRule == [events |-> <<Config({"g"}, "", TRUE, FALSE), Config({"h"}, "x", FALSE, TRUE)>>,
              all |-> TRUE, action |-> "START"]
Rules == <<StopRule, StartRule>>

\* START on any event, and START on two conditions: one rule more than before.
\* STOP on y, as before: the rule of START moves to its place.
AnyRule == [events |-> <<Config({"f", "g", "h"}, "", TRUE, FALSE)>>, all |-> FALSE]
Changes == {[action |-> "START", events |-> <<AnyRule>>],
            [action |-> "START", events |-> <<AnyRule, [events |-> StartRule.events, all |-> TRUE]>>],
            [action |-> "STOP", events |-> <<[events |-> StopRule.events, all |-> FALSE]>>]}
=============================================================================
