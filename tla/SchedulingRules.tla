--------------------------- MODULE SchedulingRules ---------------------------
(***************************************************************************)
(* The rules that decide, from the events seen so far, whether a workflow  *)
(* is started or stopped: WorkflowEventHandler and its state               *)
(* (ai_flow/scheduler_service/service/workflow_event_handler.py).  The     *)
(* handler of a job (ai_flow_plugins/scheduler_plugins/airflow/            *)
(* event_handler.py, AIFlowHandler) repeats this code for job actions.     *)
(*                                                                         *)
(* An event is [key, value, time]; its key stands for namespace, type,     *)
(* sender and key, time is its create_time in milliseconds.  A config      *)
(* matches the keys of a set (ANY_CONDITION matches several).              *)
(*   config = [keys, value, once, equals]                                  *)
(*   rule   = [events: sequence of configs, all: BOOLEAN, action]          *)
(*   rule state = [map: set of events, one for a key, schedule, latest]    *)
(***************************************************************************)
EXTENDS Integers, Sequences

\* SchedulingRuleState.__init__
NewRuleState == [map |-> {}, schedule |-> 0, latest |-> 0]

\* WorkflowHandlerState.__init__
NewState(rules) == [i \in DOMAIN rules |-> NewRuleState]

\* add_event: every rule of the workflow remembers the last event of each key.
AddEvent(s, e) ==
    [i \in DOMAIN s |->
        [s[i] EXCEPT !.map = {d \in @ : d.key # e.key} \cup {e}, !.latest = e.time]]

\* _match_config_events
Matching(config, map) == {e \in map : e.key \in config.keys}

\* Mutant: events of the time of the last trigger count again.
EventMeet_AtLeast(config, rs) ==
    \E e \in Matching(config, rs.map) :
        /\ config.equals => e.value = config.value
        /\ config.once => e.time >= rs.schedule

\* _check_event_meet
EventMeet(config, rs) ==
    \E e \in Matching(config, rs.map) :
        /\ config.equals => e.value = config.value
        /\ config.once => e.time > rs.schedule

\* _check_rule, with the conditions MEET_ALL and MEET_ANY
CheckRule(rule, rs) ==
    IF rule.all THEN \A j \in DOMAIN rule.events : EventMeet(rule.events[j], rs)
    ELSE \E j \in DOMAIN rule.events : EventMeet(rule.events[j], rs)

\* The rules that are met.  The code indexes the rule states by the position
\* of the rule, so it needs a rule state for every rule.
Met(rules, s) == {i \in DOMAIN rules : CheckRule(rules[i], s[i])}

\* Mutant: one time of the last trigger for all the rules.
CheckRules_All(rules, s) ==
    [i \in DOMAIN s |->
        IF Met(rules, s) # {} THEN [s[i] EXCEPT !.schedule = s[i].latest] ELSE s[i]]

\* _check_rules: all rules that are met have used the events seen so far.
CheckRules(rules, s) ==
    [i \in DOMAIN s |->
        IF i \in Met(rules, s) THEN [s[i] EXCEPT !.schedule = s[i].latest] ELSE s[i]]

\* handle_event: "pick the first triggered action".
FirstAction(rules, met) ==
    IF met = {} THEN "NONE"
    ELSE rules[CHOOSE i \in met : \A j \in met : i <= j].action
=============================================================================
