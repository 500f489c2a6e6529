---------------------------- MODULE WorkflowEvents ----------------------------
(***************************************************************************)
(* Workflow executions that start and stop on events: the process that     *)
(* runs WorkflowEventProcessor, the scheduler service that changes the     *)
(* rules of the workflow while events are processed, the store they share  *)
(* and the scheduler whose executions they start and stop.                 *)
(*                                                                         *)
(* One workflow.  For each context the store has at most one row, with the *)
(* last execution and the state of the rules.                              *)
(***************************************************************************)
EXTENDS SchedulingRules

CONSTANTS
    Context,        \* the contexts of the workflow
    Default,        \* WORKFLOW_EXECUTION_DEFAULT_CONTEXT
    Events,         \* the events that are sent, as [key, value] records
    Extract,        \* the ContextExtractor: for each key Broadcast, Fails, or a set of contexts
    Broadcast,
    Fails,
    InitialRules,   \* the scheduling rules at the start
    Requests,       \* startNewWorkflowExecutionOnEvent and killWorkflowExecutionOnEvent: [action, events]
    Thread,         \* threads of the service
    Answers,        \* what start_new_workflow_execution may do: "created", "none", "raises";
                    \* stop_workflow_execution may raise too
    MaxEvents,      \* bound: events sent
    MaxRequests,    \* bound: requests that change rules
    MaxCrashes,     \* bound: ends of the service
    None

ASSUME EventsAssumption ==
    /\ Default \in Context
    /\ \A e \in Events : Extract[e.key] \in {Broadcast, Fails} \/ Extract[e.key] \subseteq Context
    /\ Answers \subseteq {"created", "none", "raises"}
    /\ None \notin Nat
    /\ MaxEvents \in Nat /\ MaxRequests \in Nat /\ MaxCrashes \in Nat

VARIABLES
    pipe,     \* the events sent to the processor and not received
    clock,    \* create_time of the last event
    sent,     \* the number of events sent
    rules,    \* the store: scheduling_rules of the workflow
    registered, \* the store: the contexts that have a row
    rows,     \* the store: the rows, [exec, state]; NewRow where there is none
    execs,    \* the scheduler: the executions, [context, status, by]
    proc,     \* the processor: where it is, the event and what it has read
    thread,   \* the threads of the service that handle requests
    asked,    \* the number of requests
    crashes,  \* the number of ends of the service
    log,      \* history: for each context the events handled and saved
    orphans   \* history: executions whose id the processor did not save

vars == <<pipe, clock, sent, rules, registered, rows, execs, proc, thread, asked, crashes, log, orphans>>

\* A row after register_workflow_context_event_handler_state.  It has no rule
\* states; a state that was saved has some, as a rule subscribed the event.
NoState == <<>>
NewRow == [exec |-> None, state |-> NoState]

\* The processor between two events, and a thread of the service between two
\* requests.
Idle == [pc |-> "recv", event |-> None, rules |-> <<>>, todo |-> {}, left |-> {}, ctx |-> None,
         read |-> [c \in Context |-> NewRow], met |-> {}]
NoRequest == [pc |-> "idle"]

\* An execution that the scheduler runs.
Running(x) == x # None /\ execs[x].status = "running"

(***************************************************************************)
(* The notification service and the watcher                                *)
(***************************************************************************)

\* WorkflowEventWatcher.process sends the events to the pipe in the order in
\* which the notification service stored them.  create_time does not decrease,
\* and two events may have the same.
SendEvent ==
    /\ sent < MaxEvents
    /\ \E e \in Events, t \in {clock, clock + 1} :
        /\ t > 0
        /\ pipe' = Append(pipe, [key |-> e.key, value |-> e.value, time |-> t])
        /\ clock' = t
    /\ sent' = sent + 1
    /\ UNCHANGED <<rules, registered, rows, execs, proc, thread, asked, crashes, log, orphans>>

(***************************************************************************)
(* The processor                                                           *)
(***************************************************************************)

\* _is_subscribed
Subscribed(rs, e) == \E i \in DOMAIN rs : \E j \in DOMAIN rs[i].events : e.key \in rs[i].events[j].keys

\* run and _process_event: receive an event and read the workflows that
\* subscribe it.  A context extractor that raises skips the event.
Recv ==
    /\ proc.pc = "recv" /\ pipe # <<>>
    /\ pipe' = Tail(pipe)
    /\ LET e == Head(pipe) IN
       proc' = IF ~Subscribed(rules, e) \/ Extract[e.key] = Fails THEN Idle
               ELSE [Idle EXCEPT !.pc = "states", !.event = e, !.rules = rules, !.todo = Extract[e.key]]
    /\ UNCHANGED <<clock, sent, rules, registered, rows, execs, thread, asked, crashes, log, orphans>>

\* list_workflow_context_event_handler_states
ListStates ==
    /\ proc.pc = "states" /\ proc.todo = Broadcast
    /\ proc' = [proc EXCEPT !.pc = "handle", !.todo = {}, !.read = rows,
                            !.left = registered]
    /\ UNCHANGED <<pipe, clock, sent, rules, registered, rows, execs, thread, asked, crashes, log, orphans>>

\* get_workflow_context_event_handler_state, for one of the contexts
GetState ==
    /\ proc.pc = "states" /\ proc.todo # Broadcast
    /\ IF proc.todo = {} THEN proc' = [proc EXCEPT !.pc = "handle"]
       ELSE \E c \in proc.todo :
            proc' = IF c \notin registered THEN [proc EXCEPT !.pc = "register", !.ctx = c]
                    ELSE [proc EXCEPT !.todo = @ \ {c}, !.left = @ \cup {c}, !.read[c] = rows[c]]
    /\ UNCHANGED <<pipe, clock, sent, rules, registered, rows, execs, thread, asked, crashes, log, orphans>>

\* An exception in _process_event is logged by run, which receives the next
\* event.
Abort ==
    proc' = Idle

\* register_workflow_context_event_handler_state, which raises when the row
\* was inserted in between.
Register ==
    /\ proc.pc = "register"
    /\ IF proc.ctx \notin registered
       THEN /\ registered' = registered \cup {proc.ctx}
            /\ proc' = [proc EXCEPT !.pc = "states", !.todo = @ \ {proc.ctx},
                                    !.left = @ \cup {proc.ctx}, !.read[proc.ctx] = NewRow]
       ELSE Abort /\ UNCHANGED registered
    /\ UNCHANGED <<pipe, clock, sent, rules, rows, execs, thread, asked, crashes, log, orphans>>

\* The next context, or the next event.
Continue(p) == IF p.left = {} THEN Idle ELSE [p EXCEPT !.pc = "handle", !.ctx = None, !.met = {}]

\* The rule states with the event; a context without a state gets a new one.
WithEvent(c) ==
    LET s == proc.read[c].state
    IN AddEvent(IF s = NoState THEN NewState(proc.rules) ELSE s, proc.event)

\* Mutant: START starts an execution whatever the last one does.
Chosen_AlwaysStarts(action, exec) ==
    CASE action = "START" -> "start"
      [] action = "STOP" /\ exec # None -> "stop"
      [] OTHER -> "save"

\* Mutant: STOP has the test of START, and stops only what does not run.
Chosen_StopsEnded(action, exec) ==
    CASE action = "START" /\ ~Running(exec) -> "start"
      [] action = "STOP" /\ exec # None /\ ~Running(exec) -> "stop"
      [] OTHER -> "save"

\* The branches of _handle_event_for_workflow: START if the last execution of
\* the context does not run, STOP if there is one.
Chosen(action, exec) ==
    CASE action = "START" /\ ~Running(exec) -> "start"
      [] action = "STOP" /\ exec # None -> "stop"
      [] OTHER -> "save"

\* handle_event for one of the states that were read.  A state that was saved
\* when the workflow had fewer rules has no rule state for the others, and
\* indexing it raises.
Handle ==
    /\ proc.pc = "handle"
    /\ IF proc.left = {} THEN proc' = Idle
       ELSE \E c \in proc.left :
            LET s == WithEvent(c)
                met == Met(proc.rules, s)
            IN IF ~(DOMAIN proc.rules \subseteq DOMAIN s) THEN Abort
               ELSE proc' = [proc EXCEPT
                        !.pc = Chosen(FirstAction(proc.rules, met), proc.read[c].exec),
                        !.ctx = c, !.left = @ \ {c}, !.met = met,
                        !.read[c].state = CheckRules(proc.rules, s)]
    /\ UNCHANGED <<pipe, clock, sent, rules, registered, rows, execs, thread, asked, crashes, log, orphans>>

\* start_new_workflow_execution: the scheduler creates the execution, or there
\* is none (no such dag), or the call raises, before or after the execution
\* was created.
Start ==
    /\ proc.pc = "start"
    /\ LET new == Append(execs, [context |-> proc.ctx, status |-> "running", by |-> "processor"]) IN
       \/ /\ "created" \in Answers
          /\ execs' = new
          /\ proc' = [proc EXCEPT !.pc = "save", !.read[proc.ctx].exec = Len(new)]
          /\ UNCHANGED orphans
       \/ /\ "none" \in Answers
          /\ proc' = [proc EXCEPT !.pc = "save"]
          /\ UNCHANGED <<execs, orphans>>
       \/ /\ "raises" \in Answers
          /\ \/ UNCHANGED <<execs, orphans>>
             \/ execs' = new /\ orphans' = orphans \cup {Len(new)}
          /\ Abort
    /\ UNCHANGED <<pipe, clock, sent, rules, registered, rows, thread, asked, crashes, log>>

\* stop_workflow_execution: the scheduler sets the run to KILLED, also when it
\* has finished.  The call may raise, before or after that.
Stop ==
    /\ proc.pc = "stop"
    /\ LET killed == [execs EXCEPT ![proc.read[proc.ctx].exec].status = "killed"] IN
       \/ /\ execs' = killed
          /\ proc' = [proc EXCEPT !.pc = "save"]
       \/ /\ "raises" \in Answers
          /\ execs' \in {execs, killed}
          /\ Abort
    /\ UNCHANGED <<pipe, clock, sent, rules, registered, rows, thread, asked, crashes, log, orphans>>

\* update_workflow_context_event_handler_state
Save ==
    /\ proc.pc = "save"
    /\ rows' = [rows EXCEPT ![proc.ctx] = proc.read[proc.ctx]]
    /\ log' = [log EXCEPT ![proc.ctx] =
                    Append(@, [event |-> proc.event, rules |-> proc.rules, met |-> proc.met])]
    /\ proc' = Continue(proc)
    /\ UNCHANGED <<pipe, clock, sent, rules, registered, execs, thread, asked, crashes, orphans>>

(***************************************************************************)
(* The scheduler service and the scheduler                                 *)
(***************************************************************************)

\* update_condition: the rules with the action are replaced, and the new ones
\* follow the others.
UpdateCondition(rs, r) ==
    SelectSeq(rs, LAMBDA x : x.action # r.action) \o
    [j \in DOMAIN r.events |-> [events |-> r.events[j].events, all |-> r.events[j].all, action |-> r.action]]

\* startNewWorkflowExecutionOnEvent or killWorkflowExecutionOnEvent, up to the
\* read of the workflow
OnEvent(t) ==
    /\ thread[t].pc = "idle" /\ asked < MaxRequests
    /\ asked' = asked + 1
    /\ \E r \in Requests :
        thread' = [thread EXCEPT ![t] = [pc |-> "update", rules |-> UpdateCondition(rules, r)]]
    /\ UNCHANGED <<pipe, clock, sent, rules, registered, rows, execs, proc, crashes, log, orphans>>

\* update_workflow writes all the rules.
UpdateWorkflow(t) ==
    /\ thread[t].pc = "update"
    /\ rules' = thread[t].rules
    /\ thread' = [thread EXCEPT ![t] = [pc |-> "get"]]
    /\ UNCHANGED <<pipe, clock, sent, registered, rows, execs, proc, asked, crashes, log, orphans>>

\* The read of the row of the default context
GetDefault(t) ==
    /\ thread[t].pc = "get"
    /\ thread' = [thread EXCEPT ![t] = IF Default \notin registered THEN [pc |-> "register"] ELSE NoRequest]
    /\ UNCHANGED <<pipe, clock, sent, rules, registered, rows, execs, proc, asked, crashes, log, orphans>>

\* The insert of the row of the default context; if there is one the request
\* is answered with an error.
RegisterDefault(t) ==
    /\ thread[t].pc = "register"
    /\ registered' = registered \cup {Default}
    /\ thread' = [thread EXCEPT ![t] = NoRequest]
    /\ UNCHANGED <<pipe, clock, sent, rules, rows, execs, proc, asked, crashes, log, orphans>>

\* startNewWorkflowExecution: a client starts an execution, in any context.
ClientStarts(c) ==
    /\ asked < MaxRequests
    /\ asked' = asked + 1
    /\ execs' = Append(execs, [context |-> c, status |-> "running", by |-> "client"])
    /\ UNCHANGED <<pipe, clock, sent, rules, registered, rows, proc, thread, crashes, log, orphans>>

\* killWorkflowExecution
ClientKills(x) ==
    /\ asked < MaxRequests
    /\ asked' = asked + 1
    /\ execs' = [execs EXCEPT ![x].status = "killed"]
    /\ UNCHANGED <<pipe, clock, sent, rules, registered, rows, proc, thread, crashes, log, orphans>>

\* The scheduler ends a run.
Finish(x) ==
    /\ Running(x)
    /\ execs' = [execs EXCEPT ![x].status = "finished"]
    /\ UNCHANGED <<pipe, clock, sent, rules, registered, rows, proc, thread, asked, crashes, log, orphans>>

\* The execution that the processor has started and not saved.
Unsaved ==
    IF proc.pc = "save" /\ proc.read[proc.ctx].exec # rows[proc.ctx].exec
    THEN {proc.read[proc.ctx].exec} ELSE {}

\* The service ends and starts again: what is in the pipe is lost, and the new
\* process listens from now on.
Crash ==
    /\ crashes < MaxCrashes
    /\ crashes' = crashes + 1
    /\ pipe' = <<>>
    /\ proc' = Idle
    /\ thread' = [t \in Thread |-> NoRequest]
    /\ orphans' = orphans \cup Unsaved
    /\ UNCHANGED <<clock, sent, rules, registered, rows, execs, asked, log>>

Init ==
    /\ pipe = <<>> /\ clock = 0 /\ sent = 0
    /\ rules = InitialRules
    /\ registered = {}
    /\ rows = [c \in Context |-> NewRow]
    /\ execs = <<>>
    /\ proc = Idle
    /\ thread = [t \in Thread |-> NoRequest]
    /\ asked = 0 /\ crashes = 0
    /\ log = [c \in Context |-> <<>>]
    /\ orphans = {}

\* The loop of the process that runs WorkflowEventProcessor
Processor == Recv \/ ListStates \/ GetState \/ Register \/ Handle \/ Start \/ Stop \/ Save

Next ==
    \/ SendEvent
    \/ Processor
    \/ \E t \in Thread : OnEvent(t) \/ UpdateWorkflow(t) \/ GetDefault(t) \/ RegisterDefault(t)
    \/ \E c \in Context : ClientStarts(c)
    \/ \E x \in DOMAIN execs : ClientKills(x) \/ Finish(x)
    \/ Crash

Spec == Init /\ [][Next]_vars

\* The process of the processor runs, and the scheduler answers.
FairSpec == Spec /\ WF_vars(Processor)

(***************************************************************************)
(* Properties                                                              *)
(***************************************************************************)

EventRecords == {e \in [key : {e.key : e \in Events}, value : {e.value : e \in Events}, time : 1..clock] :
                    [key |-> e.key, value |-> e.value] \in Events}

\* A row, as it is stored or read: the execution is one of the scheduler, and
\* a rule state has at most one event for a key.
RowOK(r) ==
    /\ r.exec \in DOMAIN execs \cup {None}
    /\ \A i \in DOMAIN r.state :
        /\ r.state[i].map \subseteq EventRecords
        /\ \A d, e \in r.state[i].map : d.key = e.key => d = e
        /\ 0 <= r.state[i].schedule /\ r.state[i].schedule <= r.state[i].latest
        /\ r.state[i].latest <= clock

\* Type invariant of the store, the scheduler and the processor: rows hold one
\* event per key and times in order (SchedulingRuleState, add_event).
TypeOK ==
    /\ \A i \in DOMAIN pipe : pipe[i] \in EventRecords
    /\ registered \subseteq Context
    /\ \A c \in Context : RowOK(rows[c]) /\ RowOK(proc.read[c]) /\ (c \notin registered => rows[c] = NewRow)
    /\ \A x \in DOMAIN execs : execs[x] \in [context : Context, by : {"processor", "client"},
                                             status : {"running", "finished", "killed"}]
    /\ proc.pc \in {"recv", "states", "register", "handle", "start", "stop", "save"}
    /\ proc.left \subseteq Context
    /\ \A t \in Thread : thread[t].pc \in {"idle", "update", "get", "register"}
    /\ orphans \subseteq DOMAIN execs

\* At most one execution runs for a context on events, whatever the order of
\* events, ends of runs and requests: any other was left by a call that raised
\* or a crash before its id was saved (the test of status in
\* _handle_event_for_workflow, and the id that is written back).
RunsPerContext ==
    \A x \in DOMAIN execs :
        LET c == execs[x].context IN
        (execs[x].by = "processor" /\ Running(x) /\ x \notin orphans) =>
            \/ rows[c].exec = x
            \/ proc.pc = "save" /\ proc.ctx = c /\ proc.read[c].exec = x

\* The events before the n-th by which the rule at place i was met, and those by
\* which this rule was met, wherever it stood.
UsedAt(l, n, i) == {k \in 1..n - 1 : i \in l[k].met}
UsedBy(l, n, rule) == {k \in 1..n - 1 : \E j \in l[k].met : l[k].rules[j] = rule}

\* What EventLife and ValueCondition promise, without times: the last event of
\* some key of the config has the value, and for ONCE it is later than the
\* events that were used.
Promised(l, n, config, used) ==
    \E m \in 1..n :
        /\ l[m].event.key \in config.keys
        /\ \A k \in m + 1..n : l[k].event.key # l[m].event.key
        /\ config.equals => l[m].event.value = config.value
        /\ config.once => \A k \in used : k < m

PromisedRule(l, n, rule, used) ==
    IF rule.all THEN \A j \in DOMAIN rule.events : Promised(l, n, rule.events[j], used)
    ELSE \E j \in DOMAIN rule.events : Promised(l, n, rule.events[j], used)

\* A rule is met only by what its configs promise ("The event value will be
\* used only once", EventLife): no event of a ONCE config meets twice the rule
\* at a place of the list, also for events of the same millisecond, after
\* requests that replace rules, failed calls and crashes.  Rules and rule
\* states are matched by place, so a rule that keeps its place uses an event
\* once.
OnceIsUsedOnce ==
    \A c \in Context : \A n \in DOMAIN log[c] : \A i \in log[c][n].met :
        PromisedRule(log[c], n, log[c][n].rules[i], UsedAt(log[c], n, i))

\* The promise for a rule wherever it stands.  It fails when a request of
\* killWorkflowExecutionOnEvent moves a START rule to the state of another rule
\* (update_condition puts the new rules last).
OnceWherever ==
    \A c \in Context : \A n \in DOMAIN log[c] : \A i \in log[c][n].met :
        PromisedRule(log[c], n, log[c][n].rules[i], UsedBy(log[c], n, log[c][n].rules[i]))

\* A rule that its configs promise is met, for events of different
\* milliseconds and rules that do not change: no event is taken for one that
\* was used (schedule_time is the time of the latest event, not of the one that met).
NoEventIgnored ==
    \A c \in Context : \A n \in DOMAIN log[c] :
        (\A k, m \in 1..n : /\ log[c][k].rules = log[c][m].rules
                            /\ k < m => log[c][k].event.time < log[c][m].event.time)
        => \A i \in DOMAIN log[c][n].rules :
                PromisedRule(log[c], n, log[c][n].rules[i], UsedAt(log[c], n, i)) => i \in log[c][n].met

\* When the last event of a context asked for STOP, its execution does not
\* run (the STOP branch of _handle_event_for_workflow).
StoppedIsStopped ==
    \A c \in Context :
        LET last == log[c][Len(log[c])] IN
        (log[c] # <<>> /\ FirstAction(last.rules, last.met) = "STOP") => ~Running(rows[c].exec)

\* The processor receives every event that is sent, and comes back for the
\* next, also when handling one raised (the loop of run).
EventsAreReceived ==
    []<>(pipe = <<>> /\ proc.pc = "recv")
=============================================================================
