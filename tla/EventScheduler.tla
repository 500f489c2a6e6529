--------------------------- MODULE EventScheduler ---------------------------
(***************************************************************************)
(* The event-based scheduler of the Airflow fork between the notification  *)
(* service and the executor, across crashes and restarts: the mailbox, its *)
(* message table and the event progress, the start and recovery of a job,  *)
(* the loop of schedule for notification events, results of handlers and   *)
(* scheduling requests, and the DagRunEventManager.                        *)
(*                                                                         *)
(* A notification event is its version.  The dag runs stay running; which  *)
(* of them an event affects is a constant.                                 *)
(***************************************************************************)
EXTENDS DagRunEvents, FiniteSets, Functions

CONSTANTS
  MaxEvents,    \* events the notification service stores
  AffectedRuns, \* _find_dagruns_by_event, for each event
  Result,       \* results of handlers: a task of the dag run and its action
  NoAction,     \* those with action NONE, or of a task without an instance
  Results,      \* what execute_event_handler may return, for each event
  MaxJobs,      \* bound: starts of the scheduler
  StopJobs,     \* bound: jobs told to stop
  MaxStops      \* bound: stop messages

NoProgress == MaxEvents + 1

ASSUME EventSchedulerAssumption ==
  /\ MaxEvents \in Nat /\ MaxJobs \in Nat /\ MaxStops \in Nat
  /\ Ev = 1 .. MaxEvents
  /\ AffectedRuns \in [1 .. MaxEvents -> SUBSET Run]
  /\ NoAction \subseteq Result
  /\ Results \in [1 .. MaxEvents -> SUBSET SUBSET Result]

VARIABLES
  sent,      \* events the notification service has stored
  job,       \* id of the most recent row of the job table
  last,      \* last_scheduling_id of the running job, 0: None
  phase,     \* how far _execute has come
  start,     \* where the job listens from: start_time, last_event_version
  cursor,    \* the listener's current_version
  progress,  \* event_progress rows: last event of a job
  nextId,
  table,     \* message rows in state QUEUED
  queue,     \* the mailbox's queue
  current,   \* the message schedule works on, 0: none
  todo,      \* dag runs schedule has to give the event to
  results,   \* for each thread, results of the handlers it has yet to send
  entered,   \* events in the order in which they entered the mailbox
  owed,      \* actions handlers returned, until executor.schedule_task is called
  handled,   \* events whose handlers returned or raised
  stops

svars == <<job, last, phase, start, progress>>
xvars == <<nextId, table, queue>>
hvars == <<entered, owed, handled>>
vars == <<mvars, sent, svars, cursor, xvars, current, todo, results, hvars, stops>>

Row(id) == CHOOSE m \in table : m.id = id
Alive == phase # "down"

(* ---------------------------------------------------------------------- *)
(* Mailbox                                                                 *)

\* send_message: one transaction saves the message with the id of the job and,
\* for an event of the notification service, the progress; then it is queued.
SendMessage(body) ==
  /\ table' = table \cup {[id |-> nextId, job |-> job, body |-> body]}
  /\ nextId' = nextId + 1
  /\ queue' = Append(queue, nextId)

Event(e) == [type |-> "Event", ev |-> e]
EventHandle(r, e, x) == [type |-> "EventHandle", run |-> r, ev |-> e, result |-> x]
TaskScheduling(r, e, x) == [type |-> "TaskScheduling", run |-> r, ev |-> e, result |-> x]
StopScheduler(j) == [type |-> "StopScheduler", ev |-> j]

\* The notification service stores an event.
StoreEvent ==
  /\ sent < MaxEvents
  /\ sent' = sent + 1
  /\ UNCHANGED <<mvars, svars, cursor, xvars, current, todo, results, hvars, stops>>

\* Mutant: the progress is not saved with the message.
ProcessEvent_NoProgress ==
  /\ phase \in {"loop", "stopping"} /\ cursor < sent
  /\ cursor' = cursor + 1
  /\ SendMessage(Event(cursor + 1))
  /\ UNCHANGED progress
  /\ entered' = Append(entered, cursor + 1)
  /\ UNCHANGED <<mvars, sent, job, last, phase, start, current, todo, results, owed, handled, stops>>

\* SchedulerEventWatcher.process on the listener's thread.
ProcessEvent ==
  /\ phase \in {"loop", "stopping"} /\ cursor < sent
  /\ cursor' = cursor + 1
  /\ SendMessage(Event(cursor + 1))
  /\ progress' = [progress EXCEPT ![job] = cursor + 1]
  /\ entered' = Append(entered, cursor + 1)
  /\ UNCHANGED <<mvars, sent, job, last, phase, start, current, todo, results, owed, handled, stops>>

(* ---------------------------------------------------------------------- *)
(* Start, recovery, stop and crash of a job                                *)

\* The constructor looks up the last job and its progress ("now" if there is
\* none); run inserts the row of the new job.
StartJob ==
  /\ phase = "down" /\ job < MaxJobs
  /\ last' = job
  /\ start' = IF job = 0 \/ progress[job] = NoProgress THEN sent ELSE progress[job]
  /\ job' = job + 1
  /\ phase' = "started"
  /\ UNCHANGED <<mvars, sent, progress, cursor, xvars, current, todo, results, hvars, stops>>

\* get_unprocessed_message: the queued rows of a job in the order of their ids.
UnprocessedMessages(j) ==
  LET ids == {m.id : m \in {n \in table : n.job = j}}
  IN CHOOSE s \in [1 .. Cardinality(ids) -> ids] : \A i, k \in DOMAIN s : i < k => s[i] < s[k]

\* Mutant: no message is recovered.
Recover_Nothing ==
  /\ phase = "started"
  /\ queue' = queue
  /\ phase' = "recovered"
  /\ UNCHANGED <<mvars, sent, job, last, start, progress, cursor, nextId, table, current, todo, results, hvars, stops>>

\* recover: the messages of the last job are queued again; their rows stay.
Recover ==
  /\ phase = "started"
  /\ queue' = queue \o (IF last = 0 THEN <<>> ELSE UnprocessedMessages(last))
  /\ phase' = "recovered"
  /\ UNCHANGED <<mvars, sent, job, last, start, progress, cursor, nextId, table, current, todo, results, hvars, stops>>

\* _set_event_progress, _start_listen_events and the start of the loop.
SetEventProgress ==
  /\ phase = "recovered"
  /\ progress' = [progress EXCEPT ![job] = start]
  /\ cursor' = start
  /\ phase' = "loop"
  /\ UNCHANGED <<mvars, sent, job, last, start, xvars, current, todo, results, hvars, stops>>

\* A thread has yet to send an action of a handler.
Unsent(a) == \E w \in Worker : wpc[w] = "send" /\ \E x \in results[w] : a = <<wrun[w], wev[w], x>>

\* All that was in memory is gone, and with it the actions not sent yet.
Down ==
  /\ phase' = "down"
  /\ queue' = <<>> /\ current' = 0 /\ todo' = {} /\ cursor' = 0
  /\ last' = 0 /\ start' = 0
  /\ runners' = {} /\ running' = {}
  /\ equeue' = [r \in Run |-> <<>>] /\ submitted' = [r \in Run |-> 0]
  /\ wpc' = [w \in Worker |-> "idle"] /\ wn' = [w \in Worker |-> 0]
  /\ wrun' = [w \in Worker |-> AnyRun] /\ wev' = [w \in Worker |-> AnyEv]
  /\ closed' = FALSE
  /\ put' = [r \in Run |-> <<>>] /\ taken' = [r \in Run |-> <<>>]
  /\ results' = [w \in Worker |-> {}]
  /\ owed' = {a \in owed : ~Unsent(a)}
  /\ UNCHANGED <<sent, job, progress, nextId, table, entered, handled, stops>>

Crash == Alive /\ Down

\* stop sends the job's own StopSchedulerEvent to the mailbox; one with job id 0,
\* which stops any job, comes from a client of the notification service.
SendStop ==
  /\ phase = "loop" /\ job \in StopJobs /\ stops < MaxStops
  /\ stops' = stops + 1
  /\ \E j \in {0, job} : SendMessage(StopScheduler(j))
  /\ UNCHANGED <<mvars, sent, svars, cursor, current, todo, results, hvars>>

\* The end of _execute: the listener is stopped, end of the event manager
\* waits for its runners, the process exits.
StopListenEvents ==
  /\ phase = "stopping" /\ phase' = "ending"
  /\ end
  /\ UNCHANGED <<sent, job, last, start, progress, cursor, xvars, current, todo, results, hvars, stops>>
Exit ==
  /\ phase = "ending"
  /\ \A w \in Worker : ~Active(w)
  /\ \A r \in Run : submitted[r] = 0
  /\ Down

(* ---------------------------------------------------------------------- *)
(* schedule                                                                *)

\* get_identified_message, and for an event _find_dagruns_by_event.
GetMessage ==
  /\ phase = "loop" /\ current = 0 /\ queue # <<>>
  /\ current' = Head(queue)
  /\ queue' = Tail(queue)
  /\ todo' = LET b == Row(Head(queue)).body IN IF b.type = "Event" THEN AffectedRuns[b.ev] ELSE {}
  /\ UNCHANGED <<mvars, sent, svars, cursor, nextId, table, results, hvars, stops>>

Handling(type) == phase = "loop" /\ current # 0 /\ Row(current).body.type = type
HandledMessage == current' = 0 /\ todo' = {}

\* The event is given to the manager for each affected dag run; then
\* remove_handled_message deletes the row.
ScheduleEvent ==
  /\ Handling("Event")
  /\ \/ \E r \in todo :
          /\ handle_event(r, Row(current).body.ev)
          /\ todo' = todo \ {r}
          /\ UNCHANGED <<xvars, current>>
     \/ /\ todo = {}
        /\ HandledMessage
        /\ table' = table \ {Row(current)}
        /\ UNCHANGED <<mvars, nextId, queue>>
  /\ UNCHANGED <<sent, svars, cursor, results, hvars, stops>>

\* Mutant: the row is removed and the scheduling event not sent.
ScheduleEventHandle_NotSent ==
  LET b == Row(current).body IN
  /\ Handling("EventHandle")
  /\ table' = table \ {Row(current)}
  /\ HandledMessage
  /\ UNCHANGED <<nextId, queue, mvars, sent, svars, cursor, results, hvars, stops>>

\* EventHandleEvent: a TaskSchedulingEvent is sent, todo marks that it was; none
\* for action NONE and for a task without an instance.
ScheduleEventHandle ==
  LET b == Row(current).body IN
  /\ Handling("EventHandle")
  /\ \/ /\ todo = {} /\ b.result \notin NoAction
        /\ SendMessage(TaskScheduling(b.run, b.ev, b.result))
        /\ todo' = {b.run}
        /\ UNCHANGED current
     \/ /\ todo # {} \/ b.result \in NoAction
        /\ HandledMessage
        /\ table' = table \ {Row(current)}
        /\ UNCHANGED <<nextId, queue>>
  /\ UNCHANGED <<mvars, sent, svars, cursor, results, hvars, stops>>

\* _schedule_task: the executor is called, then the row deleted.
ScheduleTask ==
  LET b == Row(current).body IN
  /\ Handling("TaskScheduling")
  /\ \/ /\ todo = {}
        /\ owed' = owed \ {<<b.run, b.ev, b.result>>}
        /\ todo' = {b.run}
        /\ UNCHANGED <<table, current>>
     \/ /\ todo # {}
        /\ HandledMessage
        /\ table' = table \ {Row(current)}
        /\ UNCHANGED owed
  /\ UNCHANGED <<mvars, sent, svars, cursor, nextId, queue, results, entered, handled, stops>>

\* StopSchedulerEvent: the one of this job ends the loop, and one with job id 0.
ScheduleStop ==
  /\ Handling("StopScheduler")
  /\ HandledMessage
  /\ table' = table \ {Row(current)}
  /\ phase' = IF Row(current).body.ev \in {0, job} THEN "stopping" ELSE phase
  /\ UNCHANGED <<mvars, sent, job, last, start, progress, cursor, nextId, queue, results, hvars, stops>>

\* execute_event_handler returned the action of each affected task, of none if
\* the event affects none, or it raised.
HandlerDone(w) ==
  /\ ExecuteHandler(w)
  /\ handled' = handled \cup {<<wrun[w], wev[w]>>}
  /\ \/ /\ wpc'[w] = "exit"
        /\ UNCHANGED <<results, owed>>
     \/ /\ wpc'[w] = "send"
        /\ \E X \in Results[wev[w]] :
             /\ results' = [results EXCEPT ![w] = X]
             /\ owed' = owed \cup {<<wrun[w], wev[w], x>> : x \in X \ NoAction}
  /\ UNCHANGED xvars

\* The loop of _run over the results: one message each, in any order.
SendResult(w) ==
  /\ wpc[w] = "send"
  /\ \E x \in results[w] :
       /\ SendMessage(EventHandle(wrun[w], wev[w], x))
       /\ results' = [results EXCEPT ![w] = @ \ {x}]
  /\ UNCHANGED <<mvars, owed, handled>>

\* The manager's threads.
RunnerStep(w) ==
  /\ \/ HandlerDone(w)
     \/ SendResult(w)
     \/ /\ (\E r \in Run : StartRunner(w, r)) \/ GetEvent(w) \/ RunnerExited(w) \/ (NextEvent(w) /\ results[w] = {})
        /\ UNCHANGED <<xvars, results, owed, handled>>
  /\ UNCHANGED <<sent, svars, cursor, current, todo, entered, stops>>

Init ==
  /\ MInit
  /\ sent = 0 /\ job = 0 /\ last = 0 /\ phase = "down" /\ start = 0 /\ cursor = 0
  /\ progress = [j \in 1 .. MaxJobs |-> NoProgress]
  /\ nextId = 1 /\ table = {} /\ queue = <<>>
  /\ current = 0 /\ todo = {}
  /\ results = [w \in Worker |-> {}]
  /\ entered = <<>> /\ owed = {} /\ handled = {} /\ stops = 0

Schedule == GetMessage \/ ScheduleEvent \/ ScheduleEventHandle \/ ScheduleTask \/ ScheduleStop
Boot == Recover \/ SetEventProgress

Next ==
  \/ StoreEvent \/ ProcessEvent
  \/ StartJob \/ Boot \/ Crash \/ SendStop \/ StopListenEvents \/ Exit
  \/ Schedule
  \/ \E w \in Worker : RunnerStep(w)

Spec == Init /\ [][Next]_vars

\* The scheduler's loop and the threads of the pool run.  Nothing makes the
\* scheduler start again after it went down, or events be stored.
FairSpec == Spec /\ WF_vars(Schedule) /\ \A w \in Worker : WF_vars(RunnerStep(w))

(* ---------------------------------------------------------------------- *)
(* Properties                                                              *)

Bodies ==
  {Event(e) : e \in Ev} \cup {StopScheduler(j) : j \in 0 .. MaxJobs}
  \cup {EventHandle(r, e, x) : r \in Run, e \in Ev, x \in Result}
  \cup {TaskScheduling(r, e, x) : r \in Run, e \in Ev, x \in Result}
Actions == Run \X Ev \X Result
InMailbox(id) == id = current \/ id \in Range(queue)

\* Types of the scheduler's state and of the manager's.
TypeOK ==
  /\ MTypeOK
  /\ sent \in 0 .. MaxEvents /\ job \in 0 .. MaxJobs /\ last \in 0 .. job
  /\ phase \in {"down", "started", "recovered", "loop", "stopping", "ending"}
  /\ start \in 0 .. sent /\ cursor \in 0 .. sent
  /\ progress \in [1 .. MaxJobs -> 0 .. NoProgress]
  /\ nextId \in Nat
  /\ \A m \in table : m.id \in 1 .. nextId - 1 /\ m.job \in 1 .. job /\ m.body \in Bodies
  /\ \A i \in Range(queue) \cup ({current} \ {0}) : \E m \in table : m.id = i
  /\ todo \subseteq Run /\ results \in [Worker -> SUBSET Result]
  /\ entered \in Seq(Ev) /\ owed \subseteq Actions /\ handled \subseteq Run \X Ev
  /\ stops \in 0 .. MaxStops

\* Every event of the notification service enters the mailbox at most once and
\* in the order of versions, whatever crashes and restarts happen: a message
\* and the progress are saved in one transaction.  No event between two that
\* entered is missed, as long as every job that ended had saved a progress.
EventsEnterOnce ==
  /\ \A i, j \in 1 .. Len(entered) : i < j => entered[i] < entered[j]
  /\ (\A j \in 1 .. job - 1 : progress[j] # NoProgress) =>
       /\ \A i \in 1 .. Len(entered) - 1 : entered[i + 1] = entered[i] + 1
       /\ entered # <<>> /\ phase = "loop" => cursor = entered[Len(entered)]

\* A message that is not handled is in the mailbox of the running job, once,
\* unless it is of a job before the last one.
MessagesRecovered ==
  phase = "loop" =>
    /\ \A m \in table : m.job >= last => InMailbox(m.id)
    /\ IsInjective(queue) /\ current \notin Range(queue)

\* What recovery is there for ("missing messages cannot be recovered" is said
\* of the one case in which the job's id is not set): every message that is
\* not handled is in the mailbox of the job that runs.
AllMessagesRecovered == phase = "loop" => \A m \in table : InMailbox(m.id)

\* The events of a dag run are handled in the order of their versions, also
\* when they come from the mailbox of an earlier job.
RunSeesVersionOrder ==
  \A r \in Run : \A i, j \in 1 .. Len(put[r]) : i < j => put[r][i] < put[r][j]

\* An action a handler returned is not lost: until the executor is called for
\* it, its thread has it to send, or a message row stands for it which the job
\* that runs has in its mailbox.  Two losses are excepted, after which nothing
\* repeats the action: the process ended before the thread had sent it (the
\* event's own row may be deleted by then), and the row is of a job before the
\* last one.
ActionsKept ==
  \A a \in owed :
    \/ Unsent(a)
    \/ \E m \in table :
         /\ m.body \in {EventHandle(a[1], a[2], a[3]), TaskScheduling(a[1], a[2], a[3])}
         /\ phase = "loop" => InMailbox(m.id) \/ m.job < last

\* Nothing but the call of the executor ends what is owed.
OwedUntilScheduled == [][owed \subseteq owed' \/ Handling("TaskScheduling")]_vars

\* An event that waits in the mailbox is handled for every dag run it affects,
\* up to the call of the executor for every action its handlers return, unless
\* a handler raises or the job ends.
EventsAreScheduled ==
  \A e \in Ev : \A r \in Run :
    (r \in AffectedRuns[e] /\ \E m \in table : m.body = Event(e) /\ InMailbox(m.id))
      ~> (phase # "loop" \/ (<<r, e>> \in handled /\ \A x \in Result : <<r, e, x>> \notin owed))
=============================================================================
