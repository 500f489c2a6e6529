---------------------------- MODULE TaskLifecycle ----------------------------
(* The life of the task instances of one dag run under the event-based       *)
(* scheduler of the Airflow fork with the LocalExecutor:                      *)
(*   - the scheduler loop (event_based_scheduler_job.py, schedule), which     *)
(*     examines the dag run on a TaskStateChangedEvent, sends START messages  *)
(*     to itself and carries out START, STOP and RESTART (base_executor.py);  *)
(*   - the workers of the LocalExecutor, each running one command at a time:  *)
(*     a LocalTaskJob (local_task_job.py), the supervisor, which forks the    *)
(*     process of the task (taskinstance.py, _run_raw_task);                  *)
(*   - the dag run's state (dagrun.py, update_state) and the mini scheduler   *)
(*     that the process of a task runs over its downstream tasks.             *)
(* They share the rows of the task instances in the database.  An examination *)
(* of the dag run is one transaction; the executor and the process of a task  *)
(* read a row in one session and write it back, whole, in another.            *)
EXTENDS Integers, FiniteSets, Sequences

CONSTANTS
  Task,           \* the tasks of the dag
  Upstream,       \* Upstream[t]: the tasks t depends on
  Rule,           \* Rule[t]: the trigger rule of t
  Subscribed,     \* tasks with subscribed events or a periodic_config
  Dummy,          \* DummyOperator tasks without callbacks
  Worker,         \* the processes of LimitedParallelism
  Requests,       \* the requests from outside
  MaxRequests,    \* bound on the requests made, each at most once
  Outcome,        \* how operators may end
  Retries,        \* retries of every task (max_tries)
  MaxActiveRuns,  \* max_active_runs of the dag
  LongRunning,    \* is_long_running_dag
  MiniScheduler,  \* schedule_after_task_execution
  Sent,           \* whether a LocalTaskJob's event is sent (FALSE: it fails)
  MaxForks,       \* bound on the LocalTaskJobs of a task
  NoTask

Finished   == {"success", "failed", "skipped", "upstream_failed", "killed"}
Unfinished == {"none", "scheduled", "queued", "running", "up_for_retry", "killing"}
Executing  == {"running", "killing"}
Scheduleable == {"none", "up_for_retry"}

FailedStates == {"failed", "upstream_failed", "killed"}

\* A message about the dag run, one about a task has the action and the task.
RunMessage(m) == [action |-> m, task |-> NoTask]

Actions  == {"START", "STOP", "RESTART"}
Outcomes == {"success", "skip", "airflow_error", "error"}
Rules    == {"all_success", "all_failed", "all_done", "one_success", "one_failed",
             "none_failed", "none_failed_or_skipped", "none_skipped", "dummy"}

ASSUME TaskAssumption ==
  /\ IsFiniteSet(Task)
  /\ Upstream \in [Task -> SUBSET Task] /\ Rule \in [Task -> Rules]
  /\ Subscribed \subseteq Task /\ Dummy \subseteq Task
  /\ Requests \subseteq [action : Actions, task : Task] \cup {RunMessage("stop_dag_run")}
  /\ Outcome \subseteq Outcomes
  /\ Sent \subseteq BOOLEAN /\ {MaxForks, MaxRequests} \subseteq Nat
  /\ Retries \in Nat /\ MaxActiveRuns \in Nat \ {0}
  /\ {LongRunning, MiniScheduler} \subseteq BOOLEAN

VARIABLES
  ti,         \* the rows: state, _try_number, pid of the LocalTaskJob (0: none)
  run,        \* state of the dag run ("none": not created)
  mail,       \* the mailbox
  asked,      \* requests made so far
  todo,       \* schedule_task calls left of the message being handled
  pc, held,   \* where the first of them is, and the row it has read
  queue,      \* task_queue of the executor
  worker,     \* per worker: supervisor and process of the task
  forks,      \* LocalTaskJobs that have started the task: the next pid
  succeeded   \* history: tasks that were ever in a success state

sched == <<todo, pc, held>>
exec  == <<queue, worker, forks>>
vars  == <<ti, run, mail, asked, sched, exec, succeeded>>

state == [t \in Task |-> ti[t].state]
Row == [state : Finished \cup Unfinished, tries : Nat, pid : Nat]
NoRow == [state |-> "none", tries |-> 0, pid |-> 0]
Leaves == {t \in Task : \A u \in Task : t \notin Upstream[u]}
Changed == RunMessage("changed")      \* TaskStateChangedEvent of a task

\* Rows with the states st; the history follows.
SetStates(st) ==
  /\ ti' = [t \in Task |-> [ti[t] EXCEPT !.state = st[t]]]
  /\ succeeded' = succeeded \cup {t \in Task : st[t] \in {"success", "skipped"}}

SetRow(t, row) ==
  /\ ti' = [ti EXCEPT ![t] = row]
  /\ succeeded' = succeeded \cup (IF row.state \in {"success", "skipped"} THEN {t} ELSE {})

-----------------------------------------------------------------------------
(* Dependencies of a task in the states st: trigger_rule_dep.py              *)

Among(st, t, S) == {u \in Upstream[t] : st[u] \in S}
UpstreamDone(st, t) == Among(st, t, Finished) = Upstream[t]

\* Mutant: upstream tasks that are done count as successes.
RuleMet_Done(st, t) ==
  LET some(S) == Among(st, t, S) # {}
      all(S)  == Among(st, t, S) = Upstream[t]
  IN \/ Upstream[t] = {}
     \/ CASE Rule[t] = "dummy"       -> TRUE
          [] Rule[t] = "one_success" -> some({"success"})
          [] Rule[t] = "one_failed"  -> some({"failed", "upstream_failed"})
          [] Rule[t] = "all_success" -> all(Finished)
          [] Rule[t] = "all_failed"  -> all({"failed", "upstream_failed"})
          [] Rule[t] = "all_done"    -> all(Finished)
          [] Rule[t] \in {"none_failed", "none_failed_or_skipped"}
                                     -> all({"success", "skipped"})
          [] Rule[t] = "none_skipped" -> all(Finished) /\ ~some({"skipped"})

\* The trigger rule of t is met.
RuleMet(st, t) ==
  LET some(S) == Among(st, t, S) # {}
      all(S)  == Among(st, t, S) = Upstream[t]
  IN \/ Upstream[t] = {}
     \/ CASE Rule[t] = "dummy"       -> TRUE
          [] Rule[t] = "one_success" -> some({"success"})
          [] Rule[t] = "one_failed"  -> some({"failed", "upstream_failed"})
          [] Rule[t] = "all_success" -> all({"success"})
          [] Rule[t] = "all_failed"  -> all({"failed", "upstream_failed"})
          [] Rule[t] = "all_done"    -> all(Finished)
          [] Rule[t] \in {"none_failed", "none_failed_or_skipped"}
                                     -> all({"success", "skipped"})
          [] Rule[t] = "none_skipped" -> all(Finished) /\ ~some({"skipped"})

\* The state flag_upstream_failed gives t: its own where the rule is open.
Flag(st, t) ==
  LET some(S) == Among(st, t, S) # {}
      failed == some({"failed", "upstream_failed"})
      skip == CASE Rule[t] = "all_success" -> some({"skipped"})
                [] Rule[t] = "all_failed"  -> some({"success", "skipped"})
                [] Rule[t] = "one_success" -> UpstreamDone(st, t) /\ ~some({"success"})
                [] Rule[t] = "one_failed"  -> UpstreamDone(st, t) /\ ~failed
                [] Rule[t] = "none_failed_or_skipped" ->
                     Among(st, t, {"skipped"}) = Upstream[t]
                [] Rule[t] = "none_skipped" -> some({"skipped"})
                [] OTHER -> FALSE
  IN IF Upstream[t] = {} THEN st[t]
     ELSE IF failed /\ Rule[t] \in {"all_success", "none_failed", "none_failed_or_skipped"}
     THEN "upstream_failed"
     ELSE IF skip THEN "skipped" ELSE st[t]

\* schedule_tis: the tasks of S are scheduled, DummyOperators succeed at once.
ScheduleTis(st, S) ==
  [t \in Task |-> IF t \notin S THEN st[t]
                  ELSE IF t \in Dummy THEN "success" ELSE "scheduled"]

\* The tasks of S whose dependencies are met; those in waiting are up for
\* retry and their retry_delay has not passed.
ReadyTis(st, S, waiting) ==
  {t \in S : st[t] \in Scheduleable /\ RuleMet(st, t) /\ t \notin waiting}

Flagged(st, S) == [t \in Task |-> IF t \in S THEN Flag(st, t) ELSE st[t]]

UpForRetry == {t \in Task : state[t] = "up_for_retry"}

-----------------------------------------------------------------------------
(* The scheduler loop                                                         *)

\* update_state of the dag run over the states st.  early are the tasks that
\* _are_premature_tis has flagged on its way.
UpdateState(st, waiting, early) ==
  LET unfinished == {t \in Task : st[t] \in Unfinished}
      candidates == {t \in Task : st[t] \in Scheduleable}
      ready == ReadyTis(st, candidates, waiting)
      changed == \E t \in candidates \ ready : Flag(st, t) # st[t]
      premature == \E t \in unfinished : RuleMet(st, t)
      verdict == IF unfinished = {}
                 THEN IF \E t \in Leaves : st[t] \in FailedStates THEN "failed" ELSE "success"
                 ELSE IF ready # {} \/ premature \/ changed THEN "running" ELSE "failed"
  IN [run |-> IF LongRunning /\ verdict # "running" THEN "running" ELSE verdict,
      states |-> ScheduleTis(Flagged(st, candidates \cup early), ready \ Subscribed)]

\* What _are_premature_tis may flag: nothing when a task is ready, every task
\* when no rule is met, those before the first one that is otherwise.
Early(st, waiting) ==
  LET unfinished == {t \in Task : st[t] \in Unfinished}
      met == {t \in unfinished : RuleMet(st, t)}
  IN IF ReadyTis(st, unfinished, waiting) # {} THEN {{}}
     ELSE IF met = {} THEN {unfinished} ELSE SUBSET (unfinished \ met)

\* The rows that _find_scheduled_tasks counts as active runs: the database
\* drops the rows whose state is NULL.
Active == {t \in Task : state[t] \notin Finished \cup {"none"}}

\* The rows of S in the order in which the query returns them.
Listed(S) == CHOOSE s \in [1..Cardinality(S) -> S] : \A i, j \in DOMAIN s : s[i] = s[j] => i = j

StartAll(S) == LET s == Listed(S) IN [i \in DOMAIN s |-> [action |-> "START", task |-> s[i]]]

\* Rows that another transaction may hold: of the command a free worker takes,
\* and those a process is writing.
Locked ==
  {t \in Task : \/ queue # <<>> /\ t = Head(queue) /\ forks[t] < MaxForks
                   /\ \E w \in Worker : worker[w].pc = "idle"
                \/ \E w \in Worker : worker[w].task = t /\ worker[w].raw = "write"}

Idle == todo = <<>> /\ pc = "idle"
Take(m) == Idle /\ mail # <<>> /\ Head(mail) = m

\* Mutant: only the tasks scheduled here are started.
Examine_Ready ==
  \E waiting \in SUBSET UpForRetry, skipped \in SUBSET Locked : \E early \in Early(state, waiting) :
    \E d \in {UpdateState(state, waiting, early)} :
       /\ run' = d.run
       /\ SetStates(d.states)
       /\ mail' = Tail(mail) \o StartAll({t \in Task \ skipped : d.states[t] = "scheduled" /\ state[t] # "scheduled"})

\* _find_scheduled_tasks and a START message for every scheduled task; the query
\* skips rows that are locked.
Examine ==
  \E waiting \in SUBSET UpForRetry, skipped \in SUBSET Locked : \E early \in Early(state, waiting) :
    \E d \in {UpdateState(state, waiting, early)} :
       /\ run' = d.run
       /\ SetStates(d.states)
       /\ mail' = Tail(mail) \o StartAll({t \in Task \ skipped : d.states[t] = "scheduled"})

\* DagExecutableEvent, or a request to run the dag: _create_dag_run.
CreateDagRun ==
  /\ Take(RunMessage("run_dag")) /\ run = "none"
  /\ UNCHANGED <<asked, sched, exec>>
  /\ Examine

\* TaskStateChangedEvent: a run that is not finished is examined, unless as
\* many rows as max_active_runs are active.
TaskStateChanged ==
  /\ Take(Changed)
  /\ UNCHANGED <<asked, sched, exec>>
  /\ \/ run = "running" /\ Cardinality(Active) < MaxActiveRuns /\ Examine
     \/ /\ run # "running" \/ Cardinality(Active) >= MaxActiveRuns
        /\ mail' = Tail(mail) /\ UNCHANGED <<ti, run, succeeded>>

\* _stop_dag_run: the run is killed, then its unfinished tasks are stopped.
StopDagRun ==
  /\ Take(RunMessage("stop_dag_run"))
  /\ run' = "killed" /\ mail' = Tail(mail)
  /\ LET s == Listed({t \in Task : state[t] \in Unfinished})
     IN todo' = [i \in DOMAIN s |-> [action |-> "STOP", task |-> s[i]]]
  /\ UNCHANGED <<ti, asked, pc, held, exec, succeeded>>

\* TaskSchedulingEvent: one call of schedule_task.
ScheduleTask ==
  /\ Idle /\ mail # <<>> /\ Head(mail) \in [action : Actions, task : Task]
  /\ todo' = <<Head(mail)>> /\ mail' = Tail(mail)
  /\ UNCHANGED <<ti, run, asked, pc, held, exec, succeeded>>

\* A request to stop the run or to start, stop or restart a task, or the
\* action an event handler returned.
Request(r) ==
  /\ r \notin asked /\ Cardinality(asked) < MaxRequests /\ run # "none"
  /\ asked' = asked \cup {r} /\ mail' = Append(mail, r)
  /\ UNCHANGED <<ti, run, sched, exec, succeeded>>

-----------------------------------------------------------------------------
(* schedule_task of the executor                                              *)

Call == Head(todo)
Goto(p, row) == pc' = p /\ held' = row /\ UNCHANGED todo
Return == pc' = "idle" /\ held' = NoRow /\ todo' = Tail(todo)

\* The row is read and the way of the call decided.
ReadTask ==
  /\ todo # <<>> /\ pc = "idle"
  /\ LET row == ti[Call.task]
         start == Goto("start", row)
         stop == Goto(IF row.state = "running" THEN "kill" ELSE "killed", row)
     IN CASE Call.action = "START"   -> IF row.state \in Executing THEN Return ELSE start
          [] Call.action = "STOP"    -> IF row.state \in Unfinished THEN stop ELSE Return
          [] Call.action = "RESTART" -> IF row.state \in Executing THEN stop ELSE start
  /\ UNCHANGED <<ti, run, mail, asked, exec, succeeded>>

\* _start_task_instance: the row is queued and the command goes to the workers.
StartTaskInstance ==
  /\ pc = "start"
  /\ SetRow(Call.task, [held EXCEPT !.state = "queued"])
  /\ queue' = Append(queue, Call.task)
  /\ mail' = Append(mail, Changed)
  /\ Return
  /\ UNCHANGED <<run, asked, worker, forks>>

\* What follows a successful _stop_task_instance: a message, or the start.
Stopped(row) ==
  \/ /\ Call.action = "STOP"
     /\ mail' = Append(mail, Changed) /\ Return
  \/ /\ Call.action = "RESTART"
     /\ Goto("start", row) /\ UNCHANGED mail

\* _stop_task_instance of a task that is not running.
StopIdleTask ==
  /\ pc = "killed"
  /\ LET row == [held EXCEPT !.state = "killed"]
     IN SetRow(Call.task, row) /\ Stopped(row)
  /\ UNCHANGED <<run, asked, exec>>

\* The process of a task: not forked, before its operator, in it, in the handler
\* of an AirflowException, about to write its row, in the mini scheduler, dead.
RawStates == {"none", "boot", "exec", "term", "write", "mini", "dead"}

\* What SIGTERM makes of a process p.  One without the handler dies; the handler
\* raises an AirflowException, which _run_raw_task handles if it comes from the
\* operator or from the end of its try block, and which ends the process
\* without a write after that.
Signalled(p) ==
  CASE p.raw = "exec" -> {"term"}
    [] p.raw = "term" -> {"term", "dead"}
    [] p.raw = "write" -> IF p.own.state = "success" THEN {"term", "dead"} ELSE {"dead"}
    [] p.raw \in {"boot", "mini"} -> {"dead"}
    [] OTHER -> {p.raw}

\* The processes of task t with the given pid get SIGTERM; one that the
\* supervisor has not forked yet gets none.
KillChildren(t, pid) ==
  LET after(w) == IF worker[w].task = t /\ worker[w].pid = pid
                  THEN Signalled(worker[w]) \cup ({"boot"} \cap {worker[w].raw})
                  ELSE {worker[w].raw}
  IN \E raw \in [Worker -> RawStates] :
       /\ \A w \in Worker : raw[w] \in after(w)
       /\ worker' = [w \in Worker |-> [worker[w] EXCEPT !.raw = raw[w]]]

\* Mutant: the process is signalled, the row is not marked.
StopRunningTask_NoState ==
  /\ pc = "kill"
  /\ KillChildren(Call.task, held.pid)
  /\ Goto("wait", NoRow)
  /\ UNCHANGED <<ti, run, mail, asked, queue, forks, succeeded>>

\* _stop_task_instance of a running one: killing, SIGTERM to the children of
\* the pid in the row.
StopRunningTask ==
  /\ pc = "kill"
  /\ SetRow(Call.task, [held EXCEPT !.state = "killing"])
  /\ KillChildren(Call.task, held.pid)
  /\ Goto("wait", NoRow)
  /\ UNCHANGED <<run, mail, asked, queue, forks>>

\* _wait_for_stopping_task: the row is killed, or the checks are used up.
WaitStopped ==
  /\ pc = "wait" /\ state[Call.task] = "killed"
  /\ Stopped(ti[Call.task])
  /\ UNCHANGED <<ti, run, asked, exec, succeeded>>

WaitTimeout ==
  /\ pc = "wait" /\ state[Call.task] # "killed"
  /\ mail' = IF Call.action = "RESTART" THEN Append(mail, Changed) ELSE mail
  /\ Return
  /\ UNCHANGED <<ti, run, asked, exec, succeeded>>

-----------------------------------------------------------------------------
(* A worker: LocalTaskJob and the process of the task                         *)

At(w, p) == worker[w].pc = p
Mine(w) == ti[worker[w].task]
RawIs(w, raw) == worker' = [worker EXCEPT ![w].raw = raw]
IdleWorker == [pc |-> "idle", task |-> NoTask, pid |-> 0, raw |-> "none", own |-> NoRow]

\* The workers that wait for a command are alike: one of them gets the next.
FreeWorker == CHOOSE w \in Worker : At(w, "idle")

\* do_work takes the next command of the queue and runs a LocalTaskJob:
\* check_and_change_state_before_execution under a lock on the row.  Only a
\* running task is refused, the command ignores every other dependency.  The
\* job sends a TaskStateChangedEvent, which may fail.  It then forks the
\* process of the task.
RunCommand(w) ==
  LET t == Head(queue) IN
  /\ At(w, "idle") /\ w = FreeWorker /\ queue # <<>> /\ forks[t] < MaxForks
  /\ queue' = Tail(queue)
  /\ \/ /\ ti[t].state = "running"
        /\ mail' = Append(mail, Changed)
        /\ UNCHANGED <<ti, worker, forks, succeeded>>
     \/ /\ ti[t].state # "running"
        /\ forks' = [forks EXCEPT ![t] = @ + 1]
        /\ SetRow(t, [state |-> "running", tries |-> ti[t].tries + 1, pid |-> forks'[t]])
        /\ worker' = [worker EXCEPT ![w] = [IdleWorker EXCEPT !.pc = "run", !.task = t,
                                                            !.pid = forks'[t], !.raw = "boot"]]
        /\ \E sent \in Sent : mail' = IF sent THEN Append(mail, Changed) ELSE mail
  /\ UNCHANGED <<run, asked, sched>>

\* A step of worker w that touches neither its row nor the queues.
Quiet == UNCHANGED <<ti, run, mail, asked, sched, queue, forks, succeeded>>

\* _run_raw_task reads its row and installs the signal handler.
Boot(w) ==
  /\ worker[w].raw = "boot"
  /\ worker' = [worker EXCEPT ![w].raw = "exec", ![w].own = Mine(w)]
  /\ Quiet

EligibleToRetry(row) ==
  Retries > 0 /\ (IF row.state = "running" THEN row.tries ELSE row.tries + 1) <= Retries

\* The process holds the row that it is going to write.
ToWrite(w, row) == worker' = [worker EXCEPT ![w].raw = "write", ![w].own = row]

HandleFailure(w, row) ==
  ToWrite(w, [row EXCEPT !.state = IF EligibleToRetry(row) THEN "up_for_retry" ELSE "failed"])

\* The handler of AirflowException in _run_raw_task reads the row again.
AirflowError(w) ==
  CASE Mine(w).state \in {"success", "failed", "killed"} -> RawIs(w, "dead")
    [] Mine(w).state = "killing" -> ToWrite(w, [Mine(w) EXCEPT !.state = "killed"])
    [] OTHER -> HandleFailure(w, Mine(w))

\* The operator ends: it succeeds or is skipped (the row is read again, whatever
\* it says), raises an AirflowException, or another exception (handled with the
\* row as it was at the start).
Finish(w, o) ==
  /\ worker[w].raw = "exec"
  /\ CASE o = "airflow_error" -> AirflowError(w)
       [] o = "error" -> HandleFailure(w, worker[w].own)
       [] OTHER -> ToWrite(w, [Mine(w) EXCEPT !.state = IF o = "success" THEN "success" ELSE "skipped"])
  /\ Quiet

Terminated(w) == worker[w].raw = "term" /\ AirflowError(w) /\ Quiet

\* The row read in one session is written, whole, in another.
Save(w) ==
  LET done == worker[w].own.state \in {"success", "skipped"} IN
  /\ worker[w].raw = "write"
  /\ SetRow(worker[w].task, worker[w].own)
  /\ worker' = [worker EXCEPT ![w].raw = IF done /\ MiniScheduler THEN "mini" ELSE "dead", ![w].own = NoRow]
  /\ UNCHANGED <<run, mail, asked, sched, queue, forks>>

\* _run_mini_scheduler_on_child_tasks; a database error rolls it back.  The
\* partial dag is taken as the downstream tasks alone.
RunMiniScheduler(w) ==
  LET t == worker[w].task
      candidates == {u \in Task : t \in Upstream[u] /\ state[u] \in Scheduleable}
  IN /\ worker[w].raw = "mini"
     /\ RawIs(w, "dead")
     /\ \/ UNCHANGED <<ti, succeeded>>
        \/ \E waiting \in SUBSET UpForRetry :
             LET ready == ReadyTis(state, candidates, waiting)
             IN SetStates(ScheduleTis(Flagged(state, candidates), ready))
     /\ UNCHANGED <<run, mail, asked, sched, queue, forks>>

\* heartbeat_callback: the row runs under another pid, or was moved away from
\* running by someone else.
Outdated(w) ==
  \/ Mine(w).state = "running" /\ Mine(w).pid # worker[w].pid
  \/ Mine(w).state \notin Executing

\* Mutant: the pid in the row is not compared.
Heartbeat_NoPid(w) ==
  /\ At(w, "run") /\ worker[w].raw \notin {"none", "dead"} /\ Mine(w).state \notin Executing
  /\ \E raw \in Signalled(worker[w]) : worker' = [worker EXCEPT ![w].pc = "kill", ![w].raw = raw]
  /\ Quiet

\* The supervisor terminates the process.
Heartbeat(w) ==
  /\ At(w, "run") /\ worker[w].raw \notin {"none", "dead"} /\ Outdated(w)
  /\ \E raw \in Signalled(worker[w]) : worker' = [worker EXCEPT ![w].pc = "kill", ![w].raw = raw]
  /\ Quiet

\* reap_process_group: SIGKILL when SIGTERM did not end the process in time.
KillHard(w) == At(w, "kill") /\ worker[w].raw = "term" /\ RawIs(w, "dead") /\ Quiet

\* Mutant: sync takes the result and sends no message.
Reap_Silent(w) ==
  /\ worker[w].pc \in {"run", "kill"} /\ worker[w].raw = "dead"
  /\ worker' = [worker EXCEPT ![w] = IdleWorker]
  /\ UNCHANGED <<ti, run, mail, asked, sched, queue, forks, succeeded>>

\* The supervisor ends after its process.  The worker puts the result into
\* result_queue, from which the timer of sync takes it: one
\* TaskStateChangedEvent.
Reap(w) ==
  /\ worker[w].pc \in {"run", "kill"} /\ worker[w].raw = "dead"
  /\ worker' = [worker EXCEPT ![w] = IdleWorker]
  /\ mail' = Append(mail, Changed)
  /\ UNCHANGED <<ti, run, asked, sched, queue, forks, succeeded>>

-----------------------------------------------------------------------------
Init ==
  /\ ti = [t \in Task |-> NoRow] /\ run = "none"
  /\ mail = <<RunMessage("run_dag")>> /\ asked = {}
  /\ todo = <<>> /\ pc = "idle" /\ held = NoRow
  /\ queue = <<>>
  /\ worker = [w \in Worker |-> IdleWorker]
  /\ forks = [t \in Task |-> 0] /\ succeeded = {}

Scheduler ==
  \/ CreateDagRun \/ TaskStateChanged \/ StopDagRun \/ ScheduleTask
  \/ ReadTask \/ StartTaskInstance \/ StopIdleTask \/ StopRunningTask
  \/ WaitStopped \/ WaitTimeout

Supervise(w) == RunCommand(w) \/ Heartbeat(w) \/ Reap(w)

Process(w) == Boot(w) \/ Terminated(w) \/ Save(w) \/ RunMiniScheduler(w)

Next ==
  \/ Scheduler
  \/ \E r \in Requests : Request(r)
  \/ \E w \in Worker : Supervise(w) \/ Process(w) \/ KillHard(w)
                       \/ \E o \in Outcome : Finish(w, o)

Spec == Init /\ [][Next]_vars

\* The scheduler loop, the supervisors with their periodic
\* heartbeat and the processes go on; an operator may run for ever.
FairSpec ==
  /\ Spec /\ WF_vars(Scheduler)
  /\ \A w \in Worker : WF_vars(Supervise(w) \/ Process(w))

-----------------------------------------------------------------------------
(* Properties                                                                 *)

Calls    == [action : Actions, task : Task]
Messages == {RunMessage(m) : m \in {"run_dag", "changed", "stop_dag_run"}} \cup Calls

\* The variables stay in their types.
TypeOK ==
  /\ ti \in [Task -> Row] /\ held \in Row
  /\ run \in {"none", "running", "success", "failed", "killed"}
  /\ mail \in Seq(Messages) /\ asked \subseteq Requests
  /\ todo \in Seq(Calls) /\ pc \in {"idle", "start", "kill", "killed", "wait"}
  /\ queue \in Seq(Task)
  /\ forks \in [Task -> Nat] /\ succeeded \subseteq Task
  /\ worker \in [Worker -> [pc : {"idle", "run", "kill"},
                            task : Task \cup {NoTask}, pid : Nat, own : Row,
                            raw : RawStates]]

Requested(t) == \E r \in asked : r.action # "STOP" /\ r.task = t
Executes(w, t) == worker[w].task = t /\ worker[w].raw = "exec"

\* An operator runs only after every task it depends on has succeeded, unless
\* somebody asked for it: the START messages, the duplicates among them and
\* the late commands never run ahead of the dependencies.
UpstreamFirst ==
  \A w \in Worker, t \in Task :
    Executes(w, t) /\ Rule[t] = "all_success" /\ ~Requested(t) => Upstream[t] \subseteq succeeded

\* A row that says running has a living LocalTaskJob with the pid in the row:
\* whatever STOP, RESTART, heartbeats and signals do, no task instance is left
\* running without anyone who will report its end.
RunningHasOwner ==
  \A t \in Task : state[t] = "running" =>
    \E w \in Worker : /\ worker[w].task = t /\ worker[w].pid = ti[t].pid
                      /\ worker[w].pc = "run" /\ worker[w].raw # "dead"

\* A dag run is marked successful only when every task has succeeded at some
\* time (no task was requested from outside).
SuccessIsComplete ==
  run = "success" /\ (\A t \in Task : ~Requested(t)) => succeeded = Task

Waiting == {t \in Task : state[t] = "scheduled"}

\* A task that is scheduled, by the loop or by the mini scheduler of another
\* task's process, is started, until none is left, or its run ends, or the dag has max_active_runs
\* rows that are active: _find_scheduled_tasks counts task instances, the
\* scheduled one among them, and then examines nothing.
ScheduledIsStarted ==
  (Waiting # {} /\ run = "running")
    ~> (Waiting = {} \/ run # "running" \/ Cardinality(Active) >= MaxActiveRuns)

\* The same without the limit.
AllScheduledStarted == (Waiting # {} /\ run = "running") ~> (Waiting = {} \/ run # "running")

\* A message about a changed task is in the mailbox, or will come from a worker.
ChangeToCome == (\E i \in DOMAIN mail : mail[i] = Changed) \/ \E w \in Worker : worker[w].pc # "idle"

\* A run whose tasks have all succeeded is marked finished if a message about a
\* task is still to come.  An examination that lets the last task succeed by
\* itself, a DummyOperator, finds the run running and causes no message.
SuccessIsMarked ==
  (run = "running" /\ (\A t \in Task : state[t] = "success") /\ ChangeToCome)
    ~> (run # "running" \/ \E t \in Task : state[t] # "success")

Stale == {w \in Worker : worker[w].raw = "exec" /\ Outdated(w)}

\* A process whose row is not its own any more does not go on executing, even
\* if its operator never ends.
StaleProcessEnds == Stale # {} ~> Stale = {}

\* The loop's rule for the dag run, dagrun.py: a run whose tasks have all
\* finished is marked success or failed.
FinishedIsMarked ==
  (run = "running" /\ \A t \in Task : state[t] \in Finished)
    ~> (run # "running" \/ \E t \in Task : state[t] \notin Finished)
=============================================================================
