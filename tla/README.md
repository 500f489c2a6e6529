# TLA+ models of flink-ai-extended

This directory holds TLA+ models of both halves of the repository, the
configurations that check them with TLC on small instances, and proofs checked
by TLAPS for every value of the constants. `PROJECT.json` lists the runs, the
mutants that show that each property can fail, the source lines behind every
definition, the hazards and the theorems.

## 1. The system and its parts

The repository contains *deep-learning-on-flink*, which runs TensorFlow or
PyTorch scripts inside Flink jobs, and *flink-ai-flow*, a workflow system with a
notification service and a modified Airflow.

| part | state | operations | interacts with | modelled in |
|---|---|---|---|---|
| Ring buffer, Java to C++ (`SpscOffHeapQueue`, `RecordWriterImpl`, `spscqueue.h`) | two positions, a copy of each on the other side, a finish flag, the array | write, tryReserve, record write, close; Next, BackUp, readBytes | operator and Python process, over shared memory | `JavaToCpp` |
| Ring buffer, C++ to Java | the same | Next, BackUp, writeBytes, close, death of the process; read, readOnce, available | the same, and the runner that marks the end | `CppToJava` |
| `readString` of the C++ reader | a pointer into the ring | find the terminator, release, copy | the writer | `CppStrings` |
| Operators (`MLMapFunction`, `MLInputFormat`, `MLContext`) | two queues, the record in hand, the node server's future | open, flatMap, drain, close, nextRecord, reset | script, runner, node server | `DataExchange` |
| AM state machine (`AMStateMachineImpl`, `AMTransitions`) | status, event queue | one transition per event, the handler thread, recovery | service, storage | `AppMaster` |
| AM service and server (`AppMasterServiceImpl`, `AppMasterServer`) | version, node clients, monitors, end, error | register, finish, fail, stop, heartbeat, cluster information, restart and stop of all nodes | nodes, state machine | `AppMaster`, `MLCluster` |
| AM metadata (`AMMetaImpl`) | stored version, status, cluster, finished nodes | save and restore | state machine | `AppMaster` |
| Heartbeat monitors | a running, fired or orphaned timer per node | start, cancel, fire | service, state machine | `AppMaster` (coarse) |
| Node runner and heartbeat thread (`CommonMLRunner`, `NodeHeartBeatRunner`) | version, result, program counter | connect, register, wait, get cluster, run script, report | AM, node server | `MLCluster` |
| Node server (`NodeServer`, `NodeServiceImpl`) | command of the AM | restart, stop, idle timeout, end | AM, runner | `MLCluster`, `DataExchange` |
| Notification service and client (`service.py`, `high_availability.py`, `client.py`) | event and member tables, conditions of waiting calls, the client's server, versions and retries | send, list, wait, notify, heartbeat, listen, stop, retry, give up | every other part of AIFlow | `Notification` |
| Mailbox, recovery and event handling of the event-based scheduler | message table, event progress, mailbox, job; a runner and a queue per dag run | receive an event, start, recover, schedule, stop; handle, run, exit | notification service, executor | `EventScheduler`, `DagRunEvents` |
| Task execution of the event-based scheduler (`event_based_scheduler_job.py`, `base_executor.py`, `local_task_job.py`, `taskinstance.py`, `dagrun.py`) | rows of task instances, the run's state, messages, workers and their processes | examine the run, start, stop, restart, heartbeat, signal, finish, mini scheduler | operators, users' requests | `TaskLifecycle` |
| AIFlow event processing (`workflow_event_*.py`, scheduler service) | rules, a row per context with the last execution and rule states | receive, extract contexts, decide, start, stop, save; requests that change rules | notification service, scheduler, clients | `SchedulingRules`, `WorkflowEvents` |
| AM registry and storage, bindings, metadata store, plugins | | | | no, see section 6 |

The behaviours that are hard to test, with the line where each one bites, are
the `hazards` of `PROJECT.json`.

## 2. Modules

| module | content |
|---|---|
| `SpscQueue` | the shared memory of a queue: positions, flag, cells, wrap arithmetic, the two `memcpy` |
| `ByteChannel` | abstract specification: a bounded FIFO of bytes with an end |
| `JavaToCpp` | Java writer and C++ reader over `SpscQueue`; refines `ByteChannel` |
| `CppToJava` | C++ writer, which may die, and Java reader; refines `ByteChannel` |
| `CppStrings` | `JavaToCpp` with `readString` |
| `DataExchange` | operator, script, runner and node server around two queues |
| `AppMaster` | the AM with arbitrary clients: any node sends any request with any version it was given |
| `MLCluster` | the AM with its real clients, the node servers and runners; refines `AppMaster` |
| `Notification` | servers that share their tables, and the threads of one client |
| `DagRunEvents` | `DagRunEventManager`: one runner per dag run over a thread pool |
| `EventScheduler` | mailbox, recovery and scheduler loop, extending `DagRunEvents` |
| `TaskLifecycle` | the task instances of one dag run: scheduler loop, executor, workers, processes |
| `SchedulingRules` | the rule algorithm of `WorkflowEventHandler` as operators |
| `WorkflowEvents` | event processor, store, scheduler service and scheduler, extending `SchedulingRules` |
| `SpscQueueProofs`, `JavaToCppProofs`, `CppToJavaProofs` | lemmas about positions in the ring; theorems about the two queues |
| `MLClusterProofs` | theorems about `AppMaster` and `MLCluster` |
| `NotificationProofs`, `TaskLifecycleProofs`, `WorkflowEventsProofs` | theorems about the module of that name |
| `EventSchedulerProofs` | theorems about `DagRunEvents` and `EventScheduler` |
| `MC*` | instances for TLC |

A definition named `Def_Variant` and commented "Mutant" is a plausible wrong
version of `Def`; nothing uses it but the mutants of `PROJECT.json`.

### The queues

The n-th byte of a stream is the number n and a cell holds the number of the byte
last stored there, so "the right byte" is `buf[i] = i`. Each load and store of a
shared word is a step of its own, and so is each copy; a writer or reader stands
at a program counter (`wpc`, `rpc`) between them. The copies `readCache` and
`writeCache` are as stale as the code lets them be. `Store` and `Load` mask the
address once, as `copyMemory` does, so a copy that ran over the end of the array
would be seen by `NoSharedCell`. The loads and stores are taken in program order
(the Java side uses volatile and ordered accesses, the C++ side accesses of the
same words on x86); weaker orders are not modelled.

### The data exchange

`DataExchange` is one operator and what feeds on it. `opc` is the operator's
place in `flatMap`, `close` or the loop of a source; `script`, `runner` and
`server` are the other three actors. A queue is a sequence with a finish flag,
and a call of it is one step: that the shared memory behaves like one is what the
two queue modules show. A record of the input queue is two cells, size and data,
because the script writes them by two calls and may die in between; `pending` is
the last cell written while it is not published, which happens when data ends
exactly with the offer of `Next()`. `RunnerFails` is `MLContext.reset`: it
clears both queues while the operator may be anywhere. Four notes record what
this does to the operator, and the properties name them: `torn` (the reset met
the operator inside a call, which then reads on from the cleared queue; what the
clearing does inside a single access to the shared memory is not modelled),
`markLost` (the
reset cleared the operator's end mark, so that the next script waits for ever),
`Withheld` (the operator waits for unpublished data of a script that waits for
input), `Unread` (a source that has stopped reading is given another script).
`flatMap` never looks at the node server, hence `ServerOver` in its property.
Assumed: scripts read to the end of their input, the AM can be reached for the
report, a killed script is dead at once, and the runner ends within the seconds
the node server gives it on STOP. Interrupts of the Flink task and the hooks of
`MLInputFormat` are left out.

`WholeRecords` is about behaviours without `torn`: a `readFully` that spins for
the data of a record while the queue is cleared takes what the next script writes
there, which `MCDataExchangeJoined.cfg` shows.

### The AM

A request handler has three steps (version check, client cache and monitors,
transition), and only the transition is under the write lock. A transition that
calls the nodes keeps the lock over several steps; `work` is its progress. The
event queue has a capacity, and an event for a full queue is lost, as `offer`
gives up after five seconds; only `FailNode` looks at the result and fails.
`Crash` loses everything in memory; `InitAmState` recovers from the four stored
items.

Versions are taken from a counter instead of the clock. `MaxVersion` bounds it,
`MaxCrash` the crashes. The failed-node list is written and never read by the
code and is left out. Starting a server and its recovery transition are one
step, because no request is served before.

### The cluster

`MLCluster` has one action per step of `CommonMLRunner.run`, of the heartbeat
thread and of the loop in `NodeServer.run`. Faults are bounded by `MaxFaults`
and of the kinds in `Faults`: `script` (a script fails), `heartbeat` (a
monitor fires although its node is well), `timeout` (a wait of the runner or
the idle time of the server is exceeded), `task` (the Flink task dies), `stop`
(a script calls `finishJob`), `late` (a node sets RESTART some time after it
has answered `nodeRestart`, or a heartbeat handler read `isRestart` before and
reads the version after the restart began).

`returned` notes the nodes that registered although the storage has them as
finished. `ScriptSeesWholeCluster` excepts two situations, in which a script does
run with a part of the cluster: such a node counts in the place of one that is
missing (`MCMLClusterReturns.cfg`), and a restarted AM takes up a version that had
been replaced before the crash (`MCMLClusterVersion.cfg`).

Abstractions:
- `getTaskIndex` and the first `getVersion` are one step with connecting;
- `getClusterInfo` reads the registered and the finished nodes in one step; the
  finished ones only become more, so reading them later gives the same set or a
  larger one;
- a runner that is killed sends no report, and a request that is on its way when
  a runner or task is replaced is completed first;
- the AM's give-up when no node calls it for a long time is a `Crash`;
- the strategy that restarts all tasks starts everything afresh, so crashes of
  tasks and of the AM are modelled for the individual strategy (`Individual`);
- scripts end.

### The notification service

A server runs its handlers as coroutines of one event loop, so what happens
between two awaits is one step. A version is the primary key of a row: it is
given at the insert, and others see the row after the commit, so a rolled-back
insert leaves a gap. A call of `listAllEvents` has to take the lock
of its condition before it waits, which is a step of its own. `since` is the version at
which a wait began. The retry wrapper of the client is `Retry` and `GiveUp`: it
keeps the identity of the event it sends, moves to another living member when the
server does not answer, and gives up after `MaxTries` calls, which ends a
listener's thread. Servers crash and restart, calls fail before or after they
took effect (`LoseReply`), heartbeats and notifications between servers may
come late or never. With `SerialCommits` one transaction writes at a time, as in
SQLite. Without it a row may be committed after one with a higher version; such a
row is `late`, and a listener that went on from the higher version never sees it,
which `HandedOnceInOrder` excepts and `MCNotificationCommits.cfg` shows. Filters by type, namespace and sender only narrow the query
and are part of the key; `getLatestVersionByKey`, the graceful stop of a server
and the memory and Mongo storages are left out.

### The event-based scheduler

`DagRunEvents` has the manager (`handle_event` and `_runner_exited` hold its
lock and are one step each) and its threads, which take events without the
lock. `EventScheduler` puts it between the mailbox and the executor: `StoreEvent`
is the notification service, `ProcessEvent` the callback that saves message and
progress in one transaction, `StartJob` and `Boot` the recovery of messages and
the subscription from the saved progress, `Schedule` one turn of the loop for an
event, a handler's result, a scheduling request or a stop, `Crash` the loss of
everything but the tables. A notification event is its version. Which dag runs
it affects is a constant, and the dag runs stay running. `execute_event_handler`
returns a set of results, one per affected task and possibly none (`Results`); the
thread sends them one by one (`results` are those still to send), and those in
`NoAction` end in the loop. `owed` holds the actions until the executor is called.
A `StopSchedulerEvent` carries the id of a job, or 0 for any; the end of the loop
shuts the pool down, after which `submit` raises and a runner's events stay in its
queue. `StopJobs` bounds the jobs that are stopped.

`TaskLifecycle` takes one dag run and follows its tasks: an examination of the
run (with trigger rules, verdict and START messages to the scheduler itself) is
one transaction; the executor reads a row in one session and writes it back,
whole, in another, so that a worker's change in between is overwritten. The
process of a task does the same at its end (stage `write`, then `Save`). The
query of `_find_scheduled_tasks` skips rows that another transaction has locked
(`Locked`). The two
reads of `schedule_task` and of the function it calls are one, and so are the
result queue and `sync`, and a worker's taking of a command and its check. A
worker's `LocalTaskJob` forks a process (`raw` is its stage), checks in its
heartbeat that the row is still its own and ends the process otherwise, by
`KillHard` if it does not obey the signal. What SIGTERM does depends on the stage
(`Signalled`): a process without the handler dies, one in its operator goes
through the handling of an `AirflowException`, one that handles an exception
already ends without a write. The heartbeat's own time limit and its comparison of
host names are left out: there is one host, and heartbeats do not fail. The mini scheduler that a task's process runs at
its end sees the downstream tasks only. `Sent` says whether the event of a
`LocalTaskJob` reaches the scheduler. Not modelled: `DagRunFinishedEvent`,
periodic tasks and their timers, `depends_on_past`, `task_concurrency`,
rescheduling sensors, pausing, the states SENSING, SHUTDOWN and REMOVED, a crash
of the scheduler (that is in `EventScheduler`), and other executors.

### Event processing of AIFlow

`SchedulingRules` is the algorithm of `WorkflowEventHandler` (which the
Airflow plugin's `AIFlowHandler` repeats for jobs): what a rule remembers, when a
config is met, which action is taken. `WorkflowEvents` runs it: the processor
reads the rows of the event's contexts, registers missing ones, decides, starts or stops, and saves, with
one step for each call of the store or the scheduler; meanwhile threads of the
scheduler service change the rules and clients start and kill executions. An
exception at any of those steps drops the event (`Abort`), and `Crash` ends the
service; executions whose id was lost in this way are `orphans`. `log` records,
for each context, the events handled with the rules that were met. Reading the
execution's status and the decision of the handler are one step. One workflow
is modelled, since workflows that share an event are handled one after another.
The state of a rule is found by its place in the list, so the
properties about rules speak of places: a request that moves a rule gives it the
state of the one that was there. A store call fails only when a row exists already, and the outcome `Fails` of a
context extractor, which drops the event at once, is not in the instance.

## 3. Runs

Deadlock is checked in the queue runs, where a closed and drained queue
stutters; the other systems really stop, or wait for input that need not come.
Each passing run takes less than five minutes.

| run | instance | shows |
|---|---|---|
| `java_to_cpp` | capacity 4, header 1, records 0 to 2, raw writes 1 and 3, reads 0, 1, 3, ten bytes | `InOrder` (each byte delivered is the one written there), `NoSharedCell` (no cell is filled and read at once), `ReservedNeverWaits` (a reserved record never blocks half-way), `ClosedIsDrained` and `WriteReturns` (liveness), `ImplementsChannel` |
| `cpp_to_java` | capacity 4, writes 0, 1, 3, 6, reads 1, 3, ten bytes, death at any step | the same for the other direction; `EofMeansDrained`; `EndIsReached`: the operator sees the end also if the process dies |
| `app_master` | one node, queue 2, two versions, one crash | `FailoverIsRestartedOnce`: a failover has exactly one RESTART_CLUSTER |
| `cluster_failover` | two nodes, one fault of four kinds, three versions | `FailoverEnds`, `LeftBehindCatchesUp`, `ImplementsAM` |
| `cluster_late` | a spurious failover with a late command, two versions, the restart-all strategy | `LeftBehindCatchesUp` |
| `cluster_task` | two workers and no parameter server (interchangeable, so symmetry is used; safety only), a task that dies and comes back, and a crash of the AM, two versions | `FinishMeansAllFinished`; `ScriptSeesWholeCluster`: a script of the current version was given all nodes, unless a finished node registered again or a crash brought an old version back |
| `data_exchange` | map operator with four records and two results each, or source; room for two records and three cells; three failures, restarts or stops | `NothingLost` (without failures), `WholeRecords` (sizes and data of different scripts are not joined, unless the queues were cleared during a call), `FlatMapReturns`, `CloseReturns` |
| `notification` | two servers, two senders whose commits may overtake each other, a listener of one key or of all events, two events, two tries, one crash or lost response | `HandedOnceInOrder` (late rows excepted), `StoredOnce`, `NoLostWakeup` |
| `notification_live` | the same with one sender, serial commits and one event | `EventsAreDelivered`, also when no server notifies another; a stopped listener ends |
| `event_scheduler` | three starts, crashes at every step, one stop of the first job by its id or by 0, two events whose handlers return no, one or two results, one dag run, two threads, `max_num_event` 2 | `EventsInOrder`, `EventsEnterOnce`, `MessagesRecovered` (over one restart), `ActionsKept` (an action is with its thread or in a message row until the executor is called), `EventsAreScheduled` |
| `task_lifecycle` | two tasks in a chain and a `DummyOperator` after them, two workers, success, error or no end, one request (stop the run, restart the second task), two forks of a task, `max_active_runs` 2 | `UpstreamFirst`, `RunningHasOwner`, `ScheduledIsStarted` (unless as many rows are active as `max_active_runs` says), `SuccessIsMarked` (if a message about a task is still to come), `StaleProcessEnds` |
| `workflow_events` | two contexts, three events of three keys, a STOP and a START rule, one request that replaces the rules of START or of STOP, one crash, calls that raise | `RunsPerContext`, `OnceIsUsedOnce` (an event of life ONCE meets the rule at one place of the list once) and `NoEventIgnored` (the algorithm against what `EventLife` and `ValueCondition` promise, stated on the history without times), `StoppedIsStopped` |

`TypeOK` of every module, and the properties `EofMeansDrained` (`JavaToCpp`),
`WriteReturns` (`CppToJava`), `NodesTypeOK` (`MLCluster`),
`OneRunnerPerRun`, `NoEventStranded` (`DagRunEvents`), `RunSeesVersionOrder`
(`EventScheduler`), `SuccessIsComplete` (`TaskLifecycle`) and
`EventsAreReceived` (`WorkflowEvents`, with `FairSpec`) are not named in the
configurations. They hold too: add them to the configuration of their module.

### Bounds

*Queues.* Ten bytes go round a ring of four cells twice and a half, at every
alignment; lengths 1 and 3 do not divide the capacity, 6 is longer than the ring
and 0 is the empty call.

*Cluster.* Two nodes are the least at which one fails while the other registers,
waits, runs or finishes; a queue of two events is full in reachable states of
`AppMaster`; three versions allow a failover caused by the restart of another
one. `LeftBehindCatchesUp` with late commands is checked for a single failover
only: if a second one falls into the moment at which the node server overwrites
the command with NOPE, the RESTART is lost like the STOP of `MCMLClusterStop.cfg`
and the runner waits until its own timeout.

*Data exchange.* Four records through a queue of two and eight results through
three cells, an odd number for records of two cells, fill both queues at every
stage of a record; three faults are a restart after a failure and a stop of what
was restarted.

*Notification.* Two servers are what failover needs, two senders what a late
commit needs. Two events are the least
with an order, two tries the least with a repetition; more of either only
lengthen what happens. With both a key listener and a listener of all events
started at once the state space is too large, and they share nothing but the
server's address, so each instance starts one of them.

*Scheduler.* Three starts are needed for "a job before the last one" in
`MessagesRecovered`; two events on two threads with `max_num_event` 2 let a
runner be resubmitted, released and created again. The handlers of the first event
return one action or nothing, those of the second an action and a NONE, which are
the cases `_run` and the loop tell apart.

*Tasks.* Two forks are a task and its restart; one request is a stop of the run or
a RESTART at every stage of both tasks. The third task is one that an examination
lets succeed without a process. Workers that wait for a command are alike, so the
next command goes to a fixed one of them (`FreeWorker`). With `max_active_runs` 2
the limit is reached by some behaviours and not by others.

*Rules.* Three events are a trigger, its repetition and one more; the requests
change the number of rules, so that saved states are too few, and move the rule of
START to the first place. `NoEventIgnored` has the premise of distinct
milliseconds and unchanged rules.

### Fairness

Queues: both sides are threads of their own that never block each other, hence
weak fairness of their steps; the process asks for the next size field, and the
operator for the next record, until the end of the stream, hence strong fairness
of a read that is not empty (a reader may ask for nothing in between). Weak
fairness of `RunnerMarks` says that the runner notices the end of its process.
Cluster: weak fairness of the AM's threads, of each call to a node, each runner,
heartbeat thread and server loop. No fairness is assumed for faults, crashes,
and monitors; so nothing relies on a timeout. Data exchange: weak fairness of an
operator in a call, of script, runner and node server; the job need not give
records. Notification: weak fairness of the client's threads, which includes that
a wait on a server times out (it has a timeout of its own); nothing makes servers
notify, restart or refresh members. Scheduler: weak fairness of the loop and of
each pool thread, not of a restart. Tasks: weak fairness of the loop, the
executor, and each supervisor with its process; an operator may run for ever,
so its end (`Finish`) is not fair.

## 4. Further configurations

Fourteen configurations check a property that a comment or a document of the
repository suggests and that the code does not have; TLC refutes each of them
(`tlc -config X.cfg M`). They are not among the runs of `PROJECT.json`, but say
where the models and the words differ.

| configuration | module | property | what happens |
|---|---|---|---|
| `MCCppStrings.cfg` | `MCCppStrings` | `StringIntact` | `readString` (`spscqueue.h:408`) frees the bytes before it copies them |
| `MCMLClusterLostFinish.cfg` | `MCMLCluster` | `AllFinishedEndsJob` | FINISH_NODE in a failover is dropped (`AMStateMachineImpl.java:77`) and never repeated |
| `MCMLClusterError.cfg` | `MCMLCluster` | `ErrorFailsJob` | the inverted test in `onError` (`AppMasterServer.java:223`) drops the error |
| `MCMLClusterVersion.cfg` | `MCMLCluster` | `VersionIsKept` | the version of a restart (`AppMasterServiceImpl.java:249`) is not stored |
| `MCMLClusterStop.cfg` | `MCMLCluster` | `StopIsObeyed` | STOP is overwritten by NOPE after a restart (`NodeServer.java:240`) |
| `MCMLClusterReturns.cfg` | `MCMLCluster` | `RunningIsComplete` | a finished node that registers again stands in for a missing one (`AMTransitions.java:284`) |
| `MCDataExchangeDeadLock.cfg` | `MCDataExchange` | `NoDeadLock` | `flatMap` has read a record's size and waits for its data, which the script has written but not published because it ended exactly with the queue's offer, and the script waits for input (the loop at `MLMapFunction.java:143` is there "to avoid dead lock") |
| `MCDataExchangeJoined.cfg` | `MCDataExchange` | `NeverJoined` | a size read before `MLContext.reset` is joined with data of the next script: `readFully` (`RecordReaderImpl.java`) spins on the cleared queue instead of failing |
| `MCNotificationCommits.cfg` | `MCNotification` | `NoneSkipped` | an event committed after one with a higher version is not handed to a listener of all events that has gone on from that version |
| `MCEventSchedulerLost.cfg` | `MCEventScheduler` | `AllMessagesRecovered` | recovered messages keep the id of the job before (`event_based_scheduler_job.py:203`); a second restart does not look for them |
| `MCEventSchedulerUnsent.cfg` | `MCEventScheduler` | `OwedUntilScheduled` | the process ends after a handler returned and before its results were sent; the row of the event is deleted already, and nothing repeats the action |
| `MCTaskStuck.cfg` | `MCTaskLifecycle` | `FinishedIsMarked` | the examination that lets a `DummyOperator` succeed, or flags tasks `upstream_failed`, judges the run by the states before (`dagrun.py:438`), and no message causes another examination |
| `MCTaskActive.cfg` | `MCTaskLifecycle` | `AllScheduledStarted` | `_find_scheduled_tasks` compares the number of active task instances, the scheduled one included, with `max_active_runs`; at 1 a task that the mini scheduler has scheduled is never started |
| `MCWorkflowMoved.cfg` | `MCWorkflowEvents` | `OnceWherever` | "The event value will be used only once" (`control_edge.py:60`): a rule that a request moves to another place takes over the state of that place and uses the event again |

The models show four more such behaviours: a write as long as the ring waits for
ever on an empty queue (`WriteLens = {4}` in `MCJavaToCpp.cfg`); a failure in
INIT leaves INIT in the storage (`FailNode`); a crash of the AM loses a queued
FINISH_CLUSTER (`AllFinishedEndsJob` with `MaxCrash = 1` and no faults); a source
stops when its node server is done, although the queue may hold records
(`MLInputFormat.reachedEnd`, which is why `NothingLost` speaks of an operator
that has seen the end of the queue).

## 5. Proofs

All theorems are stated for every value of the constants, under the assumptions
named in the modules:

- queues: a positive capacity and lengths that are naturals (positive ones for
  the Java reader);
- cluster: a finite non-empty set of nodes, each with a role, and a positive
  capacity of the event queue;
- notification: a server to begin with, threads that are different from each
  other (`ThreadAssumption`), and a value for "no server" that is none
  (`ServerAssumption`);
- scheduler: some dag run, events numbered from 1, a positive `max_num_event`,
  and a set of affected dag runs for each event;
- tasks: a finite set of tasks, each with a rule and a set of upstream tasks;
- rules: contexts that include the default one.

The bounds (`MaxVersion`, `MaxJobs`, `MaxEvents`...) are any numbers, so the
theorems hold however many crashes, restarts and messages there are. No theorem
has a premise on the behaviour: where the code gives a weaker promise than one
might expect, the exception is part of the property.

*Queues* (`JavaToCppProofs`, `CppToJavaProofs`). None of the properties is
inductive. The invariant adds what each side may conclude from a stale copy:

    readCache <= read <= read + offer <= writeCache <= write
    write + chunk <= readCache + Capacity

and that the cells of all positions that are not read yet hold their bytes
(`DataIntact`). A store to the cells of `write .. write + chunk - 1` cannot meet
one of `read .. write - 1`, since fewer than `Capacity` positions separate them;
`SpscQueueProofs` states that and the other facts about the remainder once.
From the invariant follow `TypeCorrect`, `DeliversInOrder`, `CopiesAreDisjoint`,
`EofAfterLastByte`, `ReservationIsEnough` (Java writer only) and
`QueueIsChannel`, the refinement of `ByteChannel`.

*AM* (`MLClusterProofs`). `TypeCorrect` needs one lemma per transition and the
fact that types only grow with the clock. `JobEndsWhenAllFinished`: the
invariant `FinishInv` says that everything on the way from the last FINISH_NODE
to the end (a queued FINISH_CLUSTER, a transition at work, the stored status,
the end flag) implies that all nodes are stored as finished; `NoneRemains` turns
the comparison of numbers in the code into equality of sets.
`FailoverRestartsOnce`: the invariant `RestartInv` says that the queue of an AM
in failover holds exactly one RESTART_CLUSTER of the current version until the
restart is at work, and that only an AM that is up and in failover is at work on
one; from `TypeOK` it takes that no event carries a version that has not been
drawn.

*Cluster* (`MLClusterProofs`). `ClusterImplementsAM`: every step of node servers,
runners and faults is a step of `AppMaster` or leaves the AM alone. What is
needed is that a runner sends only versions it was given (`NodesInv`), also
across crashes. `ClusterEndsWhenAllFinished` and `ClusterRestartsOnce` are the
theorems about the AM, carried over by this refinement.

*Notification* (`NotificationProofs`). `EventsStoredOnce` rests on `StoreInv`:
a row and the call that may still commit it are told apart by the uuid, which a
retry keeps, and a call that returned has its row. `NoWakeupLost` is
proved together with it. `EventsHandedInOrder` holds with and without
`SerialCommits`: `GivenOK` says that a listener has all rows up to its version
that are committed and not late, and a row that is committed below the version of
a listener is late, because the row with that version was committed before.

*Event manager* (`EventSchedulerProofs`), for the manager on its own, given
events for any dag run at any time. `AtMostOneRunner`, `NoEventLeftBehind` and
`TakenInOrder` rest on `MInv == MTypeOK /\ RunnerInv`. `NoEventLeftBehind` alone
is not inductive: one has to know that a dag run in the running set has exactly
one runner, waiting in the pool or executing, and that one outside the set
has none and an empty queue, since the callback of an ended runner looks at the
queue and leaves the set under the lock that `handle_event` takes.

*Scheduler* (`EventSchedulerProofs`). One invariant,
`SInv == MInv /\ Shape /\ Jobs /\ Mails /\ Listens`, carries all five theorems.

- `EventsEnterTheMailboxOnce`. What must be known is the version at which this
  job listens, or the next one will (`Mark`): `start` while a job starts, the
  saved progress later and after a crash. `Entered` says that no event beyond
  it has entered, and that the last one that entered is exactly it, if every
  job that ended had saved a progress. Between the insert of the job's row and
  `_set_event_progress` there is none, which is where the premise of the
  property comes from.
- `MessagesAreRecovered`. `Recovered` says that from recovery on the rows of the
  job and of the last one are in the mailbox, `Mailbox` that each is there once;
  `UnprocessedListed` shows that the query of `recover` lists every row once.
- `ActionsAreKept`. The row of a message is deleted after its effect; `Kept`
  says that an action that is owed and no longer with its thread has a row whose
  effect is still to come, so that the row whose turn is over (`current` with
  `todo`) is not the one that stands for it. With `Recovered` the row is in the
  mailbox of the job that runs, unless it is of a job before the last one.
- `SchedulerKeepsOrder` takes from the manager that each of its steps keeps the
  order, and that a crash brings it back to its initial state; `ScheduleEvent`
  and the threads do nothing else to it.

*Tasks* (`TaskLifecycleProofs`). `UpstreamRunsFirst` and `RunningIsOwned` rest on
`LifeInv == Shape /\ RowsDue /\ CallsDue /\ WorkersDue /\ Owned`. A task is due
if what it depends on has succeeded or a request named it; `LifeInv` says that
every scheduled row, every START or RESTART in the mailbox and in the executor,
every queued command and every process is of a task that is due, so that no late
or repeated message runs ahead, and that no process is about to write a row that
is scheduled or running, so that an old row it read does not bring one back. `Owned` says more than the property: the process
that owns a running row has not written its own end yet, since one that has is
still alive (it runs the mini scheduler) while its row may be started again.

*Event processing* (`WorkflowEventsProofs`). `OneRunPerContext` rests on
`RunsInv == Shape /\ LeftOK /\ HandledOK /\ Known`. `Known` is the property;
it needs that the row the processor has read still names the execution in the
store when it decides (`LeftOK`), and until it saves (`HandledOK`): only the
processor writes that column of an existing row, and requests that change rules
do not. `StopStops`, `OnceIsOnce` and `NoneIsIgnored` add `RulesInv`: the saved
state of a rule is what the history of the context says (`StateAfter`), so the
algorithm and the history can be compared event by event. `OnceIsOnce` is stated
for the places of the rule list, by which rule states are found, and so holds for
any request; of a rule that moves it says nothing (`MCWorkflowMoved.cfg`).

### Only model-checked

- All liveness properties: `ClosedIsDrained`, `WriteReturns`, `EndIsReached`,
  `FailoverEnds`, `LeftBehindCatchesUp`, `FlatMapReturns`, `CloseReturns`,
  `EventsAreDelivered`, `EventsAreScheduled`, `ScheduledIsStarted`,
  `SuccessIsMarked`, `StaleProcessEnds`. The prover does not handle fairness.
- `ScriptSeesWholeCluster`, with its two exceptions: its invariant would have to
  relate the version a runner holds to what it read of the storage during each
  restart, and has not been worked out.
- `DataExchange` (`NothingLost`, `WholeRecords`): its invariant would follow the
  cells of two queues through resets at every place of the operator, and has not
  been worked out.
- `CppStrings`, of which the only property is refuted.
- `RunSeesVersionOrder` and `SuccessIsComplete`, which no theorem states.

What a recursive function computes for every input cannot be proved by induction
over the numbers here. Where a fact needs induction over a finite set (a set of
ids has a largest member and can be listed in order), it is proved by the least
subset that would contradict it (`Largest`, `Listing`).

## 6. Not modelled

- ZooKeeper, the databases and the AM registry: libraries, taken as reliable
  storage; Flink itself (a failed task is started again); gRPC (a call is
  answered or fails, before or after it took effect).
- The TensorFlow and PyTorch bindings: configuration and environment variables.
- The metadata store of AIFlow (projects, datasets, models, artifacts): create,
  read, update and delete over one table at a time. The tables of workflow
  states are in `WorkflowEvents`.
- Job and scheduler plugins: they start processes, write files and translate a
  workflow into a dag.
- The rest of the Airflow fork (operators, hooks, providers, web server, user
  interface, and the original scheduler job, which the event-based one replaces):
  by far the larger part of the repository's lines, taken over from Airflow and
  not of this system's making.
- Inside modelled parts: the two locks and the future of one `HeartbeatMonitor`,
  context files of the node server, the coding of records, and what section 2
  lists for each module.
- Weak memory orders of the queue, and run ids that coincide across dags.
