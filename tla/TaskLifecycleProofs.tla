------------------------- MODULE TaskLifecycleProofs -------------------------
(***************************************************************************)
(* Proofs about the life of task instances, for every dag, any number of   *)
(* workers, all requests, outcomes and failing messages: operators run     *)
(* after the tasks they depend on, and a row that says running has an      *)
(* owner.                                                                  *)
(***************************************************************************)
EXTENDS TaskLifecycle, FiniteSetTheorems, TLAPS

\* The tasks that may be executed: the tasks they depend on have succeeded, or
\* their rule does not ask for it, or somebody asked for them.
Due == {t \in Task : Rule[t] = "all_success" /\ ~Requested(t) => Upstream[t] \subseteq succeeded}

\* Calls and messages that start no other tasks.
DueCalls == [action : Actions, task : Due] \cup [action : {"STOP"}, task : Task]
DueMail  == {RunMessage(m) : m \in {"run_dag", "changed", "stop_dag_run"}} \cup DueCalls

Workers == [pc : {"idle", "run", "kill"}, task : Task \cup {NoTask}, pid : Nat, own : Row,
            raw : RawStates]

Shape ==
  /\ ti \in [Task -> Row] /\ held \in Row
  /\ run \in {"none", "running", "success", "failed", "killed"}
  /\ asked \subseteq Requests
  /\ pc \in {"idle", "start", "kill", "killed", "wait"}
  /\ forks \in [Task -> Nat] /\ succeeded \subseteq Task
  /\ worker \in [Worker -> Workers]

\* What is scheduled is due, and the history has the tasks that succeeded.
RowsDue ==
  \A t \in Task : /\ ti[t].state = "success" => t \in succeeded
                  /\ ti[t].state = "scheduled" => t \in Due

\* What is on its way to the workers is due.
CallsDue ==
  /\ mail \in Seq(DueMail)
  /\ todo \in Seq(DueCalls)
  /\ pc # "idle" => todo # <<>>
  /\ pc = "start" => Call.action # "STOP"
  /\ queue \in Seq(Due)

\* So is what the workers have, and no process is going to write that its task
\* is scheduled or running.
WorkerDue(p) == /\ p.raw # "none" => p.task \in Due
                /\ p.raw = "write" => p.own.state \notin {"scheduled", "running"}
WorkersDue == \A w \in Worker : WorkerDue(worker[w])

\* The owner of a running row has not ended, and nobody but the row's own end
\* or a STOP will end it.
Owner(w, t) ==
  /\ worker[w].task = t /\ worker[w].pid = ti[t].pid
  /\ worker[w].pc = "run" /\ worker[w].raw \in {"boot", "exec", "term", "write"}

Owned == \A t \in Task : ti[t].state = "running" => \E w \in Worker : Owner(w, t)

LifeInv == Shape /\ RowsDue /\ CallsDue /\ WorkersDue /\ Owned

LEMMA LifeIs ==
  ASSUME LifeInv PROVE Shape /\ RowsDue /\ CallsDue /\ WorkersDue /\ Owned
BY Zenon DEF LifeInv

LEMMA LifeNext ==
  ASSUME Shape', RowsDue', CallsDue', WorkersDue', Owned' PROVE LifeInv'
BY Zenon DEF LifeInv

-----------------------------------------------------------------------------
(* Sequences                                                                  *)

LEMMA Appended ==
  ASSUME NEW S, NEW s \in Seq(S), NEW x \in S
  PROVE  Append(s, x) \in Seq(S)
OBVIOUS

LEMMA HeadAndTail ==
  ASSUME NEW S, NEW s \in Seq(S), s # <<>>
  PROVE  Head(s) \in S /\ Tail(s) \in Seq(S)
OBVIOUS

LEMMA Joined ==
  ASSUME NEW S, NEW s \in Seq(S), NEW r \in Seq(S)
  PROVE  s \o r \in Seq(S)
OBVIOUS

LEMMA Wider ==
  ASSUME NEW S, NEW T, S \subseteq T, NEW s \in Seq(S)
  PROVE  s \in Seq(T)
OBVIOUS

LEMMA Single ==
  ASSUME NEW S, NEW x \in S
  PROVE  <<x>> \in Seq(S) /\ <<x>> # <<>> /\ Head(<<x>>) = x
OBVIOUS

LEMMA NoneOf ==
  ASSUME NEW S
  PROVE  <<>> \in Seq(S)
OBVIOUS

LEMMA MapOfSeq ==
  ASSUME NEW S, NEW n \in Nat, NEW f \in [1..n -> S]
  PROVE  f \in Seq(S)
OBVIOUS

\* A finite set of rows can be listed.
LEMMA SetAsSeq ==
  ASSUME NEW S, IsFiniteSet(S)
  PROVE  Cardinality(S) \in Nat /\ Listed(S) \in [1..Cardinality(S) -> S]
<1>1. Cardinality(S) \in Nat /\ ExistsBijection(1..Cardinality(S), S)
  BY FS_CardinalityType, Zenon
<1>2. PICK f \in [1..Cardinality(S) -> S] : \A i, j \in DOMAIN f : f[i] = f[j] => i = j
  BY <1>1, Zenon DEF ExistsBijection, Bijection, Injection, IsInjective
<1> QED
  BY <1>1, <1>2, Zenon DEF Listed

\* The calls made for the tasks of a set are calls about its tasks.
LEMMA CallsOfSet ==
  ASSUME NEW S \in SUBSET Task, NEW a
  PROVE  LET s == Listed(S)
         IN  [i \in DOMAIN s |-> [action |-> a, task |-> s[i]]] \in Seq([action : {a}, task : S])
<1> DEFINE s == Listed(S)
<1>1. IsFiniteSet(S)
  BY TaskAssumption, FS_Subset, Zenon
<1>2. Cardinality(S) \in Nat /\ s \in [1..Cardinality(S) -> S]
  BY <1>1, SetAsSeq, Zenon
<1>3. DOMAIN s = 1..Cardinality(S) /\ \A i \in DOMAIN s : s[i] \in S
  BY <1>2, Zenon
<1>4. [i \in DOMAIN s |-> [action |-> a, task |-> s[i]]]
        \in [1..Cardinality(S) -> [action : {a}, task : S]]
  BY <1>3, Zenon
<1> QED
  BY <1>2, <1>4, MapOfSeq, Zenon

-----------------------------------------------------------------------------
(* Rows                                                                       *)

States == Finished \cup Unfinished

LEMMA RowWith ==
  ASSUME NEW r \in Row, NEW s \in States
  PROVE  /\ [r EXCEPT !.state = s] \in Row
         /\ [r EXCEPT !.state = s].state = s
         /\ [r EXCEPT !.state = s].pid = r.pid
BY Zenon DEF Row, States

LEMMA NoRowIsRow == NoRow \in Row
BY DEF NoRow, Row, Unfinished

\* What is due stays due: requests and successes are not taken back.
LEMMA DueStays ==
  ASSUME asked \subseteq asked', succeeded \subseteq succeeded'
  PROVE  Due \subseteq Due' /\ DueCalls \subseteq DueCalls' /\ DueMail \subseteq DueMail'
<1>1. Due \subseteq Due'
  BY Zenon DEF Due, Requested
<1>2. DueCalls \subseteq DueCalls'
  BY <1>1, Zenon DEF DueCalls
<1> QED
  BY <1>1, <1>2, Zenon DEF DueMail

LEMMA ChangedIsMail == Changed \in DueMail'
BY Zenon DEF Changed, DueMail

\* A row is written, with another state than scheduled.
LEMMA RowWritten ==
  ASSUME LifeInv, NEW t \in Task, NEW row \in Row, row.state # "scheduled",
         SetRow(t, row), asked \subseteq asked'
  PROVE  /\ ti' \in [Task -> Row] /\ succeeded' \subseteq Task
         /\ Due \subseteq Due' /\ DueCalls \subseteq DueCalls' /\ DueMail \subseteq DueMail'
         /\ RowsDue'
         /\ ti'[t] = row /\ \A u \in Task : u # t => ti'[u] = ti[u]
<1>1. ti' = [ti EXCEPT ![t] = row] /\ ti \in [Task -> Row] /\ succeeded \subseteq Task
  BY LifeIs, Zenon DEF SetRow, Shape
<1>2. ti' \in [Task -> Row] /\ ti'[t] = row /\ \A u \in Task : u # t => ti'[u] = ti[u]
  BY <1>1, Zenon
<1>3. succeeded \subseteq succeeded' /\ succeeded' \subseteq Task
  BY <1>1, Zenon DEF SetRow
<1>4. Due \subseteq Due' /\ DueCalls \subseteq DueCalls' /\ DueMail \subseteq DueMail'
  BY <1>3, DueStays, Zenon
<1>5. row.state = "success" => t \in succeeded'
  BY Zenon DEF SetRow
<1>6. RowsDue'
  <2> SUFFICES ASSUME NEW u \in Task
               PROVE  /\ ti'[u].state = "success" => u \in succeeded'
                      /\ ti'[u].state = "scheduled" => u \in Due'
    BY Zenon DEF RowsDue
  <2>1. CASE u = t
    BY <2>1, <1>2, <1>5, Zenon
  <2>2. CASE u # t
    BY <2>2, <1>2, <1>3, <1>4, LifeIs, Zenon DEF RowsDue
  <2> QED
    BY <2>1, <2>2, Zenon
<1> QED
  BY <1>2, <1>3, <1>4, <1>6, Zenon

\* The states of all rows are written, as an examination does: scheduled is
\* only what is due, and running only what was.
LEMMA RowsWritten ==
  ASSUME LifeInv, NEW st \in [Task -> States], SetStates(st), asked \subseteq asked',
         \A t \in Task : st[t] = "scheduled" => t \in Due,
         \A t \in Task : st[t] = "running" => ti[t].state = "running"
  PROVE  /\ ti' \in [Task -> Row] /\ succeeded' \subseteq Task
         /\ Due \subseteq Due' /\ DueCalls \subseteq DueCalls' /\ DueMail \subseteq DueMail'
         /\ RowsDue'
         /\ \A t \in Task : /\ ti'[t].pid = ti[t].pid
                            /\ ti'[t].state = "running" => ti[t].state = "running"
<1>1. /\ ti' = [t \in Task |-> [ti[t] EXCEPT !.state = st[t]]]
      /\ succeeded' = succeeded \cup {t \in Task : st[t] \in {"success", "skipped"}}
  BY Zenon DEF SetStates
<1>2. \A t \in Task : ti'[t] \in Row /\ ti'[t].state = st[t] /\ ti'[t].pid = ti[t].pid
  <2> SUFFICES ASSUME NEW t \in Task
               PROVE  ti'[t] \in Row /\ ti'[t].state = st[t] /\ ti'[t].pid = ti[t].pid
    BY Zenon
  <2>1. ti[t] \in Row /\ st[t] \in States
    BY LifeIs, Zenon DEF Shape
  <2>2. ti'[t] = [ti[t] EXCEPT !.state = st[t]]
    BY <1>1, Zenon
  <2>3. LET r == [ti[t] EXCEPT !.state = st[t]]
        IN  r \in Row /\ r.state = st[t] /\ r.pid = ti[t].pid
    BY <2>1, RowWith, Zenon
  <2> QED
    BY <2>2, <2>3, Zenon
<1>3. succeeded \subseteq succeeded' /\ succeeded' \subseteq Task
  BY <1>1, LifeIs, Zenon DEF Shape
<1>4. Due \subseteq Due' /\ DueCalls \subseteq DueCalls' /\ DueMail \subseteq DueMail'
  BY <1>3, DueStays, Zenon
<1>5. RowsDue'
  <2> SUFFICES ASSUME NEW t \in Task
               PROVE  /\ ti'[t].state = "success" => t \in succeeded'
                      /\ ti'[t].state = "scheduled" => t \in Due'
    BY Zenon DEF RowsDue
  <2>1. st[t] = "success" => t \in succeeded'
    BY <1>1, Zenon
  <2> QED
    BY <2>1, <1>2, <1>4, Zenon
<1>6. ti' \in [Task -> Row]
  BY <1>1, <1>2, Zenon
<1> QED
  BY <1>2, <1>3, <1>4, <1>5, <1>6, Zenon

-----------------------------------------------------------------------------
(* Dependencies                                                               *)

\* A task whose rule is met is due: its upstream tasks are in success.
LEMMA RuleMetIsDue ==
  ASSUME LifeInv, NEW t \in Task, RuleMet(state, t)
  PROVE  t \in Due
<1>1. Rule[t] = "all_success" => \A u \in Upstream[t] : state[u] = "success"
  BY Zenon DEF RuleMet, Among
<1>2. \A u \in Upstream[t] : u \in Task
  BY TaskAssumption, Zenon
<1> QED
  BY <1>1, <1>2, LifeIs, Zenon DEF RowsDue, state, Due

\* Flagging leaves a state or fails or skips the task.
LEMMA FlagState ==
  ASSUME NEW st, NEW t
  PROVE  Flag(st, t) \in {st[t], "upstream_failed", "skipped"}
BY Zenon DEF Flag

\* The states that scheduling and flagging give.
LEMMA ScheduledStates ==
  ASSUME LifeInv, NEW S, NEW ready \in SUBSET Due,
         NEW st, st = ScheduleTis(Flagged(state, S), ready)
  PROVE  /\ st \in [Task -> States]
         /\ \A t \in Task : st[t] = "scheduled" => t \in Due
         /\ \A t \in Task : st[t] = "running" => ti[t].state = "running"
<1> DEFINE fl == Flagged(state, S)
<1>1. \A t \in Task : state[t] = ti[t].state /\ ti[t].state \in States
  BY LifeIs, Zenon DEF state, Shape, Row, States
<1>2. \A t \in Task : fl[t] \in {state[t], "upstream_failed", "skipped"}
  BY FlagState, Zenon DEF Flagged
<1>3. st = [t \in Task |-> IF t \notin ready THEN fl[t] ELSE IF t \in Dummy THEN "success" ELSE "scheduled"]
  BY Zenon DEF ScheduleTis
<1>4. \A t \in Task : st[t] \in {fl[t], "success", "scheduled"} /\ (t \notin ready => st[t] = fl[t])
                      /\ (st[t] \in {"success", "scheduled"} \/ st[t] = fl[t])
  BY <1>3, Zenon
<1>5. {"success", "scheduled", "upstream_failed", "skipped"} \subseteq States
  BY Zenon DEF States, Finished, Unfinished
<1>6. \A t \in Task : st[t] \in States
  BY <1>1, <1>2, <1>4, <1>5, Zenon
<1>7. st \in [Task -> States]
  BY <1>3, <1>6, Zenon
<1>8. \A t \in Task : st[t] = "scheduled" => t \in Due
  BY <1>1, <1>2, <1>4, LifeIs, Zenon DEF RowsDue
<1>9. \A t \in Task : st[t] = "running" => ti[t].state = "running"
  BY <1>1, <1>2, <1>4, Zenon
<1> QED
  BY <1>7, <1>8, <1>9, Zenon

-----------------------------------------------------------------------------
(* The scheduler loop                                                         *)

\* The workers go on as they are.
LEMMA SameWorkers ==
  ASSUME LifeInv, worker' = worker, Due \subseteq Due',
         \A t \in Task : ti'[t].state = "running" => /\ ti[t].state = "running"
                                                     /\ ti'[t].pid = ti[t].pid
  PROVE  WorkersDue' /\ Owned'
<1>1. WorkersDue'
  BY LifeIs, Zenon DEF WorkersDue, WorkerDue
<1>2. Owned'
  <2> SUFFICES ASSUME NEW t \in Task, ti'[t].state = "running"
               PROVE  \E w \in Worker : Owner(w, t)'
    BY Zenon DEF Owned
  <2>1. PICK w \in Worker : Owner(w, t)
    BY LifeIs, Zenon DEF Owned
  <2>2. Owner(w, t)'
    BY <2>1, Zenon DEF Owner
  <2> QED
    BY <2>2, Zenon
<1> QED
  BY <1>1, <1>2, Zenon

\* The calls and the queue stay.
LEMMA SameCalls ==
  ASSUME LifeInv, todo' = todo, pc' = pc, queue' = queue, mail' \in Seq(DueMail'),
         Due \subseteq Due', DueCalls \subseteq DueCalls'
  PROVE  CallsDue'
<1>1. todo' \in Seq(DueCalls') /\ queue' \in Seq(Due')
  BY Wider, LifeIs, Zenon DEF CallsDue
<1> QED
  BY <1>1, LifeIs, Zenon DEF CallsDue, Call

LEMMA UpdatedStates ==
  ASSUME LifeInv, NEW waiting, NEW early, NEW d, d = UpdateState(state, waiting, early)
  PROVE  /\ d.run \in {"running", "success", "failed"}
         /\ d.states \in [Task -> States]
         /\ \A t \in Task : d.states[t] = "scheduled" => t \in Due
         /\ \A t \in Task : d.states[t] = "running" => ti[t].state = "running"
<1> DEFINE candidates == {t \in Task : state[t] \in Scheduleable}
           ready == ReadyTis(state, candidates, waiting)
<1>1. d.states = ScheduleTis(Flagged(state, candidates \cup early), ready \ Subscribed)
  BY Zenon DEF UpdateState
<1>2. ready \ Subscribed \subseteq Due
  BY RuleMetIsDue, Zenon DEF ReadyTis
<1>3. d.run \in {"running", "success", "failed"}
  BY Zenon DEF UpdateState
<1> DEFINE flagged == candidates \cup early
           due == ready \ Subscribed
           st == d.states
<1>4. st = ScheduleTis(Flagged(state, flagged), due) /\ due \in SUBSET Due
  BY <1>1, <1>2, Zenon
<1> HIDE DEF flagged, due, st
<1>5. /\ st \in [Task -> States]
      /\ \A t \in Task : st[t] = "scheduled" => t \in Due
      /\ \A t \in Task : st[t] = "running" => ti[t].state = "running"
  BY <1>4, ScheduledStates, Zenon
<1> QED
  BY <1>3, <1>5, Zenon DEF st

\* An examination of the dag run.
LEMMA Examined ==
  ASSUME LifeInv, mail # <<>>, Examine, UNCHANGED <<asked, sched, exec>>
  PROVE  LifeInv'
<1>1. PICK waiting, early, skipped :
        LET d == UpdateState(state, waiting, early)
        IN /\ run' = d.run
           /\ SetStates(d.states)
           /\ mail' = Tail(mail) \o StartAll({t \in Task \ skipped : d.states[t] = "scheduled"})
  BY Zenon DEF Examine
<1> DEFINE d == UpdateState(state, waiting, early)
           started == {t \in Task \ skipped : d.states[t] = "scheduled"}
<1>2. /\ d.run \in {"running", "success", "failed"}
      /\ d.states \in [Task -> States]
      /\ \A t \in Task : d.states[t] = "scheduled" => t \in Due
      /\ \A t \in Task : d.states[t] = "running" => ti[t].state = "running"
  BY UpdatedStates, Zenon
<1>3. run' = d.run /\ SetStates(d.states) /\ mail' = Tail(mail) \o StartAll(started)
  BY <1>1, Zenon
<1> HIDE DEF d
<1>4. asked' = asked /\ todo' = todo /\ pc' = pc /\ held' = held /\ queue' = queue /\ worker' = worker /\ forks' = forks
  BY Zenon DEF sched, exec
<1>5. asked \subseteq asked'
  BY <1>4, Zenon
<1>6. /\ ti' \in [Task -> Row] /\ succeeded' \subseteq Task
      /\ Due \subseteq Due' /\ DueCalls \subseteq DueCalls' /\ DueMail \subseteq DueMail'
      /\ RowsDue'
      /\ \A t \in Task : /\ ti'[t].pid = ti[t].pid
                         /\ ti'[t].state = "running" => ti[t].state = "running"
  BY <1>2, <1>3, <1>5, RowsWritten, Zenon
<1>7. StartAll(started) \in Seq(DueMail')
  <2>1. StartAll(started) \in Seq([action : {"START"}, task : started])
    BY CallsOfSet, Zenon DEF StartAll
  <2>2. "START" \in Actions
    BY Zenon DEF Actions
  <2>3. [action : {"START"}, task : started] \subseteq [action : Actions, task : Due']
    BY <2>2, <1>2, <1>6, Zenon
  <2>4. [action : {"START"}, task : started] \subseteq DueMail'
    BY <2>3, Zenon DEF DueMail, DueCalls
  <2> QED
    BY <2>1, <2>4, Wider, Zenon
<1>8. Tail(mail) \in Seq(DueMail')
  BY <1>6, HeadAndTail, Wider, LifeIs, Zenon DEF CallsDue
<1>9. mail' \in Seq(DueMail')
  BY <1>3, <1>7, <1>8, Joined, Zenon
<1>10. Shape'
  BY <1>2, <1>3, <1>4, <1>6, LifeIs, Zenon DEF Shape
<1>11. WorkersDue' /\ Owned'
  BY <1>4, <1>6, SameWorkers, Zenon
<1>12. CallsDue'
  BY <1>4, <1>6, <1>9, SameCalls, Zenon
<1> QED
  BY <1>6, <1>10, <1>11, <1>12, LifeNext, Zenon

LEMMA CreateDagRunStep ==
  ASSUME LifeInv, CreateDagRun
  PROVE  LifeInv'
BY Examined, Zenon DEF CreateDagRun, Take

\* A step that takes or adds messages and leaves rows, calls and workers alone.
LEMMA OnlyMail ==
  ASSUME LifeInv, mail' \in Seq(DueMail), run' \in {"none", "running", "success", "failed", "killed"},
         UNCHANGED <<ti, asked, sched, exec, succeeded>>
  PROVE  LifeInv'
<1>1. UNCHANGED <<ti, asked, todo, pc, held, queue, worker, forks, succeeded>>
  BY Zenon DEF sched, exec
<1>2. asked \subseteq asked' /\ succeeded \subseteq succeeded'
  BY <1>1, Zenon
<1>3. Due \subseteq Due' /\ DueCalls \subseteq DueCalls' /\ DueMail \subseteq DueMail'
  BY <1>2, DueStays, Zenon
<1>4. mail' \in Seq(DueMail')
  BY <1>3, Wider, Zenon
<1>5. CallsDue'
  BY <1>1, <1>3, <1>4, SameCalls, Zenon
<1>6. WorkersDue' /\ Owned'
  BY <1>1, <1>3, SameWorkers, Zenon
<1>7. RowsDue' /\ Shape'
  BY <1>1, <1>3, LifeIs, Zenon DEF RowsDue, Shape
<1> QED
  BY <1>5, <1>6, <1>7, LifeNext, Zenon

LEMMA TaskStateChangedStep ==
  ASSUME LifeInv, TaskStateChanged
  PROVE  LifeInv'
<1>1. mail # <<>> /\ UNCHANGED <<asked, sched, exec>>
  BY Zenon DEF TaskStateChanged, Take
<1>2. CASE Examine
  BY <1>1, <1>2, Examined, Zenon
<1>3. CASE mail' = Tail(mail) /\ UNCHANGED <<ti, run, succeeded>>
  <2>1. mail' \in Seq(DueMail)
    BY <1>1, <1>3, HeadAndTail, LifeIs, Zenon DEF CallsDue
  <2>2. run' \in {"none", "running", "success", "failed", "killed"}
    BY <1>3, LifeIs, Zenon DEF Shape
  <2> QED
    BY <2>1, <2>2, <1>1, <1>3, OnlyMail, Zenon
<1> QED
  BY <1>2, <1>3, Zenon DEF TaskStateChanged

\* The run is killed, and what is called is only STOP.
LEMMA StopDagRunStep ==
  ASSUME LifeInv, StopDagRun
  PROVE  LifeInv'
<1> DEFINE S == {t \in Task : state[t] \in Unfinished}
<1>1. /\ mail # <<>> /\ pc = "idle" /\ run' = "killed" /\ mail' = Tail(mail)
      /\ UNCHANGED <<ti, asked, pc, held, queue, worker, forks, succeeded>>
  BY Zenon DEF StopDagRun, Take, Idle, exec
<1>2. todo' \in Seq([action : {"STOP"}, task : S])
  <2>1. S \in SUBSET Task
    BY Zenon
  <2> QED
    BY <2>1, CallsOfSet, Zenon DEF StopDagRun
<1>3. asked \subseteq asked' /\ succeeded \subseteq succeeded'
  BY <1>1, Zenon
<1>4. Due \subseteq Due' /\ DueCalls \subseteq DueCalls' /\ DueMail \subseteq DueMail'
  BY <1>3, DueStays, Zenon
<1>5. todo' \in Seq(DueCalls')
  <2>1. [action : {"STOP"}, task : S] \subseteq DueCalls'
    BY Zenon DEF DueCalls
  <2> QED
    BY <1>2, <2>1, Wider, Zenon
<1>6. mail' \in Seq(DueMail') /\ queue' \in Seq(Due')
  BY <1>1, <1>4, HeadAndTail, Wider, LifeIs, Zenon DEF CallsDue
<1>7. CallsDue'
  BY <1>1, <1>5, <1>6, Zenon DEF CallsDue
<1>8. WorkersDue' /\ Owned'
  BY <1>1, <1>4, SameWorkers, Zenon
<1>9. RowsDue' /\ Shape'
  BY <1>1, <1>4, LifeIs, Zenon DEF RowsDue, Shape
<1> QED
  BY <1>7, <1>8, <1>9, LifeNext, Zenon

\* A message about a task is called as it is.
LEMMA ScheduleTaskStep ==
  ASSUME LifeInv, ScheduleTask
  PROVE  LifeInv'
<1>1. /\ mail # <<>> /\ pc = "idle" /\ Head(mail) \in [action : Actions, task : Task]
      /\ todo' = <<Head(mail)>> /\ mail' = Tail(mail)
      /\ UNCHANGED <<ti, run, asked, pc, held, queue, worker, forks, succeeded>>
  BY Zenon DEF ScheduleTask, Idle, exec
<1>2. Head(mail) \in DueMail /\ mail' \in Seq(DueMail)
  BY <1>1, HeadAndTail, LifeIs, Zenon DEF CallsDue
<1>3. Head(mail) \in DueCalls
  <2>1. ASSUME NEW m \in {"run_dag", "changed", "stop_dag_run"}, Head(mail) = RunMessage(m)
        PROVE  FALSE
    <3>1. Head(mail).action = m
      BY <2>1 DEF RunMessage
    <3>2. Head(mail).action \in Actions
      BY <1>1, Zenon
    <3> QED
      BY <3>1, <3>2, Zenon DEF Actions
  <2> QED
    BY <1>2, <2>1, Zenon DEF DueMail
<1>4. asked \subseteq asked' /\ succeeded \subseteq succeeded'
  BY <1>1, Zenon
<1>5. Due \subseteq Due' /\ DueCalls \subseteq DueCalls' /\ DueMail \subseteq DueMail'
  BY <1>4, DueStays, Zenon
<1>6. todo' \in Seq(DueCalls')
  BY <1>1, <1>3, <1>5, Single, Zenon
<1>7. mail' \in Seq(DueMail') /\ queue' \in Seq(Due')
  BY <1>1, <1>2, <1>5, Wider, LifeIs, Zenon DEF CallsDue
<1>8. CallsDue'
  BY <1>1, <1>6, <1>7, Zenon DEF CallsDue
<1>9. WorkersDue' /\ Owned'
  BY <1>1, <1>5, SameWorkers, Zenon
<1>10. RowsDue' /\ Shape'
  BY <1>1, <1>5, LifeIs, Zenon DEF RowsDue, Shape
<1> QED
  BY <1>8, <1>9, <1>10, LifeNext, Zenon

\* A task that is asked for is due.
LEMMA RequestStep ==
  ASSUME LifeInv, NEW r \in Requests, Request(r)
  PROVE  LifeInv'
<1>1. /\ asked' = asked \cup {r} /\ mail' = Append(mail, r)
      /\ UNCHANGED <<ti, run, todo, pc, held, queue, worker, forks, succeeded>>
  BY Zenon DEF Request, sched, exec
<1>2. asked \subseteq asked' /\ succeeded \subseteq succeeded' /\ asked' \subseteq Requests
  BY <1>1, LifeIs, Zenon DEF Shape
<1>3. Due \subseteq Due' /\ DueCalls \subseteq DueCalls' /\ DueMail \subseteq DueMail'
  BY <1>2, DueStays, Zenon
<1>4. r \in DueMail'
  <2>1. CASE r = RunMessage("stop_dag_run")
    BY <2>1, Zenon DEF DueMail
  <2>2. CASE r \in [action : Actions, task : Task]
    <3>1. CASE r.action = "STOP"
      <4>1. r \in [action : {"STOP"}, task : Task]
        BY <2>2, <3>1
      <4> QED
        BY <4>1, Zenon DEF DueMail, DueCalls
    <3>2. CASE r.action # "STOP"
      <4>1. r \in asked' /\ r.task \in Task
        BY <1>1, <2>2, Zenon
      <4>2. Requested(r.task)'
        BY <3>2, <4>1, Zenon DEF Requested
      <4>3. r.task \in Due'
        BY <4>1, <4>2, Zenon DEF Due
      <4>4. r \in [action : Actions, task : Due']
        BY <2>2, <4>3
      <4> QED
        BY <4>4, Zenon DEF DueMail, DueCalls
    <3> QED
      BY <3>1, <3>2, Zenon
  <2> QED
    BY <2>1, <2>2, TaskAssumption, Zenon
<1>5. mail' \in Seq(DueMail')
  BY <1>1, <1>3, <1>4, Appended, Wider, LifeIs, Zenon DEF CallsDue
<1>6. CallsDue'
  BY <1>1, <1>3, <1>5, SameCalls, Zenon
<1>7. WorkersDue' /\ Owned'
  BY <1>1, <1>3, SameWorkers, Zenon
<1>8. RowsDue' /\ Shape'
  BY <1>1, <1>2, <1>3, LifeIs, Zenon DEF RowsDue, Shape
<1> QED
  BY <1>6, <1>7, <1>8, LifeNext, Zenon

-----------------------------------------------------------------------------
(* schedule_task of the executor                                              *)

\* The call goes on, or the next one follows.
Proceeds ==
  /\ \/ todo' \in Seq(DueCalls) /\ pc' = "idle"
     \/ todo' = todo /\ todo # <<>> /\ (pc' = "start" => Call.action # "STOP")
  /\ pc' \in {"idle", "start", "kill", "killed", "wait"} /\ held' \in Row

LEMMA ReturnProceeds ==
  ASSUME LifeInv, todo # <<>>, Return
  PROVE  Proceeds
<1>1. todo' \in Seq(DueCalls)
  BY HeadAndTail, LifeIs, Zenon DEF Return, CallsDue
<1> QED
  BY <1>1, NoRowIsRow, Zenon DEF Proceeds, Return

LEMMA GotoProceeds ==
  ASSUME todo # <<>>, NEW p \in {"idle", "start", "kill", "killed", "wait"}, NEW row \in Row,
         Goto(p, row), p = "start" => Call.action # "STOP"
  PROVE  Proceeds
BY Zenon DEF Proceeds, Goto

LEMMA StoppedProceeds ==
  ASSUME LifeInv, todo # <<>>, NEW row \in Row, Stopped(row), DueMail \subseteq DueMail'
  PROVE  Proceeds /\ mail' \in Seq(DueMail')
<1>1. mail \in Seq(DueMail')
  BY Wider, LifeIs, Zenon DEF CallsDue
<1>2. CASE mail' = Append(mail, Changed) /\ Return
  BY <1>1, <1>2, Appended, ChangedIsMail, ReturnProceeds, Zenon
<1>3. CASE Call.action = "RESTART" /\ Goto("start", row) /\ UNCHANGED mail
  <2>1. Proceeds
    BY <1>3, GotoProceeds, Zenon
  <2> QED
    BY <1>1, <1>3, <2>1, Zenon
<1> QED
  BY <1>2, <1>3, Zenon DEF Stopped

LEMMA ProceedsCalls ==
  ASSUME LifeInv, Proceeds, mail' \in Seq(DueMail'), queue' \in Seq(Due'), DueCalls \subseteq DueCalls'
  PROVE  CallsDue'
<1>1. todo' \in Seq(DueCalls')
  BY Wider, LifeIs, Zenon DEF Proceeds, CallsDue
<1> QED
  BY <1>1, Zenon DEF Proceeds, CallsDue, Call

\* The task of the call.
LEMMA CallTask ==
  ASSUME LifeInv, todo # <<>>
  PROVE  /\ Call.task \in Task /\ Call.action \in Actions
         /\ Call.action # "STOP" => Call.task \in Due
<1>1. Call \in DueCalls
  BY HeadAndTail, LifeIs, Zenon DEF Call, CallsDue
<1>2. CASE Call \in [action : Actions, task : Due]
  <2>1. Call.action \in Actions /\ Call.task \in Due
    BY <1>2, Zenon
  <2> QED
    BY <2>1, Zenon DEF Due
<1>3. CASE Call \in [action : {"STOP"}, task : Task]
  BY <1>3, Zenon DEF Actions
<1> QED
  BY <1>1, <1>2, <1>3, Zenon DEF DueCalls

LEMMA ReadTaskStep ==
  ASSUME LifeInv, ReadTask
  PROVE  LifeInv'
<1> DEFINE row == ti[Call.task]
<1>1. /\ todo # <<>>
      /\ UNCHANGED <<ti, run, mail, asked, queue, worker, forks, succeeded>>
  BY Zenon DEF ReadTask, exec
<1>2. Call.task \in Task /\ Call.action \in Actions
  BY <1>1, CallTask, Zenon
<1>3. row \in Row
  BY <1>2, LifeIs, Zenon DEF Shape
<1>4. \/ Return
      \/ Call.action # "STOP" /\ Goto("start", row)
      \/ Goto(IF row.state = "running" THEN "kill" ELSE "killed", row)
  BY <1>2, Zenon DEF ReadTask, Actions
<1> HIDE DEF row
<1>5. Proceeds
  <2>1. CASE Return
    BY <1>1, <2>1, ReturnProceeds, Zenon
  <2>2. CASE Call.action # "STOP" /\ Goto("start", row)
    BY <1>1, <1>3, <2>2, GotoProceeds, Zenon
  <2>3. CASE Goto(IF row.state = "running" THEN "kill" ELSE "killed", row)
    <3>1. CASE row.state = "running"
      BY <1>1, <1>3, <2>3, <3>1, GotoProceeds, Zenon
    <3>2. CASE row.state # "running"
      BY <1>1, <1>3, <2>3, <3>2, GotoProceeds, Zenon
    <3> QED
      BY <3>1, <3>2, Zenon
  <2> QED
    BY <1>4, <2>1, <2>2, <2>3, Zenon
<1>6. asked \subseteq asked' /\ succeeded \subseteq succeeded'
  BY <1>1, Zenon
<1>7. Due \subseteq Due' /\ DueCalls \subseteq DueCalls' /\ DueMail \subseteq DueMail'
  BY <1>6, DueStays, Zenon
<1>8. mail' \in Seq(DueMail') /\ queue' \in Seq(Due')
  BY <1>1, <1>7, Wider, LifeIs, Zenon DEF CallsDue
<1>9. CallsDue'
  BY <1>5, <1>7, <1>8, ProceedsCalls, Zenon
<1>10. WorkersDue' /\ Owned'
  BY <1>1, <1>7, SameWorkers, Zenon
<1>11. RowsDue' /\ Shape'
  BY <1>1, <1>5, <1>7, LifeIs, Zenon DEF RowsDue, Shape, Proceeds
<1> QED
  BY <1>9, <1>10, <1>11, LifeNext, Zenon

\* The row is queued, and the command is of a task that is due.
LEMMA StartTaskInstanceStep ==
  ASSUME LifeInv, StartTaskInstance
  PROVE  LifeInv'
<1> DEFINE row == [held EXCEPT !.state = "queued"]
           t == Call.task
<1>1. /\ pc = "start" /\ SetRow(t, row) /\ queue' = Append(queue, t)
      /\ mail' = Append(mail, Changed) /\ Return
      /\ UNCHANGED <<run, asked, worker, forks>>
  BY Zenon DEF StartTaskInstance
<1>2. todo # <<>> /\ Call.action # "STOP"
  BY <1>1, LifeIs, Zenon DEF CallsDue
<1>3. t \in Task /\ t \in Due
  BY <1>2, CallTask, Zenon
<1>4. row \in Row /\ row.state = "queued"
  <2>1. held \in Row /\ "queued" \in States
    BY LifeIs, Zenon DEF Shape, States, Unfinished
  <2> QED
    BY <2>1, RowWith, Zenon
<1>5. asked \subseteq asked'
  BY <1>1, Zenon
<1> HIDE DEF row, t
<1>6. /\ ti' \in [Task -> Row] /\ succeeded' \subseteq Task
      /\ Due \subseteq Due' /\ DueCalls \subseteq DueCalls' /\ DueMail \subseteq DueMail'
      /\ RowsDue'
      /\ ti'[t] = row /\ \A u \in Task : u # t => ti'[u] = ti[u]
  BY <1>1, <1>3, <1>4, <1>5, RowWritten, Zenon
<1>7. Proceeds
  BY <1>1, <1>2, ReturnProceeds, Zenon
<1>8. mail' \in Seq(DueMail') /\ queue' \in Seq(Due')
  <2>1. mail \in Seq(DueMail') /\ queue \in Seq(Due') /\ t \in Due'
    BY <1>3, <1>6, Wider, LifeIs, Zenon DEF CallsDue
  <2> QED
    BY <1>1, <2>1, Appended, ChangedIsMail, Zenon
<1>9. CallsDue'
  BY <1>6, <1>7, <1>8, ProceedsCalls, Zenon
<1>10. \A u \in Task : ti'[u].state = "running" => ti[u].state = "running" /\ ti'[u].pid = ti[u].pid
  BY <1>4, <1>6, Zenon
<1>11. WorkersDue' /\ Owned'
  BY <1>1, <1>6, <1>10, SameWorkers, Zenon
<1>12. Shape'
  BY <1>1, <1>6, <1>7, LifeIs, Zenon DEF Shape, Proceeds
<1> QED
  BY <1>6, <1>9, <1>11, <1>12, LifeNext, Zenon

LEMMA StopIdleTaskStep ==
  ASSUME LifeInv, StopIdleTask
  PROVE  LifeInv'
<1> DEFINE row == [held EXCEPT !.state = "killed"]
           t == Call.task
<1>1. /\ pc = "killed" /\ SetRow(t, row) /\ Stopped(row)
      /\ UNCHANGED <<run, asked, queue, worker, forks>>
  BY Zenon DEF StopIdleTask, exec
<1>2. todo # <<>>
  BY <1>1, LifeIs, Zenon DEF CallsDue
<1>3. t \in Task
  BY <1>2, CallTask, Zenon
<1>4. row \in Row /\ row.state = "killed"
  <2>1. held \in Row /\ "killed" \in States
    BY LifeIs, Zenon DEF Shape, States, Finished
  <2> QED
    BY <2>1, RowWith, Zenon
<1>5. asked \subseteq asked'
  BY <1>1, Zenon
<1> HIDE DEF row, t
<1>6. /\ ti' \in [Task -> Row] /\ succeeded' \subseteq Task
      /\ Due \subseteq Due' /\ DueCalls \subseteq DueCalls' /\ DueMail \subseteq DueMail'
      /\ RowsDue'
      /\ ti'[t] = row /\ \A u \in Task : u # t => ti'[u] = ti[u]
  BY <1>1, <1>3, <1>4, <1>5, RowWritten, Zenon
<1>7. Proceeds /\ mail' \in Seq(DueMail')
  BY <1>1, <1>2, <1>4, <1>6, StoppedProceeds, Zenon
<1>8. queue' \in Seq(Due')
  BY <1>1, <1>6, Wider, LifeIs, Zenon DEF CallsDue
<1>9. CallsDue'
  BY <1>6, <1>7, <1>8, ProceedsCalls, Zenon
<1>10. \A u \in Task : ti'[u].state = "running" => ti[u].state = "running" /\ ti'[u].pid = ti[u].pid
  BY <1>4, <1>6, Zenon
<1>11. WorkersDue' /\ Owned'
  BY <1>1, <1>6, <1>10, SameWorkers, Zenon
<1>12. Shape'
  BY <1>1, <1>6, <1>7, LifeIs, Zenon DEF Shape, Proceeds
<1> QED
  BY <1>6, <1>9, <1>11, <1>12, LifeNext, Zenon

\* Waiting for the end of the task changes no row.
LEMMA WaitStep ==
  ASSUME LifeInv, WaitStopped \/ WaitTimeout
  PROVE  LifeInv'
<1>1. pc = "wait" /\ UNCHANGED <<ti, run, asked, queue, worker, forks, succeeded>>
  BY Zenon DEF WaitStopped, WaitTimeout, exec
<1>2. todo # <<>>
  BY <1>1, LifeIs, Zenon DEF CallsDue
<1>3. asked \subseteq asked' /\ succeeded \subseteq succeeded'
  BY <1>1, Zenon
<1>4. Due \subseteq Due' /\ DueCalls \subseteq DueCalls' /\ DueMail \subseteq DueMail'
  BY <1>3, DueStays, Zenon
<1>5. Proceeds /\ mail' \in Seq(DueMail')
  <2>1. CASE WaitStopped
    <3>1. ti[Call.task] \in Row
      BY <1>2, CallTask, LifeIs, Zenon DEF Shape
    <3> QED
      BY <1>2, <1>4, <2>1, <3>1, StoppedProceeds, Zenon DEF WaitStopped
  <2>2. CASE WaitTimeout
    <3>1. mail \in Seq(DueMail')
      BY <1>4, Wider, LifeIs, Zenon DEF CallsDue
    <3>2. Return /\ (mail' = Append(mail, Changed) \/ mail' = mail)
      BY <2>2, Zenon DEF WaitTimeout
    <3> QED
      BY <1>2, <3>1, <3>2, ReturnProceeds, Appended, ChangedIsMail, Zenon
  <2> QED
    BY <2>1, <2>2, Zenon
<1>6. queue' \in Seq(Due')
  BY <1>1, <1>4, Wider, LifeIs, Zenon DEF CallsDue
<1>7. CallsDue'
  BY <1>4, <1>5, <1>6, ProceedsCalls, Zenon
<1>8. WorkersDue' /\ Owned'
  BY <1>1, <1>4, SameWorkers, Zenon
<1>9. RowsDue' /\ Shape'
  BY <1>1, <1>4, <1>5, LifeIs, Zenon DEF RowsDue, Shape, Proceeds
<1> QED
  BY <1>7, <1>8, <1>9, LifeNext, Zenon

\* A signal ends a process or interrupts it; it starts none.
LEMMA SignalledRaw ==
  ASSUME NEW p \in Workers, NEW x \in Signalled(p)
  PROVE  x \in RawStates /\ x # "write" /\ (x # "none" => p.raw # "none")
<1>1. p.raw \in RawStates
  BY Zenon DEF Workers
<1>2. x \in {"term", "dead"} \/ (x = p.raw /\ p.raw # "write")
  BY Zenon DEF Signalled
<1>3. p.raw = "none" => x = "none"
  BY Zenon DEF Signalled
<1> QED
  BY <1>1, <1>2, <1>3, Zenon DEF RawStates

LEMMA WorkerSame ==
  ASSUME NEW r \in Workers PROVE [r EXCEPT !.raw = r.raw] = r
BY DEF Workers

LEMMA WorkerWith ==
  ASSUME NEW r \in Workers, NEW x \in RawStates
  PROVE  /\ [r EXCEPT !.raw = x] \in Workers
         /\ [r EXCEPT !.raw = x].raw = x /\ [r EXCEPT !.raw = x].task = r.task
         /\ [r EXCEPT !.raw = x].own = r.own
BY DEF Workers

\* The row is killing before the process is signalled, so that the owner of a
\* running row is not.
LEMMA StopRunningTaskStep ==
  ASSUME LifeInv, StopRunningTask
  PROVE  LifeInv'
<1> DEFINE row == [held EXCEPT !.state = "killing"]
           t == Call.task
           pid == held.pid
<1>1. /\ pc = "kill" /\ SetRow(t, row) /\ KillChildren(t, pid)
      /\ Goto("wait", NoRow) /\ UNCHANGED <<run, mail, asked, queue, forks>>
  BY Zenon DEF StopRunningTask
<1>2. todo # <<>>
  BY <1>1, LifeIs, Zenon DEF CallsDue
<1>3. t \in Task
  BY <1>2, CallTask, Zenon
<1>4. row \in Row /\ row.state = "killing"
  <2>1. held \in Row /\ "killing" \in States
    BY LifeIs, Zenon DEF Shape, States, Unfinished
  <2> QED
    BY <2>1, RowWith, Zenon
<1>5. asked \subseteq asked'
  BY <1>1, Zenon
<1>6. PICK raw \in [Worker -> RawStates] :
        /\ \A w \in Worker : \/ raw[w] \in Signalled(worker[w])
                             \/ raw[w] = "boot" /\ worker[w].raw = "boot"
                             \/ raw[w] = worker[w].raw
        /\ \A w \in Worker : worker[w].task # t => raw[w] = worker[w].raw
        /\ worker' = [w \in Worker |-> [worker[w] EXCEPT !.raw = raw[w]]]
  BY <1>1, Zenon DEF KillChildren
<1> HIDE DEF row
<1>7. /\ ti' \in [Task -> Row] /\ succeeded' \subseteq Task
      /\ Due \subseteq Due' /\ DueCalls \subseteq DueCalls' /\ DueMail \subseteq DueMail'
      /\ RowsDue'
      /\ ti'[t] = row /\ \A u \in Task : u # t => ti'[u] = ti[u]
  BY <1>1, <1>3, <1>4, <1>5, RowWritten, Zenon
<1>8. \A w \in Worker : /\ worker'[w] \in Workers
                        /\ WorkerDue(worker[w])'
                        /\ worker[w].task # t => worker'[w] = worker[w]
  <2> SUFFICES ASSUME NEW w \in Worker
               PROVE  /\ worker'[w] \in Workers
                      /\ WorkerDue(worker[w])'
                      /\ worker[w].task # t => worker'[w] = worker[w]
    BY Zenon
  <2>1. worker[w] \in Workers /\ WorkerDue(worker[w])
    BY LifeIs, Zenon DEF Shape, WorkersDue
  <2> DEFINE x == raw[w]
             r == [worker[w] EXCEPT !.raw = x]
  <2>2. x \in RawStates /\ (x = "write" => worker[w].raw = "write") /\ (x # "none" => worker[w].raw # "none")
    BY <1>6, <2>1, SignalledRaw, Zenon
  <2>3. worker'[w] = r
    BY <1>6, Zenon
  <2>4. worker[w].task # t => r = worker[w]
    BY <1>6, <2>1, WorkerSame, Zenon
  <2> HIDE DEF x
  <2>5. r \in Workers /\ r.raw = x /\ r.task = worker[w].task /\ r.own = worker[w].own
    BY <2>1, <2>2, WorkerWith, Zenon
  <2> QED
    BY <1>7, <2>1, <2>2, <2>3, <2>4, <2>5, Zenon DEF WorkerDue
<1>9. WorkersDue'
  BY <1>8, Zenon DEF WorkersDue
<1>10. Owned'
  <2> SUFFICES ASSUME NEW u \in Task, ti'[u].state = "running"
               PROVE  \E w \in Worker : Owner(w, u)'
    BY Zenon DEF Owned
  <2>1. u # t /\ ti'[u] = ti[u]
    BY <1>4, <1>7, Zenon
  <2>2. PICK w \in Worker : Owner(w, u)
    BY <2>1, LifeIs, Zenon DEF Owned
  <2>3. worker'[w] = worker[w]
    BY <1>8, <2>1, <2>2, Zenon DEF Owner
  <2> QED
    BY <2>1, <2>2, <2>3, Zenon DEF Owner
<1>11. Proceeds
  BY <1>1, <1>2, GotoProceeds, NoRowIsRow, Zenon
<1>12. mail' \in Seq(DueMail') /\ queue' \in Seq(Due')
  BY <1>1, <1>7, Wider, LifeIs, Zenon DEF CallsDue
<1>13. CallsDue'
  BY <1>7, <1>11, <1>12, ProceedsCalls, Zenon
<1>14. worker' \in [Worker -> Workers]
  BY <1>6, <1>8, Zenon
<1>15. Shape'
  BY <1>1, <1>7, <1>11, <1>14, LifeIs, Zenon DEF Shape, Proceeds
<1> QED
  BY <1>7, <1>9, <1>10, <1>13, <1>15, LifeNext, Zenon

-----------------------------------------------------------------------------
(* The workers                                                                *)

\* The process of worker w changes its state.
LEMMA RawWritten ==
  ASSUME LifeInv, NEW w \in Worker, NEW x \in RawStates \ {"write"}, worker[w].raw # "none", RawIs(w, x), Due \subseteq Due'
  PROVE  /\ worker' \in [Worker -> Workers] /\ WorkersDue'
         /\ \A v \in Worker : v # w => worker'[v] = worker[v]
<1>1. worker \in [Worker -> Workers] /\ worker[w] \in Workers
  BY LifeIs, Zenon DEF Shape
<1>2. /\ [worker[w] EXCEPT !.raw = x] \in Workers
      /\ [worker[w] EXCEPT !.raw = x].raw = x
      /\ [worker[w] EXCEPT !.raw = x].task = worker[w].task
  BY <1>1, WorkerWith, Zenon
<1>3. worker' = [worker EXCEPT ![w] = [worker[w] EXCEPT !.raw = x]]
  BY <1>1, Zenon DEF RawIs
<1>4. /\ worker' \in [Worker -> Workers] /\ worker'[w] = [worker[w] EXCEPT !.raw = x]
      /\ \A v \in Worker : v # w => worker'[v] = worker[v]
  BY <1>1, <1>2, <1>3, Zenon
<1>5. WorkersDue'
  <2> SUFFICES ASSUME NEW v \in Worker PROVE WorkerDue(worker[v])'
    BY Zenon DEF WorkersDue
  <2>1. CASE v = w
    BY <1>2, <1>4, <2>1, LifeIs, Zenon DEF WorkersDue, WorkerDue
  <2>2. CASE v # w
    BY <1>4, <2>2, LifeIs, Zenon DEF WorkersDue, WorkerDue
  <2> QED
    BY <2>1, <2>2, Zenon
<1> QED
  BY <1>4, <1>5, Zenon

\* Only worker w changes: to r, which owns the row that w owned.
LEMMA QuietStep ==
  ASSUME LifeInv, NEW w \in Worker, NEW r \in Workers, worker' = [worker EXCEPT ![w] = r],
         r.task = worker[w].task, worker[w].raw # "none", Quiet,
         r.raw = "write" => r.own.state \notin {"scheduled", "running"},
         \A t \in Task : ti[t].state = "running" /\ Owner(w, t) =>
           /\ r.pid = worker[w].pid /\ r.pc = "run" /\ r.raw \in {"boot", "exec", "term", "write"}
  PROVE  LifeInv'
<1>1. UNCHANGED <<ti, run, mail, asked, todo, pc, held, queue, forks, succeeded>>
  BY Zenon DEF Quiet, sched
<1>2. asked \subseteq asked' /\ succeeded \subseteq succeeded'
  BY <1>1, Zenon
<1>3. Due \subseteq Due' /\ DueCalls \subseteq DueCalls' /\ DueMail \subseteq DueMail'
  BY <1>2, DueStays, Zenon
<1>4. /\ worker' \in [Worker -> Workers] /\ worker'[w] = r
      /\ \A v \in Worker : v # w => worker'[v] = worker[v]
  BY LifeIs, Zenon DEF Shape
<1>5. WorkersDue'
  <2> SUFFICES ASSUME NEW v \in Worker PROVE WorkerDue(worker[v])'
    BY Zenon DEF WorkersDue
  <2>1. CASE v = w
    BY <1>3, <1>4, <2>1, LifeIs, Zenon DEF WorkersDue, WorkerDue
  <2>2. CASE v # w
    BY <1>3, <1>4, <2>2, LifeIs, Zenon DEF WorkersDue, WorkerDue
  <2> QED
    BY <2>1, <2>2, Zenon
<1>6. Owned'
  <2> SUFFICES ASSUME NEW t \in Task, ti'[t].state = "running"
               PROVE  \E v \in Worker : Owner(v, t)'
    BY Zenon DEF Owned
  <2>1. ti[t].state = "running" /\ ti' = ti
    BY <1>1, Zenon
  <2>2. PICK v \in Worker : Owner(v, t)
    BY <2>1, LifeIs, Zenon DEF Owned
  <2>3. Owner(v, t)'
    <3>1. CASE v = w
      BY <1>4, <2>1, <2>2, <3>1, Zenon DEF Owner
    <3>2. CASE v # w
      BY <1>4, <2>1, <2>2, <3>2, Zenon DEF Owner
    <3> QED
      BY <3>1, <3>2, Zenon
  <2> QED
    BY <2>3, Zenon
<1>7. mail' \in Seq(DueMail')
  BY <1>1, <1>3, Wider, LifeIs, Zenon DEF CallsDue
<1>8. CallsDue'
  BY <1>1, <1>3, <1>7, SameCalls, Zenon
<1>9. RowsDue' /\ Shape'
  BY <1>1, <1>3, <1>4, LifeIs, Zenon DEF RowsDue, Shape
<1> QED
  BY <1>5, <1>6, <1>8, <1>9, LifeNext, Zenon

LEMMA BootStep ==
  ASSUME LifeInv, NEW w \in Worker, Boot(w)
  PROVE  LifeInv'
<1> DEFINE r == [worker[w] EXCEPT !.raw = "exec", !.own = Mine(w)]
<1>1. worker[w].raw = "boot" /\ Quiet /\ worker' = [worker EXCEPT ![w].raw = "exec", ![w].own = Mine(w)]
  BY Zenon DEF Boot
<1>2. worker \in [Worker -> Workers] /\ worker[w] \in Workers
  BY LifeIs, Zenon DEF Shape
<1>3. Mine(w) \in Row
  <2>1. worker[w].task \in Task
    BY <1>1, LifeIs, Zenon DEF WorkersDue, WorkerDue, Due
  <2> QED
    BY <2>1, LifeIs, Zenon DEF Mine, Shape
<1>4. /\ r \in Workers /\ r.task = worker[w].task /\ r.pid = worker[w].pid
      /\ r.pc = worker[w].pc /\ r.raw = "exec"
  BY <1>2, <1>3, Zenon DEF Workers, RawStates
<1>5. worker' = [worker EXCEPT ![w] = r]
  BY <1>1, <1>2, Zenon
<1> HIDE DEF r
<1>6. \A t \in Task : ti[t].state = "running" /\ Owner(w, t) =>
        /\ r.pid = worker[w].pid /\ r.pc = "run" /\ r.raw \in {"boot", "exec", "term", "write"}
  BY <1>4, Zenon DEF Owner
<1>7. worker[w].raw # "none"
  BY <1>1, Zenon
<1> QED
  BY <1>1, <1>4, <1>5, <1>6, <1>7, QuietStep, Zenon

\* The supervisor terminates no process that owns a running row.
LEMMA HeartbeatStep ==
  ASSUME LifeInv, NEW w \in Worker, Heartbeat(w)
  PROVE  LifeInv'
<1>1. PICK x \in Signalled(worker[w]) :
        /\ worker[w].raw \notin {"none", "dead"} /\ Outdated(w) /\ Quiet
        /\ worker' = [worker EXCEPT ![w].pc = "kill", ![w].raw = x]
  BY Zenon DEF Heartbeat
<1> DEFINE r == [worker[w] EXCEPT !.pc = "kill", !.raw = x]
<1>2. worker \in [Worker -> Workers] /\ worker[w] \in Workers /\ worker[w].raw \in RawStates
  BY LifeIs, Zenon DEF Shape, Workers, RawStates
<1>3. worker' = [worker EXCEPT ![w] = r]
  BY <1>1, <1>2, Zenon
<1>4. x \in RawStates /\ x # "write"
  BY <1>2, SignalledRaw, Zenon
<1>5. r \in Workers /\ r.task = worker[w].task /\ r.raw # "write"
  BY <1>2, <1>4, Zenon DEF Workers
<1>6. ASSUME NEW t \in Task, ti[t].state = "running", Owner(w, t) PROVE FALSE
  <2>1. Mine(w).state = "running" /\ Mine(w).pid = worker[w].pid
    BY <1>6, Zenon DEF Mine, Owner
  <2> QED
    BY <1>1, <2>1, Zenon DEF Outdated, Executing
<1> HIDE DEF r
<1> QED
  BY <1>1, <1>3, <1>5, <1>6, QuietStep, Zenon

LEMMA KillHardStep ==
  ASSUME LifeInv, NEW w \in Worker, KillHard(w)
  PROVE  LifeInv'
<1> DEFINE r == [worker[w] EXCEPT !.raw = "dead"]
<1>1. worker[w].pc = "kill" /\ worker[w].raw = "term" /\ Quiet /\ RawIs(w, "dead")
  BY Zenon DEF KillHard, At
<1>2. worker \in [Worker -> Workers] /\ worker[w] \in Workers
  BY LifeIs, Zenon DEF Shape
<1>3. worker' = [worker EXCEPT ![w] = r]
  BY <1>1, <1>2, Zenon DEF RawIs
<1>4. r \in Workers /\ r.task = worker[w].task /\ r.raw # "write"
  BY <1>2, WorkerWith, Zenon DEF RawStates
<1> HIDE DEF r
<1> QED
  BY <1>1, <1>3, <1>4, QuietStep, Zenon DEF Owner

LEMMA ReapStep ==
  ASSUME LifeInv, NEW w \in Worker, Reap(w)
  PROVE  LifeInv'
<1>1. /\ worker[w].raw = "dead" /\ worker' = [worker EXCEPT ![w] = IdleWorker]
      /\ mail' = Append(mail, Changed)
      /\ UNCHANGED <<ti, run, asked, todo, pc, held, queue, forks, succeeded>>
  BY Zenon DEF Reap, sched
<1>2. asked \subseteq asked' /\ succeeded \subseteq succeeded'
  BY <1>1, Zenon
<1>3. Due \subseteq Due' /\ DueCalls \subseteq DueCalls' /\ DueMail \subseteq DueMail'
  BY <1>2, DueStays, Zenon
<1>4. IdleWorker \in Workers /\ IdleWorker.raw = "none"
  BY NoRowIsRow DEF IdleWorker, Workers, RawStates
<1>5. /\ worker' \in [Worker -> Workers] /\ worker'[w] = IdleWorker
      /\ \A v \in Worker : v # w => worker'[v] = worker[v]
  BY <1>1, <1>4, LifeIs, Zenon DEF Shape
<1>6. WorkersDue'
  <2> SUFFICES ASSUME NEW v \in Worker PROVE WorkerDue(worker[v])'
    BY Zenon DEF WorkersDue
  <2>1. CASE v = w
    BY <1>4, <1>5, <2>1, Zenon DEF WorkerDue
  <2>2. CASE v # w
    BY <1>3, <1>5, <2>2, LifeIs, Zenon DEF WorkersDue, WorkerDue
  <2> QED
    BY <2>1, <2>2, Zenon
<1>7. Owned'
  <2> SUFFICES ASSUME NEW t \in Task, ti'[t].state = "running"
               PROVE  \E v \in Worker : Owner(v, t)'
    BY Zenon DEF Owned
  <2>1. ti[t].state = "running" /\ ti' = ti
    BY <1>1, Zenon
  <2>2. PICK v \in Worker : Owner(v, t)
    BY <2>1, LifeIs, Zenon DEF Owned
  <2>3. worker'[v] = worker[v]
    BY <1>1, <1>5, <2>2, Zenon DEF Owner
  <2> QED
    BY <2>1, <2>2, <2>3, Zenon DEF Owner
<1>8. mail' \in Seq(DueMail')
  <2>1. mail \in Seq(DueMail')
    BY <1>3, Wider, LifeIs, Zenon DEF CallsDue
  <2> QED
    BY <1>1, <2>1, Appended, ChangedIsMail, Zenon
<1>9. CallsDue'
  BY <1>1, <1>3, <1>8, SameCalls, Zenon
<1>10. RowsDue' /\ Shape'
  BY <1>1, <1>3, <1>5, LifeIs, Zenon DEF RowsDue, Shape
<1> QED
  BY <1>6, <1>7, <1>9, <1>10, LifeNext, Zenon

LEMMA MineIsRow ==
  ASSUME LifeInv, NEW w \in Worker, worker[w].raw # "none"
  PROVE  worker[w].task \in Task /\ Mine(w) \in Row
<1>1. worker[w].task \in Task
  BY LifeIs, Zenon DEF WorkersDue, WorkerDue, Due
<1> QED
  BY <1>1, LifeIs, Zenon DEF Mine, Shape

\* The process of w takes the row that it is going to write; it keeps owning
\* the row of its task until it writes.
LEMMA ToWriteStep ==
  ASSUME LifeInv, NEW w \in Worker, worker[w].raw # "none", Quiet,
         NEW row \in Row, row.state \notin {"scheduled", "running"}, ToWrite(w, row)
  PROVE  LifeInv'
<1> DEFINE r == [worker[w] EXCEPT !.raw = "write", !.own = row]
<1>1. worker \in [Worker -> Workers] /\ worker[w] \in Workers /\ "write" \in RawStates
  BY LifeIs, Zenon DEF Shape, RawStates
<1>2. worker' = [worker EXCEPT ![w] = r]
  BY <1>1, Zenon DEF ToWrite
<1>3. /\ r \in Workers /\ r.task = worker[w].task /\ r.pid = worker[w].pid
      /\ r.pc = worker[w].pc /\ r.raw = "write" /\ r.own = row
  BY <1>1, Zenon DEF Workers
<1> HIDE DEF r
<1>4. \A t \in Task : ti[t].state = "running" /\ Owner(w, t) =>
        /\ r.pid = worker[w].pid /\ r.pc = "run" /\ r.raw \in {"boot", "exec", "term", "write"}
  BY <1>3, Zenon DEF Owner
<1>5. r.own.state \notin {"scheduled", "running"}
  BY <1>3, Zenon
<1> QED
  BY <1>2, <1>3, <1>4, <1>5, QuietStep, Zenon

LEMMA FailureStep ==
  ASSUME LifeInv, NEW w \in Worker, worker[w].raw # "none", Quiet,
         NEW row \in Row, HandleFailure(w, row)
  PROVE  LifeInv'
<1> DEFINE s == IF EligibleToRetry(row) THEN "up_for_retry" ELSE "failed"
           r == [row EXCEPT !.state = s]
<1>1. s \in States /\ s \notin {"scheduled", "running"}
  BY Zenon DEF States, Finished, Unfinished
<1>2. ToWrite(w, r)
  BY Zenon DEF HandleFailure
<1> HIDE DEF s
<1>3. r \in Row /\ r.state = s
  BY <1>1, RowWith, Zenon
<1> HIDE DEF r
<1> QED
  BY <1>1, <1>2, <1>3, ToWriteStep, Zenon

\* A process that ends without a write reads a row that is not running.
LEMMA AirflowErrorStep ==
  ASSUME LifeInv, NEW w \in Worker, worker[w].raw # "none", AirflowError(w), Quiet
  PROVE  LifeInv'
<1> DEFINE row == Mine(w)
           r == [row EXCEPT !.state = "killed"]
<1>1. row \in Row
  BY MineIsRow, Zenon
<1>2. CASE row.state \in {"success", "failed", "killed"}
  <2> DEFINE q == [worker[w] EXCEPT !.raw = "dead"]
  <2>1. RawIs(w, "dead")
    BY <1>2, Zenon DEF AirflowError
  <2>2. worker \in [Worker -> Workers] /\ worker[w] \in Workers
    BY LifeIs, Zenon DEF Shape
  <2>3. worker' = [worker EXCEPT ![w] = q]
    BY <2>1, <2>2, Zenon DEF RawIs
  <2>4. q \in Workers /\ q.task = worker[w].task /\ q.raw # "write"
    BY <2>2, WorkerWith, Zenon DEF RawStates
  <2>5. ASSUME NEW t \in Task, ti[t].state = "running", Owner(w, t) PROVE FALSE
    BY <1>2, <2>5, Zenon DEF Mine, Owner
  <2> HIDE DEF q
  <2> QED
    BY <2>3, <2>4, <2>5, QuietStep, Zenon
<1>3. CASE row.state = "killing"
  <2>1. ToWrite(w, r)
    BY <1>3, Zenon DEF AirflowError
  <2>2. "killed" \in States
    BY Zenon DEF States, Finished
  <2> HIDE DEF row
  <2>3. r \in Row /\ r.state = "killed"
    BY <1>1, <2>2, RowWith, Zenon
  <2>4. r.state \notin {"scheduled", "running"}
    BY <2>3, Zenon
  <2> HIDE DEF r
  <2> QED
    BY <2>1, <2>3, <2>4, ToWriteStep, Zenon
<1>4. CASE row.state \notin {"success", "failed", "killed", "killing"}
  <2>1. HandleFailure(w, row)
    BY <1>4, Zenon DEF AirflowError
  <2> HIDE DEF row
  <2> QED
    BY <1>1, <2>1, FailureStep, Zenon
<1> QED
  BY <1>2, <1>3, <1>4, Zenon

LEMMA FinishStep ==
  ASSUME LifeInv, NEW w \in Worker, NEW o, Finish(w, o)
  PROVE  LifeInv'
<1>1. worker[w].raw # "none" /\ Quiet
  BY Zenon DEF Finish
<1>2. CASE o = "airflow_error"
  BY <1>1, <1>2, AirflowErrorStep, Zenon DEF Finish
<1>3. CASE o = "error"
  <2>1. HandleFailure(w, worker[w].own)
    BY <1>3, Zenon DEF Finish
  <2>2. worker[w].own \in Row
    BY LifeIs, Zenon DEF Shape, Workers
  <2> QED
    BY <1>1, <2>1, <2>2, FailureStep, Zenon
<1>4. CASE o \notin {"airflow_error", "error"}
  <2> DEFINE s == IF o = "success" THEN "success" ELSE "skipped"
             row == [Mine(w) EXCEPT !.state = s]
  <2>1. ToWrite(w, row)
    BY <1>4, Zenon DEF Finish
  <2>2. s \in States /\ s \notin {"scheduled", "running"}
    BY Zenon DEF States, Finished
  <2>3. Mine(w) \in Row
    BY <1>1, MineIsRow, Zenon
  <2> HIDE DEF s
  <2>4. row \in Row /\ row.state = s
    BY <2>2, <2>3, RowWith, Zenon
  <2> HIDE DEF row
  <2> QED
    BY <1>1, <2>1, <2>2, <2>4, ToWriteStep, Zenon
<1> QED
  BY <1>2, <1>3, <1>4, Zenon

\* The process of w writes its row, which then is not running, and ends or
\* goes on to the mini scheduler.
LEMMA SaveStep ==
  ASSUME LifeInv, NEW w \in Worker, Save(w)
  PROVE  LifeInv'
<1> DEFINE t == worker[w].task
           row == worker[w].own
           x == IF row.state \in {"success", "skipped"} /\ MiniScheduler THEN "mini" ELSE "dead"
           r == [worker[w] EXCEPT !.raw = x, !.own = NoRow]
<1>1. /\ worker[w].raw = "write" /\ SetRow(t, row)
      /\ worker' = [worker EXCEPT ![w].raw = x, ![w].own = NoRow]
      /\ UNCHANGED <<run, mail, asked, todo, pc, held, queue, forks>>
  BY Zenon DEF Save, sched
<1>2. /\ worker \in [Worker -> Workers] /\ worker[w] \in Workers /\ WorkerDue(worker[w])
      /\ x \in RawStates /\ x # "write"
  BY LifeIs, Zenon DEF Shape, WorkersDue, RawStates
<1>3. row \in Row
  BY <1>2, Zenon DEF Workers
<1>4. t \in Task /\ row.state # "scheduled" /\ row.state # "running" /\ asked \subseteq asked'
  BY <1>1, <1>2, Zenon DEF WorkerDue, Due
<1>5. worker' = [worker EXCEPT ![w] = r]
  BY <1>1, <1>2, Zenon
<1> HIDE DEF x
<1>6. r \in Workers /\ r.task = t /\ r.raw = x
  BY <1>2, NoRowIsRow, Zenon DEF Workers
<1> HIDE DEF t, row, r
<1>7. /\ ti' \in [Task -> Row] /\ succeeded' \subseteq Task
      /\ Due \subseteq Due' /\ DueCalls \subseteq DueCalls' /\ DueMail \subseteq DueMail'
      /\ RowsDue'
      /\ ti'[t] = row /\ \A u \in Task : u # t => ti'[u] = ti[u]
  BY <1>1, <1>3, <1>4, RowWritten, Zenon
<1>8. /\ worker' \in [Worker -> Workers] /\ worker'[w] = r
      /\ \A v \in Worker : v # w => worker'[v] = worker[v]
  BY <1>2, <1>5, <1>6, Zenon
<1>9. WorkersDue'
  <2> SUFFICES ASSUME NEW v \in Worker PROVE WorkerDue(worker[v])'
    BY Zenon DEF WorkersDue
  <2>1. CASE v = w
    BY <1>1, <1>2, <1>6, <1>7, <1>8, <2>1, Zenon DEF WorkerDue, t
  <2>2. CASE v # w
    BY <1>7, <1>8, <2>2, LifeIs, Zenon DEF WorkersDue, WorkerDue
  <2> QED
    BY <2>1, <2>2, Zenon
<1>10. Owned'
  <2> SUFFICES ASSUME NEW u \in Task, ti'[u].state = "running"
               PROVE  \E v \in Worker : Owner(v, u)'
    BY Zenon DEF Owned
  <2>1. u # t /\ ti'[u] = ti[u]
    BY <1>4, <1>7, Zenon
  <2>2. PICK v \in Worker : Owner(v, u)
    BY <2>1, LifeIs, Zenon DEF Owned
  <2>3. worker'[v] = worker[v]
    BY <1>8, <2>1, <2>2, Zenon DEF Owner, t
  <2> QED
    BY <2>1, <2>2, <2>3, Zenon DEF Owner
<1>11. mail' \in Seq(DueMail')
  BY <1>1, <1>7, Wider, LifeIs, Zenon DEF CallsDue
<1>12. CallsDue'
  BY <1>1, <1>7, <1>11, SameCalls, Zenon
<1>13. Shape'
  BY <1>1, <1>7, <1>8, LifeIs, Zenon DEF Shape
<1> QED
  BY <1>7, <1>9, <1>10, <1>12, <1>13, LifeNext, Zenon

\* The mini scheduler schedules by the same rules as the loop.
LEMMA RunMiniSchedulerStep ==
  ASSUME LifeInv, NEW w \in Worker, RunMiniScheduler(w)
  PROVE  LifeInv'
<1> DEFINE S == {u \in Task : worker[w].task \in Upstream[u] /\ state[u] \in Scheduleable}
<1>1. /\ worker[w].raw = "mini" /\ RawIs(w, "dead")
      /\ UNCHANGED <<run, mail, asked, todo, pc, held, queue, forks>>
  BY Zenon DEF RunMiniScheduler, sched
<1>2. \/ UNCHANGED <<ti, succeeded>>
      \/ \E waiting : SetStates(ScheduleTis(Flagged(state, S), ReadyTis(state, S, waiting)))
  BY Zenon DEF RunMiniScheduler
<1> HIDE DEF S
<1>3. /\ ti' \in [Task -> Row] /\ succeeded' \subseteq Task
      /\ Due \subseteq Due' /\ DueCalls \subseteq DueCalls' /\ DueMail \subseteq DueMail'
      /\ RowsDue'
      /\ \A t \in Task : /\ ti'[t].pid = ti[t].pid
                         /\ ti'[t].state = "running" => ti[t].state = "running"
  <2>1. CASE UNCHANGED <<ti, succeeded>>
    <3>1. asked \subseteq asked' /\ succeeded \subseteq succeeded'
      BY <1>1, <2>1, Zenon
    <3>2. Due \subseteq Due' /\ DueCalls \subseteq DueCalls' /\ DueMail \subseteq DueMail'
      BY <3>1, DueStays, Zenon
    <3> QED
      BY <2>1, <3>2, LifeIs, Zenon DEF RowsDue, Shape
  <2>2. CASE \E waiting : SetStates(ScheduleTis(Flagged(state, S), ReadyTis(state, S, waiting)))
    <3>1. PICK waiting : SetStates(ScheduleTis(Flagged(state, S), ReadyTis(state, S, waiting)))
      BY <2>2, Zenon
    <3> DEFINE ready == ReadyTis(state, S, waiting)
               st == ScheduleTis(Flagged(state, S), ready)
    <3>2. ready \in SUBSET Due
      BY RuleMetIsDue, Zenon DEF ReadyTis, S
    <3>3. SetStates(st)
      BY <3>1, Zenon
    <3> HIDE DEF ready
    <3>4. st = ScheduleTis(Flagged(state, S), ready)
      OBVIOUS
    <3> HIDE DEF st
    <3>5. /\ st \in [Task -> States]
          /\ \A t \in Task : st[t] = "scheduled" => t \in Due
          /\ \A t \in Task : st[t] = "running" => ti[t].state = "running"
      BY <3>2, <3>4, ScheduledStates, Zenon
    <3>6. asked \subseteq asked'
      BY <1>1, Zenon
    <3> QED
      BY <3>3, <3>5, <3>6, RowsWritten, Zenon
  <2> QED
    BY <1>2, <2>1, <2>2, Zenon
<1>4. "dead" \in RawStates \ {"write"} /\ worker[w].raw # "none"
  BY <1>1, Zenon DEF RawStates
<1>5. /\ worker' \in [Worker -> Workers] /\ WorkersDue'
      /\ \A v \in Worker : v # w => worker'[v] = worker[v]
  BY <1>1, <1>3, <1>4, RawWritten, Zenon
<1>6. Owned'
  <2> SUFFICES ASSUME NEW u \in Task, ti'[u].state = "running"
               PROVE  \E v \in Worker : Owner(v, u)'
    BY Zenon DEF Owned
  <2>1. ti[u].state = "running" /\ ti'[u].pid = ti[u].pid
    BY <1>3, Zenon
  <2>2. PICK v \in Worker : Owner(v, u)
    BY <2>1, LifeIs, Zenon DEF Owned
  <2>3. worker'[v] = worker[v]
    BY <1>1, <1>5, <2>2, Zenon DEF Owner
  <2> QED
    BY <2>1, <2>2, <2>3, Zenon DEF Owner
<1>7. mail' \in Seq(DueMail')
  BY <1>1, <1>3, Wider, LifeIs, Zenon DEF CallsDue
<1>8. CallsDue'
  BY <1>1, <1>3, <1>7, SameCalls, Zenon
<1>9. Shape'
  BY <1>1, <1>3, <1>5, LifeIs, Zenon DEF Shape
<1> QED
  BY <1>3, <1>5, <1>6, <1>8, <1>9, LifeNext, Zenon

LEMMA OneMore ==
  ASSUME NEW n \in Nat PROVE n + 1 \in Nat
OBVIOUS

\* A LocalTaskJob starts: worker w becomes the owner of the row, which was not
\* running, so that no owner loses its row.
LEMMA RunCommandStep ==
  ASSUME LifeInv, NEW w \in Worker, RunCommand(w)
  PROVE  LifeInv'
<1> DEFINE t == Head(queue)
           n == forks'[t]
           row == [state |-> "running", tries |-> ti[t].tries + 1, pid |-> n]
           new == [IdleWorker EXCEPT !.pc = "run", !.task = t, !.pid = n, !.raw = "boot"]
<1>1. /\ worker[w].pc = "idle" /\ queue # <<>> /\ queue' = Tail(queue)
      /\ UNCHANGED <<run, asked, todo, pc, held>>
  BY Zenon DEF RunCommand, At, sched
<1>2. t \in Due /\ Tail(queue) \in Seq(Due)
  BY <1>1, HeadAndTail, LifeIs, Zenon DEF CallsDue
<1>3. t \in Task
  BY <1>2, Zenon DEF Due
<1>4. mail' = mail \/ mail' = Append(mail, Changed)
  BY Zenon DEF RunCommand
<1>5. asked \subseteq asked'
  BY <1>1, Zenon
<1>6. ASSUME Due \subseteq Due', DueCalls \subseteq DueCalls', DueMail \subseteq DueMail'
      PROVE  CallsDue'
  <2>1. mail \in Seq(DueMail') /\ todo \in Seq(DueCalls') /\ queue' \in Seq(Due')
    BY <1>1, <1>2, <1>6, Wider, LifeIs, Zenon DEF CallsDue
  <2>2. mail' \in Seq(DueMail')
    BY <1>4, <2>1, Appended, ChangedIsMail, Zenon
  <2>3. todo' = todo /\ pc' = pc
    BY <1>1, Zenon
  <2> QED
    BY <2>1, <2>2, <2>3, LifeIs, Zenon DEF CallsDue, Call
<1>7. CASE UNCHANGED <<ti, worker, forks, succeeded>>
  <2>1. succeeded \subseteq succeeded'
    BY <1>7, Zenon
  <2>2. Due \subseteq Due' /\ DueCalls \subseteq DueCalls' /\ DueMail \subseteq DueMail'
    BY <1>5, <2>1, DueStays, Zenon
  <2>3. CallsDue'
    BY <1>6, <2>2, Zenon
  <2>4. WorkersDue' /\ Owned'
    BY <1>7, <2>2, SameWorkers, Zenon
  <2>5. RowsDue' /\ Shape'
    BY <1>1, <1>7, <2>2, LifeIs, Zenon DEF RowsDue, Shape
  <2> QED
    BY <2>3, <2>4, <2>5, LifeNext, Zenon
<1>8. CASE /\ ti[t].state # "running" /\ forks' = [forks EXCEPT ![t] = @ + 1]
           /\ SetRow(t, row) /\ worker' = [worker EXCEPT ![w] = new]
  <2>1. n \in Nat /\ forks' \in [Task -> Nat]
    <3>1. forks \in [Task -> Nat] /\ forks[t] \in Nat
      BY <1>3, LifeIs, Zenon DEF Shape
    <3>2. forks[t] + 1 \in Nat
      BY <3>1, OneMore, Zenon
    <3> QED
      BY <1>3, <1>8, <3>1, <3>2, Zenon
  <2>2. ti[t].tries + 1 \in Nat
    <3>1. ti[t].tries \in Nat
      BY <1>3, LifeIs, Zenon DEF Shape, Row
    <3> QED
      BY <3>1, OneMore, Zenon
  <2>3. row \in Row /\ row.state = "running" /\ row.pid = n
    BY <2>1, <2>2, Zenon DEF Row, Unfinished
  <2>4. /\ new \in Workers /\ new.task = t /\ new.pid = n
        /\ new.pc = "run" /\ new.raw = "boot"
    BY <1>3, <2>1, NoRowIsRow, Zenon DEF Workers, RawStates, IdleWorker
  <2>5. SetRow(t, row) /\ row.state # "scheduled"
    BY <1>8, <2>3, Zenon
  <2> HIDE DEF row, new
  <2>6. /\ ti' \in [Task -> Row] /\ succeeded' \subseteq Task
        /\ Due \subseteq Due' /\ DueCalls \subseteq DueCalls' /\ DueMail \subseteq DueMail'
        /\ RowsDue'
        /\ ti'[t] = row /\ \A u \in Task : u # t => ti'[u] = ti[u]
    BY <1>3, <1>5, <2>3, <2>5, RowWritten, Zenon
  <2>7. /\ worker' \in [Worker -> Workers] /\ worker'[w] = new
        /\ \A v \in Worker : v # w => worker'[v] = worker[v]
    BY <1>8, <2>4, LifeIs, Zenon DEF Shape
  <2>8. WorkersDue'
    <3> SUFFICES ASSUME NEW v \in Worker PROVE WorkerDue(worker[v])'
      BY Zenon DEF WorkersDue
    <3>1. CASE v = w
      BY <1>2, <2>4, <2>6, <2>7, <3>1, Zenon DEF WorkerDue
    <3>2. CASE v # w
      BY <2>6, <2>7, <3>2, LifeIs, Zenon DEF WorkersDue, WorkerDue
    <3> QED
      BY <3>1, <3>2, Zenon
  <2>9. Owned'
    <3> SUFFICES ASSUME NEW u \in Task, ti'[u].state = "running"
                 PROVE  \E v \in Worker : Owner(v, u)'
      BY Zenon DEF Owned
    <3>1. CASE u = t
      <4>1. /\ worker'[w].task = u /\ worker'[w].pid = ti'[u].pid
            /\ worker'[w].pc = "run" /\ worker'[w].raw = "boot"
        BY <2>3, <2>4, <2>6, <2>7, <3>1, Zenon
      <4> QED
        BY <4>1, Zenon DEF Owner
    <3>2. CASE u # t
      <4>1. ti'[u] = ti[u]
        BY <2>6, <3>2, Zenon
      <4>2. PICK v \in Worker : Owner(v, u)
        BY <4>1, LifeIs, Zenon DEF Owned
      <4>3. worker'[v] = worker[v]
        BY <1>1, <2>7, <4>2, Zenon DEF Owner
      <4> QED
        BY <4>1, <4>2, <4>3, Zenon DEF Owner
    <3> QED
      BY <3>1, <3>2, Zenon
  <2>10. CallsDue'
    BY <1>6, <2>6, Zenon
  <2>11. Shape'
    BY <1>1, <2>1, <2>6, <2>7, LifeIs, Zenon DEF Shape
  <2> QED
    BY <2>6, <2>8, <2>9, <2>10, <2>11, LifeNext, Zenon
<1> QED
  BY <1>7, <1>8, Zenon DEF RunCommand

-----------------------------------------------------------------------------
(* The theorems                                                               *)

LEMMA LifeInit ==
  ASSUME Init PROVE LifeInv
<1>1. Shape
  <2>1. IdleWorker \in Workers
    BY NoRowIsRow, Zenon DEF IdleWorker, Workers, RawStates
  <2>2. 0 \in Nat
    OBVIOUS
  <2> QED
    BY <2>1, <2>2, NoRowIsRow, Zenon DEF Init, Shape
<1>2. RowsDue /\ Owned
  <2>1. \A t \in Task : ti[t].state = "none"
    BY Zenon DEF Init, NoRow
  <2> QED
    BY <2>1, Zenon DEF RowsDue, Owned
<1>3. WorkersDue
  BY Zenon DEF Init, WorkersDue, WorkerDue, IdleWorker
<1>4. CallsDue
  <2>1. RunMessage("run_dag") \in DueMail
    BY Zenon DEF DueMail
  <2>2. mail \in Seq(DueMail) /\ todo \in Seq(DueCalls) /\ queue \in Seq(Due) /\ pc = "idle"
    BY <2>1, Single, NoneOf, Zenon DEF Init
  <2> QED
    BY <2>2, Zenon DEF CallsDue
<1> QED
  BY <1>1, <1>2, <1>3, <1>4, Zenon DEF LifeInv

\* A step that changes nothing.
LEMMA LifeStutters ==
  ASSUME LifeInv, UNCHANGED vars PROVE LifeInv'
<1>1. UNCHANGED <<ti, run, mail, asked, todo, pc, held, queue, worker, forks, succeeded>>
  BY Zenon DEF vars, sched, exec
<1>2. mail' \in Seq(DueMail) /\ run' \in {"none", "running", "success", "failed", "killed"}
  BY <1>1, LifeIs, Zenon DEF CallsDue, Shape
<1> QED
  BY <1>1, <1>2, OnlyMail, Zenon DEF sched, exec

LEMMA LifeStep ==
  ASSUME LifeInv, [Next]_vars PROVE LifeInv'
<1>1. CASE Scheduler
  <2>1. CASE CreateDagRun
    BY <2>1, CreateDagRunStep, Zenon
  <2>2. CASE TaskStateChanged
    BY <2>2, TaskStateChangedStep, Zenon
  <2>3. CASE StopDagRun
    BY <2>3, StopDagRunStep, Zenon
  <2>4. CASE ScheduleTask
    BY <2>4, ScheduleTaskStep, Zenon
  <2>5. CASE ReadTask
    BY <2>5, ReadTaskStep, Zenon
  <2>6. CASE StartTaskInstance
    BY <2>6, StartTaskInstanceStep, Zenon
  <2>7. CASE StopIdleTask
    BY <2>7, StopIdleTaskStep, Zenon
  <2>8. CASE StopRunningTask
    BY <2>8, StopRunningTaskStep, Zenon
  <2>9. CASE WaitStopped \/ WaitTimeout
    BY <2>9, WaitStep, Zenon
  <2> QED
    BY <1>1, <2>1, <2>2, <2>3, <2>4, <2>5, <2>6, <2>7, <2>8, <2>9, Zenon DEF Scheduler
<1>2. ASSUME NEW r \in Requests, Request(r) PROVE LifeInv'
  BY <1>2, RequestStep, Zenon
<1>3. ASSUME NEW w \in Worker, Supervise(w) PROVE LifeInv'
  BY <1>3, RunCommandStep, HeartbeatStep, ReapStep, Zenon DEF Supervise
<1>4. ASSUME NEW w \in Worker, Process(w) PROVE LifeInv'
  <2>1. CASE Boot(w)
    BY <2>1, BootStep, Zenon
  <2>2. CASE Terminated(w)
    <3>1. worker[w].raw # "none" /\ AirflowError(w) /\ Quiet
      BY <2>2, Zenon DEF Terminated
    <3> QED
      BY <3>1, AirflowErrorStep, Zenon
  <2>3. CASE Save(w)
    BY <2>3, SaveStep, Zenon
  <2>4. CASE RunMiniScheduler(w)
    BY <2>4, RunMiniSchedulerStep, Zenon
  <2> QED
    BY <1>4, <2>1, <2>2, <2>3, <2>4, Zenon DEF Process
<1>5. ASSUME NEW w \in Worker, KillHard(w) PROVE LifeInv'
  BY <1>5, KillHardStep, Zenon
<1>6. ASSUME NEW w \in Worker, NEW o \in Outcome, Finish(w, o) PROVE LifeInv'
  BY <1>6, FinishStep, Zenon
<1>7. CASE UNCHANGED vars
  BY <1>7, LifeStutters, Zenon
<1> QED
  BY <1>1, <1>2, <1>3, <1>4, <1>5, <1>6, <1>7, Zenon DEF Next

\* The inductive invariant: what is on its way to a worker is due, and running
\* rows have an owner.
LEMMA LifeHolds == Spec => []LifeInv
BY LifeInit, LifeStep, PTL DEF Spec

\* Rows, messages, calls, commands and workers keep their types.
THEOREM LifeTypesKept == Spec => []TypeOK
<1>1. LifeInv => TypeOK
  <2> SUFFICES ASSUME LifeInv PROVE TypeOK
    OBVIOUS
  <2>1. Due \subseteq Task /\ "STOP" \in Actions
    BY Zenon DEF Due, Actions
  <2>2. DueCalls \subseteq Calls
    BY <2>1, Zenon DEF DueCalls, Calls
  <2>3. DueMail \subseteq Messages
    BY <2>2, Zenon DEF DueMail, Messages
  <2>4. mail \in Seq(Messages) /\ todo \in Seq(Calls) /\ queue \in Seq(Task)
    BY <2>1, <2>2, <2>3, Wider, LifeIs, Zenon DEF CallsDue
  <2> QED
    BY <2>4, LifeIs, Zenon DEF TypeOK, Shape, Workers
<1> QED
  BY <1>1, LifeHolds, PTL

\* For every dag, any number of workers and all requests, outcomes and lost
\* events: an operator runs only after every task it depends on has succeeded,
\* unless somebody asked for it.  Duplicate START messages, stale rows written
\* back and late commands do not run ahead of the dependencies, because
\* messages, calls, commands and scheduled rows are only ever about tasks that
\* are due, and a task that is due stays due.
THEOREM UpstreamRunsFirst == Spec => []UpstreamFirst
<1>1. LifeInv => UpstreamFirst
  BY LifeIs, Zenon DEF UpstreamFirst, Executes, WorkersDue, WorkerDue, Due
<1> QED
  BY <1>1, LifeHolds, PTL

\* A row that says running has a living LocalTaskJob with the pid of the row,
\* whatever STOP, RESTART, heartbeats and signals do: the row leaves running
\* before its process is signalled, and a heartbeat terminates no process whose
\* pid is in a running row.
THEOREM RunningIsOwned == Spec => []RunningHasOwner
<1>1. LifeInv => RunningHasOwner
  BY LifeIs, Zenon DEF RunningHasOwner, state, Owned, Owner
<1> QED
  BY <1>1, LifeHolds, PTL
=============================================================================
