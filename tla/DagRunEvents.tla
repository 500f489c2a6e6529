---------------------------- MODULE DagRunEvents ----------------------------
(***************************************************************************)
(* DagRunEventManager of the event-based scheduler: one runner per dag run *)
(* that has events, executed by a thread pool.  A runner handles events of *)
(* its queue until the queue is empty or max_num_event are handled; when   *)
(* it has ended, a callback submits it again or releases it.               *)
(*                                                                         *)
(* handle_event and _runner_exited hold the manager's lock and are one     *)
(* step each; a runner takes from its queue without the lock.              *)
(***************************************************************************)
EXTENDS Naturals, Sequences

CONSTANTS
  Run,          \* dag runs
  Ev,           \* events
  Worker,       \* threads of the pool
  MaxNumEvent   \* max_num_event

ASSUME DagRunEventsAssumption == MaxNumEvent \in Nat \ {0} /\ Run # {} /\ Ev # {}

VARIABLES
  runners,   \* keys of _event_executor_runners
  running,   \* _running_event_executor_runners
  equeue,    \* _event_queue of the runner of a dag run
  submitted, \* submissions of a dag run's runner no thread has taken yet
  wpc,       \* what a thread does
  wrun,      \* the dag run of its runner
  wn,        \* event_processed
  wev,       \* the event it handles
  closed,    \* the pool was shut down
  put,       \* the events given to handle_event, for each dag run, in order
  taken      \* those its runners took from the queue

mvars == <<runners, running, equeue, submitted, wpc, wrun, wn, wev, closed, put, taken>>

\* A thread that executes no runner has no locals: any value will do.
AnyRun == CHOOSE r \in Run : TRUE
AnyEv == CHOOSE e \in Ev : TRUE

MInit ==
  /\ runners = {} /\ running = {}
  /\ equeue = [r \in Run |-> <<>>]
  /\ submitted = [r \in Run |-> 0]
  /\ wpc = [w \in Worker |-> "idle"]
  /\ wrun = [w \in Worker |-> AnyRun] /\ wev = [w \in Worker |-> AnyEv]
  /\ wn = [w \in Worker |-> 0]
  /\ closed = FALSE
  /\ put = [r \in Run |-> <<>>] /\ taken = [r \in Run |-> <<>>]

\* handle_event: creates the runner if there is none, puts the event into its
\* queue and submits it unless it is running.  A pool that was shut down takes
\* no submission: submit raises, after the runner was marked as running.
handle_event(r, e) ==
  /\ runners' = runners \cup {r}
  /\ equeue' = [equeue EXCEPT ![r] = Append(@, e)]
  /\ put' = [put EXCEPT ![r] = Append(@, e)]
  /\ running' = running \cup {r}
  /\ submitted' = IF r \in running \/ closed THEN submitted ELSE [submitted EXCEPT ![r] = @ + 1]
  /\ UNCHANGED <<wpc, wrun, wn, wev, closed, taken>>

\* _start_event_executor_runner on a free thread of the pool.
StartRunner(w, r) ==
  /\ wpc[w] = "idle" /\ submitted[r] > 0 /\ r \in runners
  /\ submitted' = [submitted EXCEPT ![r] = @ - 1]
  /\ wpc' = [wpc EXCEPT ![w] = "loop"]
  /\ wrun' = [wrun EXCEPT ![w] = r]
  /\ wn' = [wn EXCEPT ![w] = 0]
  /\ UNCHANGED <<runners, running, equeue, wev, closed, put, taken>>

\* _get_event with poll_timeout 0: an event, or the end of the loop.
GetEvent(w) ==
  LET r == wrun[w] IN
  /\ wpc[w] = "loop"
  /\ \/ /\ equeue[r] # <<>>
        /\ wev' = [wev EXCEPT ![w] = Head(equeue[r])]
        /\ equeue' = [equeue EXCEPT ![r] = Tail(@)]
        /\ taken' = [taken EXCEPT ![r] = Append(@, Head(equeue[r]))]
        /\ wpc' = [wpc EXCEPT ![w] = "got"]
     \/ /\ equeue[r] = <<>>
        /\ wpc' = [wpc EXCEPT ![w] = "exit"]
        /\ UNCHANGED <<wev, equeue, taken>>
  /\ UNCHANGED <<runners, running, submitted, wrun, wn, closed, put>>

\* execute_event_handler runs the handler and saves the task's state; if it
\* raises, run logs the exception and the runner ends.
ExecuteHandler(w) ==
  /\ wpc[w] = "got"
  /\ \/ wpc' = [wpc EXCEPT ![w] = "send"]
     \/ wpc' = [wpc EXCEPT ![w] = "exit"]
  /\ UNCHANGED <<runners, running, equeue, submitted, wrun, wn, wev, closed, put, taken>>

\* The results have been sent to the mailbox: the next event, or the end.
NextEvent(w) ==
  /\ wpc[w] = "send"
  /\ wn' = [wn EXCEPT ![w] = @ + 1]
  /\ wpc' = [wpc EXCEPT ![w] = IF wn[w] + 1 >= MaxNumEvent THEN "exit" ELSE "loop"]
  /\ UNCHANGED <<runners, running, equeue, submitted, wrun, wev, closed, put, taken>>

ThreadIdle(w) ==
  /\ wpc' = [wpc EXCEPT ![w] = "idle"]
  /\ wrun' = [wrun EXCEPT ![w] = AnyRun]
  /\ wn' = [wn EXCEPT ![w] = 0]
  /\ wev' = [wev EXCEPT ![w] = AnyEv]

\* Mutant: the callback releases the runner without a look at its queue.
RunnerExited_Releases(w) ==
  LET r == wrun[w] IN
  /\ wpc[w] = "exit" /\ ThreadIdle(w)
  /\ running' = running \ {r} /\ runners' = runners \ {r}
  /\ equeue' = [equeue EXCEPT ![r] = <<>>]
  /\ UNCHANGED <<submitted, closed, put, taken>>

\* Mutant: the callback forgets to take the dag run from the running set.
RunnerExited_Running(w) ==
  LET r == wrun[w] IN
  /\ wpc[w] = "exit" /\ ThreadIdle(w)
  /\ runners' = IF equeue[r] = <<>> THEN runners \ {r} ELSE runners
  /\ submitted' = IF equeue[r] = <<>> THEN submitted ELSE [submitted EXCEPT ![r] = @ + 1]
  /\ UNCHANGED <<running, equeue, closed, put, taken>>

\* _runner_exited, called on the thread of the runner that has ended: submits
\* it again if its queue has events, else releases it.  If the pool was shut
\* down submit raises, and the runner's events stay in its queue.
RunnerExited(w) ==
  LET r == wrun[w] IN
  /\ wpc[w] = "exit" /\ ThreadIdle(w)
  /\ \/ /\ equeue[r] # <<>>
        /\ submitted' = IF closed THEN submitted ELSE [submitted EXCEPT ![r] = @ + 1]
        /\ UNCHANGED <<runners, running>>
     \/ /\ equeue[r] = <<>>
        /\ running' = running \ {r} /\ runners' = runners \ {r}
        /\ UNCHANGED submitted
  /\ UNCHANGED <<equeue, closed, put, taken>>

\* end: the pool is shut down.  Runners it has, submitted or executing, still
\* run; the caller waits for them.
end ==
  /\ closed' = TRUE
  /\ UNCHANGED <<runners, running, equeue, submitted, wpc, wrun, wn, wev, put, taken>>

MNext ==
  \/ end
  \/ \E r \in Run, e \in Ev : handle_event(r, e)
  \/ \E w \in Worker : \/ \E r \in Run : StartRunner(w, r)
                       \/ GetEvent(w) \/ ExecuteHandler(w) \/ NextEvent(w) \/ RunnerExited(w)

MSpec == MInit /\ [][MNext]_mvars

(* ---------------------------------------------------------------------- *)
(* Properties                                                              *)

Active(w) == wpc[w] # "idle"

\* Types of the manager's state.
MTypeOK ==
  /\ runners \in SUBSET Run /\ running \in SUBSET Run
  /\ equeue \in [Run -> Seq(Ev)]
  /\ submitted \in [Run -> Nat]
  /\ wpc \in [Worker -> {"idle", "loop", "got", "send", "exit"}]
  /\ wrun \in [Worker -> Run] /\ wev \in [Worker -> Ev] /\ wn \in [Worker -> Nat]
  /\ closed \in BOOLEAN
  /\ put \in [Run -> Seq(Ev)] /\ taken \in [Run -> Seq(Ev)]

\* The handlers of one dag run never run concurrently: at most one thread
\* executes the runner of a dag run, and then no other is submitted.
OneRunnerPerRun ==
  \A w \in Worker : Active(w) =>
    /\ submitted[wrun[w]] = 0
    /\ \A x \in Worker : Active(x) /\ wrun[x] = wrun[w] => x = w

\* No event is left in the queue of a runner that has ended: a dag run whose
\* queue has events has a runner that is submitted or executing, until the
\* pool is shut down.
NoEventStranded ==
  ~closed => \A r \in Run : equeue[r] # <<>> =>
    submitted[r] > 0 \/ \E w \in Worker : Active(w) /\ wrun[w] = r

\* The runners of a dag run, one after the other, take its events in the order
\* in which the scheduler gave them, and none is lost between two runners; what
\* the shutdown of the pool leaves over is the end of the queue.
EventsInOrder == \A r \in Run : taken[r] \o equeue[r] = put[r]
=============================================================================
