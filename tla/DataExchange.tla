---------------------------- MODULE DataExchange ----------------------------
(***************************************************************************)
(* One Flink operator and the script it feeds.  MLMapFunction writes the   *)
(* records of the job to the output queue and collects what comes back     *)
(* through the input queue; MLInputFormat only collects.  The script is    *)
(* run by the runner, which ends the input queue after it and, when it did *)
(* not succeed, clears both queues for the next attempt.  The node server  *)
(* watches the runner and obeys the application master.                    *)
(*                                                                         *)
(* A queue is a sequence here; that the shared memory behaves like one is  *)
(* what the modules JavaToCpp and CppToJava show.  A record of the input   *)
(* queue is two cells, its size and its data, since the script writes them *)
(* by two calls and may die in between.                                    *)
(***************************************************************************)
EXTENDS Integers, Sequences

CONSTANTS
  Modes,       \* the operators considered: "map", "source"
  Inputs,      \* records that the job hands to the map operator
  Results,     \* records that the script writes for each record it reads,
               \* and in all when it feeds a source
  OutRoom,     \* records that the output queue holds
  InRoom,      \* cells that the input queue holds
  MaxFaults    \* bound of the model: failures, restarts and stops

ASSUME ExchangeAssumption ==
  /\ Modes \subseteq {"map", "source"}
  /\ Inputs \in Nat /\ Results \in Nat /\ MaxFaults \in Nat
  /\ OutRoom \in Nat \ {0} /\ InRoom \in Nat \ {0}

VARIABLES
  mode,         \* which operator this is
  outputQueue,  \* from the operator to the script
  inputQueue,   \* from the script to the operator
  opc,          \* where the operator is
  untilEOF,     \* readUntilEOF of drainRead: reads wait
  taken,        \* records received from the job
  size,         \* the size that has been read of a record
  eof,          \* RecordReaderImpl.eof
  collected,    \* what the operator has passed on
  script,       \* the process: run, exited, failed, killed
  todo,         \* cells that the script is going to write
  pending,      \* the last cell written, while it is not published
  emitted,      \* the records written by this attempt
  runner,       \* run, ok, bad, SUCCEED, FAILED
  stopped,      \* notifyStop() of this runner was called
  server,       \* watch, restart, stop, cleanup, error, done, failed
  faults,
  torn,         \* the queues were cleared during a call of the operator
  markLost      \* the operator's finish flag was cleared

queues == <<outputQueue, inputQueue>>
operator == <<opc, untilEOF, taken, size, eof, collected>>
process == <<script, todo, pending, emitted>>
serving == <<runner, stopped, server>>
notes == <<faults, torn, markLost>>
vars == <<mode, queues, operator, process, serving, notes>>

Empty == [data |-> <<>>, finished |-> FALSE]

(***************************************************************************)
(* The cells written for the record r: a size and its data for each        *)
(* result.  r = 0 stands for a script that reads nothing.                  *)
(***************************************************************************)
Answers(r) ==
  [i \in 1..2 * Results |->
     [part |-> IF i % 2 = 1 THEN "size" ELSE "data", id |-> <<r, (i + 1) \div 2>>]]

(* What a script that starts has to write before it reads. *)
Program == IF mode = "source" THEN Answers(0) ELSE <<>>

(***************************************************************************)
(* The operator after open().  The source has nothing to write and marks   *)
(* the output queue finished at once.                                      *)
(***************************************************************************)
Init ==
  /\ mode \in Modes
  /\ outputQueue = [Empty EXCEPT !.finished = (mode = "source")]
  /\ inputQueue = Empty
  /\ opc = IF mode = "source" THEN "check" ELSE "idle"
  /\ untilEOF = (mode = "source")
  /\ taken = 0 /\ size = <<>> /\ eof = FALSE /\ collected = <<>>
  /\ script = "run" /\ todo = Program /\ pending = <<>> /\ emitted = <<>>
  /\ runner = "run" /\ stopped = FALSE /\ server = "watch"
  /\ faults = 0 /\ torn = FALSE /\ markLost = FALSE

-----------------------------------------------------------------------------
(* The operator. *)

(* flatMap(value): the job hands over a record. *)
FlatMap ==
  /\ mode = "map" /\ opc = "idle" /\ taken < Inputs
  /\ taken' = taken + 1
  /\ opc' = "drain"
  /\ UNCHANGED <<queues, untilEOF, size, eof, collected>>

(* Mutant: close() does not mark the output queue. *)
Close_NoMark ==
  /\ mode = "map" /\ opc = "idle" /\ taken = Inputs
  /\ opc' = "drain" /\ untilEOF' = TRUE
  /\ UNCHANGED <<queues, taken, size, eof, collected>>

(* MLMapFunction.close(): after the last record the script is told so. *)
Close ==
  /\ mode = "map" /\ opc = "idle" /\ taken = Inputs
  /\ outputQueue' = [outputQueue EXCEPT !.finished = TRUE]
  /\ opc' = "drain" /\ untilEOF' = TRUE
  /\ UNCHANGED <<inputQueue, taken, size, eof, collected>>

(* The loop of drainRead: read() waits, tryRead() looks first. *)
DrainRead ==
  /\ opc = "drain"
  /\ opc' = IF untilEOF \/ inputQueue.data # <<>> THEN "size" ELSE "write"
  /\ UNCHANGED <<queues, untilEOF, taken, size, eof, collected>>

(* Where the operator goes on when a record has been read. *)
Loop == IF mode = "map" THEN "drain" ELSE "check"

ReadSize ==
  /\ opc = "size" /\ inputQueue.data # <<>>
  /\ size' = Head(inputQueue.data)
  /\ inputQueue' = [inputQueue EXCEPT !.data = Tail(@)]
  /\ opc' = "body"
  /\ UNCHANGED <<outputQueue, untilEOF, taken, eof, collected>>

(* The end of the queue in place of a size: null, which ends either loop. *)
ReadEOF ==
  /\ opc = "size" /\ inputQueue.data = <<>> /\ inputQueue.finished
  /\ eof' = TRUE
  /\ opc' = IF untilEOF THEN "join" ELSE "write"
  /\ UNCHANGED <<queues, untilEOF, taken, size, collected>>

ReadData ==
  /\ opc = "body" /\ inputQueue.data # <<>>
  /\ collected' = Append(collected, [size |-> size, data |-> Head(inputQueue.data)])
  /\ inputQueue' = [inputQueue EXCEPT !.data = Tail(@)]
  /\ opc' = Loop
  /\ UNCHANGED <<outputQueue, untilEOF, taken, size, eof>>

(***************************************************************************)
(* readFully meets the end of the queue: an EOFException.  drainRead logs  *)
(* it and reads on; it leaves nextRecord and the operator is closed.       *)
(***************************************************************************)
ReadBroken ==
  /\ opc = "body" /\ inputQueue.data = <<>> /\ inputQueue.finished
  /\ opc' = IF mode = "map" THEN "drain" ELSE "unwind"
  /\ UNCHANGED <<queues, untilEOF, taken, size, eof, collected>>

(* Mutant: a write that found no room is repeated without reading. *)
Write_NoDrain ==
  /\ opc = "write"
  /\ IF Len(outputQueue.data) < OutRoom
     THEN outputQueue' = [outputQueue EXCEPT !.data = Append(@, taken)] /\ opc' = "idle"
     ELSE UNCHANGED <<outputQueue, opc>>
  /\ UNCHANGED <<inputQueue, untilEOF, taken, size, eof, collected>>

(* The record is written if there is room for it, else the loop goes on. *)
Write ==
  /\ opc = "write"
  /\ IF Len(outputQueue.data) < OutRoom
     THEN outputQueue' = [outputQueue EXCEPT !.data = Append(@, taken)] /\ opc' = "idle"
     ELSE opc' = "drain" /\ UNCHANGED outputQueue
  /\ UNCHANGED <<inputQueue, untilEOF, taken, size, eof, collected>>

(* MLInputFormat.reachedEnd(), then nextRecord() or close() *)
ReachedEnd ==
  /\ opc = "check"
  /\ opc' = IF server \in {"done", "failed"} \/ eof THEN "join" ELSE "size"
  /\ UNCHANGED <<queues, untilEOF, taken, size, eof, collected>>

(* close() waits for the node server and throws what it has thrown. *)
Join ==
  /\ opc \in {"join", "unwind"} /\ server \in {"done", "failed"}
  /\ opc' = IF server = "failed" \/ opc = "unwind" THEN "threw" ELSE "returned"
  /\ UNCHANGED <<queues, untilEOF, taken, size, eof, collected>>

Work == DrainRead \/ ReadSize \/ ReadEOF \/ ReadData \/ ReadBroken \/ Write \/ ReachedEnd \/ Join

(***************************************************************************)
(* A call during which the queues are cleared goes on: the spinning        *)
(* readFully waits for whatever comes next into the cleared queue.  What   *)
(* the clearing does inside one access to the queue, which then stores a   *)
(* position of the old contents, is not modelled; torn says that there may *)
(* have been such an access, and no property is stated of it.              *)
(***************************************************************************)
Operator ==
  /\ FlatMap \/ Close \/ Work
  /\ UNCHANGED <<mode, process, serving, notes>>

-----------------------------------------------------------------------------
(* The script, which reads to the end of the output queue. *)

ScriptReads ==
  /\ script = "run" /\ mode = "map" /\ todo = <<>> /\ outputQueue.data # <<>>
  /\ todo' = Answers(Head(outputQueue.data))
  /\ outputQueue' = [outputQueue EXCEPT !.data = Tail(@)]
  /\ UNCHANGED <<inputQueue, script, pending, emitted>>

(* The next call of writeBytes publishes a cell that the last one did not. *)
ScriptPublishes ==
  /\ script = "run" /\ todo # <<>> /\ pending # <<>>
  /\ inputQueue' = [inputQueue EXCEPT !.data = @ \o pending]
  /\ pending' = <<>>
  /\ UNCHANGED <<outputQueue, script, todo, emitted>>

(***************************************************************************)
(* writeBytes of a size or of the data of a record.  The cell stays        *)
(* unpublished when it uses up exactly what the queue had offered.         *)
(***************************************************************************)
ScriptWrites ==
  /\ script = "run" /\ todo # <<>> /\ pending = <<>>
  /\ Len(inputQueue.data) < InRoom
  /\ \/ inputQueue' = [inputQueue EXCEPT !.data = Append(@, Head(todo))] /\ pending' = <<>>
     \/ pending' = <<Head(todo)>> /\ UNCHANGED inputQueue
  /\ emitted' = IF Head(todo).part = "data" THEN Append(emitted, Head(todo).id) ELSE emitted
  /\ todo' = Tail(todo)
  /\ UNCHANGED <<outputQueue, script>>

(* Mutant: close() of the writer marks the queue and publishes nothing. *)
ScriptExits_NoFlush ==
  /\ script = "run" /\ todo = <<>>
  /\ mode = "map" => outputQueue.data = <<>> /\ outputQueue.finished
  /\ inputQueue' = [inputQueue EXCEPT !.finished = TRUE]
  /\ pending' = <<>>
  /\ script' = "exited"
  /\ UNCHANGED <<outputQueue, todo, emitted>>

(* EOFError ends the script; ~JavaFile closes its writer. *)
ScriptExits ==
  /\ script = "run" /\ todo = <<>>
  /\ mode = "map" => outputQueue.data = <<>> /\ outputQueue.finished
  /\ inputQueue' = [data |-> inputQueue.data \o pending, finished |-> TRUE]
  /\ pending' = <<>>
  /\ script' = "exited"
  /\ UNCHANGED <<outputQueue, todo, emitted>>

Script ==
  /\ ScriptReads \/ ScriptPublishes \/ ScriptWrites \/ ScriptExits
  /\ UNCHANGED <<mode, operator, serving, notes>>

(***************************************************************************)
(* The process ends with an exit code other than zero, by an exception     *)
(* after which ~JavaFile still closes the writer, or without that.         *)
(***************************************************************************)
ScriptFails ==
  /\ script = "run" /\ faults < MaxFaults
  /\ script' = "failed"
  /\ \/ UNCHANGED inputQueue
     \/ inputQueue' = [data |-> inputQueue.data \o pending, finished |-> TRUE]
  /\ pending' = <<>>
  /\ faults' = faults + 1
  /\ UNCHANGED <<mode, outputQueue, operator, todo, emitted, serving, torn, markLost>>

-----------------------------------------------------------------------------
(* The runner. *)

(***************************************************************************)
(* runScript has returned or thrown: stopExecution closes the script       *)
(* runner, which ends the input queue.  A runner that was told to stop     *)
(* has not succeeded, whatever the script did.                             *)
(***************************************************************************)
RunnerCloses ==
  /\ runner = "run" /\ script # "run"
  /\ inputQueue' = [inputQueue EXCEPT !.finished = TRUE]
  /\ runner' = IF script = "exited" /\ ~stopped THEN "ok" ELSE "bad"
  /\ UNCHANGED <<mode, outputQueue, operator, process, stopped, server, notes>>

RunnerSucceeds ==
  /\ runner = "ok"
  /\ runner' = "SUCCEED"
  /\ UNCHANGED <<mode, queues, operator, process, stopped, server, notes>>

(* Mutant: only the output queue is cleared. *)
RunnerFails_KeepsInput ==
  /\ runner = "bad"
  /\ runner' = "FAILED"
  /\ outputQueue' = Empty
  /\ inputQueue' = [inputQueue EXCEPT !.finished = FALSE]
  /\ torn' = (torn \/ opc \in {"size", "body", "write"})
  /\ markLost' = (markLost \/ outputQueue.finished)
  /\ UNCHANGED <<mode, operator, process, stopped, server, faults>>

(* mlContext.reset() *)
RunnerFails ==
  /\ runner = "bad"
  /\ runner' = "FAILED"
  /\ outputQueue' = Empty
  /\ inputQueue' = Empty
  /\ torn' = (torn \/ opc \in {"size", "body", "write"})
  /\ markLost' = (markLost \/ outputQueue.finished)
  /\ UNCHANGED <<mode, operator, process, stopped, server, faults>>

Runner == RunnerCloses \/ RunnerSucceeds \/ RunnerFails

-----------------------------------------------------------------------------
(* The node server. *)

RunnerDone == runner \in {"SUCCEED", "FAILED"}

(* stopMLRunner() on RESTART or STOP: the script is killed if it runs. *)
StopMLRunner ==
  /\ stopped' = TRUE
  /\ script' = IF script = "run" THEN "killed" ELSE script
  /\ UNCHANGED <<mode, queues, operator, todo, pending, emitted, runner, torn, markLost>>

(* RESTART is the master's answer to a failure of this node or of another. *)
Restart ==
  /\ server = "watch"
  /\ \/ runner = "FAILED" /\ UNCHANGED faults
     \/ runner # "FAILED" /\ faults < MaxFaults /\ faults' = faults + 1
  /\ server' = "restart"
  /\ StopMLRunner

Stop ==
  /\ server = "watch" /\ faults < MaxFaults
  /\ faults' = faults + 1
  /\ server' = "stop"
  /\ StopMLRunner

(* The one thread of the pool runs the new runner when the old one is over. *)
StartMLRunner ==
  /\ server = "restart" /\ RunnerDone
  /\ server' = "watch"
  /\ runner' = "run" /\ stopped' = FALSE
  /\ script' = "run" /\ todo' = Program /\ pending' = <<>> /\ emitted' = <<>>
  /\ UNCHANGED <<mode, queues, operator, notes>>

(* The loop ends: the script succeeded, STOP, or idle for too long. *)
LeaveLoop ==
  /\ \/ server = "watch" /\ runner = "SUCCEED" /\ server' = "cleanup"
     \/ server = "stop" /\ RunnerDone /\ server' = "cleanup"
     \/ server = "watch" /\ runner = "FAILED" /\ server' = "error"
  /\ UNCHANGED <<mode, queues, operator, process, runner, stopped, notes>>

Cleanup ==
  /\ server \in {"cleanup", "error"}
  /\ inputQueue' = [inputQueue EXCEPT !.finished = TRUE]
  /\ server' = IF server = "error" THEN "failed" ELSE "done"
  /\ UNCHANGED <<mode, outputQueue, operator, process, runner, stopped, notes>>

NodeServer == StartMLRunner \/ LeaveLoop \/ Cleanup

Next == Operator \/ Script \/ ScriptFails \/ Runner \/ Restart \/ Stop \/ NodeServer

Spec == Init /\ [][Next]_vars

(***************************************************************************)
(* The job may leave the operator without records for ever; the operator   *)
(* in a call, the script, the runner and the server go on.  A failed       *)
(* runner is restarted or the server gives up.                             *)
(***************************************************************************)
Fairness ==
  /\ WF_vars(Work /\ UNCHANGED <<mode, process, serving, notes>>)
  /\ WF_vars(Script)
  /\ WF_vars(Runner)
  /\ WF_vars(NodeServer)

FairSpec == Spec /\ Fairness

-----------------------------------------------------------------------------
(* Properties. *)

Cell == [part : {"size", "data"}, id : (0..Inputs) \X (1..Results)]

(* Every variable keeps its shape and neither queue holds more than its room. *)
TypeOK ==
  /\ mode \in Modes
  /\ outputQueue.data \in Seq(1..Inputs) /\ Len(outputQueue.data) <= OutRoom
  /\ inputQueue.data \in Seq(Cell) /\ Len(inputQueue.data \o pending) <= InRoom
  /\ {outputQueue.finished, inputQueue.finished, untilEOF, eof, stopped, torn, markLost} \subseteq BOOLEAN
  /\ opc \in {"idle", "drain", "size", "body", "write", "check", "join", "unwind", "returned", "threw"}
  /\ taken \in 0..Inputs
  /\ script \in {"run", "exited", "failed", "killed"}
  /\ todo \in Seq(Cell) /\ Len(todo) <= 2 * Results /\ Len(pending) <= 1
  /\ runner \in {"run", "ok", "bad", "SUCCEED", "FAILED"}
  /\ server \in {"watch", "restart", "stop", "cleanup", "error", "done", "failed"}
  /\ faults \in 0..MaxFaults

Ids(s) == [i \in 1..Len(s) |-> s[i].data.id]

(***************************************************************************)
(* In a job without failures the operator that has seen the end of the     *)
(* input queue has collected all that the script has written, and a map    *)
(* operator whose close() returned has collected the results of every      *)
(* record of the job.                                                      *)
(***************************************************************************)
NothingLost ==
  faults = 0 =>
    /\ eof => Ids(collected) = emitted
    /\ mode = "map" /\ opc = "returned" =>
         Ids(collected) = [i \in 1..Inputs * Results |->
                             <<1 + ((i - 1) \div Results), 1 + ((i - 1) % Results)>>]

Whole(r) == r.size.part = "size" /\ r.data.part = "data" /\ r.size.id = r.data.id

(***************************************************************************)
(* As long as the queues were never cleared during a call of the operator  *)
(* (MLContext.reset), a size and data that were read as one record were    *)
(* written as one record, although scripts die between the two and others  *)
(* take their place on the same queue.                                     *)
(***************************************************************************)
WholeRecords == ~torn => \A i \in 1..Len(collected) : Whole(collected[i])

(***************************************************************************)
(* Every record that the operator passes on is one that a script wrote: a  *)
(* read that meets the end inside a record "means corrupted file"          *)
(* (RecordReaderImpl.read) and is to fail.                                 *)
(***************************************************************************)
NeverJoined == \A i \in 1..Len(collected) : Whole(collected[i])

InFlatMap == mode = "map" /\ ~untilEOF /\ opc \in {"drain", "size", "body", "write"}
ServerOver == server \in {"done", "failed"}

(* The operator waits for data that the script has written and not published. *)
Withheld == opc = "body" /\ inputQueue.data = <<>> /\ pending # <<>> /\ todo = <<>>

(***************************************************************************)
(* flatMap returns although both queues are bounded and nobody else reads  *)
(* the input queue, unless the queues are cleared during the call, the     *)
(* node server is over, which flatMap does not look at, or the script      *)
(* waits for its next record while the data that flatMap waits for is      *)
(* unpublished.                                                            *)
(***************************************************************************)
FlatMapReturns == InFlatMap ~> (opc = "idle" \/ torn \/ ServerOver \/ Withheld)

(***************************************************************************)
(* What the comment in flatMap says of its loop: "to avoid dead lock       *)
(* between write queue and read queue".  flatMap returns as long as the    *)
(* queues are not cleared and the node server goes on.                     *)
(***************************************************************************)
NoDeadLock == InFlatMap ~> (opc = "idle" \/ torn \/ ServerOver)

InClose == untilEOF /\ opc \notin {"returned", "threw"}

(* The script of a source was started again although the source reads no more. *)
Unread == mode = "source" /\ opc \in {"join", "unwind"} /\ script = "run"

(***************************************************************************)
(* close() returns or throws, and so does the loop of a source: the script *)
(* is told the end, its end or death is seen by the operator, and the node *)
(* server finishes.  Not promised once a failed runner has cleared the     *)
(* queues under the operator or with them the mark that told the script    *)
(* the end, nor when a restart runs a script whose queue nobody reads.     *)
(***************************************************************************)
CloseReturns == InClose ~> (opc \in {"returned", "threw"} \/ torn \/ markLost \/ Unread)
=============================================================================
