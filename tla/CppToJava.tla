----------------------------- MODULE CppToJava -----------------------------
(***************************************************************************)
(* The queue from the Python process to the Flink operator: the C++        *)
(* SPSCQueueOutputStream, driven by JavaFile, writes; the Java             *)
(* QueueInputStream reads.  The process may die at any point; the runner   *)
(* on the Java side then sets the finish flag in its place.                *)
(***************************************************************************)
EXTENDS SpscQueue

CONSTANTS
  WriteLens,   \* lengths of the arrays that the process writes
  ReadLens,    \* numbers of bytes the operator asks for
  MaxWrite     \* bound of the model: positions written stay below it

ASSUME LensAssumption ==
  /\ WriteLens \subseteq Nat
  /\ ReadLens \subseteq Nat \ {0}
  /\ MaxWrite \in Nat

VARIABLES
  wpc,       \* where the producer is
  offer,     \* toMove_: bytes offered by Next() and not yet published
  left,      \* remain: bytes of the call that are still to be copied
  accepted,  \* bytes copied into the queue by writeBytes so far
  rpc,       \* where the consumer thread is
  held,      \* bytesToRead copied but not yet released
  want,      \* size - readed
  got,       \* readed > 0
  taken,     \* bytes handed to the caller so far
  buf        \* the bytes of the last copy, by position

producerVars == <<wpc, offer, left, accepted>>
consumerVars == <<rpc, held, want, got, taken, buf>>
vars == <<queueVars, producerVars, consumerVars>>

Init ==
  /\ QueueInit
  /\ wpc = "idle" /\ offer = 0 /\ left = 0 /\ accepted = 0
  /\ rpc = "idle" /\ held = 0 /\ want = 0 /\ got = FALSE /\ taken = 0
  /\ buf = [i \in {} |-> Blank]

-----------------------------------------------------------------------------
(* The producer. *)

(* writeBytes(val, n) *)
WriteBytes(n) ==
  /\ wpc = "idle"
  /\ accepted + n <= MaxWrite
  /\ left' = n
  /\ wpc' = "next"
  /\ UNCHANGED <<queueVars, offer, accepted, consumerVars>>

(* updateWritePtr() on entry of Next(): what was offered is published. *)
UpdateWritePtr ==
  /\ wpc = "next"
  /\ write' = write + offer
  /\ offer' = 0
  /\ wpc' = "check"
  /\ UNCHANGED <<read, writeCache, readCache, finish, cells,
                 left, accepted, consumerVars>>

(* The loop that waits until at least one cell is free. *)
AwaitSpace ==
  /\ wpc = "check"
  /\ readCache <= write - Capacity
  /\ readCache' = read
  /\ UNCHANGED <<read, writeCache, write, finish, cells,
                 producerVars, consumerVars>>

(* Mutant: the whole rest of the turn is offered although part is unread. *)
bytesToWrite_Turn == nextWrap(write) - write

(* The free space up to the end of the array. *)
bytesToWrite ==
  IF readCache >= prevWrap(write)
  THEN nextWrap(write) - write
  ELSE Capacity - (write - readCache)

Grant ==
  /\ wpc = "check"
  /\ readCache > write - Capacity
  /\ offer' = bytesToWrite
  /\ wpc' = "granted"
  /\ UNCHANGED <<queueVars, left, accepted, consumerVars>>

(* Mutant: writeBytes never backs up. *)
CopyIn_NoBackUp ==
  /\ wpc = "granted"
  /\ LET s == Smaller(left, offer)
     IN /\ cells' = Store(write, s)
        /\ accepted' = accepted + s
        /\ left' = left - s
        /\ wpc' = IF offer >= left THEN "idle" ELSE "next"
  /\ UNCHANGED <<read, writeCache, write, readCache, finish, offer, consumerVars>>

(***************************************************************************)
(* writeBytes fills the offer.  It backs up what it does not need, which   *)
(* publishes the rest; an offer that is used up stays unpublished until    *)
(* the next call of Next() or close().                                     *)
(***************************************************************************)
CopyIn ==
  /\ wpc = "granted"
  /\ LET s == Smaller(left, offer)
     IN /\ cells' = Store(write, s)
        /\ accepted' = accepted + s
        /\ left' = left - s
        /\ offer' = s
        /\ wpc' = IF offer > left THEN "backup"
                  ELSE IF offer = left THEN "idle" ELSE "next"
  /\ UNCHANGED <<read, writeCache, write, readCache, finish, consumerVars>>

(* updateWritePtr() in BackUp() *)
BackUp ==
  /\ wpc = "backup"
  /\ write' = write + offer
  /\ offer' = 0
  /\ wpc' = "idle"
  /\ UNCHANGED <<read, writeCache, readCache, finish, cells,
                 left, accepted, consumerVars>>

(* Mutant: close() sets the flag only. *)
CloseUpdate_FlagOnly ==
  /\ wpc = "idle"
  /\ wpc' = "closing"
  /\ UNCHANGED <<queueVars, offer, left, accepted, consumerVars>>

(* close(): updateWritePtr() ... *)
CloseUpdate ==
  /\ wpc = "idle"
  /\ write' = write + offer
  /\ offer' = 0
  /\ wpc' = "closing"
  /\ UNCHANGED <<read, writeCache, readCache, finish, cells,
                 left, accepted, consumerVars>>

(* ... then markFinished() *)
CloseMark ==
  /\ wpc = "closing"
  /\ finish' = TRUE
  /\ wpc' = "closed"
  /\ UNCHANGED <<read, writeCache, write, readCache, cells,
                 offer, left, accepted, consumerVars>>

(* The process dies: what it had not published stays invisible. *)
Die ==
  /\ wpc \notin {"closed", "dead"}
  /\ wpc' = "dead"
  /\ UNCHANGED <<queueVars, offer, left, accepted, consumerVars>>

(* Mutant: the runner goes away without setting the flag. *)
RunnerMarks_Not ==
  /\ wpc = "dead" /\ ~finish
  /\ UNCHANGED vars

(* The runner closes after the process is gone and sets the flag. *)
RunnerMarks ==
  /\ wpc = "dead" /\ ~finish
  /\ finish' = TRUE
  /\ UNCHANGED <<read, writeCache, write, readCache, cells,
                 producerVars, consumerVars>>

-----------------------------------------------------------------------------
(* The consumer. *)

(* Where readOnce goes when `r' is the read position. *)
enterReadOnce(r) == IF r < writeCache THEN "copy" ELSE "load"

(* read(b, off, n) *)
Read(n) ==
  /\ rpc = "idle"
  /\ want' = n
  /\ got' = FALSE
  /\ rpc' = enterReadOnce(read)
  /\ UNCHANGED <<queueVars, producerVars, held, taken, buf>>

(* available(): the copy of the write position is refreshed when it is used up. *)
Available ==
  /\ rpc = "idle"
  /\ read >= writeCache
  /\ writeCache' = write
  /\ UNCHANGED <<read, write, readCache, finish, cells, producerVars, consumerVars>>

(* setWriteCache(getWrite()) in the waiting loop *)
LoadWrite ==
  /\ rpc = "load"
  /\ writeCache' = write
  /\ rpc' = IF read < write THEN "copy" ELSE "finished"
  /\ UNCHANGED <<read, write, readCache, finish, cells,
                 producerVars, held, want, got, taken, buf>>

(* isFinished(), else sleep and load again *)
IsFinished ==
  /\ rpc = "finished"
  /\ rpc' = IF finish THEN "recheck" ELSE "load"
  /\ UNCHANGED <<queueVars, producerVars, held, want, got, taken, buf>>

(* Mutant: the flag alone decides. *)
RecheckWrite_FlagOnly ==
  /\ rpc = "recheck"
  /\ rpc' = IF got THEN "idle" ELSE "eof"
  /\ UNCHANGED <<queueVars, producerVars, held, want, got, taken, buf>>

(***************************************************************************)
(* The double check of the write position after the flag was seen.  At the *)
(* end of the stream a read that has got some bytes returns them; one that *)
(* has got none returns -1.                                                *)
(***************************************************************************)
RecheckWrite ==
  /\ rpc = "recheck"
  /\ writeCache' = write
  /\ rpc' = IF read < write THEN "copy" ELSE IF got THEN "idle" ELSE "eof"
  /\ UNCHANGED <<read, write, readCache, finish, cells,
                 producerVars, held, want, got, taken, buf>>

(* copyMemory of what is wanted, up to the end of the array *)
CopyOut ==
  /\ rpc = "copy"
  /\ held' = Smaller(Smaller(writeCache, nextWrap(read)) - read, want)
  /\ buf' = Load(read, held')
  /\ taken' = taken + held'
  /\ want' = want - held'
  /\ got' = TRUE
  /\ rpc' = "release"
  /\ UNCHANGED <<queueVars, producerVars>>

(* setRead, then the loop of read() *)
Release ==
  /\ rpc = "release"
  /\ read' = read + held
  /\ held' = 0
  /\ rpc' = IF want = 0 THEN "idle" ELSE enterReadOnce(read')
  /\ UNCHANGED <<writeCache, write, readCache, finish, cells,
                 producerVars, want, got, taken, buf>>

(* Both ends are done. *)
Done ==
  /\ wpc \in {"closed", "dead"} /\ rpc = "eof"
  /\ UNCHANGED vars

-----------------------------------------------------------------------------
ProducerStep ==
  \/ UpdateWritePtr \/ AwaitSpace \/ Grant \/ CopyIn \/ BackUp \/ CloseMark

ProducerCall ==
  \/ \E n \in WriteLens : WriteBytes(n)
  \/ CloseUpdate
  \/ Die

ConsumerStep ==
  \/ LoadWrite \/ IsFinished \/ RecheckWrite \/ CopyOut \/ Release

ReadSome == \E n \in ReadLens : Read(n)

ConsumerCall == ReadSome \/ Available

Next ==
  \/ ProducerStep \/ ProducerCall \/ RunnerMarks
  \/ ConsumerStep \/ ConsumerCall
  \/ Done

Spec == Init /\ [][Next]_vars

(***************************************************************************)
(* Both sides run, the runner notices that the process is gone, and the    *)
(* operator keeps reading until the end of the stream.                     *)
(***************************************************************************)
Fairness ==
  /\ WF_vars(ProducerStep)
  /\ WF_vars(RunnerMarks)
  /\ WF_vars(ConsumerStep)
  /\ SF_vars(ReadSome)

FairSpec == Spec /\ Fairness

-----------------------------------------------------------------------------
(* Properties. *)

(* The types of the variables. *)
TypeOK ==
  /\ QueueTypeOK
  /\ wpc \in {"idle", "next", "check", "granted", "backup",
              "closing", "closed", "dead"}
  /\ offer \in Nat /\ left \in Nat /\ accepted \in Nat
  /\ rpc \in {"idle", "load", "finished", "recheck", "copy", "release", "eof"}
  /\ held \in Nat /\ want \in Nat /\ got \in BOOLEAN /\ taken \in Nat

(***************************************************************************)
(* Every byte the operator gets is the byte the process wrote at that      *)
(* place of the stream, also when the process dies in the middle of a      *)
(* call: an offer that was not filled is never published.                  *)
(***************************************************************************)
InOrder ==
  /\ \A i \in DOMAIN buf : buf[i] = i
  /\ rpc = "copy" => read = taken
  /\ taken <= accepted

(***************************************************************************)
(* The cells that Next() offers to the process are free of unread bytes,   *)
(* and no copy of either side leaves the array.                            *)
(***************************************************************************)
NoSharedCell ==
  /\ write + offer <= read + Capacity
  /\ cell(write) + offer <= Capacity
  /\ cell(read) + held <= Capacity

(***************************************************************************)
(* -1 is returned only after the flag was set and every published byte was *)
(* handed over, and if the process closed the queue itself, every byte it  *)
(* wrote: the double check of readOnce, and updateWritePtr() in close().   *)
(***************************************************************************)
EofMeansDrained ==
  rpc = "eof" => finish /\ taken = write /\ (wpc = "closed" => taken = accepted)

(***************************************************************************)
(* Whether the process closes the queue or dies, the operator reaches the  *)
(* end of the stream: it never waits for a process that is gone.           *)
(***************************************************************************)
EndIsReached == wpc \in {"closed", "dead"} ~> rpc = "eof"

(***************************************************************************)
(* writeBytes returns, for every length, as long as the operator keeps     *)
(* reading: the process is never stuck at a full queue.                    *)
(***************************************************************************)
WriteReturns == wpc = "next" ~> wpc \in {"idle", "dead"}

(* The two ends and the shared memory implement the byte channel. *)
Channel == INSTANCE ByteChannel
             WITH sent <- write, delivered <- taken,
                  closed <- finish, ended <- (rpc = "eof")

ImplementsChannel == Channel!Spec
=============================================================================
