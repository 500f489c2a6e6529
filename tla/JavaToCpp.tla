----------------------------- MODULE JavaToCpp -----------------------------
(***************************************************************************)
(* The queue from the Flink operator to the Python process: the Java       *)
(* QueueOutputStream, driven by RecordWriterImpl, writes; the C++          *)
(* SPSCQueueInputStream, driven by JavaFile, reads.  Every access of one   *)
(* side to memory that the other side stores is a step of its own, and so  *)
(* is every bulk copy, so the two sides interleave as their threads do.    *)
(***************************************************************************)
EXTENDS SpscQueue

CONSTANTS
  HeaderLen,   \* length of the size field in front of a record
  RecordLens,  \* lengths of the records that the operator writes
  WriteLens,   \* lengths of the arrays written without a reservation
  ReadLens,    \* numbers of bytes the process asks for
  MaxWrite     \* bound of the model: positions written stay below it

ASSUME LensAssumption ==
  /\ HeaderLen \in Nat
  /\ RecordLens \subseteq Nat /\ WriteLens \subseteq Nat
  /\ ReadLens \subseteq Nat
  /\ MaxWrite \in Nat

VARIABLES
  wpc,       \* where the producer thread is
  mark,      \* readWatermark of the write in progress
  left,      \* len - written of the write in progress
  chunk,     \* bytesToWrite copied but not yet published
  body,      \* length of the record part still to be written, or NoBody
  reserved,  \* the write in progress follows a successful tryReserve
  rpc,       \* where the consumer thread is
  toMove,    \* toMove_: bytes offered by Next() and not yet released
  want,      \* remain: bytes the caller still asks for
  taken,     \* bytes handed to the caller so far
  buf        \* the bytes of the last copy, by position

producerVars == <<wpc, mark, left, chunk, body, reserved>>
consumerVars == <<rpc, toMove, want, taken, buf>>
vars == <<queueVars, producerVars, consumerVars>>

NoBody == -1

Init ==
  /\ QueueInit
  /\ wpc = "idle" /\ mark = 0 /\ left = 0 /\ chunk = 0
  /\ body = NoBody /\ reserved = FALSE
  /\ rpc = "idle" /\ toMove = 0 /\ want = 0 /\ taken = 0
  /\ buf = [i \in {} |-> Blank]

-----------------------------------------------------------------------------
(* The producer. *)

(* Mutant: the length of the write is forgotten. *)
readWatermark_NoLen(len) == write - Capacity

(* A write of len bytes may start only when read is beyond this position. *)
readWatermark(len) == write - (Capacity - len)

(* The read position that tryReserve(len) compares with the watermark. *)
reserveCache(len) == IF readCache <= readWatermark(len) THEN read ELSE readCache

tryReserve(len) == reserveCache(len) > readWatermark(len)

(* Entry of QueueOutputStream.write(b, off, len). *)
enterWrite(len) ==
  /\ wpc' = "check"
  /\ mark' = readWatermark(len)
  /\ left' = len

(* Mutant: the size field is not part of the reservation. *)
WriteRecord_BodyOnly(len) ==
  /\ wpc = "idle"
  /\ write + HeaderLen + len <= MaxWrite
  /\ tryReserve(len)
  /\ readCache' = reserveCache(len)
  /\ enterWrite(HeaderLen)
  /\ body' = len
  /\ reserved' = TRUE
  /\ UNCHANGED <<read, writeCache, write, finish, cells, chunk, consumerVars>>

(* RecordWriterImpl.write: the space is reserved, the size field is written. *)
WriteRecord(len) ==
  /\ wpc = "idle"
  /\ write + HeaderLen + len <= MaxWrite
  /\ tryReserve(HeaderLen + len)
  /\ readCache' = reserveCache(HeaderLen + len)
  /\ enterWrite(HeaderLen)
  /\ body' = len
  /\ reserved' = TRUE
  /\ UNCHANGED <<read, writeCache, write, finish, cells, chunk, consumerVars>>

(* RecordWriterImpl.write: no space, return false. *)
RefuseRecord(len) ==
  /\ wpc = "idle"
  /\ write + HeaderLen + len <= MaxWrite
  /\ ~tryReserve(HeaderLen + len)
  /\ readCache' = reserveCache(HeaderLen + len)
  /\ UNCHANGED <<read, writeCache, write, finish, cells, producerVars, consumerVars>>

(* QueueOutputStream.write called without a reservation. *)
WriteBytes(len) ==
  /\ wpc = "idle"
  /\ write + len <= MaxWrite
  /\ enterWrite(len)
  /\ body' = NoBody
  /\ reserved' = FALSE
  /\ UNCHANGED <<queueVars, chunk, consumerVars>>

(* The loop that waits for space: leave it ... *)
HasSpace ==
  /\ wpc = "check"
  /\ readCache > mark
  /\ wpc' = "copy"
  /\ UNCHANGED <<queueVars, mark, left, chunk, body, reserved, consumerVars>>

(* Mutant: the wait looks at the stale copy only. *)
AwaitSpace_Stale == wpc = "check" /\ readCache <= mark /\ UNCHANGED vars

(* ... or refresh the copy of the read position and look again. *)
AwaitSpace ==
  /\ wpc = "check"
  /\ readCache <= mark
  /\ readCache' = read
  /\ UNCHANGED <<read, writeCache, write, finish, cells, producerVars, consumerVars>>

(* Mutant: one copy, whether or not it fits before the end of the array. *)
CopyIn_NoWrap ==
  /\ wpc = "copy"
  /\ left > 0
  /\ chunk' = left
  /\ cells' = Store(write, chunk')
  /\ wpc' = "publish"
  /\ UNCHANGED <<read, writeCache, write, readCache, finish,
                 mark, left, body, reserved, consumerVars>>

(* Copy up to the end of the array. *)
CopyIn ==
  /\ wpc = "copy"
  /\ left > 0
  /\ chunk' = Smaller(left, nextWrap(write) - write)
  /\ cells' = Store(write, chunk')
  /\ wpc' = "publish"
  /\ UNCHANGED <<read, writeCache, write, readCache, finish,
                 mark, left, body, reserved, consumerVars>>

(* setWrite: the copied bytes become visible to the consumer. *)
PublishWrite ==
  /\ wpc = "publish"
  /\ write' = write + chunk
  /\ left' = left - chunk
  /\ chunk' = 0
  /\ wpc' = "copy"
  /\ UNCHANGED <<read, writeCache, readCache, finish, cells,
                 mark, body, reserved, consumerVars>>

(* The size field is written: RecordWriterImpl writes the record itself. *)
WriteBody ==
  /\ wpc = "copy" /\ left = 0
  /\ body # NoBody
  /\ enterWrite(body)
  /\ body' = NoBody
  /\ UNCHANGED <<queueVars, chunk, reserved, consumerVars>>

(* The write returns. *)
EndWrite ==
  /\ wpc = "copy" /\ left = 0
  /\ body = NoBody
  /\ wpc' = "idle"
  /\ reserved' = FALSE
  /\ UNCHANGED <<queueVars, mark, left, chunk, body, consumerVars>>

(* Mutant: the producer goes away without setting the flag. *)
Close_NoFlag ==
  /\ wpc = "idle"
  /\ wpc' = "closed"
  /\ UNCHANGED <<queueVars, mark, left, chunk, body, reserved, consumerVars>>

(* close(): markFinished, after which the operator writes no more. *)
Close ==
  /\ wpc = "idle"
  /\ finish' = TRUE
  /\ wpc' = "closed"
  /\ UNCHANGED <<read, writeCache, write, readCache, cells,
                 mark, left, chunk, body, reserved, consumerVars>>

-----------------------------------------------------------------------------
(* The consumer. *)

(* readBytes(buf, n) *)
ReadBytes(n) ==
  /\ rpc = "idle"
  /\ want' = n
  /\ rpc' = "next"
  /\ UNCHANGED <<queueVars, producerVars, toMove, taken, buf>>

(* updateReadPtr() on entry of Next(): what the last call offered is released. *)
UpdateReadPtr ==
  /\ rpc = "next"
  /\ read' = read + toMove
  /\ toMove' = 0
  /\ rpc' = IF read' < writeCache THEN "grant" ELSE "load"
  /\ UNCHANGED <<writeCache, write, readCache, finish, cells,
                 producerVars, want, taken, buf>>

(* setWriteCache(getWrite()) in the waiting loop *)
LoadWrite ==
  /\ rpc = "load"
  /\ writeCache' = write
  /\ rpc' = IF read < write THEN "grant" ELSE "finished"
  /\ UNCHANGED <<read, write, readCache, finish, cells,
                 producerVars, toMove, want, taken, buf>>

(* isFinished(), else yield and load again *)
IsFinished ==
  /\ rpc = "finished"
  /\ rpc' = IF finish THEN "recheck" ELSE "load"
  /\ UNCHANGED <<queueVars, producerVars, toMove, want, taken, buf>>

(* The double check of the write position after the flag was seen. *)
RecheckWrite ==
  /\ rpc = "recheck"
  /\ writeCache' = write
  /\ rpc' = IF read < write THEN "grant" ELSE "eof"
  /\ UNCHANGED <<read, write, readCache, finish, cells,
                 producerVars, toMove, want, taken, buf>>

(* Next() offers the bytes up to the end of the array. *)
Grant ==
  /\ rpc = "grant"
  /\ toMove' = Smaller(writeCache, nextWrap(read)) - read
  /\ rpc' = "granted"
  /\ UNCHANGED <<queueVars, producerVars, want, taken, buf>>

(* Mutant: BackUp() releases the whole offer. *)
CopyOut_NoBackUp ==
  /\ rpc = "granted"
  /\ LET s == Smaller(want, toMove)
     IN /\ buf' = Load(read, s)
        /\ taken' = taken + s
        /\ want' = want - s
        /\ rpc' = IF toMove > want THEN "backup"
                  ELSE IF toMove = want THEN "idle" ELSE "next"
  /\ UNCHANGED <<queueVars, producerVars, toMove>>

(***************************************************************************)
(* readBytes copies what it needs of the offer.  It backs up what it does  *)
(* not need, which also releases the rest; an offer that is used up stays  *)
(* protected until the next call of Next().                                *)
(***************************************************************************)
CopyOut ==
  /\ rpc = "granted"
  /\ LET s == Smaller(want, toMove)
     IN /\ buf' = Load(read, s)
        /\ taken' = taken + s
        /\ want' = want - s
        /\ toMove' = s
        /\ rpc' = IF toMove > want THEN "backup"
                  ELSE IF toMove = want THEN "idle" ELSE "next"
  /\ UNCHANGED <<queueVars, producerVars>>

(* updateReadPtr() in BackUp() *)
BackUp ==
  /\ rpc = "backup"
  /\ read' = read + toMove
  /\ toMove' = 0
  /\ rpc' = "idle"
  /\ UNCHANGED <<writeCache, write, readCache, finish, cells,
                 producerVars, want, taken, buf>>

(* Both ends are done. *)
Done ==
  /\ wpc = "closed" /\ rpc = "eof"
  /\ UNCHANGED vars

-----------------------------------------------------------------------------
ProducerStep ==
  \/ HasSpace \/ AwaitSpace \/ CopyIn \/ PublishWrite \/ WriteBody \/ EndWrite

ProducerCall ==
  \/ \E len \in RecordLens : WriteRecord(len) \/ RefuseRecord(len)
  \/ \E len \in WriteLens : WriteBytes(len)
  \/ Close

ConsumerStep ==
  \/ UpdateReadPtr \/ LoadWrite \/ IsFinished \/ RecheckWrite
  \/ Grant \/ CopyOut \/ BackUp

ConsumerCall == \E n \in ReadLens : ReadBytes(n)

ReadSome == \E n \in ReadLens \ {0} : ReadBytes(n)

Next == ProducerStep \/ ProducerCall \/ ConsumerStep \/ ConsumerCall \/ Done

Spec == Init /\ [][Next]_vars

(***************************************************************************)
(* Both threads run: neither loop holds a lock or blocks the other side.   *)
(* The process keeps asking for bytes until the end of the stream: its     *)
(* read loop asks for a size field, which is not empty, again and again.   *)
(***************************************************************************)
Fairness ==
  /\ WF_vars(ProducerStep)
  /\ WF_vars(ConsumerStep)
  /\ SF_vars(ReadSome)

FairSpec == Spec /\ Fairness

-----------------------------------------------------------------------------
(* Properties. *)

(* The types of the variables. *)
TypeOK ==
  /\ QueueTypeOK
  /\ wpc \in {"idle", "check", "copy", "publish", "closed"}
  /\ mark \in Int /\ left \in Nat /\ chunk \in Nat
  /\ body \in Nat \cup {NoBody} /\ reserved \in BOOLEAN
  /\ rpc \in {"idle", "next", "load", "finished", "recheck", "grant",
              "granted", "backup", "eof"}
  /\ toMove \in Nat /\ want \in Nat /\ taken \in Nat

(***************************************************************************)
(* Every byte the process gets is the byte the operator wrote at that      *)
(* place of the stream: nothing is lost, repeated, reordered or            *)
(* overwritten before it was copied (write() waits for the watermark,      *)
(* Next() protects what it offers).                                        *)
(***************************************************************************)
InOrder ==
  /\ \A i \in DOMAIN buf : buf[i] = i
  /\ rpc = "granted" => read = taken

(***************************************************************************)
(* The cells that the producer copies into and the cells that the consumer *)
(* has been offered are never the same, and no copy of either side leaves  *)
(* the array (copyMemory is called with at most nextWrap - position).      *)
(***************************************************************************)
NoSharedCell ==
  /\ write + chunk <= read + Capacity
  /\ cell(write) + chunk <= Capacity
  /\ cell(read) + toMove <= Capacity

(***************************************************************************)
(* The end of the stream is reported only after the flag was set and every *)
(* byte written before close() was handed over: the double check of the    *)
(* write position in Next().                                               *)
(***************************************************************************)
EofMeansDrained == rpc = "eof" => finish /\ taken = write

(***************************************************************************)
(* After a successful tryReserve the two writes of RecordWriterImpl.write  *)
(* never wait for space: a record is never torn by a full queue, which is  *)
(* why flatMap can go on reading results when the queue is full.           *)
(***************************************************************************)
ReservedNeverWaits == wpc = "check" /\ reserved => readCache > mark

(***************************************************************************)
(* Once the operator has closed the queue, the process gets every byte and *)
(* then the end of the stream.                                             *)
(***************************************************************************)
ClosedIsDrained == wpc = "closed" ~> (rpc = "eof" /\ taken = write)

(***************************************************************************)
(* "wait until there is enough space to write" (write): a write returns as *)
(* long as the process keeps reading.                                      *)
(***************************************************************************)
WriteReturns == wpc = "check" ~> wpc = "idle"

(* The two ends and the shared memory implement the byte channel. *)
Channel == INSTANCE ByteChannel
             WITH sent <- write, delivered <- taken,
                  closed <- finish, ended <- (rpc = "eof")

ImplementsChannel == Channel!Spec
=============================================================================
