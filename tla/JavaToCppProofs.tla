-------------------------- MODULE JavaToCppProofs --------------------------
(***************************************************************************)
(* Safety of the queue from the operator to the process, for every         *)
(* capacity and every length of records, arrays and reads.                 *)
(*                                                                         *)
(* None of the properties is inductive.  What makes them hold is the order *)
(*   readCache <= read <= read + toMove <= writeCache <= write             *)
(*   write + chunk <= readCache + Capacity                                 *)
(* which each side keeps knowing only a stale copy of the other's          *)
(* position, and the fact that the cells of the unread positions hold      *)
(* their bytes.                                                            *)
(***************************************************************************)
EXTENDS JavaToCpp, SpscQueueProofs

Writing == wpc \in {"check", "copy", "publish"}

(* What the producer knows. *)
ProducerInv ==
  /\ readCache <= read
  /\ write <= readCache + Capacity
  /\ Writing => mark = write + left - Capacity
  /\ wpc \in {"copy", "publish"} => readCache > mark
  /\ wpc # "publish" => chunk = 0
  /\ wpc = "publish" => chunk <= left /\ cell(write) + chunk <= Capacity
  /\ reserved => /\ Writing
                 /\ readCache > mark + (IF body = NoBody THEN 0 ELSE body)
  /\ finish <=> wpc = "closed"

(* What the consumer knows. *)
ConsumerInv ==
  /\ read + toMove <= writeCache
  /\ writeCache <= write
  /\ cell(read) + toMove <= Capacity
  /\ rpc \in {"load", "finished", "recheck", "grant", "eof"} => toMove = 0
  /\ taken = (IF rpc = "granted" THEN read ELSE read + toMove)
  /\ rpc = "grant" => read < writeCache
  /\ rpc = "recheck" => finish
  /\ rpc = "eof" => finish /\ read = write

(* The bytes that are still to be read, the unpublished ones included. *)
DataIntact == \A i \in read .. (write + chunk - 1) : cells[cell(i)] = i

BufIntact == \A i \in DOMAIN buf : buf[i] = i

IndInv == TypeOK /\ ProducerInv /\ ConsumerInv /\ DataIntact /\ BufIntact

-----------------------------------------------------------------------------
LEMMA InitInv == Init => IndInv
<1> SUFFICES ASSUME Init PROVE IndInv
  OBVIOUS
<1>1. cell(0) = 0
  BY CapacityAssumption DEF cell
<1>2. BufIntact
  BY DEF Init, BufIntact
<1>3. TypeOK
  <2>1. cells \in [Cells -> Nat \cup {Blank}]
    BY DEF Init, QueueInit
  <2>2. QueueTypeOK
    BY <2>1 DEF Init, QueueInit, QueueTypeOK
  <2>3. reserved \in BOOLEAN /\ body \in Nat \cup {NoBody}
    BY DEF Init
  <2> QED
    BY <2>2, <2>3 DEF Init, TypeOK
<1> QED
  BY <1>1, <1>2, <1>3, CapacityAssumption
     DEF Init, QueueInit, IndInv, ProducerInv, ConsumerInv, DataIntact, Writing

(* The steps that start a call of the producer. *)
LEMMA ProducerCallInv ==
  ASSUME IndInv, ProducerCall
  PROVE  IndInv'
<1> USE CapacityAssumption, LensAssumption DEF queueVars, producerVars, consumerVars
<1>1. ASSUME NEW len \in RecordLens, WriteRecord(len) PROVE IndInv'
  <2>1. len \in Nat /\ HeaderLen \in Nat
    OBVIOUS
  <2>2. /\ readCache' <= read
        /\ readCache <= readCache'
        /\ readCache' \in Nat
        /\ readCache' > write - (Capacity - (HeaderLen + len))
    BY <1>1, <2>1 DEF WriteRecord, tryReserve, reserveCache, readWatermark,
                      IndInv, TypeOK, QueueTypeOK, ProducerInv
  <2>3. /\ wpc' = "check" /\ left' = HeaderLen /\ body' = len
        /\ mark' = write - (Capacity - HeaderLen)
    BY <1>1 DEF WriteRecord, enterWrite, readWatermark
  <2>4. TypeOK'
    BY <1>1, <2>1, <2>2, <2>3 DEF WriteRecord, IndInv, TypeOK, QueueTypeOK
  <2>5. ProducerInv'
    BY <1>1, <2>1, <2>2, <2>3
       DEF WriteRecord, IndInv, TypeOK, QueueTypeOK, ProducerInv, Writing, NoBody
  <2>6. ConsumerInv' /\ DataIntact' /\ BufIntact'
    BY <1>1 DEF WriteRecord, IndInv, ConsumerInv, DataIntact, BufIntact, cell
  <2> QED
    BY <2>4, <2>5, <2>6 DEF IndInv
<1>2. ASSUME NEW len \in RecordLens, RefuseRecord(len) PROVE IndInv'
  <2>1. /\ readCache' <= read
        /\ readCache <= readCache'
        /\ readCache' \in Nat
    BY <1>2 DEF RefuseRecord, reserveCache, readWatermark,
                IndInv, TypeOK, QueueTypeOK, ProducerInv
  <2>2. TypeOK'
    BY <1>2, <2>1 DEF RefuseRecord, IndInv, TypeOK, QueueTypeOK
  <2>3. ProducerInv'
    BY <1>2, <2>1
       DEF RefuseRecord, IndInv, TypeOK, QueueTypeOK, ProducerInv, Writing, NoBody, cell
  <2>4. ConsumerInv' /\ DataIntact' /\ BufIntact'
    BY <1>2 DEF RefuseRecord, IndInv, ConsumerInv, DataIntact, BufIntact, cell
  <2> QED
    BY <2>2, <2>3, <2>4 DEF IndInv
<1>3. ASSUME NEW len \in WriteLens, WriteBytes(len) PROVE IndInv'
  <2>1. len \in Nat
    OBVIOUS
  <2>2. /\ wpc' = "check" /\ left' = len /\ body' = NoBody
        /\ mark' = write - (Capacity - len)
    BY <1>3 DEF WriteBytes, enterWrite, readWatermark
  <2>3. TypeOK'
    <3>1. (body \in Nat \cup {NoBody})' /\ (reserved \in BOOLEAN)'
      BY <1>3, <2>2 DEF WriteBytes
    <3>2. (mark \in Int /\ left \in Nat)'
      BY <2>1, <2>2 DEF IndInv, TypeOK, QueueTypeOK
    <3> QED
      BY <1>3, <2>2, <3>1, <3>2 DEF WriteBytes, IndInv, TypeOK, QueueTypeOK
  <2>4. ProducerInv'
    BY <1>3, <2>1, <2>2
       DEF WriteBytes, IndInv, TypeOK, QueueTypeOK, ProducerInv, Writing
  <2>5. ConsumerInv' /\ DataIntact' /\ BufIntact'
    BY <1>3 DEF WriteBytes, IndInv, ConsumerInv, DataIntact, BufIntact, cell
  <2> QED
    BY <2>3, <2>4, <2>5 DEF IndInv
<1>4. CASE Close
  <2>1. TypeOK' /\ ProducerInv'
    BY <1>4 DEF Close, IndInv, TypeOK, QueueTypeOK, ProducerInv, Writing, cell
  <2>2. ConsumerInv' /\ DataIntact' /\ BufIntact'
    BY <1>4 DEF Close, IndInv, ConsumerInv, DataIntact, BufIntact, cell
  <2> QED
    BY <2>1, <2>2 DEF IndInv
<1> QED
  BY <1>1, <1>2, <1>3, <1>4 DEF ProducerCall

(* The steps inside a call of the producer. *)
LEMMA ProducerStepInv ==
  ASSUME IndInv, ProducerStep
  PROVE  IndInv'
<1> USE CapacityAssumption DEF queueVars, producerVars, consumerVars
<1>1. CASE HasSpace
  <2>1. TypeOK' /\ ProducerInv'
    BY <1>1 DEF HasSpace, IndInv, TypeOK, QueueTypeOK, ProducerInv, Writing, cell
  <2>2. ConsumerInv' /\ DataIntact' /\ BufIntact'
    BY <1>1 DEF HasSpace, IndInv, ConsumerInv, DataIntact, BufIntact, cell
  <2> QED
    BY <2>1, <2>2 DEF IndInv
<1>2. CASE AwaitSpace
  <2>1. TypeOK'
    BY <1>2 DEF AwaitSpace, IndInv, TypeOK, QueueTypeOK
  <2>2. ProducerInv'
    BY <1>2
       DEF AwaitSpace, IndInv, TypeOK, QueueTypeOK, ProducerInv, Writing, NoBody, cell
  <2>3. ConsumerInv' /\ DataIntact' /\ BufIntact'
    BY <1>2 DEF AwaitSpace, IndInv, ConsumerInv, DataIntact, BufIntact, cell
  <2> QED
    BY <2>1, <2>2, <2>3 DEF IndInv
<1>3. CASE CopyIn
  <2>1. /\ cell(write) \in 0 .. (Capacity - 1)
        /\ nextWrap(write) = write - cell(write) + Capacity
    BY CellType, NextWrapValue DEF IndInv, TypeOK, QueueTypeOK, Cells
  <2>2. /\ chunk' \in Nat /\ chunk' <= left
        /\ cell(write) + chunk' <= Capacity
    BY <1>3, <2>1 DEF CopyIn, Smaller, IndInv, TypeOK, QueueTypeOK
  <2>3. /\ read \in Nat /\ write \in Nat /\ read <= write
        /\ write + chunk' <= read + Capacity
    BY <1>3, <2>2 DEF CopyIn, IndInv, TypeOK, QueueTypeOK, ProducerInv, ConsumerInv, Writing
  <2>4. \A i \in read .. (write - 1) : cells[cell(i)] = i
    BY <1>3 DEF CopyIn, IndInv, DataIntact, ProducerInv, TypeOK, QueueTypeOK
  <2>5. /\ cells' \in [Cells -> Nat \cup {Blank}]
        /\ \A i \in read .. (write + chunk' - 1) : cells'[cell(i)] = i
    BY <1>3, <2>2, <2>3, <2>4, StoreIntact DEF CopyIn, IndInv, TypeOK, QueueTypeOK
  <2>6. TypeOK'
    BY <1>3, <2>2, <2>5 DEF CopyIn, IndInv, TypeOK, QueueTypeOK, Blank, Cells
  <2>7. ProducerInv'
    BY <1>3, <2>2
       DEF CopyIn, IndInv, TypeOK, QueueTypeOK, ProducerInv, Writing, NoBody, cell
  <2>8. ConsumerInv' /\ BufIntact'
    BY <1>3 DEF CopyIn, IndInv, ConsumerInv, BufIntact, cell
  <2>9. DataIntact'
    BY <1>3, <2>5 DEF CopyIn, DataIntact, cell
  <2> QED
    BY <2>6, <2>7, <2>8, <2>9 DEF IndInv
<1>4. CASE PublishWrite
  <2>1. /\ write' = write + chunk /\ left' = left - chunk /\ chunk' = 0
        /\ write' \in Nat /\ left' \in Nat /\ chunk \in Nat /\ wpc = "publish" /\ wpc' = "copy"
    BY <1>4 DEF PublishWrite, IndInv, TypeOK, QueueTypeOK, ProducerInv
  <2>2. TypeOK'
    BY <1>4, <2>1 DEF PublishWrite, IndInv, TypeOK, QueueTypeOK
  <2>3. ProducerInv'
    BY <1>4, <2>1
       DEF PublishWrite, IndInv, TypeOK, QueueTypeOK, ProducerInv, Writing, NoBody
  <2>4. ConsumerInv' /\ BufIntact'
    BY <1>4, <2>1 DEF PublishWrite, IndInv, TypeOK, QueueTypeOK, ProducerInv,
                      ConsumerInv, BufIntact, cell
  <2>5. DataIntact'
    <3>1. write' + chunk' - 1 = write + chunk - 1
      BY <2>1 DEF IndInv, TypeOK, QueueTypeOK
    <3> QED
      BY <1>4, <3>1 DEF PublishWrite, IndInv, DataIntact, cell
  <2> QED
    BY <2>2, <2>3, <2>4, <2>5 DEF IndInv
<1>5. CASE WriteBody
  <2>1. body \in Nat /\ body' = NoBody /\ wpc' = "check" /\ left' = body
        /\ mark' = write - (Capacity - body)
    BY <1>5 DEF WriteBody, enterWrite, readWatermark, IndInv, TypeOK
  <2>2. (body \in Nat \cup {NoBody})'
    BY <2>1
  <2>3. (mark \in Int /\ left \in Nat)'
    BY <2>1 DEF IndInv, TypeOK, QueueTypeOK
  <2>4. TypeOK'
    BY <1>5, <2>1, <2>2, <2>3 DEF WriteBody, IndInv, TypeOK, QueueTypeOK
  <2>5. ProducerInv'
    BY <1>5, <2>1
       DEF WriteBody, IndInv, TypeOK, QueueTypeOK, ProducerInv, Writing, NoBody
  <2>6. ConsumerInv' /\ DataIntact' /\ BufIntact'
    BY <1>5 DEF WriteBody, IndInv, ConsumerInv, DataIntact, BufIntact, cell
  <2> QED
    BY <2>4, <2>5, <2>6 DEF IndInv
<1>6. CASE EndWrite
  <2>1. TypeOK' /\ ProducerInv'
    BY <1>6 DEF EndWrite, IndInv, TypeOK, QueueTypeOK, ProducerInv, Writing, cell
  <2>2. ConsumerInv' /\ DataIntact' /\ BufIntact'
    BY <1>6 DEF EndWrite, IndInv, ConsumerInv, DataIntact, BufIntact, cell
  <2> QED
    BY <2>1, <2>2 DEF IndInv
<1> QED
  BY <1>1, <1>2, <1>3, <1>4, <1>5, <1>6 DEF ProducerStep

(* The steps of the consumer. *)
LEMMA ConsumerInvStep ==
  ASSUME IndInv, ConsumerStep \/ ConsumerCall
  PROVE  IndInv'
<1> USE CapacityAssumption, LensAssumption DEF queueVars, producerVars, consumerVars
<1>0. ASSUME NEW n \in ReadLens, ReadBytes(n) PROVE IndInv'
  <2>1. TypeOK' /\ ProducerInv'
    BY <1>0 DEF ReadBytes, IndInv, TypeOK, QueueTypeOK, ProducerInv, Writing, cell
  <2>2. ConsumerInv' /\ DataIntact' /\ BufIntact'
    BY <1>0 DEF ReadBytes, IndInv, ConsumerInv, DataIntact, BufIntact, cell
  <2> QED
    BY <2>1, <2>2 DEF IndInv
(* Releasing an offer, in Next() or in BackUp(). *)
<1>1. ASSUME UpdateReadPtr \/ BackUp PROVE IndInv'
  <2>1. /\ read' = read + toMove /\ toMove' = 0 /\ read' \in Nat
        /\ read \in Nat /\ toMove \in Nat /\ write \in Nat /\ writeCache \in Nat
        /\ readCache \in Nat
    BY <1>1 DEF UpdateReadPtr, BackUp, IndInv, TypeOK, QueueTypeOK
  <2>2. (cell(read) \in 0 .. (Capacity - 1))'
    BY <2>1, CellType DEF Cells
  <2>3. TypeOK'
    BY <1>1, <2>1 DEF UpdateReadPtr, BackUp, IndInv, TypeOK, QueueTypeOK
  <2>4. ProducerInv'
    BY <1>1, <2>1 DEF UpdateReadPtr, BackUp, IndInv, ProducerInv, Writing, cell
  <2>5. ConsumerInv'
    BY <1>1, <2>1, <2>2
       DEF UpdateReadPtr, BackUp, IndInv, TypeOK, ConsumerInv
  <2>6. DataIntact' /\ BufIntact'
    BY <1>1, <2>1
       DEF UpdateReadPtr, BackUp, IndInv, TypeOK, ProducerInv, DataIntact, BufIntact, cell
  <2> QED
    BY <2>3, <2>4, <2>5, <2>6 DEF IndInv
(* Looking at the producer's position and flag. *)
<1>2. ASSUME LoadWrite \/ IsFinished \/ RecheckWrite PROVE IndInv'
  <2>1. TypeOK' /\ ProducerInv'
    BY <1>2 DEF LoadWrite, IsFinished, RecheckWrite,
                IndInv, TypeOK, QueueTypeOK, ProducerInv, Writing, cell
  <2>2. ConsumerInv'
    BY <1>2 DEF LoadWrite, IsFinished, RecheckWrite,
                IndInv, TypeOK, QueueTypeOK, ConsumerInv, cell
  <2>3. DataIntact' /\ BufIntact'
    BY <1>2 DEF LoadWrite, IsFinished, RecheckWrite, IndInv, DataIntact, BufIntact, cell
  <2> QED
    BY <2>1, <2>2, <2>3 DEF IndInv
<1>3. CASE Grant
  <2>1. /\ cell(read) \in 0 .. (Capacity - 1)
        /\ nextWrap(read) = read - cell(read) + Capacity
    BY CellType, NextWrapValue DEF IndInv, TypeOK, QueueTypeOK, Cells
  <2>2. /\ toMove' \in Nat /\ read + toMove' <= writeCache
        /\ cell(read) + toMove' <= Capacity
    BY <1>3, <2>1 DEF Grant, Smaller, IndInv, TypeOK, QueueTypeOK, ConsumerInv
  <2>3. TypeOK' /\ ProducerInv'
    BY <1>3, <2>2 DEF Grant, IndInv, TypeOK, QueueTypeOK, ProducerInv, Writing, cell
  <2>4. ConsumerInv'
    BY <1>3, <2>2 DEF Grant, IndInv, TypeOK, QueueTypeOK, ConsumerInv, cell
  <2>5. DataIntact' /\ BufIntact'
    BY <1>3 DEF Grant, IndInv, DataIntact, BufIntact, cell
  <2> QED
    BY <2>3, <2>4, <2>5 DEF IndInv
<1>4. CASE CopyOut
  <2> DEFINE s == Smaller(want, toMove)
  <2>1. /\ s \in Nat /\ s <= toMove /\ want - s \in Nat
        /\ toMove = want => s = want
        /\ toMove < want => s = toMove
    BY DEF Smaller, IndInv, TypeOK
  <2>2. /\ buf' = Load(read, s) /\ taken' = taken + s
        /\ want' = want - s /\ toMove' = s
        /\ rpc' \in {"backup", "idle", "next"}
    BY <1>4 DEF CopyOut
  <2> HIDE DEF s
  <2>3. /\ read \in Nat /\ cell(read) + s <= Capacity
        /\ \A i \in read .. (read + s - 1) : cells[cell(i)] = i
    <3>1. read \in Nat /\ write \in Nat /\ chunk \in Nat /\ toMove \in Nat
          /\ writeCache \in Nat /\ cell(read) \in 0 .. (Capacity - 1)
      BY CellType DEF IndInv, TypeOK, QueueTypeOK, Cells
    <3>2. cell(read) + s <= Capacity /\ read + s <= write + chunk
      BY <2>1, <3>1 DEF IndInv, ConsumerInv
    <3> QED
      BY <3>1, <3>2, <2>1 DEF IndInv, DataIntact
  <2>4. BufIntact'
    BY <2>1, <2>2, <2>3, LoadIntact DEF BufIntact
  <2>5. TypeOK' /\ ProducerInv'
    BY <1>4, <2>1, <2>2
       DEF CopyOut, IndInv, TypeOK, QueueTypeOK, ProducerInv, Writing, cell
  <2>6. ConsumerInv' /\ DataIntact'
    BY <1>4, <2>1, <2>2, <2>3
       DEF CopyOut, IndInv, TypeOK, QueueTypeOK, ConsumerInv, DataIntact, cell
  <2> QED
    BY <2>4, <2>5, <2>6 DEF IndInv
<1> QED
  BY <1>0, <1>1, <1>2, <1>3, <1>4 DEF ConsumerStep, ConsumerCall

(* Every step keeps the inductive invariant. *)
LEMMA NextInv == IndInv /\ [Next]_vars => IndInv'
<1> SUFFICES ASSUME IndInv, [Next]_vars PROVE IndInv'
  OBVIOUS
<1>1. ASSUME Done \/ UNCHANGED vars PROVE IndInv'
  <2>1. UNCHANGED <<read, writeCache, write, readCache, finish, cells,
                    wpc, mark, left, chunk, body, reserved,
                    rpc, toMove, want, taken, buf>>
    BY <1>1 DEF Done, vars, queueVars, producerVars, consumerVars
  <2> QED
    BY <2>1 DEF IndInv, TypeOK, QueueTypeOK, ProducerInv, ConsumerInv,
                DataIntact, BufIntact, Writing, cell
<1> QED
  BY <1>1, ProducerStepInv, ProducerCallInv, ConsumerInvStep DEF Next

(* The inductive invariant holds in every reachable state. *)
THEOREM Invariance == Spec => []IndInv
  BY InitInv, NextInv, PTL DEF Spec

(* The variables keep their types: no position ever becomes negative. *)
THEOREM TypeCorrect == Spec => []TypeOK
<1>1. IndInv => TypeOK
  BY DEF IndInv
<1> QED
  BY <1>1, Invariance, PTL

(***************************************************************************)
(* Every byte that readBytes hands over is the byte that was written at    *)
(* its place of the stream.                                                *)
(***************************************************************************)
THEOREM DeliversInOrder == Spec => []InOrder
<1>1. IndInv => InOrder
  BY DEF IndInv, InOrder, ConsumerInv, BufIntact
<1> QED
  BY <1>1, Invariance, PTL

(***************************************************************************)
(* The copies of the two sides never touch the same cell and never leave   *)
(* the array.                                                              *)
(***************************************************************************)
THEOREM CopiesAreDisjoint == Spec => []NoSharedCell
<1>1. ASSUME IndInv PROVE NoSharedCell
  <2>1. /\ read \in Nat /\ write \in Nat /\ chunk \in Nat /\ readCache \in Nat
        /\ left \in Nat /\ mark \in Int
        /\ cell(write) \in 0 .. (Capacity - 1)
    BY <1>1, CellType DEF IndInv, TypeOK, QueueTypeOK, Cells
  <2>2. CASE wpc = "publish"
    BY <1>1, <2>1, <2>2, CapacityAssumption
       DEF IndInv, ProducerInv, ConsumerInv, Writing, NoSharedCell
  <2>3. CASE wpc # "publish"
    BY <1>1, <2>1, <2>3, CapacityAssumption
       DEF IndInv, ProducerInv, ConsumerInv, NoSharedCell
  <2> QED
    BY <2>2, <2>3
<1> QED
  BY <1>1, Invariance, PTL

(* The end of the stream is reported only when every byte was handed over. *)
THEOREM EofAfterLastByte == Spec => []EofMeansDrained
<1>1. ASSUME IndInv PROVE EofMeansDrained
  BY <1>1 DEF IndInv, TypeOK, QueueTypeOK, ConsumerInv, EofMeansDrained
<1> QED
  BY <1>1, Invariance, PTL

(* The two writes of a reserved record find their space without waiting. *)
THEOREM ReservationIsEnough == Spec => []ReservedNeverWaits
<1>1. ASSUME IndInv PROVE ReservedNeverWaits
  BY <1>1 DEF IndInv, TypeOK, QueueTypeOK, ProducerInv, ReservedNeverWaits, NoBody
<1> QED
  BY <1>1, Invariance, PTL

(***************************************************************************)
(* The queue implements the bounded byte channel: its initial state is the *)
(* channel's, and every step publishes, delivers, closes, ends or is       *)
(* invisible.                                                              *)
(***************************************************************************)
THEOREM QueueIsChannel == Spec => ImplementsChannel
<1>1. Init => Channel!Init
  BY DEF Init, QueueInit, Channel!Init
<1>2. ASSUME IndInv, IndInv', [Next]_vars
      PROVE  [Channel!Next]_(Channel!chanVars)
  <2> USE DEF queueVars, producerVars, consumerVars
  <2>1. CASE PublishWrite
    <3>1. /\ write' = write + chunk /\ write \in Nat /\ chunk \in Nat
          /\ write' <= taken + Capacity /\ ~finish
      BY <1>2, <2>1, CapacityAssumption
         DEF PublishWrite, IndInv, TypeOK, QueueTypeOK, ProducerInv, ConsumerInv, Writing
    <3>2. UNCHANGED <<taken, finish, rpc>>
      BY <2>1 DEF PublishWrite
    <3> QED
      BY <3>1, <3>2 DEF Channel!Next, Channel!Send, Channel!chanVars
  <2>2. CASE CopyOut
    <3>1. /\ taken' \in Nat /\ taken \in Nat /\ taken' >= taken /\ taken' <= write
          /\ rpc # "eof" /\ rpc' # "eof"
      BY <1>2, <2>2 DEF CopyOut, Smaller, IndInv, TypeOK, QueueTypeOK, ConsumerInv
    <3>2. UNCHANGED <<write, finish>>
      BY <2>2 DEF CopyOut
    <3> QED
      BY <3>1, <3>2 DEF Channel!Next, Channel!Deliver, Channel!chanVars
  <2>3. CASE Close
    BY <1>2, <2>3
       DEF Close, IndInv, ProducerInv, Channel!Next, Channel!Close, Channel!chanVars
  <2>4. CASE RecheckWrite
    <3>1. /\ rpc' = "eof" => finish /\ taken = write
          /\ UNCHANGED <<write, taken, finish>> /\ rpc # "eof"
      BY <1>2, <2>4, SMTT(40) DEF RecheckWrite, IndInv, TypeOK, QueueTypeOK, ConsumerInv
    <3> QED
      BY <3>1 DEF Channel!Next, Channel!End, Channel!chanVars
  <2>5. ASSUME ~PublishWrite, ~CopyOut, ~Close, ~RecheckWrite
        PROVE  UNCHANGED Channel!chanVars
    BY <1>2, <2>5
       DEF Next, vars, ProducerStep, ProducerCall, ConsumerStep, ConsumerCall,
           HasSpace, AwaitSpace, CopyIn, WriteBody, EndWrite, enterWrite,
           WriteRecord, RefuseRecord, WriteBytes, UpdateReadPtr, LoadWrite,
           IsFinished, Grant, BackUp, ReadBytes, Done, Channel!chanVars
  <2> QED
    BY <2>1, <2>2, <2>3, <2>4, <2>5
<1> QED
  BY <1>1, <1>2, Invariance, PTL DEF Spec, ImplementsChannel, Channel!Spec
=============================================================================
