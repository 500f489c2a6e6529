-------------------------- MODULE CppToJavaProofs --------------------------
(***************************************************************************)
(* Safety of the queue from the process to the operator, for every         *)
(* capacity and every length of writes and reads, also when the process    *)
(* dies.  The argument is that of the other direction, with the bytes that *)
(* writeBytes has copied but not published in place of the chunk:          *)
(*   readCache <= read <= read + held <= writeCache <= write <= accepted   *)
(*   write + offer <= readCache + Capacity                                 *)
(***************************************************************************)
EXTENDS CppToJava, SpscQueueProofs

(* What the producer knows. *)
ProducerInv ==
  /\ readCache <= read
  /\ write + offer <= readCache + Capacity
  /\ cell(write) + offer <= Capacity
  /\ wpc \in {"check", "closing", "closed"} => offer = 0
  /\ wpc \notin {"granted", "dead"} => accepted = write + offer
  /\ wpc = "granted" => accepted = write
  /\ write <= accepted
  /\ finish => wpc \in {"closed", "dead"}

(* What the consumer knows. *)
ConsumerInv ==
  /\ read + held <= writeCache
  /\ writeCache <= write
  /\ cell(read) + held <= Capacity
  /\ rpc # "release" => held = 0
  /\ taken = read + held
  /\ rpc = "copy" => read < writeCache
  /\ rpc = "recheck" => finish
  /\ rpc = "eof" => finish /\ read = write

(* The bytes that are still to be read, the unpublished ones included. *)
DataIntact == \A i \in read .. (accepted - 1) : cells[cell(i)] = i

BufIntact == \A i \in DOMAIN buf : buf[i] = i

IndInv == TypeOK /\ ProducerInv /\ ConsumerInv /\ DataIntact /\ BufIntact

-----------------------------------------------------------------------------
LEMMA InitInv == Init => IndInv
<1> SUFFICES ASSUME Init PROVE IndInv
  OBVIOUS
<1>1. cell(0) = 0
  BY CapacityAssumption DEF cell
<1>2. BufIntact
  BY DEF Init, BufIntact
<1>3. TypeOK
  <2>1. cells \in [Cells -> Nat \cup {Blank}]
    BY DEF Init, QueueInit
  <2>2. QueueTypeOK
    BY <2>1 DEF Init, QueueInit, QueueTypeOK
  <2> QED
    BY <2>2 DEF Init, TypeOK
<1>4. ProducerInv /\ ConsumerInv /\ DataIntact
  BY <1>1, CapacityAssumption DEF Init, QueueInit, ProducerInv, ConsumerInv, DataIntact
<1> QED
  BY <1>2, <1>3, <1>4 DEF IndInv

(* The steps of the producer, and of the runner in its place. *)
LEMMA ProducerStepInv ==
  ASSUME IndInv, ProducerStep \/ ProducerCall \/ RunnerMarks
  PROVE  IndInv'
<1> USE CapacityAssumption, LensAssumption DEF queueVars, producerVars, consumerVars
<1>1. ASSUME NEW n \in WriteLens, WriteBytes(n) PROVE IndInv'
  <2>1. TypeOK' /\ ProducerInv'
    BY <1>1 DEF WriteBytes, IndInv, TypeOK, QueueTypeOK, ProducerInv, cell
  <2>2. ConsumerInv' /\ DataIntact' /\ BufIntact'
    BY <1>1 DEF WriteBytes, IndInv, ConsumerInv, DataIntact, BufIntact, cell
  <2> QED
    BY <2>1, <2>2 DEF IndInv
(* Publishing an offer, in Next(), in BackUp() or in close(). *)
<1>2. ASSUME UpdateWritePtr \/ BackUp \/ CloseUpdate PROVE IndInv'
  <2>1. /\ write' = write + offer /\ offer' = 0 /\ write' \in Nat
        /\ read \in Nat /\ offer \in Nat /\ write \in Nat /\ writeCache \in Nat
        /\ readCache \in Nat /\ accepted \in Nat /\ held \in Nat
        /\ accepted = write + offer /\ ~finish
    BY <1>2 DEF UpdateWritePtr, BackUp, CloseUpdate, IndInv, TypeOK, QueueTypeOK, ProducerInv
  <2>2. (cell(write) \in 0 .. (Capacity - 1))'
    BY <2>1, CellType DEF Cells
  <2>3. TypeOK'
    BY <1>2, <2>1 DEF UpdateWritePtr, BackUp, CloseUpdate, IndInv, TypeOK, QueueTypeOK
  <2>4. ProducerInv'
    BY <1>2, <2>1, <2>2 DEF UpdateWritePtr, BackUp, CloseUpdate, IndInv, ProducerInv
  <2>5. ConsumerInv'
    BY <1>2, <2>1 DEF UpdateWritePtr, BackUp, CloseUpdate, IndInv, ConsumerInv, cell
  <2>6. DataIntact' /\ BufIntact'
    BY <1>2 DEF UpdateWritePtr, BackUp, CloseUpdate, IndInv, DataIntact, BufIntact, cell
  <2> QED
    BY <2>3, <2>4, <2>5, <2>6 DEF IndInv
<1>3. CASE AwaitSpace
  <2>1. TypeOK' /\ ProducerInv'
    BY <1>3 DEF AwaitSpace, IndInv, TypeOK, QueueTypeOK, ProducerInv, cell
  <2>2. ConsumerInv' /\ DataIntact' /\ BufIntact'
    BY <1>3 DEF AwaitSpace, IndInv, ConsumerInv, DataIntact, BufIntact, cell
  <2> QED
    BY <2>1, <2>2 DEF IndInv
<1>4. CASE Grant
  <2>1. /\ cell(write) \in 0 .. (Capacity - 1)
        /\ nextWrap(write) = write - cell(write) + Capacity
    BY CellType, NextWrapValue DEF IndInv, TypeOK, QueueTypeOK, Cells
  <2>2. /\ offer' \in Nat /\ write + offer' <= readCache + Capacity
        /\ cell(write) + offer' <= Capacity
    BY <1>4, <2>1
       DEF Grant, bytesToWrite, prevWrap, IndInv, TypeOK, QueueTypeOK, ProducerInv
  <2>3. TypeOK' /\ ProducerInv'
    BY <1>4, <2>2 DEF Grant, IndInv, TypeOK, QueueTypeOK, ProducerInv, cell
  <2>4. ConsumerInv' /\ DataIntact' /\ BufIntact'
    BY <1>4 DEF Grant, IndInv, ConsumerInv, DataIntact, BufIntact, cell
  <2> QED
    BY <2>3, <2>4 DEF IndInv
<1>5. CASE CopyIn
  <2> DEFINE s == Smaller(left, offer)
  <2>1. s \in Nat /\ s <= offer /\ left - s \in Nat
    BY DEF Smaller, IndInv, TypeOK
  <2>2. /\ cells' = Store(write, s) /\ accepted' = accepted + s
        /\ left' = left - s /\ offer' = s
        /\ wpc = "granted" /\ wpc' \in {"backup", "idle", "next"}
    BY <1>5 DEF CopyIn
  <2> HIDE DEF s
  <2>3. /\ read \in Nat /\ write \in Nat /\ read <= write /\ accepted = write
        /\ write + s <= read + Capacity /\ cell(write) + s <= Capacity
    <3>1. cell(write) \in 0 .. (Capacity - 1)
      BY CellType DEF IndInv, TypeOK, QueueTypeOK, Cells
    <3> QED
      BY <2>1, <2>2, <3>1 DEF IndInv, TypeOK, QueueTypeOK, ProducerInv, ConsumerInv
  <2>4. \A i \in read .. (write - 1) : cells[cell(i)] = i
    BY <2>3 DEF IndInv, DataIntact
  <2>5. /\ cells' \in [Cells -> Nat \cup {Blank}]
        /\ \A i \in read .. (write + s - 1) : cells'[cell(i)] = i
    BY <2>1, <2>2, <2>3, <2>4, StoreIntact DEF IndInv, TypeOK, QueueTypeOK
  <2>6. TypeOK'
    <3>1. QueueTypeOK'
      BY <1>5, <2>5 DEF CopyIn, IndInv, TypeOK, QueueTypeOK, Blank, Cells
    <3> QED
      BY <1>5, <2>1, <2>2, <3>1 DEF CopyIn, IndInv, TypeOK
  <2>7. ProducerInv'
    BY <1>5, <2>1, <2>2, <2>3
       DEF CopyIn, IndInv, TypeOK, QueueTypeOK, ProducerInv, cell
  <2>8. ConsumerInv' /\ BufIntact'
    BY <1>5 DEF CopyIn, IndInv, ConsumerInv, BufIntact, cell
  <2>9. DataIntact'
    <3>1. accepted' = write + s
      BY <2>2, <2>3
    <3>2. read' = read
      BY <1>5 DEF CopyIn
    <3>3. PICK a \in Nat : a = accepted'
      BY <2>1, <2>3, <3>1
    <3>4. a = write + s
      BY <3>1, <3>3
    <3>5. ASSUME NEW i \in read .. (a - 1) PROVE cells'[cell(i)] = i
      BY <2>1, <2>3, <2>5, <3>4
    <3> QED
      BY <3>2, <3>3, <3>5 DEF DataIntact, cell
  <2> QED
    BY <2>6, <2>7, <2>8, <2>9 DEF IndInv
<1>6. ASSUME CloseMark \/ Die \/ RunnerMarks PROVE IndInv'
  <2>1. TypeOK'
    BY <1>6 DEF CloseMark, Die, RunnerMarks, IndInv, TypeOK, QueueTypeOK
  <2>2. ProducerInv'
    BY <1>6 DEF CloseMark, Die, RunnerMarks, IndInv, TypeOK, QueueTypeOK, ProducerInv, cell
  <2>3. ConsumerInv' /\ DataIntact' /\ BufIntact'
    BY <1>6
       DEF CloseMark, Die, RunnerMarks, IndInv, ConsumerInv, DataIntact, BufIntact, cell
  <2> QED
    BY <2>1, <2>2, <2>3 DEF IndInv
<1> QED
  BY <1>1, <1>2, <1>3, <1>4, <1>5, <1>6 DEF ProducerStep, ProducerCall

(* The steps of the consumer. *)
LEMMA ConsumerStepInv ==
  ASSUME IndInv, ConsumerStep \/ ConsumerCall
  PROVE  IndInv'
<1> USE CapacityAssumption, LensAssumption DEF queueVars, producerVars, consumerVars
<1>1. ASSUME NEW n \in ReadLens, Read(n) PROVE IndInv'
  <2>1. TypeOK' /\ ProducerInv'
    BY <1>1 DEF Read, enterReadOnce, IndInv, TypeOK, QueueTypeOK, ProducerInv, cell
  <2>2. ConsumerInv'
    BY <1>1 DEF Read, enterReadOnce, IndInv, TypeOK, QueueTypeOK, ConsumerInv, cell
  <2>3. DataIntact' /\ BufIntact'
    BY <1>1 DEF Read, IndInv, DataIntact, BufIntact, cell
  <2> QED
    BY <2>1, <2>2, <2>3 DEF IndInv
(* Looking at the producer's position and flag. *)
<1>2. ASSUME Available \/ LoadWrite \/ IsFinished \/ RecheckWrite PROVE IndInv'
  <2>0. TypeOK'
    BY <1>2 DEF Available, LoadWrite, IsFinished, RecheckWrite,
                IndInv, TypeOK, QueueTypeOK
  <2>1. ProducerInv'
    BY <1>2 DEF Available, LoadWrite, IsFinished, RecheckWrite,
                IndInv, ProducerInv, cell
  <2>2. ConsumerInv'
    BY <1>2 DEF Available, LoadWrite, IsFinished, RecheckWrite,
                IndInv, TypeOK, QueueTypeOK, ConsumerInv, cell
  <2>3. DataIntact' /\ BufIntact'
    BY <1>2 DEF Available, LoadWrite, IsFinished, RecheckWrite,
                IndInv, DataIntact, BufIntact, cell
  <2> QED
    BY <2>0, <2>1, <2>2, <2>3 DEF IndInv
<1>3. CASE CopyOut
  <2>1. /\ cell(read) \in 0 .. (Capacity - 1)
        /\ nextWrap(read) = read - cell(read) + Capacity
    BY CellType, NextWrapValue DEF IndInv, TypeOK, QueueTypeOK, Cells
  <2>2. /\ held' \in Nat /\ read + held' <= writeCache
        /\ cell(read) + held' <= Capacity
        /\ want - held' \in Nat
    BY <1>3, <2>1 DEF CopyOut, Smaller, IndInv, TypeOK, QueueTypeOK, ConsumerInv
  <2>3. \A i \in read .. (read + held' - 1) : cells[cell(i)] = i
    <3>0. /\ read \in Nat /\ write \in Nat /\ writeCache \in Nat /\ accepted \in Nat
      BY DEF IndInv, TypeOK, QueueTypeOK
    <3>1. writeCache <= write /\ write <= accepted
      BY DEF IndInv, ProducerInv, ConsumerInv
    <3>2. PICK h \in Nat : h = held'
      BY <2>2
    <3>3. writeCache <= accepted
      BY <3>0, <3>1, Chain
    <3>4. read + h <= writeCache
      BY <2>2, <3>2
    <3>5. ASSUME NEW i \in read .. (read + h - 1)
          PROVE  i \in read .. (accepted - 1)
      BY <3>0, <3>3, <3>4, SubRange
    <3>6. \A i \in read .. (read + h - 1) : cells[cell(i)] = i
      BY <3>5 DEF IndInv, DataIntact
    <3> QED
      BY <3>2, <3>6
  <2>4. BufIntact'
    <3>1. read \in Nat /\ held' \in Nat
      BY <2>2 DEF IndInv, TypeOK, QueueTypeOK
    <3>2. \A i \in DOMAIN Load(read, held') : Load(read, held')[i] = i
      BY <2>2, <2>3, <3>1, LoadIntact
    <3> QED
      BY <1>3, <3>2 DEF CopyOut, BufIntact
  <2>5. TypeOK' /\ ProducerInv'
    BY <1>3, <2>2 DEF CopyOut, IndInv, TypeOK, QueueTypeOK, ProducerInv, cell
  <2>6. ConsumerInv'
    BY <1>3, <2>2 DEF CopyOut, IndInv, TypeOK, QueueTypeOK, ConsumerInv, cell
  <2>7. DataIntact'
    BY <1>3 DEF CopyOut, IndInv, DataIntact, cell
  <2> QED
    BY <2>4, <2>5, <2>6, <2>7 DEF IndInv
<1>4. CASE Release
  <2>1. /\ read' = read + held /\ held' = 0 /\ read' \in Nat
        /\ read \in Nat /\ held \in Nat /\ write \in Nat /\ writeCache \in Nat
        /\ readCache \in Nat /\ accepted \in Nat
    BY <1>4 DEF Release, IndInv, TypeOK, QueueTypeOK
  <2>2. (cell(read) \in 0 .. (Capacity - 1))'
    BY <2>1, CellType DEF Cells
  <2>3. TypeOK'
    BY <1>4, <2>1 DEF Release, enterReadOnce, IndInv, TypeOK, QueueTypeOK
  <2>4. ProducerInv'
    BY <1>4, <2>1 DEF Release, IndInv, ProducerInv, cell
  <2>5. ConsumerInv'
    BY <1>4, <2>1, <2>2 DEF Release, enterReadOnce, IndInv, TypeOK, ConsumerInv
  <2>6. DataIntact' /\ BufIntact'
    BY <1>4, <2>1 DEF Release, IndInv, DataIntact, BufIntact, cell
  <2> QED
    BY <2>3, <2>4, <2>5, <2>6 DEF IndInv
<1> QED
  BY <1>1, <1>2, <1>3, <1>4 DEF ConsumerStep, ConsumerCall, ReadSome

(* Every step keeps the inductive invariant. *)
LEMMA NextInv == IndInv /\ [Next]_vars => IndInv'
<1> SUFFICES ASSUME IndInv, [Next]_vars PROVE IndInv'
  OBVIOUS
<1>1. ASSUME Done \/ UNCHANGED vars PROVE IndInv'
  <2>1. UNCHANGED <<read, writeCache, write, readCache, finish, cells,
                    wpc, offer, left, accepted,
                    rpc, held, want, got, taken, buf>>
    BY <1>1 DEF Done, vars, queueVars, producerVars, consumerVars
  <2> QED
    BY <2>1 DEF IndInv, TypeOK, QueueTypeOK, ProducerInv, ConsumerInv,
                DataIntact, BufIntact, cell
<1> QED
  BY <1>1, ProducerStepInv, ConsumerStepInv DEF Next

(* The inductive invariant holds in every reachable state. *)
THEOREM Invariance == Spec => []IndInv
  BY InitInv, NextInv, PTL DEF Spec

(* The variables keep their types: no position ever becomes negative. *)
THEOREM TypeCorrect == Spec => []TypeOK
<1>1. IndInv => TypeOK
  BY DEF IndInv
<1> QED
  BY <1>1, Invariance, PTL

(***************************************************************************)
(* Every byte that read() hands over is the byte that was written at its   *)
(* place of the stream, also when the process has died.                    *)
(***************************************************************************)
THEOREM DeliversInOrder == Spec => []InOrder
<1>1. ASSUME IndInv PROVE InOrder
  BY <1>1 DEF IndInv, InOrder, TypeOK, QueueTypeOK, ProducerInv, ConsumerInv, BufIntact
<1> QED
  BY <1>1, Invariance, PTL

(* What Next() offers is free, and the copies stay inside the array. *)
THEOREM CopiesAreDisjoint == Spec => []NoSharedCell
<1>1. ASSUME IndInv PROVE NoSharedCell
  BY <1>1, CapacityAssumption
     DEF IndInv, TypeOK, QueueTypeOK, ProducerInv, ConsumerInv, NoSharedCell
<1> QED
  BY <1>1, Invariance, PTL

(***************************************************************************)
(* The end of the stream is reported only when every byte was handed over: *)
(* every byte written, if the process closed the queue.                    *)
(***************************************************************************)
THEOREM EofAfterLastByte == Spec => []EofMeansDrained
<1>1. ASSUME IndInv PROVE EofMeansDrained
  BY <1>1 DEF IndInv, TypeOK, QueueTypeOK, ProducerInv, ConsumerInv, EofMeansDrained
<1> QED
  BY <1>1, Invariance, PTL

(***************************************************************************)
(* The queue implements the bounded byte channel: its initial state is the *)
(* channel's, and every step publishes, delivers, closes, ends or is       *)
(* invisible.                                                              *)
(***************************************************************************)
THEOREM QueueIsChannel == Spec => ImplementsChannel
<1>1. Init => Channel!Init
  BY DEF Init, QueueInit, Channel!Init
<1>2. ASSUME IndInv, IndInv', [Next]_vars
      PROVE  [Channel!Next]_(Channel!chanVars)
  <2> USE DEF queueVars, producerVars, consumerVars
  <2>1. ASSUME UpdateWritePtr \/ BackUp \/ CloseUpdate
        PROVE  [Channel!Next]_(Channel!chanVars)
    <3>0. /\ write \in Nat /\ offer \in Nat /\ read \in Nat /\ held \in Nat
          /\ taken \in Nat /\ readCache \in Nat
      BY <1>2 DEF IndInv, TypeOK, QueueTypeOK
    <3>1. /\ write' = write + offer /\ write \in Nat /\ offer \in Nat
          /\ write' <= taken + Capacity /\ ~finish
      BY <1>2, <2>1, <3>0, CapacityAssumption
         DEF UpdateWritePtr, BackUp, CloseUpdate, IndInv, ProducerInv, ConsumerInv
    <3>2. UNCHANGED <<taken, finish, rpc>>
      BY <2>1 DEF UpdateWritePtr, BackUp, CloseUpdate
    <3> QED
      BY <3>1, <3>2 DEF Channel!Next, Channel!Send, Channel!chanVars
  <2>2. CASE CopyOut
    <3>1. /\ taken' \in Nat /\ taken \in Nat /\ taken' >= taken /\ taken' <= write
          /\ rpc # "eof" /\ rpc' # "eof"
      <4>1. taken' = taken + held' /\ held' \in Nat /\ taken \in Nat
        BY <1>2, <2>2 DEF CopyOut, IndInv, TypeOK
      <4>0. read' \in Nat /\ held' \in Nat /\ writeCache' \in Nat /\ write' \in Nat
        BY <1>2 DEF IndInv, TypeOK, QueueTypeOK
      <4>2. taken' = read' + held' /\ read' + held' <= writeCache' /\ writeCache' <= write'
        BY <1>2 DEF IndInv, ConsumerInv
      <4>3. taken' <= write'
        <5>1. taken' <= writeCache' /\ writeCache' <= write'
          BY <4>2
        <5>2. taken' \in Nat
          BY <1>2 DEF IndInv, TypeOK
        <5> QED
          BY <4>0, <5>1, <5>2, Chain
      <4> QED
        BY <4>1, <4>3, <2>2 DEF CopyOut
    <3>2. UNCHANGED <<write, finish>>
      BY <2>2 DEF CopyOut
    <3> QED
      BY <3>1, <3>2 DEF Channel!Next, Channel!Deliver, Channel!chanVars
  <2>3. ASSUME CloseMark \/ RunnerMarks
        PROVE  [Channel!Next]_(Channel!chanVars)
    BY <2>3 DEF CloseMark, RunnerMarks, Channel!Next, Channel!Close, Channel!chanVars
  <2>4. CASE RecheckWrite
    <3>1. /\ rpc' = "eof" => finish /\ taken = write
          /\ UNCHANGED <<write, taken, finish>> /\ rpc # "eof"
      BY <1>2, <2>4 DEF RecheckWrite, IndInv, TypeOK, QueueTypeOK, ConsumerInv
    <3> QED
      BY <3>1 DEF Channel!Next, Channel!End, Channel!chanVars
  <2>5. ASSUME ~UpdateWritePtr, ~BackUp, ~CloseUpdate, ~CopyOut,
               ~CloseMark, ~RunnerMarks, ~RecheckWrite
        PROVE  UNCHANGED Channel!chanVars
    <3>1. Release => UNCHANGED Channel!chanVars
      BY DEF Release, enterReadOnce, Channel!chanVars
    <3> QED
      BY <1>2, <2>5, <3>1
         DEF Next, vars, ProducerStep, ProducerCall, ConsumerStep, ConsumerCall,
             ReadSome, WriteBytes, AwaitSpace, Grant, CopyIn, Die,
             Read, enterReadOnce, Available, LoadWrite, IsFinished, Done,
             Channel!chanVars
  <2> QED
    BY <2>1, <2>2, <2>3, <2>4, <2>5
<1> QED
  BY <1>1, <1>2, Invariance, PTL DEF Spec, ImplementsChannel, Channel!Spec
=============================================================================
