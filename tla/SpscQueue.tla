----------------------------- MODULE SpscQueue -----------------------------
(***************************************************************************)
(* The shared memory of a single-producer single-consumer byte queue: the  *)
(* memory-mapped file that a Java operator and a Python (C++) process use  *)
(* to exchange bytes (SpscOffHeapQueue.java, spscqueue.h).                 *)
(*                                                                         *)
(* The n-th byte that the producer puts into the queue is represented by   *)
(* the number n, so a cell of the array holds the stream position of the   *)
(* byte last stored there, or Blank.  Positions grow for ever; a position  *)
(* is turned into a cell with the mask of the power-of-two capacity, which *)
(* for non-negative positions is the remainder modulo Capacity.            *)
(***************************************************************************)
EXTENDS Integers

CONSTANT Capacity   \* number of bytes in the array

ASSUME CapacityAssumption == Capacity \in Nat \ {0}

VARIABLES
  read,        \* next position to read; stored by the consumer only
  writeCache,  \* the consumer's copy of write
  write,       \* next position to write; stored by the producer only
  readCache,   \* the producer's copy of read
  finish,      \* the finish flag
  cells        \* the array

queueVars == <<read, writeCache, write, readCache, finish, cells>>

Blank == -1
Cells == 0 .. (Capacity - 1)

Smaller(a, b) == IF a < b THEN a ELSE b

(* v & mask *)
cell(v) == v % Capacity

(* Pow2.align(v, capacity), that is (v + mask) & ~mask *)
align(v) == (v + Capacity - 1) - cell(v + Capacity - 1)

(* The first multiple of the capacity after v. *)
nextWrap(v) == IF cell(v) = 0 THEN v + Capacity ELSE align(v)

(* The last multiple of the capacity that is not after v. *)
prevWrap(v) == v - cell(v)

(* reset(): the header and the array are zeroed. *)
QueueInit ==
  /\ read = 0 /\ writeCache = 0
  /\ write = 0 /\ readCache = 0
  /\ finish = FALSE
  /\ cells = [c \in Cells |-> Blank]

(***************************************************************************)
(* copyMemory / memcpy of n bytes to the address of position v.  The       *)
(* address is masked once: the n bytes go to consecutive cells, whether or *)
(* not they all lie inside the array.                                      *)
(***************************************************************************)
Store(v, n) ==
  [c \in Cells |-> IF cell(v) <= c /\ c < cell(v) + n
                   THEN v + (c - cell(v))
                   ELSE cells[c]]

(* The n bytes copied from the address of position v, by position. *)
Load(v, n) ==
  [i \in v .. (v + n - 1) |-> cells[cell(v) + (i - v)]]

QueueTypeOK ==
  /\ read \in Nat /\ writeCache \in Nat
  /\ write \in Nat /\ readCache \in Nat
  /\ finish \in BOOLEAN
  /\ cells \in [Cells -> Nat \cup {Blank}]
=============================================================================
