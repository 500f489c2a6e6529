-------------------------- MODULE SpscQueueProofs --------------------------
(***************************************************************************)
(* Facts about positions, cells and copies on which the proofs about both  *)
(* directions of the queue rest.  They hold for every capacity.            *)
(***************************************************************************)
EXTENDS SpscQueue, TLAPS

(* Order of positions. *)
LEMMA Chain ==
  ASSUME NEW a \in Nat, NEW b \in Nat, NEW c \in Nat, a <= b, b <= c
  PROVE  a <= c
  OBVIOUS

(* The first n positions after r lie below a. *)
LEMMA SubRange ==
  ASSUME NEW r \in Nat, NEW n \in Nat, NEW w \in Nat, NEW a \in Nat,
         r + n <= w, w <= a, NEW i \in r .. (r + n - 1)
  PROVE  i \in r .. (a - 1)
  OBVIOUS

(* A position is a whole number of turns around the array plus its cell. *)
LEMMA DivMod ==
  ASSUME NEW C \in Nat \ {0}, NEW v \in Nat
  PROVE  /\ v \div C \in Nat
         /\ (v % C) \in 0 .. (C - 1)
         /\ v = C * (v \div C) + (v % C)
  OBVIOUS

(* The remainder of a position given as turns plus a cell. *)
LEMMA ModUnique ==
  ASSUME NEW C \in Nat \ {0}, NEW q \in Nat, NEW r \in 0 .. (C - 1)
  PROVE  (C * q + r) % C = r
  OBVIOUS

(* One more turn is at least the capacity. *)
LEMMA TurnLength ==
  ASSUME NEW C \in Nat \ {0}, NEW a \in Nat, NEW b \in Nat, a < b
  PROVE  C * a + C <= C * b
<1>1. C * b = C * a + C * (b - a)
  OBVIOUS
<1>2. b - a \in Nat \ {0}
  OBVIOUS
<1>3. ASSUME NEW k \in Nat \ {0} PROVE C * k >= C
  OBVIOUS
<1>4. C * (b - a) >= C
  BY <1>2, <1>3
<1> QED
  BY <1>1, <1>4

(* The cell of a position is a cell of the array. *)
LEMMA CellType ==
  ASSUME NEW v \in Nat
  PROVE  cell(v) \in Cells
  BY CapacityAssumption, DivMod DEF cell, Cells

(* Moving inside the array moves the cell by the same distance. *)
LEMMA CellShift ==
  ASSUME NEW v \in Nat, NEW k \in Nat, cell(v) + k < Capacity
  PROVE  cell(v + k) = cell(v) + k
<1> DEFINE q == v \div Capacity
<1> DEFINE r == (v % Capacity) + k
<1>1. q \in Nat /\ (v % Capacity) \in 0 .. (Capacity - 1)
      /\ v = Capacity * q + (v % Capacity)
  BY CapacityAssumption, DivMod
<1>2. r \in 0 .. (Capacity - 1)
  BY <1>1, CapacityAssumption DEF cell
<1>3. (Capacity * q + r) % Capacity = r
  BY <1>1, <1>2, CapacityAssumption, ModUnique
<1>4. v + k = Capacity * q + r
  BY <1>1, CapacityAssumption
<1> QED
  BY <1>3, <1>4 DEF cell

(* Two positions less than a capacity apart have different cells. *)
LEMMA CellDistinct ==
  ASSUME NEW i \in Nat, NEW j \in Nat, i < j, j < i + Capacity
  PROVE  cell(i) # cell(j)
<1> SUFFICES ASSUME cell(i) = cell(j) PROVE FALSE
  OBVIOUS
<1> DEFINE p == i \div Capacity
<1> DEFINE q == j \div Capacity
<1>1. p \in Nat /\ i = Capacity * p + cell(i) /\ cell(i) \in 0 .. (Capacity - 1)
  BY CapacityAssumption, DivMod DEF cell
<1>2. q \in Nat /\ j = Capacity * q + cell(j)
  BY CapacityAssumption, DivMod DEF cell
<1> HIDE DEF p, q
<1>3. p < q
  <2>1. SUFFICES ASSUME q <= p PROVE FALSE
    BY <1>1, <1>2
  <2>2. CASE q = p
    BY <2>2, <1>1, <1>2, CapacityAssumption
  <2>3. CASE q < p
    <3>1. Capacity * q + Capacity <= Capacity * p
      BY <2>3, <1>1, <1>2, CapacityAssumption, TurnLength
    <3> DEFINE x == Capacity * p
    <3> DEFINE y == Capacity * q
    <3>2. x \in Int /\ y \in Int /\ i = x + cell(i) /\ j = y + cell(i) /\ y + Capacity <= x
      BY <3>1, <1>1, <1>2, CapacityAssumption
    <3> HIDE DEF x, y
    <3> QED
      BY <3>2, <1>1, CapacityAssumption
  <2> QED
    BY <2>1, <2>2, <2>3, <1>1, <1>2
<1>4. Capacity * p + Capacity <= Capacity * q
  BY <1>1, <1>2, <1>3, CapacityAssumption, TurnLength
<1> DEFINE x == Capacity * p
<1> DEFINE y == Capacity * q
<1>5. x \in Int /\ y \in Int /\ i = x + cell(i) /\ j = y + cell(i) /\ x + Capacity <= y
  BY <1>4, <1>1, <1>2, CapacityAssumption
<1> HIDE DEF x, y
<1> QED
  BY <1>5, <1>1, CapacityAssumption

(* nextWrap(v) is the end of the turn that v is in. *)
LEMMA NextWrapValue ==
  ASSUME NEW v \in Nat
  PROVE  nextWrap(v) = v - cell(v) + Capacity
<1>1. cell(v) \in 0 .. (Capacity - 1)
  BY CellType DEF Cells
<1>2. CASE cell(v) = 0
  BY <1>2, CapacityAssumption DEF nextWrap
<1>3. CASE cell(v) # 0
  <2> DEFINE q == v \div Capacity
  <2>1. q \in Nat /\ v = Capacity * q + cell(v)
    BY CapacityAssumption, DivMod DEF cell
  <2>2. cell(v) - 1 \in 0 .. (Capacity - 1)
    BY <1>1, <1>3, CapacityAssumption
  <2>3. ASSUME NEW m \in Nat
        PROVE  (Capacity * m + (cell(v) - 1)) % Capacity = cell(v) - 1
    BY <2>2, CapacityAssumption, ModUnique
  <2>4. v + Capacity - 1 = Capacity * (q + 1) + (cell(v) - 1)
    <3>1. ASSUME NEW m \in Nat PROVE Capacity * (m + 1) = Capacity * m + Capacity
      BY CapacityAssumption
    <3>2. Capacity * (q + 1) = Capacity * q + Capacity /\ Capacity * q \in Int
      BY <2>1, <3>1, CapacityAssumption
    <3> HIDE DEF q
    <3> QED
      BY <2>1, <3>2, <1>1, CapacityAssumption
  <2>5. (v + Capacity - 1) % Capacity = cell(v) - 1
    BY <2>1, <2>3, <2>4
  <2>6. align(v) = (v + Capacity - 1) - (cell(v) - 1)
    BY <2>5 DEF align, cell
  <2> QED
    BY <2>6, <1>1, <1>3, CapacityAssumption DEF nextWrap
<1> QED
  BY <1>2, <1>3

(***************************************************************************)
(* A copy into the array keeps the bytes that are still to be read and     *)
(* adds the new ones, if it stays inside the array and does not run into   *)
(* the oldest unread byte.                                                 *)
(***************************************************************************)
LEMMA StoreIntact ==
  ASSUME cells \in [Cells -> Nat \cup {Blank}],
         NEW r \in Nat, NEW w \in Nat, NEW n \in Nat,
         r <= w, w + n <= r + Capacity, cell(w) + n <= Capacity,
         \A i \in r .. (w - 1) : cells[cell(i)] = i
  PROVE  /\ Store(w, n) \in [Cells -> Nat \cup {Blank}]
         /\ \A i \in r .. (w + n - 1) : Store(w, n)[cell(i)] = i
<1>0. cell(w) \in 0 .. (Capacity - 1)
  BY CellType DEF Cells
<1>1. Store(w, n) \in [Cells -> Nat \cup {Blank}]
  BY <1>0, CapacityAssumption DEF Store, Cells
<1>2. ASSUME NEW i \in r .. (w + n - 1)
      PROVE  Store(w, n)[cell(i)] = i
  <2>0. i \in Nat
    OBVIOUS
  <2>1. i \in Nat /\ cell(i) \in Cells /\ cell(i) \in 0 .. (Capacity - 1)
    BY <2>0, CellType DEF Cells
  <2>2. CASE i < w
    <3>1. ASSUME cell(w) <= cell(i), cell(i) < cell(w) + n PROVE FALSE
      <4> DEFINE k == cell(i) - cell(w)
      <4>1. k \in Nat /\ k < n /\ cell(w) + k < Capacity /\ cell(w) + k = cell(i)
        BY <3>1, <2>1, <1>0, CapacityAssumption
      <4> HIDE DEF k
      <4>2. cell(w + k) = cell(i)
        BY <4>1, CellShift
      <4>3. w + k \in Nat /\ i < w + k /\ w + k < i + Capacity
        BY <4>1, <2>1, <2>2, CapacityAssumption
      <4> QED
        BY <4>2, <4>3, <2>1, CellDistinct
    <3>2. Store(w, n)[cell(i)] = cells[cell(i)]
      BY <3>1, <2>1 DEF Store
    <3> QED
      BY <3>2, <2>1, <2>2
  <2>3. CASE i >= w
    <3> DEFINE k == i - w
    <3>1. k \in Nat /\ k < n /\ i = w + k /\ cell(w) + k < Capacity
      BY <2>1, <2>3, <1>0, CapacityAssumption
    <3> HIDE DEF k
    <3>2. cell(i) = cell(w) + k
      BY <3>1, CellShift
    <3>3. Store(w, n)[cell(i)] = w + (cell(i) - cell(w))
      BY <3>1, <3>2, <2>1, <1>0, CapacityAssumption DEF Store
    <3> QED
      BY <3>1, <3>2, <3>3, <1>0
  <2> QED
    BY <2>1, <2>2, <2>3
<1> QED
  BY <1>1, <1>2

(* A copy out of the array yields the bytes of the positions it is for. *)
LEMMA LoadIntact ==
  ASSUME NEW v \in Nat, NEW n \in Nat, cell(v) + n <= Capacity,
         \A i \in v .. (v + n - 1) : cells[cell(i)] = i
  PROVE  \A i \in DOMAIN Load(v, n) : Load(v, n)[i] = i
<1> SUFFICES ASSUME NEW i \in v .. (v + n - 1) PROVE Load(v, n)[i] = i
  BY DEF Load
<1> DEFINE k == i - v
<1>1. k \in Nat /\ i = v + k /\ cell(v) \in 0 .. (Capacity - 1)
      /\ cell(v) + k < Capacity
  BY CellType, CapacityAssumption DEF Cells
<1>2. Load(v, n)[i] = cells[cell(v) + k]
  BY DEF Load
<1> HIDE DEF k
<1>3. cell(v) + k = cell(i)
  BY <1>1, CellShift
<1> QED
  BY <1>2, <1>3
=============================================================================
