------------------------ MODULE EventSchedulerProofs ------------------------
(***************************************************************************)
(* The event-based scheduler is correct for any dag runs, number of        *)
(* threads, events, restarts and crashes.  The manager of the runners: at  *)
(* most one runner of a dag run executes, no event stays behind in the     *)
(* queue of a runner that has ended, the events of a dag run are taken in  *)
(* the order in which they were given.  The scheduler around it: events    *)
(* enter the mailbox once and in order, messages are recovered and the     *)
(* actions of handlers kept.                                               *)
(***************************************************************************)
EXTENDS EventScheduler, FiniteSetTheorems, TLAPS

-----------------------------------------------------------------------------
(* Sequences of message ids and of events                                     *)

LEMMA Joined ==
  ASSUME NEW S, NEW t \in Seq(S), NEW q \in Seq(S)
  PROVE  /\ t \o q \in Seq(S) /\ Len(t \o q) = Len(t) + Len(q)
         /\ \A k \in 1 .. Len(t) + Len(q) : (t \o q)[k] = IF k <= Len(t) THEN t[k] ELSE q[k - Len(t)]
OBVIOUS

LEMMA JoinedToEmpty ==
  ASSUME NEW S, NEW q \in Seq(S) PROVE <<>> \in Seq(S) /\ <<>> \o q = q
OBVIOUS

LEMMA FirstAndRest ==
  ASSUME NEW S, NEW q \in Seq(S), q # <<>>
  PROVE  /\ Len(q) \in Nat \ {0} /\ Head(q) \in S
         /\ Tail(q) \in Seq(S) /\ Len(Tail(q)) = Len(q) - 1
         /\ \A k \in 1 .. Len(Tail(q)) : Tail(q)[k] = q[k + 1]
OBVIOUS

LEMMA SameItems ==
  ASSUME NEW S, NEW t \in Seq(S), NEW q \in Seq(S), Len(t) = Len(q), \A k \in 1 .. Len(t) : t[k] = q[k]
  PROVE  t = q
OBVIOUS

LEMMA EmptyQueue == <<>> \in Seq(Nat) /\ Range(<<>>) = {} /\ IsInjective(<<>>)
BY DEF Range, IsInjective

LEMMA LongerQueue ==
  ASSUME NEW q \in Seq(Nat), NEW x \in Nat
  PROVE  /\ Append(q, x) \in Seq(Nat) /\ Range(Append(q, x)) = Range(q) \cup {x}
         /\ IsInjective(q) /\ x \notin Range(q) => IsInjective(Append(q, x))
<1> DEFINE a == Append(q, x)
<1>1. /\ a \in Seq(Nat) /\ DOMAIN a = 1 .. Len(q) + 1 /\ DOMAIN q = 1 .. Len(q) /\ Len(q) \in Nat
      /\ a[Len(q) + 1] = x /\ \A i \in 1 .. Len(q) : a[i] = q[i]
  OBVIOUS
<1> HIDE DEF a
<1>2. /\ \A i \in DOMAIN a : i \in DOMAIN q \/ i = Len(q) + 1
      /\ \A i \in DOMAIN q : i \in DOMAIN a
      /\ Len(q) + 1 \in DOMAIN a
  BY <1>1
<1>3. Range(a) = Range(q) \cup {x}
  <2>1. \A y \in Range(a) : y \in Range(q) \cup {x}
    BY <1>1, <1>2, Zenon DEF Range
  <2>2. \A y \in Range(q) \cup {x} : y \in Range(a)
    BY <1>1, <1>2, Zenon DEF Range
  <2> QED
    BY <2>1, <2>2, Zenon
<1>4. ASSUME IsInjective(q), x \notin Range(q) PROVE IsInjective(a)
  <2>1. \A i \in DOMAIN q : a[i] = q[i] /\ q[i] # x
    BY <1>1, <1>4, Zenon DEF Range
  <2> QED
    BY <1>1, <1>2, <1>4, <2>1, Zenon DEF IsInjective
<1> QED
  BY <1>1, <1>3, <1>4, Zenon DEF a

LEMMA OneOn ==
  ASSUME NEW n \in Nat
  PROVE  /\ \A i \in 1 .. n - 1 : i + 1 \in 1 .. n /\ i + 1 # 1
         /\ \A k \in 1 .. n : k # 1 => \E i \in 1 .. n - 1 : i + 1 = k
<1>1. ASSUME NEW k \in 1 .. n, k # 1 PROVE k - 1 \in 1 .. n - 1 /\ (k - 1) + 1 = k
  BY <1>1
<1>2. \A i \in 1 .. n - 1 : i + 1 \in 1 .. n /\ i + 1 # 1
  OBVIOUS
<1> QED
  BY <1>1, <1>2, Zenon

LEMMA ShorterQueue ==
  ASSUME NEW q \in Seq(Nat), q # <<>>
  PROVE  /\ Head(q) \in Nat /\ Tail(q) \in Seq(Nat)
         /\ Range(q) = Range(Tail(q)) \cup {Head(q)}
         /\ IsInjective(q) => IsInjective(Tail(q)) /\ Head(q) \notin Range(Tail(q))
<1> DEFINE t == Tail(q)
           h == Head(q)
<1>1. /\ h \in Nat /\ t \in Seq(Nat) /\ h = q[1]
      /\ DOMAIN t = 1 .. Len(q) - 1 /\ DOMAIN q = 1 .. Len(q) /\ Len(q) \in Nat \ {0}
      /\ \A i \in 1 .. Len(q) - 1 : t[i] = q[i + 1]
  OBVIOUS
<1> HIDE DEF t, h
<1>2. /\ \A i \in DOMAIN t : \E k \in DOMAIN q : k # 1 /\ t[i] = q[k]
      /\ \A k \in DOMAIN q : q[k] = h \/ \E i \in DOMAIN t : t[i] = q[k]
      /\ \E k \in DOMAIN q : q[k] = h
  <2>1. ASSUME NEW i \in DOMAIN t PROVE \E k \in DOMAIN q : k # 1 /\ t[i] = q[k]
    BY <1>1, <2>1, OneOn, Zenon
  <2>2. ASSUME NEW k \in DOMAIN q, k # 1 PROVE \E i \in DOMAIN t : t[i] = q[k]
    <3>1. PICK i \in 1 .. Len(q) - 1 : i + 1 = k
      BY <1>1, <2>2, OneOn, Zenon
    <3> QED
      BY <1>1, <3>1, Zenon
  <2>3. 1 \in DOMAIN q
    <3>1. \A n \in Nat \ {0} : 1 \in 1 .. n
      OBVIOUS
    <3> QED
      BY <1>1, <3>1, Zenon
  <2> QED
    BY <1>1, <2>1, <2>2, <2>3, Zenon
<1>3. Range(q) = Range(t) \cup {h}
  <2>1. ASSUME NEW y \in Range(q) PROVE y \in Range(t) \cup {h}
    <3>1. PICK k \in DOMAIN q : y = q[k]
      BY Zenon DEF Range
    <3>2. q[k] = h \/ \E i \in DOMAIN t : t[i] = q[k]
      BY <1>2, Zenon
    <3> QED
      BY <3>1, <3>2, Zenon DEF Range
  <2>2. ASSUME NEW y \in Range(t) \cup {h} PROVE y \in Range(q)
    <3>1. y = h \/ \E i \in DOMAIN t : y = t[i]
      BY Zenon DEF Range
    <3>2. \E k \in DOMAIN q : y = q[k]
      BY <1>2, <3>1, Zenon
    <3> QED
      BY <3>2, Zenon DEF Range
  <2> QED
    BY <2>1, <2>2, Zenon
<1>4. ASSUME IsInjective(q) PROVE IsInjective(t) /\ h \notin Range(t)
  <2>1. h \notin Range(t)
    <3> SUFFICES ASSUME NEW i \in DOMAIN t, t[i] = h PROVE FALSE
      BY Zenon DEF Range
    <3>1. PICK k \in DOMAIN q : k # 1 /\ t[i] = q[k]
      BY <1>2, Zenon
    <3>2. 1 \in DOMAIN q
      BY <1>1
    <3> QED
      BY <1>1, <1>4, <3>1, <3>2, Zenon DEF IsInjective
  <2>2. ASSUME NEW i \in DOMAIN t, NEW j \in DOMAIN t, t[i] = t[j] PROVE i = j
    <3>1. /\ i \in Nat /\ j \in Nat /\ i + 1 \in DOMAIN q /\ j + 1 \in DOMAIN q
          /\ t[i] = q[i + 1] /\ t[j] = q[j + 1]
      <4>1. /\ DOMAIN t = 1 .. Len(q) - 1 /\ DOMAIN q = 1 .. Len(q) /\ Len(q) \in Nat
            /\ i \in 1 .. Len(q) - 1 /\ j \in 1 .. Len(q) - 1
        BY <1>1, Zenon
      <4>2. i \in Nat /\ j \in Nat /\ i + 1 \in 1 .. Len(q) /\ j + 1 \in 1 .. Len(q)
        BY <4>1
      <4>3. t[i] = q[i + 1] /\ t[j] = q[j + 1]
        BY <1>1, <4>1, Zenon
      <4> QED
        BY <4>1, <4>2, <4>3, Zenon
    <3>2. i + 1 = j + 1
      BY <1>4, <2>2, <3>1, Zenon DEF IsInjective
    <3> QED
      BY <3>1, <3>2
  <2> QED
    BY <2>1, <2>2, Zenon DEF IsInjective
<1> QED
  BY <1>1, <1>3, <1>4, Zenon DEF t, h

Increasing(s) == \A i, j \in 1 .. Len(s) : i < j => s[i] < s[j]
Consecutive(s) == \A i \in 1 .. Len(s) - 1 : s[i + 1] = s[i] + 1
UpTo(s, n) == \A i \in 1 .. Len(s) : s[i] <= n
EndsAt(s, n) == s # <<>> => s[Len(s)] = n

LEMMA NextEntered ==
  ASSUME NEW s \in Seq(Nat), NEW n \in Nat, Increasing(s), UpTo(s, n)
  PROVE  LET a == Append(s, n + 1)
         IN  /\ a \in Seq(Nat) /\ Increasing(a) /\ UpTo(a, n + 1) /\ EndsAt(a, n + 1)
             /\ Consecutive(s) /\ EndsAt(s, n) => Consecutive(a)
<1> DEFINE a == Append(s, n + 1)
<1>1. /\ a \in Seq(Nat) /\ Len(a) = Len(s) + 1 /\ Len(s) \in Nat /\ a[Len(s) + 1] = n + 1
      /\ \A i \in 1 .. Len(s) : a[i] = s[i] /\ s[i] \in Nat
      /\ Len(s) # 0 => s # <<>>
  OBVIOUS
<1> HIDE DEF a
<1>2. UpTo(a, n + 1) /\ EndsAt(a, n + 1)
  <2>1. UpTo(a, n + 1)
    <3> SUFFICES ASSUME NEW i \in 1 .. Len(a) PROVE a[i] <= n + 1
      BY Zenon DEF UpTo
    <3> QED
      BY <1>1 DEF UpTo
  <2> QED
    BY <1>1, <2>1 DEF EndsAt
<1>4. Increasing(a)
  <2> SUFFICES ASSUME NEW i \in 1 .. Len(a), NEW j \in 1 .. Len(a), i < j PROVE a[i] < a[j]
    BY Zenon DEF Increasing
  <2>1. i \in 1 .. Len(s) /\ s[i] <= n /\ s[i] \in Nat /\ a[i] = s[i]
    BY <1>1 DEF UpTo
  <2>2. CASE j = Len(s) + 1
    BY <1>1, <2>1, <2>2
  <2>3. CASE j \in 1 .. Len(s)
    BY <1>1, <2>1, <2>3 DEF Increasing
  <2>4. j = Len(s) + 1 \/ j \in 1 .. Len(s)
    <3>1. Len(a) = Len(s) + 1 /\ Len(s) \in Nat
      BY <1>1, Zenon
    <3> QED
      BY <3>1
  <2> QED
    BY <2>2, <2>3, <2>4, Zenon
<1>3. ASSUME Consecutive(s), EndsAt(s, n) PROVE Consecutive(a)
  <2> SUFFICES ASSUME NEW i \in 1 .. Len(a) - 1 PROVE a[i + 1] = a[i] + 1
    BY Zenon DEF Consecutive
  <2>1. CASE i = Len(s)
    BY <1>1, <1>3, <2>1 DEF EndsAt
  <2>2. CASE i # Len(s)
    <3>1. i \in 1 .. Len(s) - 1 /\ i \in 1 .. Len(s) /\ i + 1 \in 1 .. Len(s)
      BY <1>1, <2>2
    <3>2. s[i + 1] = s[i] + 1
      BY <1>3, <3>1, Zenon DEF Consecutive
    <3>3. a[i] = s[i] /\ a[i + 1] = s[i + 1]
      BY <1>1, <3>1, Zenon
    <3> QED
      BY <3>2, <3>3, Zenon
  <2> QED
    BY <2>1, <2>2, Zenon
<1> QED
  BY <1>1, <1>2, <1>3, <1>4, Zenon DEF a

LEMMA UpToMore ==
  ASSUME NEW s \in Seq(Nat), NEW n \in Nat, NEW k \in Nat, n <= k, UpTo(s, n)
  PROVE  UpTo(s, k)
BY DEF UpTo

LEMMA NoneEntered ==
  /\ Increasing(<<>>) /\ Consecutive(<<>>)
  /\ \A n : UpTo(<<>>, n) /\ EndsAt(<<>>, n)
BY DEF Increasing, Consecutive, UpTo, EndsAt

\* A finite set of numbers has a largest one, and can be listed in order.  Both
\* by the least subset for which it is not so.
LEMMA Largest ==
  ASSUME NEW S \in SUBSET Nat, IsFiniteSet(S), NEW U \in SUBSET S, U # {}
  PROVE  \E x \in U : \A y \in U : y <= x
<1> DEFINE Has(V) == \E x \in V : \A y \in V : y <= x
           Bad == {V \in SUBSET S : V # {} /\ ~Has(V)}
<1> SUFFICES ASSUME Bad # {} PROVE FALSE
  BY Zenon
<1>1. Bad \subseteq FiniteSubsetsOf(S)
  BY FS_FiniteSubsetsOfFinite, Zenon
<1>2. IsWellFoundedOn(StrictSubsetOrdering(S), FiniteSubsetsOf(S))
  BY FS_StrictSubsetOrderingWellFounded, Zenon
<1> HIDE DEF Bad
<1>3. PICK V \in Bad : \A W \in Bad : ~(<<W, V>> \in StrictSubsetOrdering(S))
  BY <1>1, <1>2, WFMin, Zenon
<1> USE DEF Bad
<1>4. V \in SUBSET S /\ V # {} /\ ~Has(V)
  BY Zenon
<1>5. PICK x \in V : TRUE
  BY <1>4, Zenon
<1>6. V \ {x} \notin Bad
  BY <1>3, <1>5, Zenon DEF StrictSubsetOrdering
<1>7. V \ {x} = {} \/ Has(V \ {x})
  BY <1>4, <1>6, Zenon
<1>8. V \subseteq Nat
  BY <1>4, Zenon
<1>9. CASE V \ {x} = {}
  BY <1>4, <1>5, <1>8, <1>9
<1>10. CASE Has(V \ {x})
  <2>1. PICK z \in V \ {x} : \A y \in V \ {x} : y <= z
    BY <1>10, Zenon
  <2>2. CASE z <= x
    <3>1. \A y \in V : y <= x
      BY <1>5, <1>8, <2>1, <2>2
    <3> QED
      BY <1>4, <1>5, <3>1, Zenon
  <2>3. CASE x <= z
    <3>1. \A y \in V : y <= z
      BY <1>5, <1>8, <2>1, <2>3
    <3> QED
      BY <1>4, <2>1, <3>1, Zenon
  <2> QED
    BY <1>5, <1>8, <2>1, <2>2, <2>3
<1> QED
  BY <1>7, <1>9, <1>10, Zenon

LEMMA Listing ==
  ASSUME NEW S \in SUBSET Nat, IsFiniteSet(S)
  PROVE  \E n \in Nat : \E s \in [1 .. n -> S] :
           Range(s) = S /\ \A i, k \in DOMAIN s : i < k => s[i] < s[k]
<1> DEFINE Has(V) == \E n \in Nat : \E s \in [1 .. n -> V] :
                       Range(s) = V /\ \A i, k \in DOMAIN s : i < k => s[i] < s[k]
           Bad == {V \in SUBSET S : ~Has(V)}
<1> SUFFICES ASSUME Bad # {} PROVE FALSE
  BY Zenon
<1>1. Bad \subseteq FiniteSubsetsOf(S)
  BY FS_FiniteSubsetsOfFinite, Zenon
<1>2. IsWellFoundedOn(StrictSubsetOrdering(S), FiniteSubsetsOf(S))
  BY FS_StrictSubsetOrderingWellFounded, Zenon
<1> HIDE DEF Bad
<1>3. PICK V \in Bad : \A W \in Bad : ~(<<W, V>> \in StrictSubsetOrdering(S))
  BY <1>1, <1>2, WFMin, Zenon
<1>4. V \in SUBSET S /\ ~Has(V)
  BY Zenon DEF Bad
<1>5. V # {}
  <2> SUFFICES Has({})
    BY <1>4, Zenon
  <2>1. <<>> \in [1 .. 0 -> {}] /\ Range(<<>>) = {} /\ DOMAIN <<>> = {} /\ 0 \in Nat
    BY DEF Range
  <2>2. \A i, k \in DOMAIN <<>> : i < k => <<>>[i] < <<>>[k]
    BY <2>1, Zenon
  <2> QED
    BY <2>1, <2>2, Zenon
<1>6. PICK x \in V : \A y \in V : y <= x
  BY <1>4, <1>5, Largest, Zenon
<1> DEFINE W == V \ {x}
<1>7. W \notin Bad
  BY <1>3, <1>4, <1>6, Zenon DEF StrictSubsetOrdering
<1>8. Has(W)
  BY <1>4, <1>7, Zenon DEF Bad
<1>n. PICK n \in Nat : \E s : /\ s \in [1 .. n -> W] /\ Range(s) = W
                             /\ \A i, k \in DOMAIN s : i < k => s[i] < s[k]
  BY <1>8, Zenon
<1>9. PICK s : /\ s \in [1 .. n -> W] /\ Range(s) = W
               /\ \A i, k \in DOMAIN s : i < k => s[i] < s[k]
  BY <1>n, Zenon
<1> DEFINE a == [i \in 1 .. n + 1 |-> IF i = n + 1 THEN x ELSE s[i]]
<1>10. V \subseteq Nat /\ \A y \in W : y < x
  BY <1>4, <1>6
<1>11. /\ DOMAIN s = 1 .. n /\ DOMAIN a = 1 .. n + 1 /\ n + 1 \in Nat
       /\ \A i \in 1 .. n : i \in 1 .. n + 1 /\ a[i] = s[i]
       /\ \A i \in 1 .. n + 1 : i \in 1 .. n \/ i = n + 1
       /\ n + 1 \in 1 .. n + 1 /\ a[n + 1] = x
  BY <1>9
<1> HIDE DEF a
<1>12. Range(a) = V
  <2>1. \A y \in Range(a) : y \in V
    BY <1>6, <1>9, <1>11, Zenon DEF Range
  <2>2. \A y \in V : y \in Range(a)
    BY <1>9, <1>11, Zenon DEF Range
  <2> QED
    BY <2>1, <2>2, Zenon
<1>13. a \in [1 .. n + 1 -> V]
  <2>1. \A i \in 1 .. n + 1 : a[i] \in V
    BY <1>11, <1>12, Zenon DEF Range
  <2> QED
    BY <1>11, <2>1, Zenon DEF a
<1>14. ASSUME NEW i \in DOMAIN a, NEW k \in DOMAIN a, i < k PROVE a[i] < a[k]
  <2>1. i \in 1 .. n
    BY <1>11, <1>14
  <2>2. s[i] \in W /\ a[i] = s[i]
    BY <1>9, <1>11, <2>1, Zenon
  <2>3. CASE k = n + 1
    BY <1>10, <1>11, <2>2, <2>3, Zenon
  <2>4. CASE k \in 1 .. n
    BY <1>9, <1>11, <1>14, <2>1, <2>4, Zenon
  <2> QED
    BY <1>11, <2>3, <2>4, Zenon
<1> QED
  BY <1>4, <1>11, <1>12, <1>13, <1>14, Zenon

LEMMA ListIsSeq ==
  ASSUME NEW n \in Nat, NEW s \in [1 .. n -> Nat] PROVE s \in Seq(Nat)
OBVIOUS

\* Increasing lists have no duplicates.
LEMMA IncreasingIsInjective ==
  ASSUME NEW n \in Nat, NEW S \in SUBSET Nat, NEW s \in [1 .. n -> S],
         \A i, k \in DOMAIN s : i < k => s[i] < s[k]
  PROVE  IsInjective(s)
<1> SUFFICES ASSUME NEW i \in DOMAIN s, NEW k \in DOMAIN s, s[i] = s[k] PROVE i = k
  BY Zenon DEF IsInjective
<1>1. s[i] \in Nat /\ ~(s[i] < s[k]) /\ ~(s[k] < s[i])
  <2>1. DOMAIN s = 1 .. n /\ s[i] \in Nat
    BY Zenon
  <2> QED
    BY <2>1
<1>2. ~(i < k) /\ ~(k < i)
  BY <1>1, Zenon
<1> QED
  BY <1>2

\* get_unprocessed_message lists every id once.
LEMMA UnprocessedListed ==
  ASSUME NEW ids \in SUBSET Nat, IsFiniteSet(ids)
  PROVE  LET u == CHOOSE s \in [1 .. Cardinality(ids) -> ids] :
                    \A i, k \in DOMAIN s : i < k => s[i] < s[k]
         IN  u \in Seq(Nat) /\ Range(u) = ids /\ IsInjective(u)
<1> DEFINE c == Cardinality(ids)
           Ordered(s) == \A i, k \in DOMAIN s : i < k => s[i] < s[k]
           u == CHOOSE s \in [1 .. c -> ids] : Ordered(s)
<1>n. PICK n \in Nat : \E s : s \in [1 .. n -> ids] /\ Range(s) = ids /\ Ordered(s)
  BY Listing, Zenon
<1>1. PICK s : s \in [1 .. n -> ids] /\ Range(s) = ids /\ Ordered(s)
  BY <1>n, Zenon
<1>2. IsInjective(s)
  BY <1>1, IncreasingIsInjective, Zenon
<1>3. ExistsBijection(1 .. n, ids)
  <2>1. \A y \in ids : \E x \in 1 .. n : s[x] = y
    BY <1>1, Zenon DEF Range
  <2> QED
    BY <1>1, <1>2, <2>1, Zenon DEF ExistsBijection, Bijection, Injection, Surjection, IsInjective
<1>4. c = n
  BY <1>3, FS_CountingElements, Zenon
<1>5. u \in [1 .. c -> ids] /\ Ordered(u)
  BY <1>1, <1>4, Zenon
<1>6. c \in Nat
  BY <1>4, Zenon
<1> HIDE DEF u, c
<1>7. IsInjective(u)
  BY <1>5, <1>6, IncreasingIsInjective, Zenon
<1>8. Range(u) = ids
  <2>1. IsFiniteSet(1 .. c) /\ Cardinality(1 .. c) = c
    <3>1. 1 \in Int /\ c \in Int /\ (IF 1 > c THEN 0 ELSE c - 1 + 1) = c
      BY <1>6
    <3> QED
      BY <3>1, FS_Interval, Zenon
  <2>2. u \in Injection(1 .. c, ids)
    BY <1>5, <1>7, Zenon DEF Injection, IsInjective
  <2>3. u \in Surjection(1 .. c, ids)
    BY <2>1, <2>2, FS_Injection, Zenon DEF c
  <2>4. \A y \in ids : \E x \in 1 .. c : u[x] = y
    BY <2>3, Zenon DEF Surjection
  <2>5. \A y \in ids : y \in Range(u)
    BY <1>5, <2>4, Zenon DEF Range
  <2>6. \A y \in Range(u) : y \in ids
    BY <1>5, Zenon DEF Range
  <2> QED
    BY <2>5, <2>6, Zenon
<1>9. u \in Seq(Nat)
  <2>1. u \in [1 .. c -> Nat]
    BY <1>5, Zenon
  <2> QED
    BY <1>6, <2>1, ListIsSeq, Zenon
<1> QED
  BY <1>7, <1>8, <1>9, Zenon DEF u, c

LEMMA EmptyFirst ==
  ASSUME NEW s \in Seq(Nat) PROVE <<>> \o s = s
BY JoinedToEmpty, Zenon

-----------------------------------------------------------------------------
(* The manager of the runners                                                 *)

On(w, r) == wpc[w] # "idle" /\ wrun[w] = r

Unique == \A r \in Run : \A w, x \in Worker : On(w, r) /\ On(x, r) => x = w

\* A dag run in the running set has one runner, submitted or executing, or none
\* if the pool was shut down; one outside it has none, and an empty queue.
RunnerInv ==
  /\ runners = running
  /\ \A r \in Run : r \notin running =>
       equeue[r] = <<>> /\ submitted[r] = 0 /\ \A w \in Worker : ~On(w, r)
  /\ \A r \in Run : r \in running =>
       \/ submitted[r] = 1 /\ \A w \in Worker : ~On(w, r)
       \/ submitted[r] = 0 /\ \E w \in Worker : On(w, r)
       \/ closed /\ submitted[r] = 0 /\ \A w \in Worker : ~On(w, r)
  /\ Unique

MInv == MTypeOK /\ RunnerInv

\* The values that stand for "no local" of a thread have their types.
LEMMA AnyInSet == AnyRun \in Run /\ AnyEv \in Ev
BY DagRunEventsAssumption, Zenon DEF AnyRun, AnyEv

\* The manager's state has its types in every reachable state.
LEMMA TypeInductive == MTypeOK /\ [MNext]_mvars => MTypeOK'
<1> SUFFICES ASSUME MTypeOK, [MNext]_mvars PROVE MTypeOK'
  BY Zenon
<1> USE DEF MTypeOK
<1>1. ASSUME NEW r \in Run, NEW e \in Ev, handle_event(r, e) PROVE MTypeOK'
  BY <1>1 DEF handle_event
<1>2. ASSUME NEW w \in Worker, NEW r \in Run, StartRunner(w, r) PROVE MTypeOK'
  BY <1>2 DEF StartRunner
<1>3. ASSUME NEW w \in Worker, GetEvent(w) PROVE MTypeOK'
  <2>1. wrun[w] \in Run
    BY Zenon
  <2>2. CASE equeue[wrun[w]] # <<>>
    <3>1. Head(equeue[wrun[w]]) \in Ev /\ Tail(equeue[wrun[w]]) \in Seq(Ev)
      BY <2>1, <2>2
    <3>0. /\ equeue' = [equeue EXCEPT ![wrun[w]] = Tail(equeue[wrun[w]])]
          /\ wev' = [wev EXCEPT ![w] = Head(equeue[wrun[w]])]
      BY <1>3, <2>2, Zenon DEF GetEvent
    <3>2. equeue' \in [Run -> Seq(Ev)] /\ wev' \in [Worker -> Ev]
      BY <2>1, <3>0, <3>1, Zenon
    <3>3. Append(taken[wrun[w]], Head(equeue[wrun[w]])) \in Seq(Ev)
      BY <2>1, <3>1
    <3>4. taken' \in [Run -> Seq(Ev)]
      <4>1. taken' = [taken EXCEPT ![wrun[w]] = Append(taken[wrun[w]], Head(equeue[wrun[w]]))]
        BY <1>3, <2>2, Zenon DEF GetEvent
      <4> QED
        BY <2>1, <3>3, <4>1, Zenon
    <3>5. wpc' \in [Worker -> {"idle", "loop", "got", "send", "exit"}]
      BY <1>3, <2>2, Zenon DEF GetEvent
    <3> QED
      BY <1>3, <3>2, <3>4, <3>5, Zenon DEF GetEvent
  <2>3. CASE equeue[wrun[w]] = <<>>
    BY <1>3, <2>1, <2>3, Zenon DEF GetEvent
  <2> QED
    BY <2>2, <2>3, Zenon
<1>4. ASSUME NEW w \in Worker, ExecuteHandler(w) PROVE MTypeOK'
  BY <1>4, Zenon DEF ExecuteHandler
<1>5. ASSUME NEW w \in Worker, NextEvent(w) PROVE MTypeOK'
  BY <1>5 DEF NextEvent
<1>6. ASSUME NEW w \in Worker, RunnerExited(w) PROVE MTypeOK'
  <2>1. /\ wpc' \in [Worker -> {"idle", "loop", "got", "send", "exit"}]
        /\ wrun' \in [Worker -> Run] /\ wev' \in [Worker -> Ev] /\ wn' \in [Worker -> Nat]
    BY <1>6, AnyInSet, Zenon DEF RunnerExited, ThreadIdle
  <2>2. runners' \in SUBSET Run /\ running' \in SUBSET Run /\ submitted' \in [Run -> Nat]
    <3>1. CASE equeue[wrun[w]] # <<>>
      <4>1. UNCHANGED <<runners, running>>
            /\ (submitted' = submitted \/ submitted' = [submitted EXCEPT ![wrun[w]] = @ + 1])
        BY <1>6, <3>1, Zenon DEF RunnerExited
      <4> QED
        BY <4>1
    <3>2. CASE equeue[wrun[w]] = <<>>
      BY <1>6, <3>2, Zenon DEF RunnerExited
    <3> QED
      BY <3>1, <3>2, Zenon
  <2>3. UNCHANGED <<equeue, closed, put, taken>>
    BY <1>6, Zenon DEF RunnerExited
  <2> QED
    BY <2>1, <2>2, <2>3, Zenon
<1>7. CASE UNCHANGED mvars
  BY <1>7, Zenon DEF mvars
<1>8. CASE end
  <2>1. closed' \in BOOLEAN
    BY <1>8, Zenon DEF end
  <2> QED
    BY <1>8, <2>1, Zenon DEF end
<1> QED
  BY <1>1, <1>2, <1>3, <1>4, <1>5, <1>6, <1>7, <1>8, Zenon DEF MNext

\* handle_event, the runners and _runner_exited keep the accounting of runners:
\* a dag run in _running_event_executor_runners has one runner, submitted or
\* executing, and any other has none and an empty queue.
LEMMA RunnerInductive == MInv /\ [MNext]_mvars => RunnerInv'
<1> SUFFICES ASSUME MTypeOK, RunnerInv, [MNext]_mvars PROVE RunnerInv'
  BY Zenon DEF MInv
<1> USE DEF MTypeOK, RunnerInv, On
<1>1. ASSUME NEW r \in Run, NEW e \in Ev, handle_event(r, e) PROVE RunnerInv'
  <2>1. runners' = running' /\ running' = running \cup {r} /\ UNCHANGED <<wpc, wrun, closed>>
    BY <1>1, Zenon DEF handle_event
  <2>2. CASE r \in running \/ closed
    BY <1>1, <2>1, <2>2 DEF handle_event, Unique
  <2>3. CASE r \notin running /\ ~closed
    <3>1. submitted' = [submitted EXCEPT ![r] = @ + 1] /\ submitted'[r] = 1
      BY <1>1, <2>3 DEF handle_event
    <3> QED
      BY <1>1, <2>1, <2>3, <3>1 DEF handle_event, Unique
  <2> QED
    BY <2>2, <2>3, Zenon
<1>2. ASSUME NEW w \in Worker, NEW r \in Run, StartRunner(w, r) PROVE RunnerInv'
  <2>1. r \in running /\ submitted[r] = 1 /\ \A x \in Worker : ~On(x, r)
    <3>1. submitted[r] > 0 /\ r \in running
      BY <1>2, Zenon DEF StartRunner
    <3>2. submitted[r] # 0
      BY <3>1
    <3> QED
      BY <3>1, <3>2, Zenon
  <2>2. /\ submitted' = [submitted EXCEPT ![r] = 0]
        /\ wpc' = [wpc EXCEPT ![w] = "loop"] /\ wrun' = [wrun EXCEPT ![w] = r]
        /\ UNCHANGED <<runners, running, equeue, closed>>
    BY <1>2, <2>1 DEF StartRunner
  <2>3. wpc[w] = "idle" /\ wpc'[w] = "loop" /\ wrun'[w] = r
    BY <1>2, <2>2 DEF StartRunner
  <2>4. \A x \in Worker : x # w => wpc'[x] = wpc[x] /\ wrun'[x] = wrun[x]
    BY <2>2, Zenon
  <2>5. \A q \in Run : q # r => submitted'[q] = submitted[q] /\ \A x \in Worker : On(x, q)' <=> On(x, q)
    BY <2>2, <2>3, <2>4, Zenon
  <2>6. submitted'[r] = 0 /\ On(w, r)' /\ \A x \in Worker : On(x, r)' => x = w
    <3>1. submitted'[r] = 0
      BY <2>2, Zenon
    <3>2. On(w, r)'
      BY <2>3, Zenon
    <3>3. \A x \in Worker : On(x, r)' => x = w
      BY <2>1, <2>4, Zenon
    <3> QED
      BY <3>1, <3>2, <3>3, Zenon
  <2>7. RunnerInv!1' /\ RunnerInv!2'
    BY <2>1, <2>2, <2>5
  <2>8. RunnerInv!3'
    BY <2>1, <2>2, <2>5, <2>6
  <2>9. Unique'
    <3>1. \A x, y \in Worker : On(x, r)' /\ On(y, r)' => y = x
      BY <2>6, Zenon
    <3>2. \A q \in Run : q # r => \A x, y \in Worker : On(x, q)' /\ On(y, q)' => y = x
      <4>1. \A q \in Run : \A x, y \in Worker : On(x, q) /\ On(y, q) => y = x
        BY Zenon DEF Unique
      <4>2. \A q \in Run : q # r => \A x \in Worker : On(x, q)' => On(x, q)
        BY <2>5, Zenon
      <4> QED
        BY ONLY <4>1, <4>2, Zenon
    <3> QED
      BY <3>1, <3>2, Zenon DEF Unique
  <2> QED
    BY <2>7, <2>8, <2>9, Zenon
<1>3. ASSUME NEW w \in Worker, GetEvent(w) PROVE RunnerInv'
  <2>1. \A x \in Worker, r \in Run : On(x, r)' <=> On(x, r)
    BY <1>3 DEF GetEvent
  <2>2. \A r \in Run : r \notin running => equeue'[r] = equeue[r]
    BY <1>3 DEF GetEvent
  <2> QED
    BY <1>3, <2>1, <2>2 DEF GetEvent, Unique
<1>4. ASSUME NEW w \in Worker, ExecuteHandler(w) \/ NextEvent(w) PROVE RunnerInv'
  <2>1. \A x \in Worker, r \in Run : On(x, r)' <=> On(x, r)
    BY <1>4 DEF ExecuteHandler, NextEvent
  <2> QED
    BY <1>4, <2>1 DEF ExecuteHandler, NextEvent, Unique
<1>6. ASSUME NEW w \in Worker, RunnerExited(w) PROVE RunnerInv'
  <2>0. PICK r \in Run : r = wrun[w]
    BY Zenon
  <2>1. On(w, r) /\ r \in running /\ submitted[r] = 0
    BY <1>6, <2>0, Zenon DEF RunnerExited
  <2>2. wpc'[w] = "idle" /\ \A x \in Worker : x # w => wpc'[x] = wpc[x] /\ wrun'[x] = wrun[x]
    BY <1>6, Zenon DEF RunnerExited, ThreadIdle
  <2>3. \A x \in Worker : ~On(x, r)'
    <3>1. \A x \in Worker : On(x, r) => x = w
      BY <2>1 DEF Unique
    <3> SUFFICES ASSUME NEW x \in Worker PROVE ~On(x, r)'
      BY Zenon
    <3>2. CASE x = w
      BY <2>2, <3>2, Zenon
    <3>3. CASE x # w
      BY <2>2, <3>1, <3>3, Zenon
    <3> QED
      BY <3>2, <3>3, Zenon
  <2>4. \A x \in Worker, q \in Run : q # r => (On(x, q)' <=> On(x, q))
    BY <2>1, <2>2, Zenon
  <2>5. Unique'
    <3>1. \A x, y \in Worker : On(x, r)' /\ On(y, r)' => y = x
      BY <2>3, Zenon
    <3>2. \A q \in Run : q # r => \A x, y \in Worker : On(x, q)' /\ On(y, q)' => y = x
      <4>1. \A q \in Run : \A x, y \in Worker : On(x, q) /\ On(y, q) => y = x
        BY Zenon DEF Unique
      <4>2. \A q \in Run : q # r => \A x \in Worker : On(x, q)' => On(x, q)
        BY <2>4, Zenon
      <4> QED
        BY ONLY <4>1, <4>2, Zenon
    <3> QED
      BY <3>1, <3>2, Zenon DEF Unique
  <2>6. CASE equeue[r] # <<>> /\ ~closed
    <3>1. submitted' = [submitted EXCEPT ![r] = 1] /\ UNCHANGED <<runners, running, equeue, closed>>
      BY <1>6, <2>0, <2>1, <2>6 DEF RunnerExited
    <3>2. RunnerInv!2'
      BY <2>1, <2>4, <3>1
    <3>3. RunnerInv!3'
      BY <2>1, <2>3, <2>4, <3>1
    <3> QED
      BY <2>5, <3>1, <3>2, <3>3, Zenon
  <2>8. CASE equeue[r] # <<>> /\ closed
    <3>1. UNCHANGED <<submitted, runners, running, equeue, closed>>
      BY <1>6, <2>0, <2>8, Zenon DEF RunnerExited
    <3>2. RunnerInv!2'
      BY <2>1, <2>4, <3>1
    <3>3. RunnerInv!3'
      BY <2>1, <2>3, <2>4, <2>8, <3>1
    <3> QED
      BY <2>5, <3>1, <3>2, <3>3, Zenon
  <2>7. CASE equeue[r] = <<>>
    <3>1. UNCHANGED <<submitted, equeue, closed>> /\ running' = running \ {r} /\ runners' = runners \ {r}
      BY <1>6, <2>0, <2>7, Zenon DEF RunnerExited
    <3>2. RunnerInv!2'
      BY <2>1, <2>3, <2>4, <2>7, <3>1
    <3>3. RunnerInv!3'
      BY <2>4, <3>1
    <3> QED
      BY <2>5, <3>1, <3>2, <3>3, Zenon
  <2> QED
    BY <2>6, <2>7, <2>8, Zenon
<1>7. CASE UNCHANGED mvars
  BY <1>7 DEF mvars, Unique
<1>8. CASE end
  BY <1>8 DEF end, Unique
<1> QED
  BY <1>1, <1>2, <1>3, <1>4, <1>6, <1>7, <1>8, Zenon DEF MNext

\* A new manager has neither runners nor events.
LEMMA MInvInit == MInit => MInv
<1>1. MInit => MTypeOK
  <2> SUFFICES ASSUME MInit PROVE MTypeOK
    OBVIOUS
  <2>1. closed \in BOOLEAN
    BY Zenon DEF MInit
  <2>2. <<>> \in Seq(Ev) /\ 0 \in Nat
    OBVIOUS
  <2> QED
    BY <2>1, <2>2, AnyInSet, Zenon DEF MInit, MTypeOK
<1>2. MInit => RunnerInv
  BY Zenon DEF MInit, RunnerInv, On, Unique
<1> QED
  BY <1>1, <1>2, Zenon DEF MInv

\* The inductive invariant of DagRunEventManager holds in every reachable
\* state: types, and at most one runner for each dag run that has events.
THEOREM InvariantHolds == MSpec => []MInv
<1>1. MInit => MInv
  BY MInvInit, Zenon
<1>2. MInv /\ [MNext]_mvars => MInv'
  BY TypeInductive, RunnerInductive, Zenon DEF MInv
<1> QED
  BY <1>1, <1>2, PTL DEF MSpec

\* The handlers of a dag run never run concurrently: a thread that executes
\* its runner is the only one, and no other runner of it is submitted.
THEOREM AtMostOneRunner == MSpec => []OneRunnerPerRun
<1>1. MInv => OneRunnerPerRun
  BY DEF MInv, MTypeOK, RunnerInv, Unique, OneRunnerPerRun, On, Active
<1> QED
  BY <1>1, InvariantHolds, PTL

\* _runner_exited and handle_event leave no event behind: a queue with events
\* has a runner, until the pool is shut down.
THEOREM NoEventLeftBehind == MSpec => []NoEventStranded
<1>1. MInv => NoEventStranded
  <2> SUFFICES ASSUME MInv, ~closed, NEW r \in Run, equeue[r] # <<>>
               PROVE submitted[r] > 0 \/ \E w \in Worker : On(w, r)
    BY Zenon DEF NoEventStranded, On, Active
  <2>1. r \in running
    BY Zenon DEF MInv, RunnerInv
  <2>2. submitted[r] = 1 \/ \E w \in Worker : On(w, r)
    BY <2>1, Zenon DEF MInv, RunnerInv
  <2> QED
    BY <2>2
<1> QED
  BY <1>1, InvariantHolds, PTL

\* Giving an event to a queue, and taking one from it, in terms of everything
\* that went through the queue.
LEMMA AppendToQueue ==
  ASSUME NEW t \in Seq(Ev), NEW q \in Seq(Ev), NEW e \in Ev
  PROVE  t \o Append(q, e) = Append(t \o q, e)
<1>1. t \o Append(q, e) \in Seq(Ev) /\ Append(t \o q, e) \in Seq(Ev)
  BY Joined
<1>2. Len(t \o Append(q, e)) = Len(Append(t \o q, e))
  BY Joined
<1>3. ASSUME NEW i \in 1 .. Len(t \o Append(q, e)) PROVE (t \o Append(q, e))[i] = Append(t \o q, e)[i]
  <2>1. /\ Append(q, e) \in Seq(Ev) /\ Len(Append(q, e)) = Len(q) + 1
        /\ Append(q, e)[Len(q) + 1] = e /\ \A j \in 1 .. Len(q) : Append(q, e)[j] = q[j]
    OBVIOUS
  <2>2. i \in 1 .. Len(t) + Len(q) + 1 /\ Len(t) \in Nat /\ Len(q) \in Nat
    BY <2>1, Joined
  <2>3. (t \o Append(q, e))[i] = IF i <= Len(t) THEN t[i] ELSE Append(q, e)[i - Len(t)]
    <3>1. \A a \in Seq(Ev) : \A j \in 1 .. Len(t) + Len(a) :
            (t \o a)[j] = IF j <= Len(t) THEN t[j] ELSE a[j - Len(t)]
      BY Joined, Zenon
    <3>2. i \in 1 .. Len(t) + Len(Append(q, e))
      BY <2>1, <2>2
    <3> QED
      BY <2>1, <3>1, <3>2, Zenon
  <2>4. /\ t \o q \in Seq(Ev) /\ Len(t \o q) = Len(t) + Len(q)
        /\ i <= Len(t) + Len(q) => (t \o q)[i] = IF i <= Len(t) THEN t[i] ELSE q[i - Len(t)]
    BY <2>2, Joined
  <2>5. CASE i = Len(t) + Len(q) + 1
    BY <2>1, <2>2, <2>3, <2>4, <2>5
  <2>6. CASE i <= Len(t) + Len(q)
    BY <2>1, <2>2, <2>3, <2>4, <2>6
  <2> QED
    BY <2>2, <2>5, <2>6
<1> QED
  BY <1>1, <1>2, <1>3, SameItems, Zenon

\* Taking the first event moves it from the queue to what was taken.
LEMMA TakeFromQueue ==
  ASSUME NEW t \in Seq(Ev), NEW q \in Seq(Ev), q # <<>>
  PROVE  Append(t, Head(q)) \o Tail(q) = t \o q
<1>1. /\ Head(q) \in Ev /\ Tail(q) \in Seq(Ev) /\ Len(Tail(q)) = Len(q) - 1
      /\ \A i \in 1 .. Len(Tail(q)) : Tail(q)[i] = q[i + 1]
      /\ Len(q) \in Nat \ {0}
  BY FirstAndRest, Zenon
<1>2. Append(t, Head(q)) \in Seq(Ev) /\ Len(Append(t, Head(q))) = Len(t) + 1
  BY <1>1
<1>3. Append(t, Head(q)) \o Tail(q) \in Seq(Ev) /\ t \o q \in Seq(Ev)
  BY <1>1, <1>2, Joined, Zenon
<1>4. Len(Append(t, Head(q)) \o Tail(q)) = Len(t \o q)
  BY <1>1, <1>2, Joined
<1>5. \A i \in 1 .. Len(t \o q) : (Append(t, Head(q)) \o Tail(q))[i] = (t \o q)[i]
  BY <1>1, <1>2, Joined
<1> QED
  BY <1>3, <1>4, <1>5, SameItems, Zenon

LEMMA OrderInit == MInit => EventsInOrder
<1>1. <<>> \o <<>> = <<>>
  OBVIOUS
<1> QED
  BY <1>1, Zenon DEF MInit, EventsInOrder

LEMMA OrderInductive == MTypeOK /\ EventsInOrder /\ [MNext]_mvars => EventsInOrder'
<1> SUFFICES ASSUME MTypeOK, EventsInOrder, [MNext]_mvars, NEW r \in Run
             PROVE (taken[r] \o equeue[r] = put[r])'
  BY Zenon DEF EventsInOrder
<1> USE DEF MTypeOK
<1>0. taken[r] \o equeue[r] = put[r] /\ taken[r] \in Seq(Ev) /\ equeue[r] \in Seq(Ev)
  BY Zenon DEF EventsInOrder
<1>1. ASSUME NEW q \in Run, NEW e \in Ev, handle_event(q, e) PROVE (taken[r] \o equeue[r] = put[r])'
  <2>1. CASE q = r
    <3>1. taken' = taken /\ equeue'[r] = Append(equeue[r], e) /\ put'[r] = Append(put[r], e)
      BY <1>1, <2>1, Zenon DEF handle_event
    <3> QED
      BY <1>0, <3>1, AppendToQueue, Zenon
  <2>2. CASE q # r
    BY <1>0, <1>1, <2>2, Zenon DEF handle_event
  <2> QED
    BY <2>1, <2>2, Zenon
<1>2. ASSUME NEW w \in Worker, GetEvent(w) PROVE (taken[r] \o equeue[r] = put[r])'
  <2>1. CASE wrun[w] = r /\ equeue[r] # <<>>
    <3>1. /\ taken'[r] = Append(taken[r], Head(equeue[r]))
          /\ equeue'[r] = Tail(equeue[r]) /\ put' = put
      BY <1>2, <2>1, Zenon DEF GetEvent
    <3> QED
      BY <1>0, <2>1, <3>1, TakeFromQueue, Zenon
  <2>2. CASE ~(wrun[w] = r /\ equeue[r] # <<>>)
    <3>1. taken'[r] = taken[r] /\ equeue'[r] = equeue[r] /\ put' = put
      BY <1>2, <2>2, Zenon DEF GetEvent
    <3> QED
      BY <1>0, <3>1, Zenon
  <2> QED
    BY <2>1, <2>2, Zenon
<1>3. CASE UNCHANGED <<taken, equeue, put>>
  BY <1>0, <1>3, Zenon
<1> QED
  BY <1>1, <1>2, <1>3, Zenon DEF MNext, mvars, end, StartRunner, ExecuteHandler, NextEvent, RunnerExited

\* The runners of a dag run take its events in the order in which the
\* scheduler gave them, and lose none between two runners.
THEOREM TakenInOrder == MSpec => []EventsInOrder
BY OrderInit, OrderInductive, InvariantHolds, PTL DEF MSpec, MInv

-----------------------------------------------------------------------------
(* The scheduler                                                              *)

Listening == {"loop", "stopping", "ending"}
Rows == [id : 1 .. nextId - 1, job : 1 .. job, body : Bodies]

Owable == Run \X Ev \X (Result \ NoAction)

Shape ==
  /\ sent \in 0 .. MaxEvents /\ job \in 0 .. MaxJobs
  /\ phase \in {"down", "started", "recovered"} \cup Listening
  /\ start \in 0 .. sent /\ cursor \in 0 .. sent
  /\ progress \in [1 .. MaxJobs -> 0 .. NoProgress]
  /\ nextId \in Nat \ {0} /\ table \subseteq Rows
  /\ queue \in Seq(Nat) /\ current \in Nat
  /\ todo \subseteq Run /\ results \in [Worker -> SUBSET Result]
  /\ entered \in Seq(Ev) /\ owed \subseteq Owable /\ handled \subseteq Run \X Ev
  /\ stops \in 0 .. MaxStops

\* A job that runs has a row and follows the one before it; nothing is handled
\* before its loop starts.
Jobs ==
  /\ phase # "down" => job \in 1 .. MaxJobs /\ last = job - 1
  /\ phase = "down" => last = 0
  /\ phase \in {"down", "started"} => queue = <<>>
  /\ phase \notin Listening => current = 0 /\ running = {}
  /\ current = 0 => todo = {}

\* The ids in the mailbox are those of rows, each once.
Mailbox ==
  /\ \A m, n \in table : m.id = n.id => m = n
  /\ \A i \in Range(queue) : \E m \in table : m.id = i
  /\ current # 0 => \E m \in table : m.id = current
  /\ IsInjective(queue) /\ current \notin Range(queue)

\* From recovery on the rows of the job and of the last one are in the mailbox.
Recovered ==
  /\ phase = "started" => \A m \in table : m.job # job
  /\ phase \in {"recovered"} \cup Listening =>
       \A m \in table : m.job \in {last, job} => InMailbox(m.id)

\* Every action that is owed has a thread that will send it, or a row whose
\* message is still to be handled: it is not the one that was just handled and
\* whose row is not deleted yet.
StandsFor(b, a) == b \in {EventHandle(a[1], a[2], a[3]), TaskScheduling(a[1], a[2], a[3])}
Due(m) == ~(m.id = current /\ todo # {})
Kept == \A a \in owed : Unsent(a) \/ \E m \in table : StandsFor(m.body, a) /\ Due(m)

Saved == \A j \in 1 .. job - 1 : progress[j] # NoProgress
Starting == phase \in {"started", "recovered"}

\* Where the job listens on, or the next one will: known while a job starts
\* and once its progress is saved.
Known == Starting \/ (job # 0 /\ progress[job] # NoProgress)
Mark == IF Starting THEN start ELSE progress[job]

Progressed ==
  /\ \A j \in 1 .. MaxJobs : j > job => progress[j] = NoProgress
  /\ Starting => progress[job] = NoProgress
  /\ phase \in Listening => progress[job] = cursor
  /\ job # 0 /\ progress[job] # NoProgress => progress[job] <= sent
  /\ job = 0 => entered = <<>>

Entered ==
  /\ Increasing(entered) /\ UpTo(entered, sent)
  /\ Saved => Consecutive(entered)
  /\ Known => UpTo(entered, Mark) /\ (Saved => EndsAt(entered, Mark))

Mails == Mailbox /\ Recovered /\ Kept
Listens == Progressed /\ Entered
SInv == MInv /\ Shape /\ Jobs /\ Mails /\ Listens

LEMMA SInvIs ==
  ASSUME SInv
  PROVE  /\ MInv /\ Shape /\ Jobs /\ Mails /\ Listens
         /\ Mailbox /\ Recovered /\ Kept /\ Progressed /\ Entered
BY Zenon DEF SInv, Mails, Listens

LEMMA SInvNext ==
  ASSUME MInv', Shape', Jobs', Mails', Listens' PROVE SInv'
BY Zenon DEF SInv

LEMMA SInit == Init => SInv
<1> SUFFICES ASSUME Init PROVE SInv
  OBVIOUS
<1>1. MInv
  BY MInvInit, Zenon DEF Init
<1>2. Shape
  <2>1. NoProgress \in 0 .. NoProgress
    BY EventSchedulerAssumption DEF NoProgress
  <2>2. 0 \in 0 .. MaxEvents /\ 0 \in 0 .. MaxJobs /\ 0 \in 0 .. MaxStops /\ 0 \in 0 .. 0
        /\ 0 \in Nat /\ 1 \in Nat \ {0}
    BY EventSchedulerAssumption
  <2>3. <<>> \in Seq(Nat) /\ <<>> \in Seq(Ev)
    OBVIOUS
  <2> QED
    BY <2>1, <2>2, <2>3, Zenon DEF Init, Shape
<1>3. Jobs
  BY Zenon DEF Init, Jobs, MInit, Listening
<1>4. Mails
  <2>1. queue = <<>> /\ current = 0 /\ table = {} /\ owed = {} /\ phase = "down"
    BY Zenon DEF Init
  <2> QED
    BY <2>1, EmptyQueue, Zenon DEF Mails, Mailbox, Recovered, Kept, Listening
<1>5. Listens
  <2>1. /\ entered = <<>> /\ job = 0 /\ phase = "down" /\ sent = 0
        /\ \A j \in 1 .. MaxJobs : progress[j] = NoProgress
    BY Zenon DEF Init
  <2> QED
    BY <2>1, NoneEntered, Zenon DEF Listens, Progressed, Entered, Known, Starting, Listening
<1> QED
  BY <1>1, <1>2, <1>3, <1>4, <1>5, Zenon DEF SInv

\* The events the job listens to are not touched.
LEMMA SameListens ==
  ASSUME SInv, UNCHANGED <<sent, job, start, progress, cursor, entered>>,
         phase' = phase \/ {phase, phase'} \subseteq Listening
  PROVE  Listens'
<1>1. Starting' <=> Starting
  BY Zenon DEF Starting, Listening
<1>2. phase' \in Listening => phase \in Listening
  BY Zenon
<1>3. Saved' <=> Saved
  BY Zenon DEF Saved
<1>4. Mark' = Mark /\ (Known' <=> Known)
  BY <1>1, Zenon DEF Known, Mark
<1>5. Progressed'
  BY <1>1, <1>2, SInvIs, Zenon DEF Progressed
<1>6. Entered'
  <2>1. sent' = sent /\ entered' = entered
    BY Zenon
  <2> QED
    BY <1>3, <1>4, <2>1, SInvIs, Zenon DEF Entered
<1> QED
  BY <1>5, <1>6, Zenon DEF Listens

\* The manager is not touched.
LEMMA SameManager ==
  ASSUME SInv, UNCHANGED mvars PROVE MInv'
BY SInvIs, TypeInductive, RunnerInductive, Zenon DEF MInv

\* A step of the manager of the runners.
LEMMA ManagerStep ==
  ASSUME SInv, MNext PROVE MInv'
BY SInvIs, TypeInductive, RunnerInductive, Zenon DEF MInv

LEMMA OneLess ==
  ASSUME NEW a \in Nat, NEW b \in Nat, a <= b
  PROVE  a - 1 \in Int /\ b - 1 \in Int /\ a - 1 <= b - 1
OBVIOUS

LEMMA MoreNumbers ==
  ASSUME NEW a \in Int, NEW b \in Int, a <= b PROVE 1 .. a \subseteq 1 .. b
OBVIOUS

\* Rows stay rows.
LEMMA RowsStay ==
  ASSUME Shape, nextId' \in Nat \ {0}, nextId <= nextId', job' \in Nat, job <= job'
  PROVE  Rows \subseteq Rows'
<1>1. nextId - 1 \in Int /\ nextId' - 1 \in Int /\ nextId - 1 <= nextId' - 1
  <2>1. nextId \in Nat /\ nextId' \in Nat
    BY Zenon DEF Shape
  <2> QED
    BY <2>1, OneLess, Zenon
<1>2. job \in Int /\ job' \in Int
  <2>1. job \in 0 .. MaxJobs
    BY Zenon DEF Shape
  <2> QED
    BY <2>1, EventSchedulerAssumption
<1>3. 1 .. nextId - 1 \subseteq 1 .. nextId' - 1 /\ 1 .. job \subseteq 1 .. job'
  BY <1>1, <1>2, MoreNumbers, Zenon
<1> QED
  BY <1>3, Zenon DEF Rows

\* A body has the fields of its type.
LEMMA EventFields ==
  ASSUME NEW b, NEW e, b = Event(e)
  PROVE  b.type = "Event" /\ b.ev = e
BY DEF Event

LEMMA StopFields ==
  ASSUME NEW b, NEW e, b = StopScheduler(e)
  PROVE  b.type = "StopScheduler"
BY DEF StopScheduler

Request(b) == b.type \in {"EventHandle", "TaskScheduling"}

LEMMA BodyIs ==
  ASSUME NEW b \in Bodies
  PROVE  /\ b.type = "Event" => b.ev \in Ev
         /\ Request(b) => b.run \in Run /\ b.ev \in Ev /\ b.result \in Result
<1> DEFINE Fits == /\ b.type = "Event" => b.ev \in Ev
                   /\ Request(b) => b.run \in Run /\ b.ev \in Ev /\ b.result \in Result
<1>1. ASSUME NEW e \in Ev, b = Event(e) PROVE Fits
  <2>1. b.type = "Event" /\ b.ev = e
    BY <1>1, EventFields, Zenon
  <2> QED
    BY <2>1, Zenon DEF Request
<1>2. ASSUME NEW j \in 0 .. MaxJobs, b = StopScheduler(j) PROVE Fits
  <2>1. b.type = "StopScheduler"
    BY <1>2, StopFields, Zenon
  <2> QED
    BY <2>1, Zenon DEF Request
<1>3. ASSUME NEW r \in Run, NEW e \in Ev, NEW x \in Result, b = EventHandle(r, e, x) PROVE Fits
  <2>1. b.type = "EventHandle" /\ b.run = r /\ b.ev = e /\ b.result = x
    BY <1>3, SMT DEF EventHandle
  <2> QED
    BY <2>1, Zenon
<1>4. ASSUME NEW r \in Run, NEW e \in Ev, NEW x \in Result, b = TaskScheduling(r, e, x) PROVE Fits
  <2>1. b.type = "TaskScheduling" /\ b.run = r /\ b.ev = e /\ b.result = x
    BY <1>4, SMT DEF TaskScheduling
  <2> QED
    BY <2>1, Zenon
<1> HIDE DEF Fits
<1>5. \/ \E e \in Ev : b = Event(e)
      \/ \E j \in 0 .. MaxJobs : b = StopScheduler(j)
      \/ \E r \in Run, e \in Ev, x \in Result : b = EventHandle(r, e, x)
      \/ \E r \in Run, e \in Ev, x \in Result : b = TaskScheduling(r, e, x)
  <2> b \in Bodies
    OBVIOUS
  <2> QED
    BY SMT DEF Bodies
<1>6. Fits
  BY <1>1, <1>2, <1>3, <1>4, <1>5, Zenon
<1> QED
  BY <1>6, Zenon DEF Fits

LEMMA SomeBodies ==
  /\ \A e \in Ev : Event(e) \in Bodies
  /\ \A j \in 0 .. MaxJobs : StopScheduler(j) \in Bodies
  /\ \A r \in Run, e \in Ev, x \in Result :
       EventHandle(r, e, x) \in Bodies /\ TaskScheduling(r, e, x) \in Bodies
BY SMT DEF Bodies

\* The message that stands for an action names it.
LEMMA Standing ==
  ASSUME NEW b, NEW a \in Owable, StandsFor(b, a)
  PROVE  /\ Request(b) /\ a = <<b.run, b.ev, b.result>> /\ b.result \notin NoAction
         /\ b.run = a[1] /\ b.ev = a[2] /\ b.result = a[3]
<1>1. Request(b) /\ b.run = a[1] /\ b.ev = a[2] /\ b.result = a[3]
  <2>1. CASE b = EventHandle(a[1], a[2], a[3])
    BY <2>1, SMT DEF EventHandle, Request
  <2>2. CASE b = TaskScheduling(a[1], a[2], a[3])
    BY <2>2, SMT DEF TaskScheduling, Request
  <2> QED
    BY <2>1, <2>2, Zenon DEF StandsFor
<1>3. a = <<a[1], a[2], a[3]>> /\ a[3] \notin NoAction
  BY DEF Owable
<1> QED
  BY <1>1, <1>3, Zenon

LEMMA SameUnsent ==
  ASSUME NEW a, UNCHANGED <<wpc, wrun, wev, results>> PROVE Unsent(a)' <=> Unsent(a)
BY Zenon DEF Unsent

LEMMA StillUnsent ==
  ASSUME UNCHANGED mvars, UNCHANGED <<results, owed>>
  PROVE  \A a \in owed' : a \in owed /\ (Unsent(a)' <=> Unsent(a))
<1>1. UNCHANGED <<wpc, wrun, wev, results>>
  BY Zenon DEF mvars
<1> QED
  BY <1>1, SameUnsent, Zenon

\* The row of the message that is worked on.
LEMMA RowIs ==
  ASSUME SInv, current # 0
  PROVE  /\ Row(current) \in table /\ Row(current).id = current /\ Row(current).body \in Bodies
         /\ \A m \in table : m.id = current => m = Row(current)
<1>1. \E m \in table : m.id = current
  BY SInvIs, Zenon DEF Mailbox
<1>2. Row(current) \in table /\ Row(current).id = current
  BY <1>1, Zenon DEF Row
<1>3. Row(current).body \in Bodies
  BY <1>2, SInvIs, Zenon DEF Shape, Rows
<1> QED
  BY <1>2, <1>3, SInvIs, Zenon DEF Mailbox

\* A message is sent: its row is new, and is in the mailbox.
LEMMA MessageSent ==
  ASSUME SInv, phase \in Listening, NEW b \in Bodies, SendMessage(b),
         UNCHANGED <<job, last, phase, current>>
  PROVE  /\ nextId' \in Nat \ {0} /\ table' \subseteq Rows' /\ queue' \in Seq(Nat)
         /\ Mailbox' /\ Recovered'
         /\ table \subseteq table' /\ (\E n \in table' : n.body = b /\ n.id # current)
         /\ (/\ todo' = todo
             /\ \A a \in owed' : \/ Unsent(a)' \/ (a \in owed /\ ~Unsent(a))
                                 \/ b = EventHandle(a[1], a[2], a[3])) => Kept'
<1> DEFINE new == [id |-> nextId, job |-> job, body |-> b]
<1>1. table' = table \cup {new} /\ nextId' = nextId + 1 /\ queue' = Append(queue, nextId)
  BY Zenon DEF SendMessage
<1>2. nextId \in Nat \ {0} /\ queue \in Seq(Nat) /\ table \subseteq Rows /\ current \in Nat
  BY SInvIs, Zenon DEF Shape
<1>3. nextId' \in Nat \ {0} /\ nextId <= nextId' /\ nextId \in 1 .. nextId' - 1
  BY <1>1, <1>2
<1>4. job' = job /\ job \in Nat /\ job <= job' /\ job \in 1 .. job
  <2>1. job' = job /\ job \in 1 .. MaxJobs
    BY SInvIs, Zenon DEF Jobs, Listening
  <2> QED
    BY <2>1, EventSchedulerAssumption
<1>5. new \in Rows' /\ new.id = nextId /\ new.body = b /\ new.job = job
  BY <1>3, <1>4, Zenon DEF Rows
<1>6. table' \subseteq Rows'
  <2>1. Rows \subseteq Rows'
    BY <1>3, <1>4, RowsStay, SInvIs, Zenon
  <2> QED
    BY <1>1, <1>2, <1>5, <2>1, Zenon
<1>7. \A m \in table : m.id # nextId
  <2>1. \A i \in 1 .. nextId - 1 : i # nextId
    BY <1>2
  <2> QED
    BY <1>2, <2>1, Zenon DEF Rows
<1> HIDE DEF new
<1>8. nextId \notin Range(queue) /\ nextId # current
  <2>1. current # 0 => \E m \in table : m.id = current
    BY SInvIs, Zenon DEF Mailbox
  <2>2. nextId # 0
    BY <1>2, Zenon
  <2> QED
    BY <1>7, <2>1, <2>2, SInvIs, Zenon DEF Mailbox
<1>9. queue' \in Seq(Nat) /\ Range(queue') = Range(queue) \cup {nextId} /\ IsInjective(queue')
  <2>1. IsInjective(queue) /\ nextId \in Nat
    BY <1>2, SInvIs, Zenon DEF Mailbox
  <2> QED
    BY <1>1, <1>2, <1>8, <2>1, LongerQueue, Zenon
<1>10. Mailbox'
  <2>1. \A m, n \in table' : m.id = n.id => m = n
    BY <1>1, <1>5, <1>7, SInvIs, Zenon DEF Mailbox
  <2>2. \A i \in Range(queue') : \E m \in table' : m.id = i
    BY <1>1, <1>5, <1>9, SInvIs, Zenon DEF Mailbox
  <2>3. current' # 0 => \E m \in table' : m.id = current'
    BY <1>1, SInvIs, Zenon DEF Mailbox
  <2>4. current' \notin Range(queue')
    BY <1>8, <1>9, SInvIs, Zenon DEF Mailbox
  <2> QED
    BY <1>9, <2>1, <2>2, <2>3, <2>4, Zenon DEF Mailbox
<1>11. Recovered'
  <2>1. \A m \in table : m.job \in {last, job} => InMailbox(m.id)
    BY SInvIs, Zenon DEF Recovered
  <2>2. \A m \in table' : m.job \in {last, job} => m.id = current \/ m.id \in Range(queue')
    BY <1>1, <1>5, <1>9, <2>1, Zenon DEF InMailbox
  <2>3. phase' # "started"
    BY Zenon DEF Listening
  <2> QED
    BY <2>2, <2>3, Zenon DEF Recovered, InMailbox
<1>12. \E n \in table' : n.body = b /\ n.id # current
  BY <1>1, <1>5, <1>8, Zenon
<1>13. ASSUME todo' = todo,
              \A a \in owed' : \/ Unsent(a)' \/ (a \in owed /\ ~Unsent(a))
                                \/ b = EventHandle(a[1], a[2], a[3])
       PROVE  Kept'
  <2>1. \A m \in table : Due(m) => m \in table' /\ Due(m)'
    BY <1>1, <1>13, Zenon DEF Due
  <2>2. \A n \in table' : n.id # current => Due(n)'
    BY Zenon DEF Due
  <2>3. ASSUME NEW a \in owed', ~Unsent(a)' PROVE \E m \in table' : StandsFor(m.body, a) /\ Due(m)'
    <3>1. CASE a \in owed /\ ~Unsent(a)
      <4>1. PICK m \in table : StandsFor(m.body, a) /\ Due(m)
        BY <3>1, SInvIs, Zenon DEF Kept
      <4> QED
        BY <2>1, <4>1, Zenon
    <3>2. CASE b = EventHandle(a[1], a[2], a[3])
      <4>1. StandsFor(b, a)
        BY <3>2, Zenon DEF StandsFor
      <4> QED
        BY <1>12, <2>2, <4>1, Zenon
    <3> QED
      BY <1>13, <2>3, <3>1, <3>2, Zenon
  <2> QED
    BY <2>3, Zenon DEF Kept
<1> QED
  BY <1>1, <1>3, <1>6, <1>9, <1>10, <1>11, <1>12, <1>13, Zenon

\* remove_handled_message: the row is deleted once what follows from the
\* message has been done.
LEMMA MessageHandled ==
  ASSUME SInv, current # 0, HandledMessage, table' = table \ {Row(current)},
         Request(Row(current).body) => todo # {} \/ Row(current).body.result \in NoAction,
         phase \in Listening, phase' \in Listening, UNCHANGED mvars,
         UNCHANGED <<nextId, queue, job, last, results, owed>>
  PROVE  table' \subseteq Rows' /\ Mails'
<1> DEFINE row == Row(current)
<1>1. /\ row \in table /\ row.id = current /\ row.body \in Bodies
      /\ \A m \in table : m.id = current => m = row
  BY RowIs, Zenon
<1>2. current' = 0 /\ todo' = {} /\ table' \subseteq table /\ \A m \in table : m # row => m \in table'
  BY Zenon DEF HandledMessage
<1>3. table' \subseteq Rows'
  <2>1. Rows' = Rows
    BY Zenon DEF Rows
  <2> QED
    BY <1>2, <2>1, SInvIs, Zenon DEF Shape
<1> HIDE DEF row
<1>4. Mailbox'
  <2>1. current \notin Range(queue) /\ queue' = queue
    BY SInvIs, Zenon DEF Mailbox
  <2>2. ASSUME NEW i \in Range(queue') PROVE (\E m \in table' : m.id = i) /\ i # 0
    <3>1. PICK m \in table : m.id = i
      BY <2>1, <2>2, SInvIs, Zenon DEF Mailbox
    <3>2. m # row
      BY <1>1, <2>1, <2>2, <3>1, Zenon
    <3>3. m.id # 0
      <4>1. m.id \in 1 .. nextId - 1 /\ nextId \in Nat
        BY SInvIs, Zenon DEF Shape, Rows
      <4> QED
        BY <4>1
    <3> QED
      BY <1>2, <3>1, <3>2, <3>3, Zenon
  <2>3. IsInjective(queue') /\ current' \notin Range(queue')
    BY <1>2, <2>1, <2>2, SInvIs, Zenon DEF Mailbox
  <2>4. \A m, n \in table' : m.id = n.id => m = n
    BY <1>2, SInvIs, Zenon DEF Mailbox
  <2> QED
    BY <1>2, <2>2, <2>3, <2>4, Zenon DEF Mailbox
<1>5. Recovered'
  <2>1. \A m \in table : m.job \in {last, job} => InMailbox(m.id)
    BY SInvIs, Zenon DEF Recovered
  <2>2. row \notin table'
    BY Zenon DEF row
  <2>3. \A m \in table' : m.job \in {last, job} => m.id \in Range(queue)
    BY <1>1, <1>2, <2>1, <2>2, Zenon DEF InMailbox
  <2>4. phase' # "started"
    BY Zenon DEF Listening
  <2> QED
    BY <2>3, <2>4, Zenon DEF Recovered, InMailbox
<1>6. Kept'
  <2> SUFFICES ASSUME NEW a \in owed', ~Unsent(a)'
               PROVE  \E m \in table' : StandsFor(m.body, a) /\ Due(m)'
    BY Zenon DEF Kept
  <2>1. a \in owed /\ ~Unsent(a) /\ a \in Owable
    BY StillUnsent, SInvIs, Zenon DEF Shape
  <2>2. PICK m \in table : StandsFor(m.body, a) /\ Due(m)
    BY <2>1, SInvIs, Zenon DEF Kept
  <2>3. m # row
    <3>1. ASSUME m = row PROVE FALSE
      <4>1. todo = {} /\ Request(row.body) /\ row.body.result \notin NoAction
        BY <1>1, <2>1, <2>2, <3>1, Standing, Zenon DEF Due
      <4> QED
        BY <4>1, Zenon DEF row
    <3> QED
      BY <3>1, Zenon
  <2>4. m \in table' /\ Due(m)'
    BY <1>2, <2>3, Zenon DEF Due
  <2> QED
    BY <2>2, <2>4, Zenon
<1> QED
  BY <1>3, <1>4, <1>5, <1>6, Zenon DEF Mails

-----------------------------------------------------------------------------
(* The steps of the scheduler                                                 *)

LEMMA EventsAreNumbers ==
  ASSUME NEW s \in Seq(Ev) PROVE s \in Seq(Nat)
BY EventSchedulerAssumption

LEMMA Numbers ==
  ASSUME SInv
  PROVE  /\ sent \in Nat /\ sent <= MaxEvents /\ job \in Nat /\ job <= MaxJobs
         /\ start \in Nat /\ start <= sent /\ cursor \in Nat /\ cursor <= sent
         /\ MaxEvents \in Nat /\ NoProgress = MaxEvents + 1 /\ entered \in Seq(Nat)
         /\ progress \in [1 .. MaxJobs -> 0 .. NoProgress]
<1>1. /\ sent \in 0 .. MaxEvents /\ job \in 0 .. MaxJobs /\ start \in 0 .. sent /\ cursor \in 0 .. sent
      /\ entered \in Seq(Ev) /\ progress \in [1 .. MaxJobs -> 0 .. NoProgress]
  BY SInvIs, Zenon DEF Shape
<1>2. entered \in Seq(Nat)
  BY <1>1, EventsAreNumbers, Zenon
<1>3. /\ sent \in Nat /\ sent <= MaxEvents /\ job \in Nat /\ job <= MaxJobs
      /\ start \in Nat /\ start <= sent /\ cursor \in Nat /\ cursor <= sent /\ MaxEvents \in Nat
  BY <1>1, EventSchedulerAssumption
<1> QED
  BY <1>1, <1>2, <1>3, Zenon DEF NoProgress

\* The mailbox is not touched.
LEMMA SameMails ==
  ASSUME SInv, UNCHANGED <<job, last, xvars, current>>,
         todo' = todo \/ (\A m \in table : m.id = current => ~Request(m.body)),
         \A a \in owed' : Unsent(a)' \/ (a \in owed /\ ~Unsent(a)),
         phase' = phase \/ {phase, phase'} \subseteq Listening
  PROVE  table' \subseteq Rows' /\ Mails'
<1>1. UNCHANGED <<nextId, table, queue>>
  BY Zenon DEF xvars
<1>2. table' \subseteq Rows'
  BY <1>1, SInvIs, Zenon DEF Shape, Rows
<1>3. Mailbox'
  BY <1>1, SInvIs, Zenon DEF Mailbox
<1>4. Recovered'
  <2>1. phase' = "started" => phase = "started"
    BY Zenon DEF Listening
  <2>2. phase' \in {"recovered"} \cup Listening => phase \in {"recovered"} \cup Listening
    BY Zenon
  <2> QED
    BY <1>1, <2>1, <2>2, SInvIs, Zenon DEF Recovered, InMailbox
<1>5. Kept'
  <2> SUFFICES ASSUME NEW a \in owed', ~Unsent(a)'
               PROVE  \E m \in table' : StandsFor(m.body, a) /\ Due(m)'
    BY Zenon DEF Kept
  <2>1. a \in owed /\ ~Unsent(a) /\ a \in Owable
    BY SInvIs, Zenon DEF Shape
  <2>2. PICK m \in table : StandsFor(m.body, a) /\ Due(m)
    BY <2>1, SInvIs, Zenon DEF Kept
  <2>3. Request(m.body)
    BY <2>1, <2>2, Standing, Zenon
  <2>4. Due(m)'
    BY <2>2, <2>3, Zenon DEF Due
  <2> QED
    BY <1>1, <2>2, <2>4, Zenon
<1> QED
  BY <1>2, <1>3, <1>4, <1>5, Zenon DEF Mails

\* The rows stay, and what is owed.
LEMMA SameKept ==
  ASSUME SInv, UNCHANGED mvars, UNCHANGED <<table, current, todo, results, owed>> PROVE Kept'
<1>1. \A m \in table : Due(m)' <=> Due(m)
  BY Zenon DEF Due
<1> QED
  BY <1>1, StillUnsent, SInvIs, Zenon DEF Kept

LEMMA StoreEventStep ==
  ASSUME SInv, StoreEvent PROVE SInv'
<1>1. /\ sent < MaxEvents /\ sent' = sent + 1
      /\ UNCHANGED <<mvars, svars, cursor, xvars, current, todo, results, hvars, stops>>
  BY Zenon DEF StoreEvent
<1>2. UNCHANGED <<job, last, phase, start, progress, cursor, xvars, nextId, table, queue, current, todo,
                  results, entered, owed, handled, stops>>
      /\ UNCHANGED mvars /\ running' = running
  BY <1>1, Zenon DEF svars, xvars, hvars, mvars
<1>3. /\ sent' \in 0 .. MaxEvents /\ sent \in Nat /\ sent' \in Nat /\ sent <= sent'
      /\ \A x \in 0 .. sent : x \in 0 .. sent'
  <2>1. sent \in Nat /\ MaxEvents \in Nat
    BY Numbers, Zenon
  <2> QED
    BY <1>1, <2>1
<1>4. MInv'
  BY <1>2, SameManager, Zenon
<1>5. Mails' /\ table' \subseteq Rows'
  BY <1>2, SameMails, StillUnsent, Zenon
<1>6. Shape'
  BY <1>2, <1>3, <1>5, SInvIs, Zenon DEF Shape
<1>7. Jobs'
  BY <1>2, SInvIs, Zenon DEF Jobs
<1>8. Progressed'
  <2>1. ASSUME job # 0, progress[job] # NoProgress PROVE progress[job] <= sent'
    <3>1. progress[job] <= sent /\ job \in 1 .. MaxJobs
      <4>1. job \in 1 .. MaxJobs
        BY <2>1, Numbers, EventSchedulerAssumption
      <4> QED
        BY <2>1, <4>1, SInvIs, Zenon DEF Progressed
    <3>2. progress[job] \in 0 .. NoProgress
      BY <3>1, Numbers, Zenon
    <3>3. NoProgress \in Nat
      BY Numbers
    <3> QED
      BY <1>3, <3>1, <3>2, <3>3
  <2> QED
    BY <1>2, <2>1, SInvIs, Zenon DEF Progressed, Starting
<1>9. Entered'
  <2>1. Saved' <=> Saved
    BY <1>2, Zenon DEF Saved
  <2>2. Mark' = Mark /\ (Known' <=> Known)
    BY <1>2, Zenon DEF Known, Mark, Starting
  <2>3. UpTo(entered, sent')
    <3>1. UpTo(entered, sent) /\ entered \in Seq(Nat)
      BY Numbers, SInvIs, Zenon DEF Entered
    <3> QED
      BY <1>3, <3>1, UpToMore, Zenon
  <2> QED
    BY <1>2, <2>1, <2>2, <2>3, SInvIs, Zenon DEF Entered
<1> QED
  BY <1>4, <1>5, <1>6, <1>7, <1>8, <1>9, SInvNext, Zenon DEF Listens

\* SchedulerEventWatcher.process: the event follows the one the progress names.
LEMMA ProcessEventStep ==
  ASSUME SInv, ProcessEvent PROVE SInv'
<1>1. /\ phase \in {"loop", "stopping"} /\ cursor < sent /\ cursor' = cursor + 1
      /\ SendMessage(Event(cursor + 1)) /\ progress' = [progress EXCEPT ![job] = cursor + 1]
      /\ entered' = Append(entered, cursor + 1)
      /\ UNCHANGED <<sent, job, last, phase, start, current, todo, results, owed, handled, stops>>
      /\ UNCHANGED mvars /\ running' = running
  BY Zenon DEF ProcessEvent, mvars
<1>2. phase \in Listening /\ ~Starting
  BY <1>1, Zenon DEF Listening, Starting
<1>3. PICK n : n = cursor + 1
  OBVIOUS
<1>4. /\ n \in Nat /\ n <= sent /\ n \in 0 .. sent /\ n \in 0 .. NoProgress /\ n # NoProgress
      /\ n \in 1 .. MaxEvents /\ cursor # NoProgress /\ cursor \in Nat /\ sent \in Nat
  <2>1. cursor \in Nat /\ sent \in Nat /\ sent <= MaxEvents /\ NoProgress = MaxEvents + 1 /\ MaxEvents \in Nat
    BY Numbers, Zenon
  <2> QED
    BY <1>1, <1>3, <2>1
<1>5. n \in Ev /\ Event(n) \in Bodies
  BY <1>4, EventSchedulerAssumption, SomeBodies, Zenon
<1>6. job \in 1 .. MaxJobs /\ job # 0
  <2>1. job \in 1 .. MaxJobs
    BY <1>2, SInvIs, Zenon DEF Jobs, Listening
  <2> QED
    BY <2>1, EventSchedulerAssumption
<1>7. progress[job] = cursor
  BY <1>2, SInvIs, Zenon DEF Progressed
<1>8. progress' \in [1 .. MaxJobs -> 0 .. NoProgress] /\ progress'[job] = n
      /\ \A j \in 1 .. MaxJobs : j # job => progress'[j] = progress[j]
  BY <1>1, <1>3, <1>4, <1>6, Numbers, Zenon
<1>9. /\ nextId' \in Nat \ {0} /\ table' \subseteq Rows' /\ queue' \in Seq(Nat)
      /\ Mailbox' /\ Recovered' /\ Kept'
  BY <1>1, <1>2, <1>3, <1>5, MessageSent, StillUnsent, Zenon
<1>10. MInv'
  BY <1>1, SameManager, Zenon
<1>11. Shape'
  <2>1. entered' \in Seq(Ev)
    <3>1. entered \in Seq(Ev) /\ entered' = Append(entered, n)
      BY <1>1, <1>3, SInvIs, Zenon DEF Shape
    <3> QED
      BY <1>5, <3>1
  <2> QED
    BY <1>1, <1>3, <1>4, <1>8, <1>9, <2>1, SInvIs, Zenon DEF Shape
<1>12. Jobs'
  <2>1. phase' \in Listening /\ phase' \notin {"down", "started"}
    BY <1>1, <1>2, Zenon
  <2> QED
    BY <1>1, <2>1, SInvIs, Zenon DEF Jobs
<1>13. Progressed'
  <2>1. \A j \in 1 .. MaxJobs : j > job => j # job
    BY <1>6, EventSchedulerAssumption
  <2>2. \A j \in 1 .. MaxJobs : j > job' => progress'[j] = NoProgress
    BY <1>1, <1>8, <2>1, SInvIs, Zenon DEF Progressed
  <2>3. ~Starting'
    BY <1>1, <1>2, Zenon DEF Starting
  <2> QED
    BY <1>1, <1>3, <1>4, <1>6, <1>8, <2>2, <2>3, Zenon DEF Progressed
<1>14. Entered'
  <2>1. Known /\ Mark = cursor /\ Known' /\ Mark' = n
    BY <1>1, <1>2, <1>4, <1>6, <1>7, <1>8, Zenon DEF Known, Mark, Starting
  <2>2. Saved' => Saved
    <3>1. \A j \in 1 .. job - 1 : j \in 1 .. MaxJobs /\ j # job
      BY <1>6, EventSchedulerAssumption
    <3> QED
      BY <1>1, <1>8, <3>1, Zenon DEF Saved
  <2>3. /\ entered \in Seq(Nat) /\ Increasing(entered) /\ UpTo(entered, cursor)
        /\ Saved => Consecutive(entered) /\ EndsAt(entered, cursor)
    BY <2>1, Numbers, SInvIs, Zenon DEF Entered
  <2>4. /\ entered' \in Seq(Nat) /\ Increasing(entered') /\ UpTo(entered', n) /\ EndsAt(entered', n)
        /\ Saved => Consecutive(entered')
    BY <1>1, <1>3, <1>4, <2>3, NextEntered, Zenon
  <2>5. UpTo(entered', sent')
    BY <1>1, <1>4, <2>4, UpToMore, Zenon
  <2> QED
    BY <2>1, <2>2, <2>4, <2>5, Zenon DEF Entered
<1> QED
  BY <1>9, <1>10, <1>11, <1>12, <1>13, <1>14, SInvNext, Zenon DEF Mails, Listens

\* The new job listens from the progress of the last one, or from now.
LEMMA StartJobStep ==
  ASSUME SInv, StartJob PROVE SInv'
<1>1. /\ phase = "down" /\ job < MaxJobs /\ last' = job /\ job' = job + 1 /\ phase' = "started"
      /\ start' = IF job = 0 \/ progress[job] = NoProgress THEN sent ELSE progress[job]
      /\ UNCHANGED <<sent, progress, cursor, nextId, table, queue, current, todo, results, entered, owed,
                     handled, stops>>
      /\ UNCHANGED mvars /\ running' = running
  BY Zenon DEF StartJob, mvars, xvars, hvars
<1>2. /\ job \in Nat /\ job' \in Nat /\ job <= job' /\ job' \in 1 .. MaxJobs /\ job' > job /\ job' # 0
      /\ job' - 1 = job /\ job' \in 0 .. MaxJobs /\ job' \notin 1 .. job
      /\ (\A j \in 1 .. MaxJobs : j > job' => j > job)
      /\ (job # 0 => job \in 1 .. job' - 1 /\ job \in 1 .. MaxJobs) /\ (\A j \in 1 .. job - 1 : j \in 1 .. job' - 1)
  <2>1. job \in Nat
    BY Numbers, Zenon
  <2> QED
    BY <1>1, <2>1, EventSchedulerAssumption
<1>3. start' \in 0 .. sent
  <2>1. CASE job = 0 \/ progress[job] = NoProgress
    <3>1. start' = sent /\ sent \in Nat
      BY <1>1, <2>1, Numbers, Zenon
    <3> QED
      BY <3>1
  <2>2. CASE job # 0 /\ progress[job] # NoProgress
    <3>1. start' = progress[job] /\ progress[job] \in 0 .. NoProgress /\ progress[job] <= sent
      BY <1>1, <1>2, <2>2, Numbers, SInvIs, Zenon DEF Progressed
    <3>2. sent \in Nat /\ NoProgress = MaxEvents + 1 /\ MaxEvents \in Nat
      BY Numbers, Zenon
    <3> QED
      BY <3>1, <3>2
  <2> QED
    BY <2>1, <2>2, Zenon
<1>4. MInv'
  BY <1>1, SameManager, Zenon
<1>5. Shape'
  <2>1. nextId' \in Nat \ {0} /\ nextId <= nextId'
    <3>1. nextId \in Nat \ {0} /\ nextId' = nextId
      BY <1>1, SInvIs, Zenon DEF Shape
    <3> QED
      BY <3>1
  <2>2. table' \subseteq Rows'
    <3>1. Rows \subseteq Rows'
      BY <1>2, <2>1, RowsStay, SInvIs, Zenon
    <3> QED
      BY <1>1, <3>1, SInvIs, Zenon DEF Shape
  <2> QED
    BY <1>1, <1>2, <1>3, <2>1, <2>2, SInvIs, Zenon DEF Shape
<1>6. Jobs'
  <2>1. queue = <<>> /\ current = 0 /\ running = {} /\ todo = {}
    BY <1>1, SInvIs, Zenon DEF Jobs, Listening
  <2> QED
    BY <1>1, <1>2, <2>1, Zenon DEF Jobs
<1>7. Mails'
  <2>1. Mailbox' /\ Kept'
    BY <1>1, SameKept, SInvIs, Zenon DEF Mailbox
  <2>2. \A m \in table : m.job \in 1 .. job
    BY SInvIs, Zenon DEF Shape, Rows
  <2>3. Recovered'
    BY <1>1, <1>2, <2>2, Zenon DEF Recovered, Listening
  <2> QED
    BY <2>1, <2>3, Zenon DEF Mails
<1>8. Starting' /\ ~Starting /\ phase' \notin Listening
  BY <1>1, Zenon DEF Starting, Listening
<1>9. Progressed'
  BY <1>1, <1>2, <1>8, SInvIs, Zenon DEF Progressed
<1>10. Entered'
  <2>1. Known' /\ Mark' = start' /\ entered' = entered /\ sent' = sent /\ progress' = progress
    BY <1>1, <1>8, Zenon DEF Known, Mark
  <2>2. Saved' => Saved /\ (job # 0 => progress[job] # NoProgress)
    BY <1>2, <2>1, Zenon DEF Saved
  <2>3. Increasing(entered) /\ UpTo(entered, sent) /\ (Saved => Consecutive(entered))
    BY SInvIs, Zenon DEF Entered
  <2>4. CASE job = 0
    <3>1. entered = <<>>
      BY <2>4, SInvIs, Zenon DEF Progressed
    <3> QED
      BY <2>1, <3>1, NoneEntered, Zenon DEF Entered
  <2>5. CASE job # 0 /\ progress[job] = NoProgress
    <3>1. ~Saved' /\ start' = sent
      BY <1>1, <2>2, <2>5, Zenon
    <3> QED
      BY <2>1, <2>3, <3>1, Zenon DEF Entered
  <2>6. CASE job # 0 /\ progress[job] # NoProgress
    <3>1. Known /\ Mark = progress[job] /\ start' = progress[job]
      BY <1>1, <1>8, <2>6, Zenon DEF Known, Mark
    <3>2. UpTo(entered, progress[job]) /\ (Saved => EndsAt(entered, progress[job]))
      BY <3>1, SInvIs, Zenon DEF Entered
    <3> QED
      BY <2>1, <2>2, <2>3, <3>1, <3>2, Zenon DEF Entered
  <2> QED
    BY <2>4, <2>5, <2>6, Zenon
<1> QED
  BY <1>4, <1>5, <1>6, <1>7, <1>9, <1>10, SInvNext, Zenon DEF Listens

\* recover: the mailbox holds the rows of the last job.
LEMMA RecoverStep ==
  ASSUME SInv, Recover PROVE SInv'
<1> DEFINE ids == {m.id : m \in {n \in table : n.job = last}}
<1>1. /\ phase = "started" /\ phase' = "recovered"
      /\ queue' = queue \o (IF last = 0 THEN <<>> ELSE UnprocessedMessages(last))
      /\ UNCHANGED <<sent, job, last, start, progress, cursor, nextId, table, current, todo, results, entered,
                     owed, handled, stops>>
      /\ UNCHANGED mvars /\ running' = running
  BY Zenon DEF Recover, mvars, hvars
<1>2. queue = <<>> /\ current = 0 /\ running = {} /\ todo = {} /\ job \in 1 .. MaxJobs /\ last = job - 1
  BY <1>1, SInvIs, Zenon DEF Jobs, Listening
<1>3. nextId \in Nat \ {0} /\ table \subseteq Rows
  BY SInvIs, Zenon DEF Shape
<1>4. ids \subseteq 1 .. nextId - 1 /\ 1 .. nextId - 1 \subseteq Nat /\ IsFiniteSet(1 .. nextId - 1)
      /\ 0 \notin 1 .. nextId - 1 /\ 0 \notin 1 .. job
  <2>1. ids \subseteq 1 .. nextId - 1
    BY <1>3, Zenon DEF Rows
  <2>2. 1 \in Int /\ nextId - 1 \in Int /\ 1 .. nextId - 1 \subseteq Nat /\ 0 \notin 1 .. nextId - 1
        /\ 0 \notin 1 .. job
    BY <1>2, <1>3, EventSchedulerAssumption
  <2> HIDE DEF ids
  <2> QED
    BY <2>1, <2>2, FS_Interval, Zenon
<1>5. UnprocessedMessages(last) = CHOOSE s \in [1 .. Cardinality(ids) -> ids] :
                                    \A i, k \in DOMAIN s : i < k => s[i] < s[k]
  BY Zenon DEF UnprocessedMessages
<1>6. \A m \in table : m.job = last => m.id \in ids
  BY Zenon
<1>7. \A i \in ids : \E m \in table : m.job = last /\ m.id = i
  BY Zenon
<1> HIDE DEF ids
<1>8. queue' \in Seq(Nat) /\ Range(queue') = ids /\ IsInjective(queue')
  <2>1. CASE last = 0
    <3>1. queue' = <<>>
      BY <1>1, <1>2, <2>1, EmptyQueue, EmptyFirst, Zenon
    <3>2. ids = {}
      <4>1. \A m \in table : m.job \in 1 .. job
        BY <1>3, Zenon DEF Rows
      <4>2. \A i \in ids : FALSE
        BY <1>4, <1>7, <2>1, <4>1, Zenon
      <4> QED
        BY <4>2, Zenon
    <3> QED
      BY <3>1, <3>2, EmptyQueue, Zenon
  <2>2. CASE last # 0
    <3>1. /\ UnprocessedMessages(last) \in Seq(Nat) /\ Range(UnprocessedMessages(last)) = ids
          /\ IsInjective(UnprocessedMessages(last))
      <4>1. ids \in SUBSET Nat /\ IsFiniteSet(ids)
        BY <1>4, FS_Subset, Zenon
      <4> QED
        BY <1>5, <4>1, UnprocessedListed, Zenon
    <3>2. queue' = UnprocessedMessages(last)
      BY <1>1, <1>2, <2>2, <3>1, EmptyFirst, Zenon
    <3> QED
      BY <3>1, <3>2, Zenon
  <2> QED
    BY <2>1, <2>2, Zenon
<1>9. MInv'
  BY <1>1, SameManager, Zenon
<1>10. Shape'
  <2>1. Rows' = Rows
    BY <1>1, Zenon DEF Rows
  <2> QED
    BY <1>1, <1>8, <2>1, SInvIs, Zenon DEF Shape
<1>11. Jobs'
  BY <1>1, <1>2, Zenon DEF Jobs, Listening
<1>12. Mails'
  <2>1. Kept'
    BY <1>1, SameKept, Zenon
  <2>2. Mailbox'
    <3>1. 0 \notin ids /\ current' = 0 /\ table' = table
      BY <1>1, <1>2, <1>4, Zenon
    <3>2. \A m, n \in table : m.id = n.id => m = n
      BY SInvIs, Zenon DEF Mailbox
    <3> QED
      BY <1>7, <1>8, <3>1, <3>2, Zenon DEF Mailbox
  <2>3. Recovered'
    <3>1. \A m \in table : m.job # job
      BY <1>1, SInvIs, Zenon DEF Recovered
    <3>2. \A m \in table' : m.job \in {last', job'} => m.id \in Range(queue')
      BY <1>1, <1>6, <1>8, <3>1, Zenon
    <3>3. phase' # "started"
      BY <1>1, Zenon
    <3> QED
      BY <3>2, <3>3, Zenon DEF Recovered, InMailbox
  <2> QED
    BY <2>1, <2>2, <2>3, Zenon DEF Mails
<1>13. Starting /\ Starting' /\ phase' \notin Listening
  BY <1>1, Zenon DEF Starting, Listening
<1>14. Progressed'
  BY <1>1, <1>13, SInvIs, Zenon DEF Progressed
<1>15. Entered'
  <2>1. Known /\ Known' /\ Mark = start /\ Mark' = start /\ (Saved' <=> Saved)
    BY <1>1, <1>13, Zenon DEF Known, Mark, Saved
  <2>2. entered' = entered /\ sent' = sent
    BY <1>1, Zenon
  <2> QED
    BY <2>1, <2>2, SInvIs, Zenon DEF Entered
<1> QED
  BY <1>9, <1>10, <1>11, <1>12, <1>14, <1>15, SInvNext, Zenon DEF Listens

\* _set_event_progress: from here on the job's progress is saved.
LEMMA SetEventProgressStep ==
  ASSUME SInv, SetEventProgress PROVE SInv'
<1>1. /\ phase = "recovered" /\ phase' = "loop" /\ cursor' = start
      /\ progress' = [progress EXCEPT ![job] = start]
      /\ UNCHANGED <<sent, job, last, start, nextId, table, queue, current, todo, results, entered,
                     owed, handled, stops>>
      /\ UNCHANGED mvars /\ running' = running
  BY Zenon DEF SetEventProgress, mvars, hvars, xvars
<1>2. job \in 1 .. MaxJobs /\ job \in Nat /\ job # 0
  <2>1. job \in 1 .. MaxJobs
    BY <1>1, SInvIs, Zenon DEF Jobs
  <2> QED
    BY <2>1, EventSchedulerAssumption
<1>3. start \in Nat /\ start <= sent /\ start \in 0 .. sent /\ start \in 0 .. NoProgress /\ start # NoProgress
  <2>1. /\ start \in Nat /\ start <= sent /\ sent \in Nat /\ sent <= MaxEvents /\ MaxEvents \in Nat
        /\ NoProgress = MaxEvents + 1
    BY Numbers, Zenon
  <2> QED
    BY <2>1
<1>4. /\ progress' \in [1 .. MaxJobs -> 0 .. NoProgress] /\ progress'[job] = start
      /\ \A j \in 1 .. MaxJobs : j # job => progress'[j] = progress[j]
  BY <1>1, <1>2, <1>3, Numbers, Zenon
<1>5. MInv'
  BY <1>1, SameManager, Zenon
<1>6. Shape'
  <2>1. Rows' = Rows
    BY <1>1, Zenon DEF Rows
  <2> QED
    BY <1>1, <1>3, <1>4, <2>1, SInvIs, Zenon DEF Shape, Listening
<1>7. Jobs'
  BY <1>1, SInvIs, Zenon DEF Jobs, Listening
<1>8. Mails'
  <2>1. Kept'
    BY <1>1, SameKept, Zenon
  <2> QED
    BY <1>1, <2>1, SInvIs, Zenon DEF Mails, Mailbox, Recovered, InMailbox
<1>9. Starting /\ ~Starting'
  BY <1>1, Zenon DEF Starting
<1>10. Progressed'
  <2>1. \A j \in 1 .. MaxJobs : j > job => j # job
    BY <1>2, EventSchedulerAssumption
  <2>2. \A j \in 1 .. MaxJobs : j > job' => progress'[j] = NoProgress
    BY <1>1, <1>4, <2>1, SInvIs, Zenon DEF Progressed
  <2> QED
    BY <1>1, <1>2, <1>3, <1>4, <1>9, <2>2, Zenon DEF Progressed
<1>11. Entered'
  <2>1. Known /\ Mark = start /\ Mark' = start
    BY <1>1, <1>4, <1>9, Zenon DEF Known, Mark
  <2>2. Saved' => Saved
    <3>1. \A j \in 1 .. job - 1 : j \in 1 .. MaxJobs /\ j # job
      BY <1>2, EventSchedulerAssumption
    <3> QED
      BY <1>1, <1>4, <3>1, Zenon DEF Saved
  <2>3. entered' = entered /\ sent' = sent
    BY <1>1, Zenon
  <2> QED
    BY <2>1, <2>2, <2>3, SInvIs, Zenon DEF Entered
<1> QED
  BY <1>5, <1>6, <1>7, <1>8, <1>10, <1>11, SInvNext, Zenon DEF Listens

LEMMA ManagerRestarts == MInit' => MInv'
BY MInvInit, PTL

LEMMA OrderRestarts == MInit' => EventsInOrder'
BY OrderInit, PTL

LEMMA DownIs ==
  ASSUME Down
  PROVE  /\ MInit'
         /\ phase' = "down" /\ queue' = <<>> /\ current' = 0 /\ todo' = {} /\ cursor' = 0
         /\ last' = 0 /\ start' = 0 /\ running' = {}
         /\ results' = [w \in Worker |-> {}] /\ owed' = {a \in owed : ~Unsent(a)}
         /\ UNCHANGED <<sent, job, progress, nextId, table, entered, handled, stops>>
BY Zenon DEF Down, MInit

\* A crash or the end of the process: rows and progress stay.
LEMMA DownStep ==
  ASSUME SInv, Down PROVE SInv'
<1>1. /\ phase' = "down" /\ queue' = <<>> /\ current' = 0 /\ todo' = {} /\ cursor' = 0
      /\ last' = 0 /\ start' = 0 /\ running' = {}
      /\ results' = [w \in Worker |-> {}] /\ owed' = {a \in owed : ~Unsent(a)}
      /\ UNCHANGED <<sent, job, progress, nextId, table, entered, handled, stops>>
  BY DownIs, Zenon
<1>2. MInv'
  BY DownIs, ManagerRestarts, Zenon
<1>3. Shape'
  <2>1. Rows' = Rows
    BY <1>1, Zenon DEF Rows
  <2>2. 0 \in 0 .. sent /\ 0 \in Nat
    <3>1. sent \in Nat
      BY Numbers, Zenon
    <3> QED
      BY <3>1
  <2>3. results' \in [Worker -> SUBSET Result] /\ owed' \subseteq owed
    BY <1>1, Zenon
  <2> QED
    BY <1>1, <2>1, <2>2, <2>3, EmptyQueue, SInvIs, Zenon DEF Shape
<1>4. phase' \notin Listening /\ phase' \notin {"started", "recovered"}
  BY <1>1, Zenon DEF Listening
<1>5. Jobs'
  BY <1>1, Zenon DEF Jobs
<1>6. Mails'
  <2>1. Kept'
    <3>1. \A m \in table : Due(m)'
      BY <1>1, Zenon DEF Due
    <3>2. \A a \in owed' : \E m \in table : StandsFor(m.body, a)
      BY <1>1, SInvIs, Zenon DEF Kept
    <3> QED
      BY <1>1, <3>1, <3>2, Zenon DEF Kept
  <2>2. Mailbox'
    BY <1>1, EmptyQueue, SInvIs, Zenon DEF Mailbox
  <2>3. Recovered'
    BY <1>4, Zenon DEF Recovered
  <2> QED
    BY <2>1, <2>2, <2>3, Zenon DEF Mails
<1>7. Progressed'
  BY <1>1, <1>4, SInvIs, Zenon DEF Progressed, Starting
<1>8. Entered'
  <2>1. Saved' <=> Saved
    BY <1>1, Zenon DEF Saved
  <2>2. Known' => Known /\ Mark' = Mark
    <3>1. ~Starting'
      BY <1>4, Zenon DEF Starting
    <3>2. Starting => progress[job] = NoProgress
      BY SInvIs, Zenon DEF Progressed
    <3> QED
      BY <1>1, <3>1, <3>2, Zenon DEF Known, Mark
  <2>3. entered' = entered /\ sent' = sent
    BY <1>1, Zenon
  <2> QED
    BY <2>1, <2>2, <2>3, SInvIs, Zenon DEF Entered
<1> QED
  BY <1>2, <1>3, <1>5, <1>6, <1>7, <1>8, SInvNext, Zenon DEF Listens

LEMMA SendStopStep ==
  ASSUME SInv, SendStop PROVE SInv'
<1>1. /\ phase = "loop" /\ stops < MaxStops /\ stops' = stops + 1
      /\ \E j \in {0, job} : SendMessage(StopScheduler(j))
      /\ UNCHANGED <<sent, job, last, phase, start, progress, cursor, current, todo, results, entered, owed, handled>>
      /\ UNCHANGED mvars /\ running' = running
  BY Zenon DEF SendStop, mvars, hvars, svars
<1>2. phase \in Listening
  BY <1>1, Zenon DEF Listening
<1>3. PICK b \in Bodies : SendMessage(b)
  <2>1. 0 \in 0 .. MaxJobs /\ job \in 0 .. MaxJobs
    BY Numbers, EventSchedulerAssumption
  <2> QED
    BY <1>1, <2>1, SomeBodies, Zenon
<1>4. /\ nextId' \in Nat \ {0} /\ table' \subseteq Rows' /\ queue' \in Seq(Nat)
      /\ Mailbox' /\ Recovered' /\ Kept'
  BY <1>1, <1>2, <1>3, MessageSent, StillUnsent, Zenon
<1>5. stops' \in 0 .. MaxStops
  <2>1. stops \in 0 .. MaxStops
    BY SInvIs, Zenon DEF Shape
  <2> QED
    BY <1>1, <2>1, EventSchedulerAssumption
<1>6. Shape'
  BY <1>1, <1>4, <1>5, SInvIs, Zenon DEF Shape
<1>7. Jobs'
  BY <1>1, SInvIs, Zenon DEF Jobs, Listening
<1>8. Listens' /\ MInv'
  BY <1>1, SameListens, SameManager, Zenon
<1> QED
  BY <1>4, <1>6, <1>7, <1>8, SInvNext, Zenon DEF Mails

LEMMA StopListenEventsStep ==
  ASSUME SInv, StopListenEvents PROVE SInv' /\ MNext
<1>1. /\ phase = "stopping" /\ phase' = "ending" /\ end
      /\ UNCHANGED <<sent, job, last, start, progress, cursor, xvars, nextId, table, queue, current, todo,
                     results, entered, owed, handled, stops>>
      /\ UNCHANGED <<running, wpc, wrun, wev>>
  BY Zenon DEF StopListenEvents, end, hvars, xvars
<1>2. {phase, phase'} \subseteq Listening
  BY <1>1, Zenon DEF Listening
<1>3. MNext
  BY <1>1, Zenon DEF MNext
<1>4. Listens' /\ MInv'
  BY <1>1, <1>2, <1>3, SameListens, ManagerStep, Zenon
<1>5. Mails' /\ table' \subseteq Rows'
  <2>1. \A a \in owed' : a \in owed /\ (Unsent(a)' <=> Unsent(a))
    BY <1>1, SameUnsent, Zenon
  <2> QED
    BY <1>1, <1>2, <2>1, SameMails, Zenon
<1>6. Shape'
  BY <1>1, <1>2, <1>5, SInvIs, Zenon DEF Shape
<1>7. Jobs'
  BY <1>1, <1>2, SInvIs, Zenon DEF Jobs
<1> QED
  BY <1>3, <1>4, <1>5, <1>6, <1>7, SInvNext, Zenon

\* get_identified_message: the message stays in the mailbox, as the current one.
LEMMA GetMessageStep ==
  ASSUME SInv, GetMessage PROVE SInv'
<1> DEFINE h == Head(queue)
           b == Row(h).body
<1>1. /\ phase = "loop" /\ current = 0 /\ queue # <<>> /\ current' = h /\ queue' = Tail(queue)
      /\ todo' = IF b.type = "Event" THEN AffectedRuns[b.ev] ELSE {}
      /\ UNCHANGED <<sent, job, last, phase, start, progress, cursor, nextId, table,
                     results, entered, owed, handled, stops>>
      /\ UNCHANGED mvars /\ running' = running
  BY Zenon DEF GetMessage, mvars, hvars, svars
<1>2. /\ h \in Nat /\ Tail(queue) \in Seq(Nat) /\ Range(queue) = Range(Tail(queue)) \cup {h}
      /\ IsInjective(queue) => IsInjective(Tail(queue)) /\ h \notin Range(Tail(queue))
  <2>1. queue \in Seq(Nat)
    BY SInvIs, Zenon DEF Shape
  <2> QED
    BY <1>1, <2>1, ShorterQueue, Zenon
<1>3. h \in Range(queue)
  BY <1>2, Zenon
<1> HIDE DEF h
<1>4. /\ Row(h) \in table /\ Row(h).id = h /\ Row(h).body \in Bodies
      /\ \A m \in table : m.id = h => m = Row(h)
  <2>1. \E m \in table : m.id = h
    BY <1>3, SInvIs, Zenon DEF Mailbox
  <2>2. Row(h) \in table /\ Row(h).id = h
    BY <2>1, Zenon DEF Row
  <2> QED
    BY <2>2, SInvIs, Zenon DEF Mailbox, Shape, Rows
<1>5. h # 0
  <2>1. h \in 1 .. nextId - 1 /\ nextId \in Nat
    BY <1>4, SInvIs, Zenon DEF Shape, Rows
  <2> QED
    BY <2>1
<1> HIDE DEF b
<1>6. todo' \subseteq Run /\ (todo' # {} => b.type = "Event")
  <2>1. b \in Bodies
    BY <1>4, Zenon DEF b
  <2>2. b.type = "Event" => AffectedRuns[b.ev] \subseteq Run
    BY <2>1, BodyIs, EventSchedulerAssumption, Zenon
  <2> QED
    BY <1>1, <2>2, Zenon
<1>7. Shape'
  <2>1. Rows' = Rows
    BY <1>1, Zenon DEF Rows
  <2> QED
    BY <1>1, <1>2, <1>6, <2>1, SInvIs, Zenon DEF Shape
<1>8. Jobs'
  BY <1>1, <1>5, SInvIs, Zenon DEF Jobs, Listening
<1>9. Mails'
  <2>1. Mailbox'
    BY <1>1, <1>2, <1>4, SInvIs, Zenon DEF Mailbox
  <2>2. Recovered'
    <3>1. \A m \in table : m.job \in {last, job} => m.id = current \/ m.id \in Range(queue)
      BY <1>1, SInvIs, Zenon DEF Recovered, InMailbox, Listening
    <3>2. \A m \in table : m.id # 0
      <4>1. nextId \in Nat /\ \A m \in table : m.id \in 1 .. nextId - 1
        BY SInvIs, Zenon DEF Shape, Rows
      <4>2. \A i \in 1 .. nextId - 1 : i # 0
        BY <4>1
      <4> QED
        BY <4>1, <4>2, Zenon
    <3>3. \A m \in table' : m.job \in {last', job'} => m.id = current' \/ m.id \in Range(queue')
      BY <1>1, <1>2, <3>1, <3>2, Zenon
    <3>4. phase' # "started"
      BY <1>1, Zenon
    <3> QED
      BY <3>3, <3>4, Zenon DEF Recovered, InMailbox
  <2>3. Kept'
    <3>1. \A m \in table : m.id = h => m.body = b
      BY <1>4, Zenon DEF b
    <3>2. \A m \in table : Request(m.body) => Due(m)'
      BY <1>1, <1>6, <3>1, Zenon DEF Due, Request
    <3>3. ASSUME NEW a \in owed', ~Unsent(a)' PROVE \E m \in table' : StandsFor(m.body, a) /\ Due(m)'
      <4>1. a \in owed /\ ~Unsent(a) /\ a \in Owable
        BY <1>1, <3>3, StillUnsent, SInvIs, Zenon DEF Shape
      <4>2. PICK m \in table : StandsFor(m.body, a)
        BY <4>1, SInvIs, Zenon DEF Kept
      <4>3. Request(m.body)
        BY <4>1, <4>2, Standing, Zenon
      <4> QED
        BY <1>1, <3>2, <4>2, <4>3, Zenon
    <3> QED
      BY <3>3, Zenon DEF Kept
  <2> QED
    BY <2>1, <2>2, <2>3, Zenon DEF Mails
<1>10. Listens' /\ MInv'
  BY <1>1, SameListens, SameManager, Zenon
<1> QED
  BY <1>7, <1>8, <1>9, <1>10, SInvNext, Zenon

\* The row of a handled message is deleted and nothing else changes, but that
\* the loop may end.
LEMMA HandledStep ==
  ASSUME SInv, current # 0, HandledMessage, table' = table \ {Row(current)},
         Request(Row(current).body) => todo # {} \/ Row(current).body.result \in NoAction,
         phase \in Listening, phase' \in Listening, UNCHANGED mvars,
         UNCHANGED <<sent, job, last, start, progress, cursor, nextId, queue, results, entered, owed,
                     handled, stops>>
  PROVE  SInv'
<1>1. table' \subseteq Rows' /\ Mails'
  BY MessageHandled, Zenon
<1>2. Listens' /\ MInv'
  <2>1. {phase, phase'} \subseteq Listening
    BY Zenon
  <2> QED
    BY <2>1, SameListens, SameManager, Zenon
<1>3. current' = 0 /\ todo' = {} /\ 0 \in Nat
  BY Zenon DEF HandledMessage
<1>4. Shape'
  BY <1>1, <1>3, SInvIs, Zenon DEF Shape
<1>5. Jobs'
  <2>1. phase \notin {"down", "started"} /\ phase' \notin {"down", "started"}
    BY Zenon DEF Listening
  <2> QED
    BY <1>3, <2>1, SInvIs, Zenon DEF Jobs
<1> QED
  BY <1>1, <1>2, <1>4, <1>5, SInvNext, Zenon

LEMMA HandlingIs ==
  ASSUME SInv, NEW t, Handling(t)
  PROVE  /\ phase = "loop" /\ phase \in Listening /\ current # 0 /\ Row(current).body.type = t
         /\ Row(current) \in table /\ Row(current).id = current /\ Row(current).body \in Bodies
         /\ \A m \in table : m.id = current => m = Row(current)
<1>1. phase = "loop" /\ current # 0 /\ Row(current).body.type = t
  BY Zenon DEF Handling
<1> QED
  BY <1>1, RowIs, Zenon DEF Listening

\* The event goes to the manager for each dag run, then its row is deleted.
LEMMA ScheduleEventStep ==
  ASSUME SInv, ScheduleEvent PROVE SInv' /\ [MNext]_mvars
<1>1. Handling("Event") /\ UNCHANGED <<sent, svars, cursor, results, hvars, stops>>
  BY Zenon DEF ScheduleEvent
<1>2. UNCHANGED <<sent, job, last, phase, start, progress, cursor, results, entered, owed, handled, stops>>
  BY <1>1, Zenon DEF svars, hvars
<1>3. /\ phase = "loop" /\ phase \in Listening /\ current # 0 /\ Row(current).body.type = "Event"
      /\ Row(current).body \in Bodies /\ \A m \in table : m.id = current => m = Row(current)
  BY <1>1, HandlingIs, Zenon
<1>4. ASSUME NEW r \in todo, handle_event(r, Row(current).body.ev), todo' = todo \ {r},
             UNCHANGED <<xvars, current>>
      PROVE  SInv' /\ MNext
  <2>1. UNCHANGED <<nextId, table, queue, current, xvars>>
    BY <1>4, Zenon DEF xvars
  <2>2. MNext
    <3>1. r \in Run /\ Row(current).body.ev \in Ev
      BY <1>3, BodyIs, SInvIs, Zenon DEF Shape
    <3> QED
      BY <1>4, <3>1, Zenon DEF MNext
  <2>3. \A m \in table : m.id = current => ~Request(m.body)
    <3>1. \A m \in table : m.id = current => m.body.type = "Event"
      BY <1>3, Zenon
    <3> QED
      BY <3>1, Zenon DEF Request
  <2>4. Mails' /\ table' \subseteq Rows'
    <3>1. UNCHANGED <<wpc, wrun, wev, results, owed>>
      BY <1>2, <1>4, Zenon DEF handle_event
    <3>2. \A a \in owed' : a \in owed /\ (Unsent(a)' <=> Unsent(a))
      BY <3>1, SameUnsent, Zenon
    <3> QED
      BY <1>2, <2>1, <2>3, <3>2, SameMails, Zenon
  <2>5. Listens' /\ MInv'
    BY <1>2, <2>2, SameListens, ManagerStep, Zenon
  <2>6. Shape'
    BY <1>2, <1>4, <2>1, <2>4, SInvIs, Zenon DEF Shape
  <2>7. Jobs'
    <3>1. phase \notin {"down", "started"} /\ phase' = phase
      BY <1>2, <1>3, Zenon
    <3> QED
      BY <1>2, <1>3, <2>1, <3>1, SInvIs, Zenon DEF Jobs
  <2> QED
    BY <2>2, <2>4, <2>5, <2>6, <2>7, SInvNext, Zenon
<1>5. ASSUME HandledMessage, table' = table \ {Row(current)}, UNCHANGED <<mvars, nextId, queue>>
      PROVE  SInv' /\ UNCHANGED mvars
  <2>1. UNCHANGED mvars /\ UNCHANGED <<nextId, queue>>
    BY <1>5, Zenon
  <2>2. ~Request(Row(current).body) /\ phase' \in Listening
    BY <1>2, <1>3, Zenon DEF Request
  <2> QED
    BY <1>2, <1>3, <1>5, <2>1, <2>2, HandledStep, Zenon
<1> QED
  BY <1>4, <1>5, Zenon DEF ScheduleEvent

\* The scheduling event is in the table before the row of the EventHandleEvent
\* is deleted.
LEMMA ScheduleEventHandleStep ==
  ASSUME SInv, ScheduleEventHandle PROVE SInv' /\ UNCHANGED mvars
<1> DEFINE b == Row(current).body
           task == TaskScheduling(b.run, b.ev, b.result)
<1>1. /\ Handling("EventHandle") /\ UNCHANGED <<sent, svars, cursor, results, hvars, stops>>
      /\ UNCHANGED mvars
      /\ \/ todo = {} /\ SendMessage(task) /\ todo' = {b.run} /\ current' = current
         \/ /\ todo # {} \/ b.result \in NoAction
            /\ HandledMessage /\ table' = table \ {Row(current)} /\ UNCHANGED <<nextId, queue>>
  BY Zenon DEF ScheduleEventHandle
<1>2. UNCHANGED <<sent, job, last, phase, start, progress, cursor, results, entered, owed, handled, stops>>
      /\ running' = running
  BY <1>1, Zenon DEF svars, hvars, mvars
<1>3. /\ phase = "loop" /\ phase \in Listening /\ current # 0 /\ b.type = "EventHandle" /\ b \in Bodies
      /\ Row(current) \in table /\ Row(current).id = current
      /\ \A m \in table : m.id = current => m = Row(current)
  BY <1>1, HandlingIs, Zenon
<1>4. Row(current).body = b
  OBVIOUS
<1> HIDE DEF b
<1>5. ASSUME SendMessage(task), todo' = {b.run}, current' = current PROVE SInv'
  <2>1. b.run \in Run /\ b.ev \in Ev /\ b.result \in Result
    BY <1>3, BodyIs, Zenon DEF Request
  <2>2. task \in Bodies
    BY <2>1, SomeBodies, Zenon
  <2> HIDE DEF task
  <2>3. /\ nextId' \in Nat \ {0} /\ table' \subseteq Rows' /\ queue' \in Seq(Nat)
        /\ Mailbox' /\ Recovered'
        /\ table \subseteq table' /\ (\E n \in table' : n.body = task /\ n.id # current)
    BY <1>2, <1>3, <1>5, <2>2, MessageSent, Zenon
  <2>4. Kept'
    <3>1. \A m \in table' : m.id # current => Due(m)'
      BY <1>5, Zenon DEF Due
    <3>2. ASSUME NEW a \in owed', ~Unsent(a)' PROVE \E m \in table' : StandsFor(m.body, a) /\ Due(m)'
      <4>1. a \in owed /\ ~Unsent(a) /\ a \in Owable
        BY <1>1, <1>2, <3>2, StillUnsent, SInvIs, Zenon DEF Shape
      <4>2. PICK m \in table : StandsFor(m.body, a)
        BY <4>1, SInvIs, Zenon DEF Kept
      <4>3. CASE m.id # current
        BY <2>3, <3>1, <4>2, <4>3, Zenon
      <4>4. CASE m.id = current
        <5>1. StandsFor(b, a)
          BY <1>3, <1>4, <4>2, <4>4, Zenon
        <5>2. StandsFor(task, a)
          BY <4>1, <5>1, Standing, Zenon DEF StandsFor, task
        <5> QED
          BY <2>3, <3>1, <5>2, Zenon
      <4> QED
        BY <4>3, <4>4, Zenon
    <3> QED
      BY <3>2, Zenon DEF Kept
  <2>5. Shape'
    BY <1>2, <1>5, <2>1, <2>3, SInvIs, Zenon DEF Shape
  <2>6. Jobs'
    BY <1>2, <1>3, <1>5, SInvIs, Zenon DEF Jobs
  <2>7. Listens' /\ MInv'
    BY <1>1, <1>2, SameListens, SameManager, Zenon
  <2> QED
    BY <2>3, <2>4, <2>5, <2>6, <2>7, SInvNext, Zenon DEF Mails
<1>6. ASSUME todo # {} \/ b.result \in NoAction, HandledMessage, table' = table \ {Row(current)},
             UNCHANGED <<nextId, queue>>
      PROVE  SInv'
  BY <1>1, <1>2, <1>3, <1>4, <1>6, HandledStep, Zenon
<1> QED
  BY <1>1, <1>5, <1>6, Zenon

\* The executor is called before the row is deleted.
LEMMA ScheduleTaskStep ==
  ASSUME SInv, ScheduleTask PROVE SInv' /\ UNCHANGED mvars
<1> DEFINE b == Row(current).body
           t == <<b.run, b.ev, b.result>>
<1>1. /\ Handling("TaskScheduling")
      /\ UNCHANGED <<sent, svars, cursor, nextId, queue, results, entered, handled, stops>>
      /\ UNCHANGED mvars
      /\ \/ todo = {} /\ owed' = owed \ {t} /\ todo' = {b.run} /\ UNCHANGED <<table, current>>
         \/ todo # {} /\ HandledMessage /\ table' = table \ {Row(current)} /\ owed' = owed
  BY Zenon DEF ScheduleTask
<1>2. UNCHANGED <<sent, job, last, phase, start, progress, cursor, nextId, queue, results, entered, handled, stops>>
      /\ UNCHANGED <<running, wpc, wrun, wev>>
  BY <1>1, Zenon DEF svars, mvars
<1>3. /\ phase = "loop" /\ phase \in Listening /\ current # 0 /\ b.type = "TaskScheduling" /\ b \in Bodies
      /\ \A m \in table : m.id = current => m = Row(current)
  BY <1>1, HandlingIs, Zenon
<1>4. Row(current).body = b
  OBVIOUS
<1> HIDE DEF b
<1>5. ASSUME owed' = owed \ {t}, todo' = {b.run}, UNCHANGED <<table, current>>
      PROVE  SInv'
  <2>1. b.run \in Run
    BY <1>3, BodyIs, Zenon DEF Request
  <2>2. table' = table /\ current' = current /\ Rows' = Rows
    BY <1>2, <1>5, Zenon DEF Rows
  <2>3. Mailbox'
    BY <1>2, <1>5, <2>2, SInvIs, Zenon DEF Mailbox
  <2>4. Recovered'
    BY <1>2, <2>2, SInvIs, Zenon DEF Recovered, InMailbox
  <2>5. Kept'
    <3>1. ASSUME NEW a \in owed', ~Unsent(a)' PROVE \E m \in table' : StandsFor(m.body, a) /\ Due(m)'
      <4>1. a \in owed /\ a # t
        BY <1>5, <3>1, Zenon
      <4>2. ~Unsent(a) /\ a \in Owable
        BY <1>2, <3>1, <4>1, SameUnsent, SInvIs, Zenon DEF Shape
      <4>3. PICK m \in table : StandsFor(m.body, a)
        BY <4>1, <4>2, SInvIs, Zenon DEF Kept
      <4>4. m.id # current
        <5>1. m.id = current => StandsFor(b, a)
          BY <1>3, <1>4, <4>3, Zenon
        <5> QED
          BY <4>1, <4>2, <5>1, Standing, Zenon
      <4>5. Due(m)'
        BY <2>2, <4>4, Zenon DEF Due
      <4> QED
        BY <2>2, <4>3, <4>5, Zenon
    <3> QED
      BY <3>1, Zenon DEF Kept
  <2>6. Shape'
    BY <1>2, <1>5, <2>1, <2>2, SInvIs, Zenon DEF Shape
  <2>7. Jobs'
    BY <1>2, <1>3, <2>2, SInvIs, Zenon DEF Jobs
  <2>8. Listens' /\ MInv'
    BY <1>1, <1>2, SameListens, SameManager, Zenon
  <2> QED
    BY <2>3, <2>4, <2>5, <2>6, <2>7, <2>8, SInvNext, Zenon DEF Mails
<1>6. ASSUME todo # {}, HandledMessage, table' = table \ {Row(current)}, owed' = owed
      PROVE  SInv'
  BY <1>1, <1>2, <1>3, <1>6, HandledStep, Zenon
<1> QED
  BY <1>1, <1>5, <1>6, Zenon

LEMMA ScheduleStopStep ==
  ASSUME SInv, ScheduleStop PROVE SInv' /\ UNCHANGED mvars
<1>1. /\ Handling("StopScheduler") /\ HandledMessage /\ table' = table \ {Row(current)}
      /\ phase' = (IF Row(current).body.ev \in {0, job} THEN "stopping" ELSE phase) /\ UNCHANGED mvars
      /\ UNCHANGED <<sent, job, last, start, progress, cursor, nextId, queue, results, entered, owed,
                     handled, stops>>
  BY Zenon DEF ScheduleStop, hvars
<1>2. phase \in Listening /\ current # 0 /\ Row(current).body.type = "StopScheduler"
  BY <1>1, HandlingIs, Zenon
<1>3. phase' \in Listening /\ ~Request(Row(current).body)
  <2>1. phase' = "stopping" \/ phase' = phase
    BY <1>1, Zenon
  <2> QED
    BY <1>2, <2>1, Zenon DEF Listening, Request
<1> QED
  BY <1>1, <1>2, <1>3, HandledStep, Zenon

\* A thread of the pool has something to do only while the job is in its loop.
LEMMA RunnerNeedsJob ==
  ASSUME SInv, NEW r \in Run, submitted[r] > 0 \/ \E w \in Worker : On(w, r)
  PROVE  phase \in Listening
<1>1. r \in running
  <2>1. r \notin running => submitted[r] = 0 /\ \A w \in Worker : ~On(w, r)
    BY SInvIs, Zenon DEF MInv, RunnerInv
  <2>2. ~(0 > 0)
    OBVIOUS
  <2> QED
    BY <2>1, <2>2, Zenon
<1> QED
  BY <1>1, SInvIs, Zenon DEF Jobs

\* A result is in the table when its thread no longer has it.
LEMMA RunnerStepStep ==
  ASSUME SInv, NEW w \in Worker, RunnerStep(w) PROVE SInv' /\ [MNext]_mvars
<1>1. UNCHANGED <<sent, job, last, phase, start, progress, cursor, current, todo, entered, stops>>
  BY Zenon DEF RunnerStep, svars
<1>2. /\ wrun[w] \in Run /\ wev[w] \in Ev /\ wev[w] \in 1 .. MaxEvents
      /\ results \in [Worker -> SUBSET Result] /\ owed \subseteq Owable /\ handled \subseteq Run \X Ev
  BY SInvIs, EventSchedulerAssumption, Zenon DEF MInv, MTypeOK, Shape
<1>3. wpc[w] # "idle" => phase \in Listening
  BY <1>2, RunnerNeedsJob, Zenon DEF On
<1>4. ASSUME phase \in Listening PROVE Jobs'
  <2>1. phase' \in Listening /\ phase' \notin {"down", "started"} /\ phase # "down"
    BY <1>1, <1>4, Zenon DEF Listening
  <2> QED
    BY <1>1, <2>1, SInvIs, Zenon DEF Jobs
<1>5. ASSUME MNext, UNCHANGED xvars, phase \in Listening, results' \in [Worker -> SUBSET Result],
             owed' \subseteq Owable, handled' \subseteq Run \X Ev,
             \A a \in owed' : Unsent(a)' \/ (a \in owed /\ ~Unsent(a))
      PROVE  SInv'
  <2>1. Mails' /\ table' \subseteq Rows'
    BY <1>1, <1>5, SameMails, Zenon
  <2>2. Shape'
    BY <1>1, <1>5, <2>1, SInvIs, Zenon DEF Shape, xvars
  <2>3. Listens' /\ MInv' /\ Jobs'
    BY <1>1, <1>4, <1>5, SameListens, ManagerStep, Zenon
  <2> QED
    BY <2>1, <2>2, <2>3, SInvNext, Zenon
<1>6. ASSUME \/ \E r \in Run : StartRunner(w, r)
             \/ GetEvent(w) \/ RunnerExited(w) \/ (NextEvent(w) /\ results[w] = {}),
             UNCHANGED <<xvars, results, owed, handled>>
      PROVE  SInv' /\ MNext
  <2>1. MNext
    BY <1>6, Zenon DEF MNext
  <2>2. phase \in Listening
    <3>1. ASSUME NEW r \in Run, StartRunner(w, r) PROVE phase \in Listening
      BY <3>1, RunnerNeedsJob, Zenon DEF StartRunner
    <3>2. GetEvent(w) \/ RunnerExited(w) \/ NextEvent(w) => wpc[w] # "idle"
      BY Zenon DEF GetEvent, RunnerExited, NextEvent
    <3> QED
      BY <1>3, <1>6, <3>1, <3>2, Zenon
  <2>3. wpc[w] # "send" \/ results[w] = {}
    BY <1>6, Zenon DEF StartRunner, GetEvent, RunnerExited
  <2>4. /\ \A u \in Worker : u # w => wpc'[u] = wpc[u] /\ wrun'[u] = wrun[u] /\ wev'[u] = wev[u]
        /\ results' = results
    <3>1. /\ wpc \in [Worker -> {"idle", "loop", "got", "send", "exit"}]
          /\ wrun \in [Worker -> Run] /\ wev \in [Worker -> Ev]
      BY SInvIs, Zenon DEF MInv, MTypeOK
    <3> QED
      BY <1>6, <3>1, Zenon DEF StartRunner, GetEvent, RunnerExited, ThreadIdle, NextEvent
  <2>5. ASSUME NEW a, Unsent(a) PROVE Unsent(a)'
    <3>1. PICK u \in Worker : wpc[u] = "send" /\ \E x \in results[u] : a = <<wrun[u], wev[u], x>>
      BY <2>5, Zenon DEF Unsent
    <3>2. u # w
      BY <2>3, <3>1, Zenon
    <3> QED
      BY <2>4, <3>1, <3>2, Zenon DEF Unsent
  <2>6. owed' = owed /\ handled' = handled /\ results' = results /\ UNCHANGED xvars
    BY <1>6, Zenon
  <2> QED
    BY <1>2, <1>5, <2>1, <2>2, <2>5, <2>6, Zenon
<1>7. ASSUME HandlerDone(w) PROVE SInv' /\ MNext
  <2>1. /\ ExecuteHandler(w) /\ UNCHANGED xvars /\ handled' = handled \cup {<<wrun[w], wev[w]>>}
        /\ wpc[w] = "got" /\ UNCHANGED <<wrun, wev>>
    BY <1>7, Zenon DEF HandlerDone, ExecuteHandler
  <2>2. MNext /\ phase \in Listening
    BY <1>3, <2>1, Zenon DEF MNext
  <2>3. handled' \subseteq Run \X Ev
    <3>1. <<wrun[w], wev[w]>> \in Run \X Ev
      BY <1>2
    <3> QED
      BY <1>2, <2>1, <3>1, Zenon
  <2>4. wpc'[w] \in {"send", "exit"} /\ \A u \in Worker : u # w => wpc'[u] = wpc[u]
    <3>1. wpc \in [Worker -> {"idle", "loop", "got", "send", "exit"}]
      BY SInvIs, Zenon DEF MInv, MTypeOK
    <3> QED
      BY <2>1, <3>1, Zenon DEF ExecuteHandler
  <2>5. ASSUME NEW a, Unsent(a), \A u \in Worker : u # w => results'[u] = results[u] PROVE Unsent(a)'
    <3>1. PICK u \in Worker : wpc[u] = "send" /\ \E x \in results[u] : a = <<wrun[u], wev[u], x>>
      BY <2>5, Zenon DEF Unsent
    <3>2. u # w
      BY <2>1, <3>1, Zenon
    <3> QED
      BY <2>1, <2>4, <2>5, <3>1, <3>2, Zenon DEF Unsent
  <2>6. CASE UNCHANGED <<results, owed>>
    <3>1. results' = results /\ owed' = owed
      BY <2>6, Zenon
    <3> QED
      BY <1>2, <1>5, <2>1, <2>2, <2>3, <2>5, <3>1, Zenon
  <2>7. ASSUME wpc'[w] = "send", NEW X \in Results[wev[w]], results' = [results EXCEPT ![w] = X],
               owed' = owed \cup {<<wrun[w], wev[w], x>> : x \in X \ NoAction}
        PROVE  SInv'
    <3>1. X \subseteq Result
      BY <1>2, EventSchedulerAssumption, Zenon
    <3>2. /\ results' \in [Worker -> SUBSET Result] /\ results'[w] = X
          /\ \A u \in Worker : u # w => results'[u] = results[u]
      BY <1>2, <2>7, <3>1, Zenon
    <3>3. ASSUME NEW x \in X, x \notin NoAction, NEW a, a = <<wrun[w], wev[w], x>>
          PROVE  a \in Owable /\ Unsent(a)'
      <4>1. a \in Owable
        BY <1>2, <3>1, <3>3 DEF Owable
      <4>2. wpc'[w] = "send" /\ x \in results'[w] /\ a = <<wrun'[w], wev'[w], x>>
        BY <2>1, <2>7, <3>2, <3>3, Zenon
      <4> QED
        BY <4>1, <4>2, Zenon DEF Unsent
    <3>4. ASSUME NEW a \in owed' PROVE a \in Owable /\ (Unsent(a)' \/ (a \in owed /\ ~Unsent(a)))
      <4>1. CASE a \in owed
        BY <1>2, <2>5, <3>2, <4>1, Zenon
      <4>2. CASE a \notin owed
        <5>1. a \in {<<wrun[w], wev[w], x>> : x \in X \ NoAction}
          BY <2>7, <3>4, <4>2, Zenon
        <5>2. PICK x \in X \ NoAction : a = <<wrun[w], wev[w], x>>
          BY <5>1, Zenon
        <5> QED
          BY <3>3, <5>2, Zenon
      <4> QED
        BY <4>1, <4>2, Zenon
    <3> QED
      BY <1>5, <2>1, <2>2, <2>3, <3>2, <3>4, Zenon
  <2> QED
    BY <1>7, <2>2, <2>6, <2>7, Zenon DEF HandlerDone
<1>8. ASSUME SendResult(w) PROVE SInv' /\ UNCHANGED mvars
  <2>1. PICK x \in results[w] : /\ SendMessage(EventHandle(wrun[w], wev[w], x))
                                /\ results' = [results EXCEPT ![w] = @ \ {x}]
    BY <1>8, Zenon DEF SendResult
  <2>2. /\ UNCHANGED mvars /\ UNCHANGED <<owed, handled, wpc, wrun, wev, running>>
        /\ wpc[w] = "send" /\ phase \in Listening
    BY <1>3, <1>8, Zenon DEF SendResult, mvars
  <2>3. x \in Result /\ EventHandle(wrun[w], wev[w], x) \in Bodies
    BY <1>2, <2>1, SomeBodies, Zenon
  <2>4. /\ results' \in [Worker -> SUBSET Result] /\ results'[w] = results[w] \ {x}
        /\ \A u \in Worker : u # w => results'[u] = results[u]
    BY <1>2, <2>1, Zenon
  <2>5. ASSUME NEW a \in owed', Unsent(a), ~Unsent(a)'
        PROVE  EventHandle(wrun[w], wev[w], x) = EventHandle(a[1], a[2], a[3])
    <3>1. PICK u \in Worker : wpc[u] = "send" /\ \E y \in results[u] : a = <<wrun[u], wev[u], y>>
      BY <2>5, Zenon DEF Unsent
    <3>2. PICK y \in results[u] : a = <<wrun[u], wev[u], y>>
      BY <3>1, Zenon
    <3>3. u = w /\ y = x
      BY <2>2, <2>4, <2>5, <3>1, <3>2, Zenon DEF Unsent
    <3>4. a[1] = wrun[w] /\ a[2] = wev[w] /\ a[3] = x
      BY <3>2, <3>3
    <3> QED
      BY <3>4, Zenon
  <2>6. /\ nextId' \in Nat \ {0} /\ table' \subseteq Rows' /\ queue' \in Seq(Nat)
        /\ Mailbox' /\ Recovered' /\ Kept'
    <3>1. \A a \in owed' : \/ Unsent(a)' \/ (a \in owed /\ ~Unsent(a))
                           \/ EventHandle(wrun[w], wev[w], x) = EventHandle(a[1], a[2], a[3])
      BY <2>2, <2>5, Zenon
    <3> QED
      BY <1>1, <2>1, <2>2, <2>3, <3>1, MessageSent, Zenon
  <2>7. Shape'
    BY <1>1, <2>2, <2>4, <2>6, SInvIs, Zenon DEF Shape
  <2>8. Listens' /\ MInv' /\ Jobs'
    BY <1>1, <1>4, <2>2, SameListens, SameManager, Zenon
  <2> QED
    BY <2>2, <2>6, <2>7, <2>8, SInvNext, Zenon DEF Mails
<1> QED
  BY <1>6, <1>7, <1>8, Zenon DEF RunnerStep

LEMMA SStutters ==
  ASSUME SInv, UNCHANGED vars PROVE SInv' /\ UNCHANGED mvars
<1>1. /\ UNCHANGED mvars
      /\ UNCHANGED <<sent, svars, cursor, xvars, current, todo, results, hvars, stops>>
  BY Zenon DEF vars
<1>2. UNCHANGED <<sent, job, last, phase, start, progress, cursor, xvars, nextId, table, queue, current, todo,
                  results, entered, owed, handled, stops>>
      /\ running' = running
  BY <1>1, Zenon DEF svars, xvars, hvars, mvars
<1>3. Mails' /\ table' \subseteq Rows' /\ Listens' /\ MInv'
  BY <1>1, <1>2, SameMails, StillUnsent, SameListens, SameManager, Zenon
<1>4. Shape' /\ Jobs'
  BY <1>2, <1>3, SInvIs, Zenon DEF Shape, Jobs
<1> QED
  BY <1>1, <1>3, <1>4, SInvNext, Zenon

\* A step of the scheduler keeps the invariant; for the manager of the runners
\* it is one of its steps, none, or the loss of all that was in memory.
LEMMA SStep ==
  ASSUME SInv, [Next]_vars PROVE SInv' /\ ([MNext]_mvars \/ MInit')
<1>1. CASE StoreEvent
  BY <1>1, StoreEventStep, Zenon DEF StoreEvent
<1>2. CASE ProcessEvent
  BY <1>2, ProcessEventStep, Zenon DEF ProcessEvent
<1>3. CASE StartJob
  BY <1>3, StartJobStep, Zenon DEF StartJob
<1>4. CASE Boot
  <2>1. CASE Recover
    BY <2>1, RecoverStep, Zenon DEF Recover
  <2>2. CASE SetEventProgress
    BY <2>2, SetEventProgressStep, Zenon DEF SetEventProgress
  <2> QED
    BY <1>4, <2>1, <2>2, Zenon DEF Boot
<1>5. CASE Crash \/ Exit
  <2>1. Down
    BY <1>5, Zenon DEF Crash, Exit
  <2> QED
    BY <2>1, DownIs, DownStep, Zenon
<1>6. CASE SendStop
  BY <1>6, SendStopStep, Zenon DEF SendStop
<1>7. CASE StopListenEvents
  BY <1>7, StopListenEventsStep, Zenon
<1>8. CASE Schedule
  <2>1. CASE GetMessage
    BY <2>1, GetMessageStep, Zenon DEF GetMessage
  <2>2. CASE ScheduleEvent
    BY <2>2, ScheduleEventStep, Zenon
  <2>3. CASE ScheduleEventHandle
    BY <2>3, ScheduleEventHandleStep, Zenon
  <2>4. CASE ScheduleTask
    BY <2>4, ScheduleTaskStep, Zenon
  <2>5. CASE ScheduleStop
    BY <2>5, ScheduleStopStep, Zenon
  <2> QED
    BY <1>8, <2>1, <2>2, <2>3, <2>4, <2>5, Zenon DEF Schedule
<1>9. ASSUME NEW w \in Worker, RunnerStep(w) PROVE SInv' /\ [MNext]_mvars
  BY <1>9, RunnerStepStep, Zenon
<1>10. CASE UNCHANGED vars
  BY <1>10, SStutters, Zenon
<1> QED
  BY <1>1, <1>2, <1>3, <1>4, <1>5, <1>6, <1>7, <1>8, <1>9, <1>10, Zenon DEF Next

\* The inductive invariant holds in every state the scheduler reaches.
THEOREM SchedulerInvariant == Spec => []SInv
<1>1. Init => SInv
  BY SInit, Zenon
<1>2. SInv /\ [Next]_vars => SInv'
  BY SStep, Zenon
<1> QED
  BY <1>1, <1>2, PTL DEF Spec

\* Types of the scheduler's state and of the manager's, for every number of
\* events, dag runs, threads and restarts.
THEOREM SchedulerTypesKept == Spec => []TypeOK
<1>1. SInv => TypeOK
  <2> SUFFICES ASSUME SInv PROVE TypeOK
    OBVIOUS
  <2>1. last \in 0 .. job
    <3>1. last = 0 \/ (job \in 1 .. MaxJobs /\ last = job - 1)
      BY SInvIs, Zenon DEF Jobs
    <3>2. job \in Nat
      BY Numbers, Zenon
    <3> QED
      BY <3>1, <3>2
  <2>2. \A m \in table : m.id \in 1 .. nextId - 1 /\ m.job \in 1 .. job /\ m.body \in Bodies
    BY SInvIs, Zenon DEF Shape, Rows
  <2>3. \A i \in Range(queue) \cup ({current} \ {0}) : \E m \in table : m.id = i
    BY SInvIs, Zenon DEF Mailbox
  <2>4. phase \in {"down", "started", "recovered", "loop", "stopping", "ending"}
    BY SInvIs, Zenon DEF Shape, Listening
  <2>5. MTypeOK /\ nextId \in Nat
    BY SInvIs, Zenon DEF MInv, Shape
  <2>6. owed \subseteq Actions
    <3>1. Owable \subseteq Actions
      BY DEF Owable, Actions
    <3> QED
      BY <3>1, SInvIs, Zenon DEF Shape
  <2> QED
    BY <2>1, <2>2, <2>3, <2>4, <2>5, <2>6, SInvIs, Zenon DEF TypeOK, Shape
<1> QED
  BY <1>1, SchedulerInvariant, PTL

\* SchedulerEventWatcher.process and the event progress: whatever crashes and
\* restarts happen, an event enters the mailbox at most once and in order, and
\* none in between is missed if every job that ended had saved a progress.
THEOREM EventsEnterTheMailboxOnce == Spec => []EventsEnterOnce
<1>1. SInv => EventsEnterOnce
  <2> SUFFICES ASSUME SInv PROVE EventsEnterOnce
    OBVIOUS
  <2>1. Increasing(entered) /\ (Saved => Consecutive(entered))
    BY SInvIs, Zenon DEF Entered
  <2>2. ASSUME Saved, entered # <<>>, phase = "loop" PROVE cursor = entered[Len(entered)]
    <3>1. progress[job] = cursor /\ job \in 1 .. MaxJobs /\ ~Starting
      BY <2>2, SInvIs, Zenon DEF Progressed, Jobs, Listening, Starting
    <3>2. job # 0 /\ cursor # NoProgress
      <4>1. /\ cursor \in Nat /\ cursor <= sent /\ sent \in Nat /\ sent <= MaxEvents /\ MaxEvents \in Nat
            /\ NoProgress = MaxEvents + 1
        BY Numbers, Zenon
      <4> QED
        BY <3>1, <4>1, EventSchedulerAssumption
    <3>3. Known /\ Mark = cursor
      BY <3>1, <3>2, Zenon DEF Known, Mark
    <3>4. EndsAt(entered, cursor)
      BY <2>2, <3>3, SInvIs, Zenon DEF Entered
    <3> QED
      BY <2>2, <3>4, Zenon DEF EndsAt
  <2> QED
    BY <2>1, <2>2, Zenon DEF EventsEnterOnce, Increasing, Consecutive, Saved
<1> QED
  BY <1>1, SchedulerInvariant, PTL

\* Mailbox and recover: in the loop every message that is not handled, of this
\* job or of the one before, is in the mailbox, and no message is there twice.
THEOREM MessagesAreRecovered == Spec => []MessagesRecovered
<1>1. SInv => MessagesRecovered
  <2> SUFFICES ASSUME SInv, phase = "loop"
               PROVE  /\ \A m \in table : m.job >= last => InMailbox(m.id)
                      /\ IsInjective(queue) /\ current \notin Range(queue)
    BY Zenon DEF MessagesRecovered
  <2>1. job \in 1 .. MaxJobs /\ last = job - 1
    BY SInvIs, Zenon DEF Jobs
  <2>2. \A m \in table : m.job \in 1 .. job
    BY SInvIs, Zenon DEF Shape, Rows
  <2>3. \A j \in 1 .. job : j >= last => j \in {last, job}
    BY <2>1, EventSchedulerAssumption
  <2>4. \A m \in table : m.job \in {last, job} => InMailbox(m.id)
    BY SInvIs, Zenon DEF Recovered, Listening
  <2> QED
    BY <2>2, <2>3, <2>4, SInvIs, Zenon DEF Mailbox
<1> QED
  BY <1>1, SchedulerInvariant, PTL

\* An action a handler returned is with its thread, or has a message row which
\* the job that runs has in its mailbox, until the executor is called for it: no
\* crash loses it but one before it was sent, and a second one after which its
\* row is of a job before the last.
THEOREM ActionsAreKept == Spec => []ActionsKept
<1>1. SInv => ActionsKept
  <2> SUFFICES ASSUME SInv, NEW a \in owed, ~Unsent(a)
               PROVE  \E m \in table :
                        /\ m.body \in {EventHandle(a[1], a[2], a[3]), TaskScheduling(a[1], a[2], a[3])}
                        /\ phase = "loop" => InMailbox(m.id) \/ m.job < last
    BY Zenon DEF ActionsKept
  <2>1. PICK m \in table : StandsFor(m.body, a)
    BY SInvIs, Zenon DEF Kept
  <2>2. ASSUME phase = "loop" PROVE InMailbox(m.id) \/ m.job < last
    <3>1. job \in 1 .. MaxJobs /\ last = job - 1 /\ m.job \in 1 .. job
      BY <2>2, SInvIs, Zenon DEF Jobs, Shape, Rows
    <3>2. m.job < last \/ m.job \in {last, job}
      BY <3>1, EventSchedulerAssumption
    <3> QED
      BY <2>2, <3>2, SInvIs, Zenon DEF Recovered, Listening
  <2> QED
    BY <2>1, <2>2, Zenon DEF StandsFor
<1> QED
  BY <1>1, SchedulerInvariant, PTL

\* In the scheduler too the events of a dag run are taken in the order in which
\* they were given, in each life of the process.
THEOREM SchedulerKeepsOrder == Spec => []EventsInOrder
<1>1. Init => EventsInOrder
  BY OrderInit, Zenon DEF Init
<1>2. SInv /\ EventsInOrder /\ [Next]_vars => EventsInOrder'
  <2> SUFFICES ASSUME SInv, EventsInOrder, [Next]_vars PROVE EventsInOrder'
    OBVIOUS
  <2>1. CASE [MNext]_mvars
    BY <2>1, OrderInductive, SInvIs, Zenon DEF MInv
  <2>2. CASE MInit'
    BY <2>2, OrderRestarts, Zenon
  <2> QED
    BY <2>1, <2>2, SStep, Zenon
<1> QED
  BY <1>1, <1>2, SchedulerInvariant, PTL DEF Spec
=============================================================================
