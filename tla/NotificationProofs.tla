------------------------- MODULE NotificationProofs -------------------------
(***************************************************************************)
(* Proofs about the notification service, for any servers, threads, keys,  *)
(* times, numbers of events, tries and faults: type correctness, an event  *)
(* is stored at most once and a call that returns has stored it, no        *)
(* listener sleeps through an event of its server, and no event is skipped *)
(* or handed out twice, apart from rows committed late.                    *)
(***************************************************************************)
EXTENDS Notification, TLAPS

USE NotificationAssumption, ThreadAssumption, ServerAssumption

Row == [key : Key, uuid : Nat, time : Time, by : Server,
        st : {"open", "done", "late", "gone"}]

(* A thread has a server while it is in a call. *)
Calling == {"insert", "gap", "wait", "query", "error"}
CallsOK == \A t \in Thread : pc[t] \in Calling <=> uri[t] \in Server

(* Only a sender inserts, and a call of send_event has a uuid of its own. *)
UuidsOK ==
  /\ \A t \in Thread : pc[t] = "insert" => t \in Sender
  /\ \A t \in Sender : pc[t] # "idle" => uuid[t] # 0
  /\ \A t, r \in Sender : t # r /\ uuid[t] = uuid[r] => uuid[t] = 0

(* The column uuid is unique, apart from rows that were rolled back. *)
RowsOK ==
  \A v, w \in Versions :
    log[v].uuid = log[w].uuid /\ log[v].st # "gone" /\ log[w].st # "gone" => v = w

(* The row that the sender t is about to commit. *)
Inserted(t, v) ==
  v \in Versions /\ log[v].uuid = uuid[t] /\ log[v].st = "open"
  /\ log[v].by = uri[t]

InsertsOK == \A t \in Sender : pc[t] = "insert" => \E v \in Versions : Inserted(t, v)

ReturnsOK ==
  \A u \in 1..Len(result) :
    result[u] = "returned" => \E v \in Versions : log[v].uuid = u /\ Done(v)

StoreInv == CallsOK /\ UuidsOK /\ RowsOK /\ InsertsOK /\ ReturnsOK

(* A listener goes on from a row that is committed, and its watcher was     *)
(* given what it asked for up to there, apart from rows committed late, and *)
(* nothing beyond.                                                          *)
GivenOK ==
  \A l \in Listener :
    /\ version[l] # 0 => Done(version[l])
    /\ \A w \in received[l] : w <= version[l]
    /\ \A v \in Versions :
         v <= version[l] /\ Eligible(l, v) => v \in received[l] \/ log[v].st = "late"

-----------------------------------------------------------------------------
(* Type correctness. *)

Pcs == {"idle", "insert", "gap", "wait", "query", "error", "ended", "dead"}

(* What a call leaves behind. *)
CallTyped ==
  /\ log' \in Seq(Row) /\ Len(log') \in Nat /\ Len(log) <= Len(log')
  /\ pc' \in [Thread -> Pcs] /\ since' \in [Listener -> 0..Len(log')]
  /\ living' \in [Server -> SUBSET Server] /\ answer' \subseteq Server

(* What TypeOK says of each variable. *)
LEMMA TypeIs ==
  ASSUME TypeOK
  PROVE  /\ log \in Seq(Row)
         /\ up \in [Server -> BOOLEAN] /\ inc \in [Server -> Nat]
         /\ row \in [Server -> Nat]
         /\ living \in [Server -> SUBSET Server] /\ greeted \in [Server -> BOOLEAN]
         /\ cached \in [Server -> SUBSET Key]
         /\ current \in Server /\ members \subseteq Server
         /\ pc \in [Thread -> Pcs]
         /\ uri \in [Thread -> Server \cup {NoServer}]
         /\ failed \in [Thread -> SUBSET Server] /\ tries \in [Thread -> 0..MaxTries]
         /\ since \in [Listener -> 0..Len(log)] /\ answer \subseteq Server
         /\ flag \in [Listener -> BOOLEAN] /\ version \in [Listener -> 0..Len(log)]
         /\ received \in [Listener -> SUBSET Versions]
         /\ result \in Seq({"calling", "returned", "raised"})
         /\ uuid \in [Sender -> 0..Len(result)]
         /\ faults \in 0..MaxFaults
BY Zenon DEF TypeOK, Row, Pcs

LEMMA LogType ==
  ASSUME TypeOK
  PROVE  /\ log \in Seq(Row) /\ Len(log) \in Nat
         /\ \A v \in Versions : log[v] \in Row
<1>1. log \in Seq(Row)
  BY TypeIs, Zenon DEF Row
<1> QED BY <1>1 DEF Versions

(* Versions of a table that has grown. *)
LEMMA LongerTable ==
  ASSUME NEW a \in Nat, NEW b \in Nat, a <= b, NEW D, NEW f \in [D -> 0..a]
  PROVE  f \in [D -> 0..b]
OBVIOUS

LEMMA GotoType ==
  ASSUME TypeOK, NEW t \in Thread, NEW p \in Pcs, Goto(t, p)
  PROVE  pc' \in [Thread -> Pcs]
BY TypeIs, Zenon DEF Goto, Pcs

LEMMA WaitType ==
  ASSUME TypeOK, NEW t \in Thread, Wait(t)
  PROVE  pc' \in [Thread -> Pcs] /\ since' \in [Listener -> 0..Len(log)]
<1>1. pc' \in [Thread -> Pcs]
  BY GotoType, Zenon DEF Wait, Pcs
<1>2. since' \in [Listener -> 0..Len(log)]
  BY LogType, TypeIs DEF Wait
<1> QED BY <1>1, <1>2, Zenon

LEMMA ReadType ==
  ASSUME TypeOK, NEW s \in Server, NEW m \in LivingMembers(s)
  PROVE  m \subseteq Server
BY TypeIs DEF LivingMembers, TableReads

LEMMA CallType ==
  ASSUME TypeOK, NEW t \in Thread, NEW s \in Server, NEW u \in Nat, Call(t, s, u)
  PROVE  CallTyped
<1>0. log \in Seq(Row) /\ Len(log) \in Nat
  BY LogType, Zenon
<1>1. CASE Goto(t, "error") /\ UNCHANGED <<log, living, since, answer>>
  <2>1. pc' \in [Thread -> Pcs]
    BY <1>1, GotoType, Zenon DEF Pcs
  <2> QED BY <1>0, <1>1, <2>1, TypeIs DEF CallTyped
<1>2. CASE BeginSend(t, s, u)
  <2>1. UNCHANGED <<living, since, answer>>
    BY <1>2, Zenon DEF BeginSend
  <2>2. pc' \in [Thread -> Pcs]
    BY <1>2, GotoType, Zenon DEF BeginSend, Pcs
  <2>3. log' \in Seq(Row) /\ Len(log') \in Nat /\ Len(log) <= Len(log')
    <3>1. CASE log' = log
      BY <3>1, <1>0
    <3>2. CASE \E k \in Key, ct \in Time :
                 log' = Append(log, [key |-> k, uuid |-> u, time |-> ct,
                                     by |-> s, st |-> "open"])
      <4>1. PICK k \in Key, ct \in Time :
              log' = Append(log, [key |-> k, uuid |-> u, time |-> ct,
                                  by |-> s, st |-> "open"])
        BY <3>2, Zenon
      <4>2. [key |-> k, uuid |-> u, time |-> ct, by |-> s, st |-> "open"] \in Row
        BY Zenon DEF Row
      <4> QED BY <1>0, <4>1, <4>2
    <3> QED BY <1>2, <3>1, <3>2, Zenon DEF BeginSend
  <2>4. since' \in [Listener -> 0..Len(log')]
    BY <1>0, <2>1, <2>3, LongerTable, TypeIs, Zenon
  <2> QED BY <2>1, <2>2, <2>3, <2>4, TypeIs, Zenon DEF CallTyped
<1>3. CASE BeginList(t)
  <2>1. pc' \in [Thread -> Pcs] /\ since' \in [Listener -> 0..Len(log)]
    <3>1. CASE t \in KeyListener
      BY <1>3, <3>1, WaitType, Zenon DEF BeginList
    <3>2. CASE t \notin KeyListener
      BY <1>3, <3>2, GotoType, TypeIs, Zenon DEF BeginList, Pcs
    <3> QED BY <3>1, <3>2, Zenon
  <2>2. UNCHANGED <<log, living, answer>>
    BY <1>3, Zenon DEF BeginList
  <2>3. Len(log') \in Nat /\ Len(log) <= Len(log')
    BY <1>0, <2>2
  <2> QED BY <1>0, <2>1, <2>2, <2>3, TypeIs, Zenon DEF CallTyped
<1>4. CASE BeginMembers(s)
  <2>1. pc' \in [Thread -> Pcs] /\ since' \in [Listener -> 0..Len(log)]
    BY <1>4, WaitType, Zenon DEF BeginMembers, Thread
  <2>2. answer' \subseteq Server
    BY <1>4, ReadType, Zenon DEF BeginMembers
  <2> QED BY <1>0, <1>4, <2>1, <2>2, TypeIs DEF BeginMembers, CallTyped
<1> QED BY <1>1, <1>2, <1>3, <1>4, Zenon DEF Call


LEMMA ReturnType ==
  ASSUME TypeOK, NEW t \in Thread, NEW p \in Pcs, Return(t, p)
  PROVE  /\ pc' \in [Thread -> Pcs] /\ uri' \in [Thread -> Server \cup {NoServer}]
         /\ failed' \in [Thread -> SUBSET Server] /\ tries' \in [Thread -> 0..MaxTries]
         /\ since' \in [Listener -> 0..Len(log)] /\ answer' \subseteq Server
<1>1. pc' \in [Thread -> Pcs]
  BY GotoType, Zenon DEF Return
<1>2. since' \in [Listener -> 0..Len(log)]
  BY LogType, TypeIs DEF Return
<1>3. uri' \in [Thread -> Server \cup {NoServer}]
  BY TypeIs, Zenon DEF Return
<1>4. failed' \in [Thread -> SUBSET Server] /\ answer' \subseteq Server
  BY TypeIs, Zenon DEF Return
<1>5. tries' \in [Thread -> 0..MaxTries]
  BY TypeIs DEF Return
<1> QED BY <1>1, <1>2, <1>3, <1>4, <1>5, Zenon

LEMMA LoseType ==
  ASSUME TypeOK, NEW t \in Thread, LoseReply(t)
  PROVE  pc' \in [Thread -> Pcs] /\ faults' \in 0..MaxFaults
<1>1. pc' \in [Thread -> Pcs]
  BY GotoType, Zenon DEF LoseReply, Pcs
<1> QED BY <1>1, TypeIs DEF LoseReply

(* The types that steps of a call can leave, put together. *)
LEMMA CallStepType ==
  ASSUME TypeOK, log' \in Seq(Row), Len(log) <= Len(log'), Len(log') \in Nat,
         pc' \in [Thread -> Pcs], uri' \in [Thread -> Server \cup {NoServer}],
         failed' \in [Thread -> SUBSET Server], tries' \in [Thread -> 0..MaxTries],
         since' \in [Listener -> 0..Len(log')], answer' \subseteq Server,
         living' \in [Server -> SUBSET Server], current' \in Server,
         members' \subseteq Server, faults' \in 0..MaxFaults,
         cached' \in [Server -> SUBSET Key],
         result' \in Seq({"calling", "returned", "raised"}),
         uuid' \in [Sender -> 0..Len(result')],
         UNCHANGED <<up, inc, row, greeted, lvars>>
  PROVE  TypeOK'
<1>1. Len(log) \in Nat
  BY LogType, Zenon
<1>2. version' \in [Listener -> 0..Len(log')]
  <2>1. version \in [Listener -> 0..Len(log)] /\ version' = version
    BY TypeIs, Zenon DEF lvars
  <2> QED BY <1>1, <2>1, LongerTable, Zenon
<1>3. received' \in [Listener -> SUBSET Versions']
  <2>1. Versions \subseteq Versions'
    BY <1>1 DEF Versions
  <2>2. received \in [Listener -> SUBSET Versions] /\ received' = received
    BY TypeIs, Zenon DEF lvars
  <2> QED BY <2>1, <2>2, Zenon
<1>4. flag' \in [Listener -> BOOLEAN] /\ up' \in [Server -> BOOLEAN]
      /\ inc' \in [Server -> Nat] /\ row' \in [Server -> Nat]
      /\ greeted' \in [Server -> BOOLEAN]
  BY TypeIs, Zenon DEF lvars
<1> QED BY <1>2, <1>3, <1>4, Zenon DEF TypeOK, Row, Pcs

LEMMA FirstCallType ==
  ASSUME TypeOK, NEW t \in Thread, NEW u \in Nat, FirstCall(t, u),
         result' \in Seq({"calling", "returned", "raised"}),
         uuid' \in [Sender -> 0..Len(result')]
  PROVE  TypeOK'
<1>1. current \in Server /\ Call(t, current, u)
  BY TypeIs, Zenon DEF FirstCall
<1>2. CallTyped
  BY <1>1, CallType, Zenon
<1>3. UNCHANGED <<up, inc, row, greeted, cached, members, lvars, faults, current,
                  failed>>
  BY Zenon DEF FirstCall, Call
<1>4. uri' \in [Thread -> Server \cup {NoServer}] /\ tries' \in [Thread -> 0..MaxTries]
  BY TypeIs DEF FirstCall
<1>5. failed' \in [Thread -> SUBSET Server] /\ current' \in Server
      /\ members' \subseteq Server /\ faults' \in 0..MaxFaults
      /\ cached' \in [Server -> SUBSET Key]
  BY <1>3, TypeIs, Zenon
<1> HIDE DEF FirstCall
<1> QED BY <1>2, <1>3, <1>4, <1>5, CallStepType, Zenon DEF CallTyped

LEMMA RetryType ==
  ASSUME TypeOK, CallsOK, NEW t \in Thread, Retry(t)
  PROVE  TypeOK'
<1>1. PICK s \in NextCurrent(t) :
        /\ current' = s
        /\ uri' = IF Moves(t) THEN [uri EXCEPT ![t] = s] ELSE uri
        /\ failed' = [failed EXCEPT ![t] = IF Moves(t) THEN @ \cup {current}
                                           ELSE IF uri[t] = current THEN {} ELSE @]
        /\ Call(t, IF Moves(t) THEN s ELSE uri[t], IF t \in Sender THEN uuid[t] ELSE 0)
  BY Zenon DEF Retry
<1>2. s \in Server /\ uri[t] \in Server
  BY TypeIs DEF CallsOK, Calling, Retry, NextCurrent, Moves, Candidates
<1>3. (IF t \in Sender THEN uuid[t] ELSE 0) \in Nat
  BY TypeIs
<1>4. CallTyped
  BY <1>1, <1>2, <1>3, CallType, Zenon
<1>5. /\ UNCHANGED <<up, inc, row, greeted, cached, members, lvars, faults>>
      /\ UNCHANGED <<result, uuid>>
  BY <1>1, Zenon DEF Retry, Call, evars
<1>6. uri' \in [Thread -> Server \cup {NoServer}] /\ failed' \in [Thread -> SUBSET Server]
  BY <1>1, <1>2, TypeIs
<1>7. tries' \in [Thread -> 0..MaxTries]
  BY TypeIs DEF Retry
<1>8. members' \subseteq Server /\ faults' \in 0..MaxFaults
      /\ cached' \in [Server -> SUBSET Key]
      /\ result' \in Seq({"calling", "returned", "raised"})
      /\ uuid' \in [Sender -> 0..Len(result')]
  BY <1>5, TypeIs, Zenon
<1> QED BY <1>1, <1>2, <1>4, <1>5, <1>6, <1>7, <1>8, CallStepType, Zenon DEF CallTyped


LEMMA SendEventType ==
  ASSUME TypeOK, NEW t \in Sender, SendEvent(t)
  PROVE  TypeOK'
<1>1. Len(result) \in Nat
  BY TypeIs
<1>2. /\ result' \in Seq({"calling", "returned", "raised"})
      /\ Len(result') = Len(result) + 1
  BY TypeIs DEF SendEvent
<1>3. uuid' \in [Sender -> 0..Len(result')]
  BY <1>1, <1>2, TypeIs DEF SendEvent
<1>4. t \in Thread /\ FirstCall(t, Len(result) + 1)
  BY Zenon DEF SendEvent, Thread
<1> QED BY <1>1, <1>2, <1>3, <1>4, FirstCallType

LEMMA ListenType ==
  ASSUME TypeOK, NEW t \in Thread, FirstCall(t, 0), UNCHANGED evars
  PROVE  TypeOK'
<1>1. /\ result' \in Seq({"calling", "returned", "raised"})
      /\ uuid' \in [Sender -> 0..Len(result')]
  BY TypeIs, Zenon DEF evars
<1> QED BY <1>1, FirstCallType, Zenon

(* Sequences that change in place. *)
LEMMA SeqOf ==
  ASSUME NEW S, NEW n \in Nat, NEW f \in [1..n -> S]
  PROVE  f \in Seq(S) /\ Len(f) = n
OBVIOUS

LEMMA PutType ==
  ASSUME NEW S, NEW q \in Seq(S), NEW i, NEW e \in S
  PROVE  /\ [q EXCEPT ![i] = e] \in Seq(S)
         /\ Len([q EXCEPT ![i] = e]) = Len(q)
         /\ \A j \in 1..Len(q) : [q EXCEPT ![i] = e][j] = IF j = i THEN e ELSE q[j]
<1>1. Len(q) \in Nat /\ q \in [1..Len(q) -> S]
  OBVIOUS
<1>2. [q EXCEPT ![i] = e] \in [1..Len(q) -> S]
  BY <1>1, Zenon
<1>3. \A j \in 1..Len(q) : [q EXCEPT ![i] = e][j] = IF j = i THEN e ELSE q[j]
  BY <1>1, Zenon
<1> QED BY <1>1, <1>2, <1>3, SeqOf

Outcome == {"calling", "returned", "raised"}

LEMMA ResultType ==
  ASSUME TypeOK, NEW u, NEW o \in Outcome
  PROVE  /\ [result EXCEPT ![u] = o] \in Seq(Outcome)
         /\ Len([result EXCEPT ![u] = o]) = Len(result)
<1>1. result \in Seq(Outcome)
  BY TypeIs, Zenon DEF Outcome
<1> QED BY <1>1, PutType

LEMMA GiveUpType ==
  ASSUME TypeOK, NEW t \in Thread, GiveUp(t)
  PROVE  TypeOK'
<1>1. Return(t, IF t \in Sender THEN "idle" ELSE "dead")
  BY Zenon DEF GiveUp
<1>2. (IF t \in Sender THEN "idle" ELSE "dead") \in Pcs
  BY Zenon DEF Pcs
<1>3. /\ pc' \in [Thread -> Pcs] /\ uri' \in [Thread -> Server \cup {NoServer}]
      /\ failed' \in [Thread -> SUBSET Server] /\ tries' \in [Thread -> 0..MaxTries]
      /\ since' \in [Listener -> 0..Len(log)] /\ answer' \subseteq Server
  BY <1>1, <1>2, ReturnType, Zenon
<1>4. current' \in Server
  <2>1. Candidates(t) \subseteq Server /\ current \in Server
    BY TypeIs, Zenon DEF Candidates
  <2>2. current' \in NextCurrent(t)
    BY Zenon DEF GiveUp
  <2> QED BY <2>1, <2>2, Zenon DEF NextCurrent
<1>5. result' \in Seq({"calling", "returned", "raised"}) /\ Len(result') = Len(result)
  <2>1. result \in Seq(Outcome) /\ "raised" \in Outcome
    BY TypeIs, Zenon DEF Outcome
  <2>2. result' = [result EXCEPT ![uuid[t]] = "raised"] \/ result' = result
    BY Zenon DEF GiveUp
  <2>3. result' \in Seq(Outcome) /\ Len(result') = Len(result)
    <3>1. CASE result' = [result EXCEPT ![uuid[t]] = "raised"]
      <4>1. /\ [result EXCEPT ![uuid[t]] = "raised"] \in Seq(Outcome)
            /\ Len([result EXCEPT ![uuid[t]] = "raised"]) = Len(result)
        BY <2>1, ResultType
      <4> QED BY <3>1, <4>1
    <3>2. CASE result' = result
      BY <2>1, <3>2, Zenon
    <3> QED BY <2>2, <3>1, <3>2, Zenon
  <2> QED BY <2>3, Zenon DEF Outcome
<1>6. UNCHANGED <<log, up, inc, row, living, greeted, cached, members, lvars,
                  uuid, faults>>
  BY Zenon DEF GiveUp, svars
<1>7. /\ log' \in Seq(Row) /\ Len(log) <= Len(log') /\ Len(log') \in Nat
  BY <1>6, LogType
<1>8. /\ living' \in [Server -> SUBSET Server] /\ members' \subseteq Server
      /\ faults' \in 0..MaxFaults /\ cached' \in [Server -> SUBSET Key]
      /\ uuid' \in [Sender -> 0..Len(result')]
  BY <1>5, <1>6, TypeIs, Zenon
<1> QED BY <1>3, <1>4, <1>5, <1>6, <1>7, <1>8, CallStepType, Zenon

LEMMA UpdateMembersType ==
  ASSUME TypeOK, CallsOK, UpdateMembers
  PROVE  TypeOK'
<1>1. Member \in Thread /\ uri[Member] \in Server
  BY Zenon DEF CallsOK, Calling, UpdateMembers, Thread
<1>2. PICK m \in IF pc[Member] = "query" THEN LivingMembers(uri[Member]) ELSE {answer} :
        /\ living' = IF pc[Member] = "query" THEN [living EXCEPT ![uri[Member]] = m]
                     ELSE living
        /\ \/ members' = m /\ Return(Member, "idle") /\ faults' = faults
           \/ members' = members /\ LoseReply(Member)
  BY Zenon DEF UpdateMembers
<1>3. m \subseteq Server
  <2>1. answer \subseteq Server
    BY TypeIs, Zenon
  <2> QED BY <1>1, <2>1, ReadType, Zenon
<1>4. UNCHANGED <<log, up, inc, row, greeted, cached, current, lvars, result, uuid>>
  BY Zenon DEF UpdateMembers, evars
<1>5. living' \in [Server -> SUBSET Server] /\ members' \subseteq Server
  BY <1>2, <1>3, TypeIs, Zenon
<1>6. /\ pc' \in [Thread -> Pcs] /\ uri' \in [Thread -> Server \cup {NoServer}]
      /\ failed' \in [Thread -> SUBSET Server] /\ tries' \in [Thread -> 0..MaxTries]
      /\ since' \in [Listener -> 0..Len(log)] /\ answer' \subseteq Server
      /\ faults' \in 0..MaxFaults
  <2>1. CASE Return(Member, "idle") /\ faults' = faults
    <3>1. "idle" \in Pcs /\ faults' \in 0..MaxFaults
      BY <2>1, TypeIs, Zenon DEF Pcs
    <3> QED BY <1>1, <2>1, <3>1, ReturnType, Zenon
  <2>2. CASE LoseReply(Member)
    <3>1. UNCHANGED <<uri, failed, tries, since, answer>>
      BY <2>2, Zenon DEF LoseReply
    <3> QED BY <1>1, <2>2, <3>1, LoseType, TypeIs, Zenon
  <2> QED BY <1>2, <2>1, <2>2, Zenon
<1>7. /\ log' \in Seq(Row) /\ Len(log) <= Len(log') /\ Len(log') \in Nat
      /\ since' \in [Listener -> 0..Len(log')]
  BY <1>4, <1>6, LogType
<1>8. /\ current' \in Server /\ cached' \in [Server -> SUBSET Key]
      /\ result' \in Seq({"calling", "returned", "raised"})
      /\ uuid' \in [Sender -> 0..Len(result')]
  BY <1>4, TypeIs, Zenon
<1> QED BY <1>4, <1>5, <1>6, <1>7, <1>8, CallStepType, Zenon


LEMMA ChangeType ==
  ASSUME NEW D, NEW R, NEW f \in [D -> R], NEW d, NEW e \in R
  PROVE  [f EXCEPT ![d] = e] \in [D -> R]
BY Zenon

LEMMA WakeType ==
  ASSUME TypeOK, NEW S, NEW ks
  PROVE  WakeAll(S, ks) \in [Thread -> Pcs]
BY TypeIs, Zenon DEF WakeAll, Pcs

(* A step that commits a row, or rolls rows back, changes only their st. *)
LEMMA CommitType ==
  ASSUME TypeOK, CallsOK, NEW t \in Sender, NEW v \in Versions, pc[t] = "insert",
         CommitRow(t, v)
  PROVE  /\ TypeOK'
         /\ log' \in Seq(Row) /\ Len(log') = Len(log)
         /\ \A w \in Versions :
              log'[w] = IF w = v THEN [log[w] EXCEPT !.st = CommitState(v)] ELSE log[w]
<1>1. t \in Thread /\ uri[t] \in Server
  BY Zenon DEF CallsOK, Calling, Thread
<1>2. log \in Seq(Row) /\ Len(log) \in Nat /\ log[v] \in Row /\ v \in 1..Len(log)
  BY LogType, Zenon DEF Versions
<1>3. [log[v] EXCEPT !.st = CommitState(v)] \in Row /\ log[v].key \in Key
  <2>1. CommitState(v) \in {"open", "done", "late", "gone"}
    BY Zenon DEF CommitState
  <2> QED BY <1>2, <2>1, Zenon DEF Row
<1>4. log' = [log EXCEPT ![v] = [log[v] EXCEPT !.st = CommitState(v)]]
  BY Zenon DEF CommitRow
<1>5. /\ log' \in Seq(Row) /\ Len(log') = Len(log)
      /\ \A w \in Versions :
           log'[w] = IF w = v THEN [log[w] EXCEPT !.st = CommitState(v)] ELSE log[w]
  BY <1>2, <1>3, <1>4, PutType DEF Versions
<1>6. pc' \in [Thread -> Pcs]
  <2>1. WakeAll({uri[t]}, {log[v].key}) \in [Thread -> Pcs]
    BY WakeType, Zenon
  <2>2. PICK p \in Pcs : pc' = [WakeAll({uri[t]}, {log[v].key}) EXCEPT ![t] = p]
    BY Zenon DEF CommitRow, Pcs
  <2>3. [WakeAll({uri[t]}, {log[v].key}) EXCEPT ![t] = p] \in [Thread -> Pcs]
    BY <2>1, ChangeType, Zenon
  <2> QED BY <2>2, <2>3, Zenon
<1>7. /\ uri' \in [Thread -> Server \cup {NoServer}]
      /\ failed' \in [Thread -> SUBSET Server] /\ tries' \in [Thread -> 0..MaxTries]
  <2>1. uri' = uri \/ uri' = [uri EXCEPT ![t] = NoServer]
    BY Zenon DEF CommitRow
  <2>2. failed' = failed \/ failed' = [failed EXCEPT ![t] = {}]
    BY Zenon DEF CommitRow
  <2>3. tries' = tries \/ tries' = [tries EXCEPT ![t] = 0]
    BY Zenon DEF CommitRow
  <2>4. uri' \in [Thread -> Server \cup {NoServer}]
    <3>1. uri \in [Thread -> Server \cup {NoServer}]
      BY TypeIs, Zenon
    <3>2. [uri EXCEPT ![t] = NoServer] \in [Thread -> Server \cup {NoServer}]
      BY <3>1, ChangeType, Zenon
    <3> QED BY <2>1, <3>1, <3>2, Zenon
  <2>5. failed' \in [Thread -> SUBSET Server]
    <3>1. failed \in [Thread -> SUBSET Server]
      BY TypeIs, Zenon
    <3>2. [failed EXCEPT ![t] = {}] \in [Thread -> SUBSET Server]
      BY <3>1, ChangeType, Zenon
    <3> QED BY <2>2, <3>1, <3>2, Zenon
  <2>6. tries' \in [Thread -> 0..MaxTries]
    <3>1. tries \in [Thread -> 0..MaxTries]
      BY TypeIs, Zenon
    <3>2. 0 \in 0..MaxTries
      OBVIOUS
    <3>3. [tries EXCEPT ![t] = 0] \in [Thread -> 0..MaxTries]
      BY <3>1, <3>2, ChangeType, Zenon
    <3> QED BY <2>3, <3>1, <3>3, Zenon
  <2> QED BY <2>4, <2>5, <2>6, Zenon
<1>8. result' \in Seq(Outcome) /\ Len(result') = Len(result)
  <2>1. result' = result \/ result' = [result EXCEPT ![uuid[t]] = "returned"]
    BY Zenon DEF CommitRow
  <2>2. result \in Seq(Outcome) /\ "returned" \in Outcome
    BY TypeIs, Zenon DEF Outcome
  <2> QED BY <2>1, <2>2, ResultType
<1>9. cached' \in [Server -> SUBSET Key]
  <2>1. cached' = [cached EXCEPT ![uri[t]] = cached[uri[t]] \cup {log[v].key}]
    BY Zenon DEF CommitRow
  <2>2. cached \in [Server -> SUBSET Key]
    BY TypeIs, Zenon
  <2> QED BY <1>1, <1>3, <2>1, <2>2, Zenon
<1>10. faults' \in 0..MaxFaults
  BY TypeIs DEF CommitRow
<1>11. UNCHANGED <<up, inc, row, living, greeted, current, members, since, answer,
                   lvars, uuid>>
  BY Zenon DEF CommitRow, svars, cvars
<1>12. /\ since' \in [Listener -> 0..Len(log')] /\ answer' \subseteq Server
       /\ living' \in [Server -> SUBSET Server] /\ current' \in Server
       /\ members' \subseteq Server /\ uuid' \in [Sender -> 0..Len(result')]
  BY <1>5, <1>8, <1>11, TypeIs, Zenon
<1>13. TypeOK'
  BY <1>2, <1>5, <1>6, <1>7, <1>8, <1>9, <1>10, <1>11, <1>12, CallStepType DEF Outcome
<1> QED BY <1>5, <1>13, Zenon

LEMMA CrashType ==
  ASSUME TypeOK, NEW s \in Server, Crash(s)
  PROVE  /\ TypeOK'
         /\ log' \in Seq(Row) /\ Len(log') = Len(log)
         /\ \A w \in Versions :
              log'[w] = IF log[w].st = "open" /\ log[w].by = s
                        THEN [log[w] EXCEPT !.st = "gone"] ELSE log[w]
<1>1. Len(log) \in Nat /\ \A w \in 1..Len(log) : log[w] \in Row
  BY LogType, Zenon DEF Versions
<1>2. \A w \in 1..Len(log) : [log[w] EXCEPT !.st = "gone"] \in Row
  BY <1>1 DEF Row
<1>3. /\ log' \in [1..Len(log) -> Row]
      /\ \A w \in Versions :
              log'[w] = IF log[w].st = "open" /\ log[w].by = s
                        THEN [log[w] EXCEPT !.st = "gone"] ELSE log[w]
  BY <1>1, <1>2, Zenon DEF Crash, Versions
<1>4. log' \in Seq(Row) /\ Len(log') = Len(log)
  BY <1>1, <1>3, SeqOf, Zenon
<1>5. pc' \in [Thread -> Pcs]
  BY TypeIs, Zenon DEF Crash, Pcs
<1>6. up' \in [Server -> BOOLEAN] /\ cached' \in [Server -> SUBSET Key]
  BY TypeIs, Zenon DEF Crash
<1>7. faults' \in 0..MaxFaults
  BY TypeIs DEF Crash
<1>8. UNCHANGED <<inc, row, living, greeted, current, members, uri, failed, tries,
                  since, answer, flag, version, received, result, uuid>>
  BY Zenon DEF Crash, cvars, lvars, evars
<1>9. TypeOK'
  BY <1>4, <1>5, <1>6, <1>7, <1>8, Zenon DEF TypeOK, Row, Pcs, Versions
<1> QED BY <1>3, <1>4, <1>9, Zenon

LEMMA ServerType ==
  ASSUME TypeOK, NEW s \in Server, Heartbeat(s) \/ NotifyOthers(s) \/ Restart(s)
  PROVE  TypeOK'
<1>1. CASE Heartbeat(s)
  <2>1. PICK kept \in TableReads :
          LET mine == s \in kept => row[s] = inc[s]
              seen == kept \cup {s}
              told == {x \in seen \ {s} : mine /\ ~greeted[s] /\ up[x]}
          IN  /\ row' = [x \in Server |-> IF x = s /\ mine THEN inc[s]
                                          ELSE IF x \in kept THEN row[x] ELSE 0]
              /\ living' = [x \in Server |-> CASE x = s /\ mine -> seen
                                               [] x \in told -> living[x] \cup {s}
                                               [] OTHER -> living[x]]
              /\ greeted' = [greeted EXCEPT ![s] = @ \/ mine]
              /\ pc' = IF pc[Member] = "wait" /\ uri[Member] \in told
                       THEN [pc EXCEPT ![Member] = "query"] ELSE pc
    BY <1>1, Zenon DEF Heartbeat
  <2>2. kept \subseteq Server
    BY DEF TableReads
  <2>3. /\ row \in [Server -> Nat] /\ inc \in [Server -> Nat] /\ 0 \in Nat
        /\ greeted \in [Server -> BOOLEAN] /\ living \in [Server -> SUBSET Server]
    BY TypeIs, Zenon
  <2>9. row' \in [Server -> Nat]
    <3>1. \A x \in Server : row'[x] \in {inc[s], row[x], 0}
      BY <2>1, Zenon
    <3> QED BY <2>1, <2>3, <3>1, Zenon
  <2>10. greeted' \in [Server -> BOOLEAN]
    BY <2>1, <2>3, Zenon
  <2>4. living' \in [Server -> SUBSET Server]
    <3>1. \A x \in Server : living'[x] \in {kept \cup {s}, living[x] \cup {s}, living[x]}
      BY <2>1, Zenon
    <3>2. ASSUME NEW x \in Server PROVE living'[x] \subseteq Server
      <4>1. /\ living'[x] \in {kept \cup {s}, living[x] \cup {s}, living[x]}
            /\ living[x] \subseteq Server
        BY <2>3, <3>1, Zenon
      <4> QED BY <2>2, <4>1, Zenon
    <3> QED BY <2>1, <3>2, Zenon
  <2>5. pc' \in [Thread -> Pcs]
    BY <2>1, TypeIs, Zenon DEF Pcs
  <2>6. UNCHANGED <<log, up, inc, cached, current, members, uri, failed, tries,
                    since, answer, flag, version, received, result, uuid, faults>>
    BY <1>1, Zenon DEF Heartbeat, cvars, lvars, evars
  <2> QED BY <2>4, <2>5, <2>6, <2>9, <2>10, Zenon DEF TypeOK, Pcs, Versions
<1>2. CASE NotifyOthers(s)
  <2>1. pc' \in [Thread -> Pcs]
    BY <1>2, TypeIs, Zenon DEF NotifyOthers, WakeAll, Pcs
  <2>2. cached' \in [Server -> SUBSET Key]
    BY <1>2, TypeIs, Zenon DEF NotifyOthers
  <2>3. UNCHANGED <<log, svars, cvars, uri, failed, tries, since, answer, lvars,
                    evars, faults>>
    BY <1>2, Zenon DEF NotifyOthers
  <2> QED BY <2>1, <2>2, <2>3, Zenon DEF TypeOK, Pcs, Versions, svars, cvars, lvars, evars
<1>3. CASE Restart(s)
  <2>1. up' \in [Server -> BOOLEAN] /\ greeted' \in [Server -> BOOLEAN]
        /\ living' \in [Server -> SUBSET Server]
    BY <1>3, TypeIs, Zenon DEF Restart
  <2>2. inc' \in [Server -> Nat]
    BY <1>3, TypeIs DEF Restart
  <2>3. UNCHANGED <<log, row, cached, cvars, pvars, lvars, evars, faults>>
    BY <1>3, Zenon DEF Restart
  <2> QED BY <2>1, <2>2, <2>3, Zenon DEF TypeOK, Versions, cvars, pvars, lvars, evars
<1> QED BY <1>1, <1>2, <1>3, Zenon


LEMMA AnswerType ==
  ASSUME TypeOK, NEW t \in Listener, NEW vs \in SUBSET Versions, Answer(t, vs)
  PROVE  TypeOK'
<1>0. t \in Thread
  BY Zenon DEF Thread
<1>1. /\ pc' \in [Thread -> Pcs] /\ uri' \in [Thread -> Server \cup {NoServer}]
      /\ failed' \in [Thread -> SUBSET Server] /\ tries' \in [Thread -> 0..MaxTries]
      /\ since' \in [Listener -> 0..Len(log)] /\ answer' \subseteq Server
      /\ faults' \in 0..MaxFaults
  <2>1. CASE Return(t, "idle") /\ faults' = faults
    <3>1. "idle" \in Pcs /\ faults' \in 0..MaxFaults
      BY <2>1, TypeIs, Zenon DEF Pcs
    <3> QED BY <1>0, <2>1, <3>1, ReturnType, Zenon
  <2>2. CASE LoseReply(t)
    <3>1. UNCHANGED <<uri, failed, tries, since, answer>>
      BY <2>2, Zenon DEF LoseReply
    <3> QED BY <1>0, <2>2, <3>1, LoseType, TypeIs, Zenon
  <2> QED BY <2>1, <2>2, Zenon DEF Answer
<1>2. received' \in [Listener -> SUBSET Versions]
  <2>1. CASE received' = [received EXCEPT ![t] = @ \cup vs]
    BY <2>1, TypeIs, Zenon
  <2>2. CASE UNCHANGED received
    BY <2>2, TypeIs, Zenon
  <2> QED BY <2>1, <2>2, Zenon DEF Answer
<1>3. version' \in [Listener -> 0..Len(log)]
  <2>1. CASE version' = version
    BY <2>1, TypeIs, Zenon
  <2>2. ASSUME NEW v \in vs, version' = [version EXCEPT ![t] = v]
        PROVE  version' \in [Listener -> 0..Len(log)]
    <3>1. v \in 0..Len(log)
      BY LogType DEF Versions
    <3> QED BY <2>2, <3>1, ChangeType, TypeIs, Zenon
  <2> QED BY <2>1, <2>2, Zenon DEF Answer, GoOnFrom
<1>4. UNCHANGED <<log, up, inc, row, living, greeted, cached, current, members, flag,
                  result, uuid>>
  BY Zenon DEF Answer, svars, cvars, evars
<1> QED BY <1>1, <1>2, <1>3, <1>4, Zenon DEF TypeOK, Pcs, Versions

(* A step of a listener that only moves on. *)
LEMMA ListenStepType ==
  ASSUME TypeOK, NEW t \in Listener,
         \/ ListenEnds(t) \/ LockCondition(t) \/ StopListen(t)
         \/ ListWoken(t) \/ ListTimeout(t)
  PROVE  TypeOK'
<1>0. t \in Thread
  BY Zenon DEF Thread
<1>1. ASSUME Wait(t),
             UNCHANGED <<log, svars, cached, cvars, uri, failed, tries, answer, lvars,
                         evars, faults>>
      PROVE  TypeOK'
  <2>1. pc' \in [Thread -> Pcs] /\ since' \in [Listener -> 0..Len(log)]
    BY <1>0, <1>1, WaitType, Zenon
  <2> QED BY <1>1, <2>1, Zenon DEF TypeOK, Pcs, Versions, svars, cvars, lvars, evars
<1>2. CASE ListenEnds(t)
  <2>1. pc' \in [Thread -> Pcs]
    BY <1>0, <1>2, GotoType, Zenon DEF ListenEnds, Pcs
  <2>2. UNCHANGED <<log, svars, cached, cvars, uri, failed, tries, since, answer, lvars,
                    evars, faults>>
    BY <1>2, Zenon DEF ListenEnds
  <2> QED BY <2>1, <2>2, Zenon DEF TypeOK, Pcs, Versions, svars, cvars, lvars, evars
<1>3. CASE StopListen(t)
  <2>1. flag' \in [Listener -> BOOLEAN]
    BY <1>3, TypeIs, Zenon DEF StopListen
  <2>2. UNCHANGED <<log, svars, cached, cvars, pvars, version, received, evars, faults>>
    BY <1>3, Zenon DEF StopListen
  <2> QED BY <2>1, <2>2, Zenon DEF TypeOK, Versions, svars, cvars, pvars, evars
<1>4. Query(t) \in SUBSET Versions /\ QueryEvents(t) \in SUBSET Versions
      /\ {} \in SUBSET Versions
  BY Zenon DEF Query, QueryEvents, QueryAllEvents
<1>5. CASE ListWoken(t)
  BY <1>1, <1>4, <1>5, AnswerType, Zenon DEF ListWoken
<1>6. CASE ListTimeout(t)
  BY <1>4, <1>6, AnswerType, Zenon DEF ListTimeout
<1>7. CASE LockCondition(t)
  BY <1>1, <1>7, Zenon DEF LockCondition
<1> QED BY <1>2, <1>3, <1>5, <1>6, <1>7, Zenon

LEMMA TypeStep ==
  ASSUME TypeOK, CallsOK, [Next]_vars
  PROVE  TypeOK'
<1>1. CASE UNCHANGED vars
  BY <1>1, Zenon DEF TypeOK, vars, svars, cvars, pvars, lvars, evars, Versions
<1>2. ASSUME NEW t \in Sender, SendEvent(t) \/ SenderStep(t) PROVE TypeOK'
  <2>1. t \in Thread
    BY Zenon DEF Thread
  <2>2. CASE Commit(t)
    BY <2>2, CommitType, Zenon DEF Commit, Rows
  <2> QED BY <1>2, <2>1, <2>2, SendEventType, RetryType, GiveUpType, Zenon DEF SenderStep
<1>3. ASSUME NEW t \in Listener, StopListen(t) \/ ListenerStep(t) PROVE TypeOK'
  <2>1. t \in Thread
    BY Zenon DEF Thread
  <2> QED BY <1>3, <2>1, ListenType, ListenStepType, RetryType, GiveUpType, Zenon
          DEF ListenerStep, Listen
<1>4. CASE MemberStep
  <2>1. Member \in Thread
    BY Zenon DEF Thread
  <2> QED BY <1>4, <2>1, ListenType, UpdateMembersType, RetryType, GiveUpType, Zenon
          DEF MemberStep, ListMembers
<1> QED BY <1>1, <1>2, <1>3, <1>4, CrashType, ServerType, Zenon DEF Next


-----------------------------------------------------------------------------
(* The events are stored once, and wake the listeners of their server. *)

(* What a step that stores nothing may do to a thread. *)
Quiet(r) ==
  \/ /\ pc'[r] = pc[r] /\ uri'[r] = uri[r]
     /\ r \in Listener => since'[r] = since[r]
  \/ /\ pc'[r] # "insert"
     /\ pc'[r] \in Calling <=> uri'[r] \in Server
     /\ (r \in Listener /\ pc'[r] = "wait") => since'[r] = Len(log)
     /\ (r \in Sender /\ pc'[r] # "idle") => pc[r] # "idle"

QuietStep ==
  /\ log' = log /\ uuid' = uuid /\ Len(result') = Len(result)
  /\ \A u \in 1..Len(result) : result'[u] = "returned" => result[u] = "returned"
  /\ \A r \in Thread : Quiet(r)

LEMMA QuietStores ==
  ASSUME TypeOK, StoreInv, NoLostWakeup, QuietStep
  PROVE  StoreInv' /\ NoLostWakeup'
<1> USE DEF QuietStep
<1>1. Versions' = Versions /\ \A v : Done(v)' <=> Done(v)
  BY Zenon DEF Versions, Done
<1>2. CallsOK'
  BY Zenon DEF StoreInv, CallsOK, Quiet, Calling
<1>3. UuidsOK'
  BY Zenon DEF StoreInv, UuidsOK, Quiet, Thread
<1>4. RowsOK'
  BY Zenon DEF StoreInv, RowsOK, Versions
<1>5. InsertsOK'
  <2> SUFFICES ASSUME NEW t \in Sender, pc'[t] = "insert"
               PROVE  \E v \in Versions : Inserted(t, v)'
    BY <1>1, Zenon DEF InsertsOK
  <2>1. pc[t] = "insert" /\ uri'[t] = uri[t]
    BY Zenon DEF Quiet, Thread
  <2>2. PICK v \in Versions : Inserted(t, v)
    BY <2>1, Zenon DEF StoreInv, InsertsOK
  <2> QED BY <1>1, <2>1, <2>2, Zenon DEF Inserted
<1>6. ReturnsOK'
  BY <1>1, Zenon DEF StoreInv, ReturnsOK
<1>7. NoLostWakeup'
  <2> SUFFICES ASSUME NEW l \in Listener, pc'[l] = "wait", NEW v \in Versions,
                      v > since'[l], Done(v), log[v].by = uri'[l],
                      l \in KeyListener => log[v].key \in ListenKeys[l]
               PROVE  FALSE
    BY <1>1, Zenon DEF NoLostWakeup
  <2>1. Len(log) \in Nat /\ v \in Nat /\ v <= Len(log)
    BY LogType DEF Versions
  <2>2. since'[l] # Len(log)
    BY <2>1
  <2>3. pc[l] = "wait" /\ uri'[l] = uri[l] /\ since'[l] = since[l]
    BY <2>2, Zenon DEF Quiet, Thread
  <2> QED BY <2>3, Zenon DEF NoLostWakeup
<1> QED BY <1>2, <1>3, <1>4, <1>5, <1>6, <1>7, Zenon DEF StoreInv

(* What a call of a sender begins with. *)
LEMMA SenderCalls ==
  ASSUME TypeOK, NEW t \in Sender, NEW s \in Server, NEW u, Call(t, s, u)
  PROVE  /\ since' = since
         /\ \/ log' = log /\ pc' = [pc EXCEPT ![t] = "error"]
            \/ /\ MayInsert(u) /\ pc' = [pc EXCEPT ![t] = "insert"]
               /\ \E e \in [key : Key, uuid : {u}, time : Time, by : {s}, st : {"open"}] :
                    log' = Append(log, e)
<1>1. t \notin Listener /\ t # Member
  BY Zenon
<1>2. CASE ~up[s] /\ Goto(t, "error") /\ UNCHANGED <<log, living, since, answer>>
  BY <1>2, Zenon DEF Goto
<1>3. CASE BeginSend(t, s, u)
  <2>1. CASE MayInsert(u) /\ Goto(t, "insert")
             /\ \E k \in Key, ct \in Time :
                  log' = Append(log, [key |-> k, uuid |-> u, time |-> ct,
                                      by |-> s, st |-> "open"])
    <3>1. PICK k \in Key, ct \in Time :
                  log' = Append(log, [key |-> k, uuid |-> u, time |-> ct,
                                      by |-> s, st |-> "open"])
      BY <2>1, Zenon
    <3>2. [key |-> k, uuid |-> u, time |-> ct, by |-> s, st |-> "open"]
            \in [key : Key, uuid : {u}, time : Time, by : {s}, st : {"open"}]
      BY Zenon
    <3>3. since' = since
      BY <1>3, Zenon DEF BeginSend
    <3> QED BY <2>1, <3>1, <3>2, <3>3, Zenon DEF Goto
  <2>2. CASE Goto(t, "error") /\ log' = log
    BY <1>3, <2>2, Zenon DEF BeginSend, Goto
  <2> QED BY <1>3, <2>1, <2>2, Zenon DEF BeginSend
<1> QED BY <1>1, <1>2, <1>3, Zenon DEF Call

(* A row that is added to the table. *)
Added(e) ==
  /\ Len(log') = Len(log) + 1 /\ log'[Len(log) + 1] = e
  /\ \A v \in Versions : log'[v] = log[v]

LEMMA AppendAdds ==
  ASSUME TypeOK, NEW e, log' = Append(log, e)
  PROVE  Added(e) /\ Versions' = Versions \cup {Len(log) + 1}
         /\ Len(log) + 1 \notin Versions
<1>1. log \in Seq(Row) /\ Len(log) \in Nat
  BY LogType, Zenon
<1>2. Added(e)
  BY <1>1 DEF Added, Versions
<1> QED BY <1>1, <1>2 DEF Added, Versions


(* The call of a sender, the first one or one that is repeated. *)
SenderCall(t, s, u) ==
  /\ pc[t] # "insert" /\ Call(t, s, u) /\ u # 0
  /\ uri'[t] = s /\ \A r \in Thread \ {t} : uri'[r] = uri[r]
  /\ uuid'[t] = u
  /\ \A r \in Sender \ {t} : uuid'[r] = uuid[r] /\ uuid[r] # u
  /\ \A i \in 1..Len(result') :
       result'[i] = "returned" => i \in 1..Len(result) /\ result[i] = "returned"

LEMMA SenderStores ==
  ASSUME TypeOK, StoreInv, NoLostWakeup, NEW t \in Sender, NEW s \in Server, NEW u,
         SenderCall(t, s, u)
  PROVE  StoreInv' /\ NoLostWakeup'
<1> USE DEF SenderCall
<1>0. t \in Thread /\ t \notin Listener /\ pc \in [Thread -> Pcs] /\ Len(log) \in Nat
  BY LogType, TypeIs, Zenon DEF Thread, Pcs
<1>1. since' = since
  BY SenderCalls, Zenon
<1>2. CASE log' = log /\ pc' = [pc EXCEPT ![t] = "error"]
  <2>1. pc'[t] = "error" /\ \A r \in Thread \ {t} : pc'[r] = pc[r]
    BY <1>0, <1>2, Zenon
  <2>2. Versions' = Versions /\ \A v : Done(v)' <=> Done(v)
    BY <1>2, Zenon DEF Versions, Done
  <2>3. CallsOK'
    BY <2>1, Zenon DEF StoreInv, CallsOK, Calling
  <2>4. UuidsOK'
    BY <2>1, Zenon DEF StoreInv, UuidsOK, Thread
  <2>5. RowsOK'
    BY <1>2, Zenon DEF StoreInv, RowsOK, Versions
  <2>6. InsertsOK'
    <3> SUFFICES ASSUME NEW r \in Sender, pc'[r] = "insert"
                 PROVE  \E v \in Versions : Inserted(r, v)'
      BY <2>2, Zenon DEF InsertsOK
    <3>1. r # t /\ r \in Thread /\ pc[r] = "insert"
      BY <2>1, Zenon DEF Thread
    <3>2. PICK v \in Versions : Inserted(r, v)
      BY <3>1, Zenon DEF StoreInv, InsertsOK
    <3> QED BY <1>2, <2>2, <3>1, <3>2, Zenon DEF Inserted
  <2>7. ReturnsOK'
    BY <1>2, <2>2, Zenon DEF StoreInv, ReturnsOK
  <2>8. NoLostWakeup'
    <3>1. \A l \in Listener : l \in Thread /\ l # t
      BY <1>0, Zenon DEF Thread
    <3> QED BY <1>1, <1>2, <2>1, <2>2, <3>1, Zenon DEF NoLostWakeup
  <2> QED BY <2>3, <2>4, <2>5, <2>6, <2>7, <2>8, Zenon DEF StoreInv
<1>3. ASSUME MayInsert(u), pc' = [pc EXCEPT ![t] = "insert"],
             NEW e \in [key : Key, uuid : {u}, time : Time, by : {s}, st : {"open"}],
             log' = Append(log, e)
      PROVE  StoreInv' /\ NoLostWakeup'
  <2>1. pc'[t] = "insert" /\ \A r \in Thread \ {t} : pc'[r] = pc[r]
    BY <1>0, <1>3, Zenon
  <2>2. Added(e) /\ Versions' = Versions \cup {Len(log) + 1} /\ Len(log) + 1 \notin Versions
    BY <1>3, AppendAdds, Zenon
  <2>3. e.uuid = u /\ e.by = s /\ e.st = "open"
    BY <1>3, Zenon
  <2>4. \A v \in Versions' : Done(v)' => v \in Versions /\ Done(v)
    BY <2>2, <2>3, Zenon DEF Done, Added
  <2>5. CallsOK'
    BY <2>1, Zenon DEF StoreInv, CallsOK, Calling
  <2>6. UuidsOK'
    BY <2>1 DEF StoreInv, UuidsOK, Thread
  <2>7. RowsOK'
    <3>1. \A v \in Versions : log[v].uuid = u => log[v].st = "gone"
      BY <1>3, Zenon DEF MayInsert, Rows
    <3> QED BY <2>2, <2>3, <3>1 DEF StoreInv, RowsOK, Added
  <2>8. InsertsOK'
    <3> SUFFICES ASSUME NEW r \in Sender, pc'[r] = "insert"
                 PROVE  \E v \in Versions' : Inserted(r, v)'
      BY Zenon DEF InsertsOK
    <3>1. CASE r = t
      <4>1. PICK n \in Nat : n = Len(log) + 1
        BY <1>0
      <4>2. Inserted(t, n)'
        BY <2>2, <2>3, <4>1, Zenon DEF Inserted, Added
      <4> QED BY <2>2, <3>1, <4>1, <4>2, Zenon
    <3>2. CASE r # t
      <4>1. r \in Thread /\ pc[r] = "insert"
        BY <2>1, <3>2, Zenon DEF Thread
      <4>2. PICK v \in Versions : Inserted(r, v)
        BY <4>1, Zenon DEF StoreInv, InsertsOK
      <4>3. Inserted(r, v)'
        BY <2>2, <3>2, <4>1, <4>2, Zenon DEF Inserted, Added
      <4> QED BY <2>2, <4>3, Zenon
    <3> QED BY <3>1, <3>2, Zenon
  <2>9. ReturnsOK'
    <3>1. \A v \in Versions : log'[v] = log[v] /\ v \in Versions'
      BY <2>2, Zenon DEF Added
    <3> QED BY <3>1 DEF StoreInv, ReturnsOK, Done
  <2>10. NoLostWakeup'
    <3>1. \A l \in Listener : l \in Thread /\ l # t
      BY <1>0, Zenon DEF Thread
    <3>2. \A v \in Versions : log'[v] = log[v]
      BY <2>2, Zenon DEF Added
    <3> QED BY <1>1, <2>1, <2>4, <3>1, <3>2, Zenon DEF NoLostWakeup
  <2> QED BY <2>5, <2>6, <2>7, <2>8, <2>9, <2>10, Zenon DEF StoreInv
<1> QED BY <1>2, <1>3, SenderCalls


(* The commit of the row of t. *)
LEMMA CommitStores ==
  ASSUME TypeOK, StoreInv, NoLostWakeup, NEW t \in Sender, Commit(t)
  PROVE  StoreInv' /\ NoLostWakeup'
<1>0. t \in Thread /\ t \notin Listener /\ pc \in [Thread -> Pcs] /\ uri[t] \in Server
      /\ uri \in [Thread -> Server \cup {NoServer}]
  BY TypeIs, Zenon DEF Thread, Pcs, StoreInv, CallsOK, Calling, Commit
<1>1. PICK v \in Versions : log[v].uuid = uuid[t] /\ log[v].st = "open" /\ CommitRow(t, v)
  BY Zenon DEF Commit, Rows
<1>2. log[v].by = uri[t]
  <2>1. PICK w \in Versions : Inserted(t, w)
    BY Zenon DEF StoreInv, InsertsOK, Commit
  <2>2. v = w
    BY <1>1, <2>1, Zenon DEF Inserted, StoreInv, RowsOK
  <2> QED BY <2>1, <2>2, Zenon DEF Inserted
<1>3. /\ Len(log') = Len(log) /\ Versions' = Versions
      /\ log'[v] = [log[v] EXCEPT !.st = CommitState(v)]
      /\ \A w \in Versions \ {v} : log'[w] = log[w]
  BY <1>1, CommitType, Zenon DEF StoreInv, Commit, Versions
<1>4. log[v] \in Row
  BY LogType, Zenon
<1>5. /\ log'[v].st \in {"done", "late"} /\ log'[v].uuid = uuid[t] /\ log'[v].by = uri[t]
      /\ log'[v].key = log[v].key
  BY <1>1, <1>2, <1>3, <1>4, Zenon DEF Row, CommitState
<1>6. /\ pc'[t] \in {"idle", "error"}
      /\ uri'[t] = IF pc'[t] = "error" THEN uri[t] ELSE NoServer
      /\ \A r \in Thread \ {t} :
           /\ uri'[r] = uri[r]
           /\ pc'[r] = IF r \in Listener /\ pc[r] = "wait" /\ uri[r] = uri[t]
                          /\ WokenBy(r, {log[v].key}) THEN "query" ELSE pc[r]
  <2>1. WakeAll({uri[t]}, {log[v].key}) \in [Thread -> Pcs]
    BY WakeType, Zenon
  <2>2. \A r \in Thread : WakeAll({uri[t]}, {log[v].key})[r]
           = IF r \in Listener /\ pc[r] = "wait" /\ uri[r] = uri[t]
                /\ WokenBy(r, {log[v].key}) THEN "query" ELSE pc[r]
    BY Zenon DEF WakeAll
  <2>3. CASE pc' = [WakeAll({uri[t]}, {log[v].key}) EXCEPT ![t] = "idle"]
             /\ uri' = [uri EXCEPT ![t] = NoServer]
    BY <1>0, <2>1, <2>2, <2>3, Zenon
  <2>4. CASE pc' = [WakeAll({uri[t]}, {log[v].key}) EXCEPT ![t] = "error"]
             /\ uri' = uri
    BY <1>0, <2>1, <2>2, <2>4, Zenon
  <2> QED BY <1>1, <2>3, <2>4, Zenon DEF CommitRow
<1>7. since' = since /\ uuid' = uuid
  BY <1>1, Zenon DEF CommitRow
<1>8. /\ Len(result') = Len(result)
      /\ \A u \in 1..Len(result) : result'[u] = result[u] \/ u = uuid[t]
  <2>1. result \in Seq(Outcome)
    BY TypeIs, Zenon DEF Outcome
  <2>2. CASE result' = [result EXCEPT ![uuid[t]] = "returned"]
    BY <2>1, <2>2, PutType DEF Outcome
  <2>3. CASE result' = result
    BY <2>3, Zenon
  <2> QED BY <1>1, <2>2, <2>3, Zenon DEF CommitRow
<1>9. CallsOK'
  BY <1>0, <1>6, Zenon DEF StoreInv, CallsOK, Calling
<1>10. UuidsOK'
  BY <1>0, <1>6, <1>7, Zenon DEF StoreInv, UuidsOK, Thread, Commit
<1>11. RowsOK'
  <2>1. \A w \in Versions : /\ log'[w].uuid = log[w].uuid
                            /\ log'[w].st # "gone" => log[w].st # "gone"
    BY <1>1, <1>3, <1>5, Zenon
  <2> QED BY <1>3, <2>1 DEF StoreInv, RowsOK
<1>12. InsertsOK'
  <2> SUFFICES ASSUME NEW r \in Sender, pc'[r] = "insert"
               PROVE  \E w \in Versions : Inserted(r, w)'
    BY <1>3, Zenon DEF InsertsOK
  <2>1. r \in Thread \ {t} /\ r \notin Listener
    BY <1>6, Zenon DEF Thread
  <2>2. pc[r] = "insert" /\ uri'[r] = uri[r]
    BY <1>6, <2>1, Zenon
  <2>3. PICK w \in Versions : Inserted(r, w)
    BY <2>2, Zenon DEF StoreInv, InsertsOK
  <2>4. uuid[r] # uuid[t]
    BY <2>1, <2>2, Zenon DEF StoreInv, UuidsOK, Commit
  <2>5. w # v
    BY <1>1, <2>3, <2>4, Zenon DEF Inserted
  <2> QED BY <1>3, <1>7, <2>2, <2>3, <2>5, Zenon DEF Inserted
<1>13. ReturnsOK'
  <2>1. \A w \in Versions : Done(w) => Done(w)' /\ log'[w].uuid = log[w].uuid
    BY <1>1, <1>3, <1>5, Zenon DEF Done
  <2>2. Done(v)' /\ log'[v].uuid = uuid[t]
    BY <1>5, Zenon DEF Done
  <2> QED BY <1>3, <1>8, <2>1, <2>2, Zenon DEF StoreInv, ReturnsOK
<1>14. NoLostWakeup'
  <2> SUFFICES ASSUME NEW l \in Listener, pc'[l] = "wait", NEW w \in Versions,
                      w > since[l], Done(w)', log'[w].by = uri'[l],
                      l \in KeyListener => log'[w].key \in ListenKeys[l]
               PROVE  FALSE
    BY <1>3, <1>7, Zenon DEF NoLostWakeup
  <2>1. l \in Thread \ {t}
    BY <1>0, Zenon DEF Thread
  <2>2. pc[l] = "wait" /\ uri'[l] = uri[l]
        /\ ~(uri[l] = uri[t] /\ WokenBy(l, {log[v].key}))
    BY <1>6, <2>1, Zenon
  <2>3. CASE w = v
    <3>1. uri[l] = uri[t]
      BY <1>5, <2>2, <2>3, Zenon
    <3>2. WokenBy(l, {log[v].key})
      BY <1>5, <2>3, Zenon DEF WokenBy
    <3> QED BY <2>2, <3>1, <3>2, Zenon
  <2>4. CASE w # v
    BY <1>3, <2>2, <2>4, Zenon DEF NoLostWakeup, Done
  <2> QED BY <2>3, <2>4, Zenon
<1> QED BY <1>9, <1>10, <1>11, <1>12, <1>13, <1>14, Zenon DEF StoreInv


(* The crash of s rolls its open rows back. *)
LEMMA CrashRows ==
  ASSUME TypeOK, NEW s \in Server, Crash(s)
  PROVE  /\ Versions' = Versions /\ Len(log') = Len(log)
         /\ \A w \in Versions :
              /\ log'[w].uuid = log[w].uuid /\ log'[w].key = log[w].key
              /\ log'[w].by = log[w].by /\ log'[w].time = log[w].time
              /\ log'[w].st = IF log[w].st = "open" /\ log[w].by = s THEN "gone"
                              ELSE log[w].st
<1>1. Versions' = Versions /\ Len(log') = Len(log)
  BY CrashType, Zenon DEF Versions
<1>2. ASSUME NEW w \in Versions
      PROVE  /\ log'[w].uuid = log[w].uuid /\ log'[w].key = log[w].key
             /\ log'[w].by = log[w].by /\ log'[w].time = log[w].time
             /\ log'[w].st = IF log[w].st = "open" /\ log[w].by = s THEN "gone"
                             ELSE log[w].st
  <2>1. log[w] \in Row
    BY LogType, Zenon
  <2>2. CASE log[w].st = "open" /\ log[w].by = s
    <3>1. log'[w] = [log[w] EXCEPT !.st = "gone"]
      BY <2>2, CrashType, Zenon
    <3> QED BY <2>1, <2>2, <3>1, Zenon DEF Row
  <2>3. CASE ~(log[w].st = "open" /\ log[w].by = s)
    <3>1. log'[w] = log[w]
      BY <2>3, CrashType, Zenon
    <3> QED BY <2>3, <3>1, Zenon
  <2> QED BY <2>2, <2>3, Zenon
<1> QED BY <1>1, <1>2, Zenon

LEMMA CrashStores ==
  ASSUME TypeOK, StoreInv, NoLostWakeup, NEW s \in Server, Crash(s)
  PROVE  StoreInv' /\ NoLostWakeup'
<1>1. Versions' = Versions
  BY CrashRows, Zenon
<1>2. \A w \in Versions :
        /\ log'[w].uuid = log[w].uuid /\ log'[w].key = log[w].key
        /\ log'[w].by = log[w].by
        /\ log'[w].st = IF log[w].st = "open" /\ log[w].by = s THEN "gone"
                        ELSE log[w].st
  BY CrashRows
<1>3. \A w \in Versions : Done(w)' <=> Done(w)
  BY <1>2, Zenon DEF Done
<1>4. \A r \in Thread : pc'[r] = IF uri[r] = s THEN "error" ELSE pc[r]
  BY Zenon DEF Crash, Calls
<1>5. UNCHANGED <<uri, since, result, uuid>>
  BY Zenon DEF Crash, evars
<1>6. CallsOK'
  BY <1>4, <1>5, Zenon DEF StoreInv, CallsOK, Calling
<1>7. UuidsOK'
  <2>1. \A t \in Thread : uri[t] = s => pc[t] # "idle"
    BY Zenon DEF StoreInv, CallsOK, Calling
  <2> QED BY <1>4, <1>5, <2>1, Zenon DEF StoreInv, UuidsOK, Thread
<1>8. RowsOK'
  BY <1>1, <1>2 DEF StoreInv, RowsOK
<1>9. InsertsOK'
  <2> SUFFICES ASSUME NEW r \in Sender, pc'[r] = "insert"
               PROVE  \E w \in Versions : Inserted(r, w)'
    BY <1>1, Zenon DEF InsertsOK
  <2>1. r \in Thread /\ pc[r] = "insert" /\ uri[r] # s
    BY <1>4, Zenon DEF Thread
  <2>2. PICK w \in Versions : Inserted(r, w)
    BY <2>1, Zenon DEF StoreInv, InsertsOK
  <2> QED BY <1>1, <1>2, <1>5, <2>1, <2>2, Zenon DEF Inserted
<1>10. ReturnsOK'
  BY <1>1, <1>2, <1>3, <1>5, Zenon DEF StoreInv, ReturnsOK
<1>11. NoLostWakeup'
  BY <1>1, <1>2, <1>3, <1>4, <1>5, Zenon DEF NoLostWakeup, Thread
<1> QED BY <1>6, <1>7, <1>8, <1>9, <1>10, <1>11, Zenon DEF StoreInv


(* The steps that store nothing. *)
LEMMA CallQuiet ==
  ASSUME TypeOK, NEW t \in Thread, t \notin Sender, NEW s \in Server, NEW u,
         Call(t, s, u), uri' = [uri EXCEPT ![t] = s], UNCHANGED evars
  PROVE  QuietStep
<1>0. pc \in [Thread -> Pcs] /\ uri \in [Thread -> Server \cup {NoServer}]
      /\ since \in [Listener -> 0..Len(log)]
  BY TypeIs, Zenon DEF Pcs
<1>1. log' = log /\ UNCHANGED evars
  BY Zenon DEF Call, BeginList, BeginMembers
<1>2. /\ \E p \in {"error", "wait", "query", "gap"} : Goto(t, p)
      /\ \A r \in Listener \ {t} : since'[r] = since[r]
      /\ t \in Listener /\ pc'[t] = "wait" => since'[t] = Len(log)
  <2>1. CASE Goto(t, "error") /\ UNCHANGED since
    BY <1>0, <2>1, Zenon DEF Goto
  <2>2. ASSUME NEW r \in Thread, r = t, Wait(r)
        PROVE  /\ Goto(t, "wait") /\ \A l \in Listener \ {t} : since'[l] = since[l]
               /\ t \in Listener => since'[t] = Len(log)
    BY <1>0, <2>2, Zenon DEF Wait
  <2>3. CASE BeginList(t) /\ t \notin KeyListener
    BY <1>0, <2>3, Zenon DEF BeginList, Goto
  <2>4. CASE BeginList(t) /\ t \in KeyListener
    BY <2>2, <2>4, Zenon DEF BeginList
  <2>5. CASE BeginMembers(s) /\ t = Member
    BY <2>2, <2>5, Zenon DEF BeginMembers
  <2> QED BY <2>1, <2>3, <2>4, <2>5, Zenon DEF Call, Thread
<1>3. \A r \in Thread : Quiet(r)
  BY <1>0, <1>2 DEF Quiet, Goto, Calling
<1> QED BY <1>1, <1>3, Zenon DEF QuietStep, evars

LEMMA ReturnQuiet ==
  ASSUME TypeOK, NEW t \in Thread, NEW p \in {"idle", "dead"}, Return(t, p),
         t \in Sender => p = "idle", log' = log, uuid' = uuid,
         Len(result') = Len(result),
         \A u \in 1..Len(result) : result'[u] = "returned" => result[u] = "returned"
  PROVE  QuietStep
<1>0. pc \in [Thread -> Pcs] /\ uri \in [Thread -> Server \cup {NoServer}]
      /\ since \in [Listener -> 0..Len(log)]
  BY TypeIs, Zenon DEF Pcs
<1>1. pc' = [pc EXCEPT ![t] = p] /\ uri' = [uri EXCEPT ![t] = NoServer]
      /\ since' = IF t \in Listener THEN [since EXCEPT ![t] = 0] ELSE since
  BY Zenon DEF Return, Goto
<1>2. \A r \in Thread : Quiet(r)
  BY <1>0, <1>1, Zenon DEF Quiet, Calling
<1> QED BY <1>2, Zenon DEF QuietStep

(* A step that moves threads on within their calls. *)
LEMMA MoveQuiet ==
  ASSUME TypeOK, CallsOK, UNCHANGED <<log, evars, uri, since>>,
         \A r \in Thread :
           \/ pc'[r] = pc[r]
           \/ r \notin Sender /\ pc[r] \in Calling /\ pc'[r] \in {"query", "error"}
           \/ r \notin Sender /\ pc[r] = "idle" /\ pc'[r] = "ended"
  PROVE  QuietStep
<1>1. \A r \in Thread : Quiet(r)
  BY Zenon DEF Quiet, Calling, CallsOK
<1> QED BY <1>1, Zenon DEF QuietStep, evars


LEMMA WaitQuiet ==
  ASSUME TypeOK, CallsOK, NEW t \in Listener, pc[t] \in Calling, Wait(t),
         UNCHANGED <<log, evars, uri>>
  PROVE  QuietStep
<1>0. pc \in [Thread -> Pcs] /\ since \in [Listener -> 0..Len(log)] /\ t \in Thread
      /\ t \notin Sender
  BY TypeIs, Zenon DEF Pcs, Thread
<1>1. pc' = [pc EXCEPT ![t] = "wait"] /\ since' = [since EXCEPT ![t] = Len(log)]
  BY Zenon DEF Wait, Goto
<1>2. \A r \in Thread : Quiet(r)
  BY <1>0, <1>1, Zenon DEF Quiet, Calling, CallsOK
<1> QED BY <1>2, Zenon DEF QuietStep, evars

LEMMA AnswerQuiet ==
  ASSUME TypeOK, CallsOK, NEW t \in Thread, t \notin Sender, pc[t] \in Calling,
         Return(t, "idle") \/ LoseReply(t), UNCHANGED <<log, evars>>
  PROVE  QuietStep
<1>1. CASE Return(t, "idle")
  BY <1>1, ReturnQuiet, Zenon DEF evars
<1>2. CASE LoseReply(t)
  <2>1. UNCHANGED <<uri, since>> /\ pc' = [pc EXCEPT ![t] = "error"]
    BY <1>2, Zenon DEF LoseReply, Goto
  <2>2. \A r \in Thread : pc'[r] = IF r = t THEN "error" ELSE pc[r]
    BY <2>1, TypeIs, Zenon
  <2> QED BY <2>1, <2>2, MoveQuiet, Zenon
<1> QED BY <1>1, <1>2, Zenon

LEMMA GiveUpQuiet ==
  ASSUME TypeOK, CallsOK, NEW t \in Thread, GiveUp(t)
  PROVE  QuietStep
<1>1. result \in Seq(Outcome) /\ "raised" \in Outcome
  BY TypeIs, Zenon DEF Outcome
<1>2. /\ Len(result') = Len(result)
      /\ \A u \in 1..Len(result) : result'[u] = "returned" => result[u] = "returned"
  <2>1. CASE t \in Sender
    <3>1. result' = [result EXCEPT ![uuid[t]] = "raised"]
      BY <2>1, Zenon DEF GiveUp
    <3> QED BY <1>1, <3>1, PutType
  <2>2. CASE t \notin Sender
    BY <2>2, Zenon DEF GiveUp
  <2> QED BY <2>1, <2>2, Zenon
<1>3. PICK p \in {"idle", "dead"} : Return(t, p) /\ (t \in Sender => p = "idle")
  BY Zenon DEF GiveUp
<1>4. log' = log /\ uuid' = uuid
  BY Zenon DEF GiveUp
<1> QED BY <1>2, <1>3, <1>4, ReturnQuiet

LEMMA FirstCallQuiet ==
  ASSUME TypeOK, NEW t \in Thread, t \notin Sender, FirstCall(t, 0), UNCHANGED evars
  PROVE  QuietStep
<1>1. current \in Server /\ Call(t, current, 0) /\ uri' = [uri EXCEPT ![t] = current]
  BY TypeIs, Zenon DEF FirstCall
<1> QED BY <1>1, CallQuiet, Zenon

(* Retry: the server that is called next. *)
LEMMA RetryCalls ==
  ASSUME TypeOK, CallsOK, NEW t \in Thread, Retry(t)
  PROVE  \E s \in Server : /\ Call(t, s, IF t \in Sender THEN uuid[t] ELSE 0)
                           /\ uri' = [uri EXCEPT ![t] = s]
<1>1. PICK s \in NextCurrent(t) :
        /\ current' = s
        /\ uri' = IF Moves(t) THEN [uri EXCEPT ![t] = s] ELSE uri
        /\ Call(t, IF Moves(t) THEN s ELSE uri[t], IF t \in Sender THEN uuid[t] ELSE 0)
  BY Zenon DEF Retry
<1>2. s \in Server /\ uri[t] \in Server
  BY TypeIs DEF CallsOK, Calling, Retry, NextCurrent, Moves, Candidates
<1>3. CASE Moves(t)
  BY <1>1, <1>2, <1>3, Zenon
<1>4. CASE ~Moves(t)
  <2>1. uri' = [uri EXCEPT ![t] = uri[t]]
    BY <1>1, <1>4, TypeIs, Zenon
  <2> QED BY <1>1, <1>2, <1>4, <2>1, Zenon
<1> QED BY <1>3, <1>4, Zenon

LEMMA RetryStores ==
  ASSUME TypeOK, StoreInv, NoLostWakeup, NEW t \in Thread, Retry(t)
  PROVE  StoreInv' /\ NoLostWakeup'
<1>1. CallsOK
  BY Zenon DEF StoreInv
<1>2. PICK s \in Server : /\ Call(t, s, IF t \in Sender THEN uuid[t] ELSE 0)
                          /\ uri' = [uri EXCEPT ![t] = s]
  BY <1>1, RetryCalls, Zenon
<1>3. UNCHANGED evars /\ pc[t] = "error"
  BY Zenon DEF Retry
<1>4. CASE t \notin Sender
  <2>1. QuietStep
    BY <1>2, <1>3, <1>4, CallQuiet, Zenon
  <2> QED BY <2>1, QuietStores, Zenon
<1>5. CASE t \in Sender
  <2>1. SenderCall(t, s, uuid[t])
    <3>1. Call(t, s, uuid[t])
      BY <1>2, <1>5, Zenon
    <3>2. uri'[t] = s /\ \A r \in Thread \ {t} : uri'[r] = uri[r]
      BY <1>2, TypeIs
    <3>3. uuid[t] # 0 /\ \A r \in Sender \ {t} : uuid[r] # uuid[t]
      BY <1>3, <1>5, Zenon DEF StoreInv, UuidsOK
    <3> QED BY <1>3, <1>5, <3>1, <3>2, <3>3, Zenon DEF SenderCall, evars
  <2> QED BY <1>5, <2>1, SenderStores, Zenon
<1> QED BY <1>4, <1>5, Zenon

LEMMA SendEventStores ==
  ASSUME TypeOK, StoreInv, NoLostWakeup, NEW t \in Sender, SendEvent(t)
  PROVE  StoreInv' /\ NoLostWakeup'
<1>0. t \in Thread /\ current \in Server /\ uri \in [Thread -> Server \cup {NoServer}]
      /\ uuid \in [Sender -> 0..Len(result)] /\ result \in Seq(Outcome)
      /\ Len(result) \in Nat
  BY TypeIs DEF Thread, Outcome
<1>1. PICK u \in Nat : u = Len(result) + 1
  BY <1>0
<1>2. FirstCall(t, u) /\ result' = Append(result, "calling")
      /\ uuid' = [uuid EXCEPT ![t] = u]
  BY <1>1, Zenon DEF SendEvent
<1>3. SenderCall(t, current, u)
  <2>1. pc[t] # "insert" /\ Call(t, current, u) /\ uri' = [uri EXCEPT ![t] = current]
    BY <1>2, Zenon DEF FirstCall
  <2>2. uri'[t] = current /\ \A r \in Thread \ {t} : uri'[r] = uri[r]
    BY <1>0, <2>1, Zenon
  <2>3. u # 0 /\ uuid'[t] = u /\ \A r \in Sender \ {t} : uuid'[r] = uuid[r] /\ uuid[r] # u
    BY <1>0, <1>1, <1>2
  <2>4. \A i \in 1..Len(result') :
          result'[i] = "returned" => i \in 1..Len(result) /\ result[i] = "returned"
    BY <1>0, <1>2
  <2> QED BY <2>1, <2>2, <2>3, <2>4, Zenon DEF SenderCall
<1> QED BY <1>0, <1>3, SenderStores, Zenon


LEMMA ListenerQuiet ==
  ASSUME TypeOK, CallsOK, NEW t \in Listener,
         \/ StopListen(t) \/ Listen(t) \/ ListenEnds(t) \/ LockCondition(t)
         \/ ListWoken(t) \/ ListTimeout(t) \/ GiveUp(t)
  PROVE  QuietStep
<1>0. t \in Thread /\ t \notin Sender
  BY Zenon DEF Thread
<1>1. CASE StopListen(t)
  BY <1>1, MoveQuiet, Zenon DEF StopListen, pvars
<1>2. CASE Listen(t)
  BY <1>0, <1>2, FirstCallQuiet, Zenon DEF Listen
<1>3. CASE ListenEnds(t)
  <2>1. \A r \in Thread : pc'[r] = IF r = t THEN "ended" ELSE pc[r]
    BY <1>3, TypeIs, Zenon DEF ListenEnds, Goto
  <2>2. pc[t] = "idle" /\ UNCHANGED <<log, evars, uri, since>>
    BY <1>3, Zenon DEF ListenEnds
  <2> QED BY <1>0, <2>1, <2>2, MoveQuiet, Zenon
<1>4. CASE LockCondition(t)
  <2>1. pc[t] \in Calling
    BY <1>4, Zenon DEF LockCondition, Calling
  <2> QED BY <1>4, <2>1, WaitQuiet, Zenon DEF LockCondition
<1>5. ASSUME NEW vs, Answer(t, vs), pc[t] \in Calling PROVE QuietStep
  BY <1>0, <1>5, AnswerQuiet, Zenon DEF Answer
<1>6. CASE ListWoken(t)
  <2>1. pc[t] \in Calling
    BY <1>6, Zenon DEF ListWoken, Calling
  <2> QED BY <1>5, <1>6, <2>1, WaitQuiet, Zenon DEF ListWoken
<1>7. CASE ListTimeout(t)
  <2>1. pc[t] \in Calling
    BY <1>7, Zenon DEF ListTimeout, Calling
  <2> QED BY <1>5, <1>7, <2>1, Zenon DEF ListTimeout
<1>8. CASE GiveUp(t)
  BY <1>0, <1>8, GiveUpQuiet, Zenon
<1> QED BY <1>1, <1>2, <1>3, <1>4, <1>6, <1>7, <1>8, Zenon

LEMMA MemberQuiet ==
  ASSUME TypeOK, CallsOK, ListMembers \/ UpdateMembers \/ GiveUp(Member)
  PROVE  QuietStep
<1>0. Member \in Thread /\ Member \notin Sender
  BY Zenon DEF Thread
<1>1. CASE ListMembers
  BY <1>0, <1>1, FirstCallQuiet, Zenon DEF ListMembers
<1>2. CASE UpdateMembers
  <2>1. pc[Member] \in Calling /\ UNCHANGED <<log, evars>>
    BY <1>2, Zenon DEF UpdateMembers, Calling
  <2>2. Return(Member, "idle") \/ LoseReply(Member)
    BY <1>2, Zenon DEF UpdateMembers
  <2> QED BY <1>0, <2>1, <2>2, AnswerQuiet, Zenon
<1>3. CASE GiveUp(Member)
  BY <1>0, <1>3, GiveUpQuiet, Zenon
<1> QED BY <1>1, <1>2, <1>3, Zenon

LEMMA ServerQuiet ==
  ASSUME TypeOK, CallsOK, NEW s \in Server,
         Heartbeat(s) \/ NotifyOthers(s) \/ Restart(s)
  PROVE  QuietStep
<1>1. CASE Heartbeat(s)
  <2>1. UNCHANGED <<log, evars, uri, since>>
    BY <1>1, Zenon DEF Heartbeat
  <2>2. pc' = pc \/ (pc[Member] = "wait" /\ pc' = [pc EXCEPT ![Member] = "query"])
    BY <1>1, Zenon DEF Heartbeat
  <2>3. \A r \in Thread : pc'[r] = pc[r] \/ (r \notin Sender /\ pc[r] = "wait"
                                               /\ pc'[r] = "query")
    <3>1. CASE pc' = pc
      BY <3>1, Zenon
    <3>2. CASE pc[Member] = "wait" /\ pc' = [pc EXCEPT ![Member] = "query"]
      BY <3>2, TypeIs, Zenon
    <3> QED BY <2>2, <3>1, <3>2, Zenon
  <2> QED BY <2>1, <2>3, MoveQuiet, Zenon DEF Calling
<1>2. CASE NotifyOthers(s)
  <2>1. UNCHANGED <<log, evars, uri, since>>
    BY <1>2, Zenon DEF NotifyOthers
  <2>2. PICK S : pc' = WakeAll(S, cached[s])
    BY <1>2, Zenon DEF NotifyOthers
  <2>3. \A r \in Thread : pc'[r] = pc[r] \/ (r \notin Sender /\ pc[r] = "wait"
                                               /\ pc'[r] = "query")
    BY <2>2, Zenon DEF WakeAll
  <2> QED BY <2>1, <2>3, MoveQuiet, Zenon DEF Calling
<1>3. CASE Restart(s)
  BY <1>3, MoveQuiet, Zenon DEF Restart, pvars
<1> QED BY <1>1, <1>2, <1>3, Zenon

LEMMA StoreInit == Init => TypeOK /\ StoreInv /\ NoLostWakeup /\ GivenOK
<1> SUFFICES ASSUME Init PROVE TypeOK /\ StoreInv /\ NoLostWakeup /\ GivenOK
  BY Zenon
<1>1. /\ log = <<>> /\ Len(log) = 0 /\ Versions = {}
      /\ result = <<>> /\ Len(result) = 0
  BY DEF Init, Versions
<1>2. pc \in [Thread -> {"idle", "ended"}] /\ \A t \in Sender : pc[t] = "idle"
  BY Zenon DEF Init, Thread
<1>3. TypeOK
  <2>1. log \in Seq(Row) /\ result \in Seq(Outcome)
    BY <1>1
  <2>2. /\ pc \in [Thread -> Pcs] /\ uri \in [Thread -> Server \cup {NoServer}]
        /\ failed \in [Thread -> SUBSET Server] /\ answer \subseteq Server
    BY <1>2, Zenon DEF Init, Pcs
  <2>3. tries \in [Thread -> 0..MaxTries] /\ faults \in 0..MaxFaults
    BY DEF Init
  <2>4. since \in [Listener -> 0..Len(log)] /\ version \in [Listener -> 0..Len(log)]
        /\ uuid \in [Sender -> 0..Len(result)]
    BY <1>1 DEF Init
  <2>5. flag \in [Listener -> BOOLEAN] /\ received \in [Listener -> SUBSET Versions]
    <3>1. PICK S \in Started : flag = [l \in Listener |-> l \in S]
      BY Zenon DEF Init
    <3>2. [l \in Listener |-> l \in S] \in [Listener -> BOOLEAN]
      OBVIOUS
    <3>3. flag \in [Listener -> BOOLEAN]
      BY <3>1, <3>2, Zenon
    <3> QED BY <3>3, Zenon DEF Init
  <2>6. /\ up \in [Server -> BOOLEAN] /\ inc \in [Server -> Nat]
        /\ row \in [Server -> Nat] /\ living \in [Server -> SUBSET Server]
        /\ greeted \in [Server -> BOOLEAN] /\ cached \in [Server -> SUBSET Key]
        /\ current \in Server /\ members \subseteq Server
    BY Zenon DEF Init
  <2> QED BY <2>1, <2>2, <2>3, <2>4, <2>5, <2>6, Zenon DEF TypeOK, Row, Outcome, Pcs
<1>4. StoreInv
  <2>1. CallsOK
    BY <1>2, Zenon DEF Init, CallsOK, Calling
  <2>2. UuidsOK
    BY <1>2, Zenon DEF Init, UuidsOK
  <2> QED BY <1>1, <1>2, <2>1, <2>2 DEF StoreInv, RowsOK, InsertsOK, ReturnsOK
<1>5. NoLostWakeup
  BY <1>1, Zenon DEF NoLostWakeup
<1>6. GivenOK
  BY <1>1, Zenon DEF Init, GivenOK
<1> QED BY <1>3, <1>4, <1>5, <1>6, Zenon

LEMMA StoreStep ==
  ASSUME TypeOK, StoreInv, NoLostWakeup, [Next]_vars
  PROVE  StoreInv' /\ NoLostWakeup'
<1>0. CallsOK
  BY Zenon DEF StoreInv
<1>1. CASE UNCHANGED vars
  BY <1>0, <1>1, MoveQuiet, QuietStores, Zenon DEF vars, pvars
<1>2. ASSUME NEW t \in Sender, SendEvent(t) \/ SenderStep(t)
      PROVE  StoreInv' /\ NoLostWakeup'
  <2>1. t \in Thread
    BY Zenon DEF Thread
  <2> QED BY <1>0, <1>2, <2>1, SendEventStores, CommitStores, RetryStores, GiveUpQuiet,
             QuietStores, Zenon DEF SenderStep
<1>3. ASSUME NEW t \in Listener, StopListen(t) \/ ListenerStep(t)
      PROVE  StoreInv' /\ NoLostWakeup'
  <2>1. t \in Thread
    BY Zenon DEF Thread
  <2> QED BY <1>0, <1>3, <2>1, ListenerQuiet, RetryStores, QuietStores, Zenon DEF ListenerStep
<1>4. CASE MemberStep
  <2>1. Member \in Thread
    BY Zenon DEF Thread
  <2> QED BY <1>0, <1>4, <2>1, MemberQuiet, RetryStores, QuietStores, Zenon DEF MemberStep
<1> QED BY <1>0, <1>1, <1>2, <1>3, <1>4, CrashStores, ServerQuiet, QuietStores, Zenon DEF Next


-----------------------------------------------------------------------------
(* The events are handed out once and in order. *)

LEMMA OrderKept ==
  ASSUME GivenOK, UNCHANGED <<log, version, received>>
  PROVE  GivenOK'
BY Zenon DEF GivenOK, Eligible, Versions, Done

(* A new row: no listener has gone so far. *)
LEMMA OrderAdds ==
  ASSUME TypeOK, GivenOK, UNCHANGED <<version, received>>, NEW e,
         log' = Append(log, e)
  PROVE  GivenOK'
<1>1. Added(e) /\ Versions' = Versions \cup {Len(log) + 1} /\ Len(log) \in Nat
  BY AppendAdds, LogType, Zenon
<1>2. \A v \in Versions : log'[v] = log[v]
  BY <1>1, Zenon DEF Added
<1> SUFFICES ASSUME NEW l \in Listener
             PROVE  /\ version[l] # 0 => Done(version[l])'
                    /\ \A w \in received[l] : w <= version[l]
                    /\ \A v \in Versions' : v <= version[l] /\ Eligible(l, v)'
                                            => v \in received[l] \/ log'[v].st = "late"
  BY Zenon DEF GivenOK
<1>3. version[l] \in 0..Len(log)
  BY TypeIs, Zenon
<1>4. version[l] # 0 => version[l] \in Versions
  BY <1>1, <1>3 DEF Versions
<1>5. version[l] # 0 => Done(version[l])'
  BY <1>2, <1>4, Zenon DEF GivenOK, Done
<1>6. ASSUME NEW v \in Versions', v <= version[l], Eligible(l, v)'
      PROVE  v \in received[l] \/ log'[v].st = "late"
  <2>1. v \in Versions
    BY <1>1, <1>3, <1>6 DEF Versions
  <2>2. Eligible(l, v)
    BY <1>2, <1>6, <2>1, Zenon DEF Eligible, Done
  <2> QED BY <1>2, <1>6, <2>1, <2>2, Zenon DEF GivenOK
<1> QED BY <1>5, <1>6, Zenon DEF GivenOK

(* Rows that change in place: committed ones stay as they are, and one that *)
(* becomes committed is late if a higher one is committed.                  *)
LEMMA OrderMoves ==
  ASSUME TypeOK, GivenOK, UNCHANGED <<version, received>>, Versions' = Versions,
         \A w \in Versions :
           /\ log'[w].key = log[w].key /\ log'[w].time = log[w].time
           /\ \/ log'[w].st = log[w].st
              \/ log[w].st = "open" /\ log'[w].st \in {"gone", CommitState(w)}
  PROVE  GivenOK'
<1> SUFFICES ASSUME NEW l \in Listener
             PROVE  /\ version[l] # 0 => Done(version[l])'
                    /\ \A w \in received[l] : w <= version[l]
                    /\ \A v \in Versions : v <= version[l] /\ Eligible(l, v)'
                                           => v \in received[l] \/ log'[v].st = "late"
  BY Zenon DEF GivenOK
<1>0. Len(log) \in Nat
  BY LogType, Zenon
<1>1. version[l] \in 0..Len(log)
  BY TypeIs, Zenon
<1>2. version[l] # 0 => version[l] \in Versions /\ Done(version[l])
  BY <1>0, <1>1 DEF Versions, GivenOK
<1>3. version[l] # 0 => Done(version[l])'
  BY <1>2, Zenon DEF Done
<1>4. ASSUME NEW v \in Versions, v <= version[l], Eligible(l, v)'
      PROVE  v \in received[l] \/ log'[v].st = "late"
  <2>1. v \in Nat /\ v # 0 /\ version[l] # 0
    BY <1>1, <1>4 DEF Versions
  <2>2. CASE log'[v].st = log[v].st
    <3>1. Eligible(l, v)
      BY <1>4, <2>2, Zenon DEF Eligible, Done
    <3> QED BY <1>4, <2>2, <3>1, Zenon DEF GivenOK
  <2>3. CASE log[v].st = "open" /\ log'[v].st = CommitState(v)
    <3>1. version[l] # v
      BY <1>2, <2>1, <2>3, Zenon DEF Done
    <3>2. version[l] > v
      BY <1>1, <1>4, <2>1, <3>1
    <3> QED BY <1>2, <2>1, <2>3, <3>2, Zenon DEF CommitState
  <2>4. log'[v].st # "gone"
    BY <1>4, Zenon DEF Eligible, Done
  <2> QED BY <2>2, <2>3, <2>4, Zenon
<1> QED BY <1>3, <1>4, Zenon DEF GivenOK

(* A response holds what the listener asked for beyond its version. *)
LEMMA QueryIs ==
  ASSUME TypeOK, NEW l \in Listener
  PROVE  /\ \A v \in Query(l) : v \in Versions /\ v \in Nat /\ Done(v) /\ v > version[l]
         /\ \A v \in Versions : v > version[l] /\ Eligible(l, v) => v \in Query(l)
<1>1. version[l] \in Nat /\ \A v \in Versions : v \in Nat /\ v > 0
  BY LogType, TypeIs DEF Versions
<1>2. \A v \in Query(l) : v \in Versions /\ Done(v) /\ v > version[l]
  BY <1>1 DEF Query, QueryEvents, QueryAllEvents
<1>3. \A v \in Versions : v > version[l] /\ Eligible(l, v) => v \in Query(l)
  BY <1>1, Zenon DEF Query, QueryEvents, QueryAllEvents, Eligible
<1> QED BY <1>1, <1>2, <1>3, Zenon


LEMMA OrderAnswer ==
  ASSUME TypeOK, GivenOK, NEW t \in Listener, NEW vs, vs \in {{}, Query(t)}, Answer(t, vs)
  PROVE  GivenOK'
<1>1. log' = log /\ Versions' = Versions
  BY Zenon DEF Answer, Versions
<1>2. CASE UNCHANGED <<received, version>>
  BY <1>1, <1>2, OrderKept, Zenon
<1>3. CASE vs = {} /\ received' = [received EXCEPT ![t] = @ \cup vs] /\ GoOnFrom(t, vs)
  <2>1. version' = version /\ received' = received
    BY <1>3, TypeIs DEF GoOnFrom
  <2> QED BY <1>1, <2>1, OrderKept, Zenon
<1>4. CASE vs # {} /\ received' = [received EXCEPT ![t] = @ \cup vs] /\ GoOnFrom(t, vs)
  <2>1. vs = Query(t)
    BY <1>4, Zenon
  <2>2. PICK m \in vs : (\A w \in vs : w <= m) /\ version' = [version EXCEPT ![t] = m]
    BY <1>4, Zenon DEF GoOnFrom
  <2>3. /\ m \in Versions /\ m \in Nat /\ Done(m) /\ m > version[t]
        /\ version[t] \in Nat /\ \A v \in Versions : v \in Nat
    <3>1. version[t] \in 0..Len(log) /\ Len(log) \in Nat
      BY LogType, TypeIs, Zenon DEF Versions
    <3>2. m \in Versions /\ Done(m) /\ m > version[t]
      BY <2>1, <2>2, QueryIs, Zenon
    <3> QED BY <3>1, <3>2 DEF Versions
  <2>4. /\ version'[t] = m /\ received'[t] = received[t] \cup vs
        /\ \A l \in Listener \ {t} : version'[l] = version[l] /\ received'[l] = received[l]
    BY <1>4, <2>2, TypeIs
  <2>5. received[t] \subseteq Versions
    BY TypeIs, Zenon
  <2>6. \A w \in received'[t] : w <= m
    <3>1. \A w \in received[t] : w \in Nat /\ w <= version[t]
      BY <2>3, <2>5, Zenon DEF GivenOK
    <3>2. \A w \in received[t] : w <= m
      BY <2>3, <3>1
    <3> QED BY <2>2, <2>4, <3>2, Zenon
  <2>7. ASSUME NEW v \in Versions, v <= m, Eligible(t, v)
        PROVE  v \in received'[t] \/ log[v].st = "late"
    <3>1. CASE v <= version[t]
      BY <2>4, <2>7, <3>1, Zenon DEF GivenOK
    <3>2. CASE v > version[t]
      BY <2>1, <2>4, <2>7, <3>2, QueryIs, Zenon
    <3>3. v \in Nat /\ version[t] \in Nat
      BY <2>3, Zenon
    <3>4. v <= version[t] \/ v > version[t]
      BY <3>3
    <3> QED BY <3>1, <3>2, <3>4, Zenon
  <2>8. \A l, v : Eligible(l, v)' <=> Eligible(l, v)
    BY <1>1, Zenon DEF Eligible, Done
  <2>9. \A l \in Listener :
          /\ version'[l] # 0 => Done(version'[l])
          /\ \A w \in received'[l] : w <= version'[l]
          /\ \A v \in Versions : v <= version'[l] /\ Eligible(l, v)
                                 => v \in received'[l] \/ log[v].st = "late"
    BY <2>3, <2>4, <2>6, <2>7, Zenon DEF GivenOK
  <2>10. GivenOK'
    BY <1>1, <2>8, <2>9, Zenon DEF GivenOK, Done
  <2> QED BY <2>10, Zenon
<1> QED BY <1>2, <1>3, <1>4, Zenon DEF Answer

LEMMA OrderCall ==
  ASSUME TypeOK, GivenOK, NEW t \in Thread, NEW s \in Server, NEW u,
         Call(t, s, u)
  PROVE  GivenOK'
<1>1. UNCHANGED <<version, received>>
  BY Zenon DEF Call, lvars
<1>2. CASE t \notin Sender
  <2>1. log' = log
    BY <1>2, Zenon DEF Call, BeginList, BeginMembers
  <2> QED BY <1>1, <2>1, OrderKept, Zenon
<1>3. CASE t \in Sender
  <2>1. CASE log' = log
    BY <1>1, <2>1, OrderKept, Zenon
  <2>2. ASSUME MayInsert(u),
               NEW e \in [key : Key, uuid : {u}, time : Time, by : {s}, st : {"open"}],
               log' = Append(log, e)
        PROVE  GivenOK'
    BY <1>1, <2>2, OrderAdds, Zenon
  <2> QED BY <1>3, <2>1, <2>2, SenderCalls
<1> QED BY <1>2, <1>3, Zenon

LEMMA OrderStep ==
  ASSUME TypeOK, CallsOK, GivenOK, [Next]_vars
  PROVE  GivenOK'
<1>1. CASE UNCHANGED vars
  BY <1>1, OrderKept, Zenon DEF vars, lvars
<1>2. ASSUME NEW t \in Thread, NEW u, FirstCall(t, u) PROVE GivenOK'
  <2>1. current \in Server /\ Call(t, current, u)
    BY <1>2, TypeIs, Zenon DEF FirstCall
  <2> QED BY <2>1, OrderCall, Zenon
<1>3. ASSUME NEW t \in Thread, Retry(t) PROVE GivenOK'
  BY <1>3, RetryCalls, OrderCall, Zenon
<1>4. ASSUME NEW t, GiveUp(t) PROVE GivenOK'
  BY <1>4, OrderKept, Zenon DEF GiveUp, lvars
<1>5. ASSUME NEW t \in Sender, SendEvent(t) \/ SenderStep(t) PROVE GivenOK'
  <2>1. t \in Thread
    BY Zenon DEF Thread
  <2>2. CASE SendEvent(t)
    BY <1>2, <2>1, <2>2, Zenon DEF SendEvent
  <2>3. CASE Commit(t)
    <3>1. PICK v \in Versions : log[v].st = "open" /\ CommitRow(t, v)
      BY <2>3, Zenon DEF Commit, Rows
    <3>2. /\ Len(log') = Len(log) /\ Versions' = Versions
          /\ log'[v] = [log[v] EXCEPT !.st = CommitState(v)]
          /\ \A w \in Versions \ {v} : log'[w] = log[w]
      BY <2>3, <3>1, CommitType, Zenon DEF Commit, Versions
    <3>3. log[v] \in Row
      BY LogType, Zenon
    <3>4. log'[v].st = CommitState(v) /\ log'[v].key = log[v].key /\ log'[v].time = log[v].time
      BY <3>2, <3>3, Zenon DEF Row
    <3>5. UNCHANGED <<version, received>>
      BY <3>1, Zenon DEF CommitRow, lvars
    <3>6. \A w \in Versions :
            /\ log'[w].key = log[w].key /\ log'[w].time = log[w].time
            /\ \/ log'[w].st = log[w].st
               \/ log[w].st = "open" /\ log'[w].st \in {"gone", CommitState(w)}
      BY <3>1, <3>2, <3>4, Zenon
    <3> QED BY <3>2, <3>5, <3>6, OrderMoves, Zenon
  <2> QED BY <1>3, <1>4, <1>5, <2>1, <2>2, <2>3, Zenon DEF SenderStep
<1>6. ASSUME NEW t \in Listener, StopListen(t) \/ ListenerStep(t) PROVE GivenOK'
  <2>1. t \in Thread
    BY Zenon DEF Thread
  <2>2. CASE StopListen(t) \/ ListenEnds(t) \/ LockCondition(t)
    BY <2>2, OrderKept, Zenon DEF StopListen, ListenEnds, LockCondition, lvars
  <2>3. CASE ListWoken(t)
    <3>1. Query(t) \in {{}, Query(t)}
      BY Zenon
    <3> QED BY <2>3, <3>1, OrderAnswer, OrderKept, Zenon DEF ListWoken, lvars
  <2>4. CASE ListTimeout(t)
    <3>1. (IF t \in KeyListener THEN QueryEvents(t) ELSE {}) \in {{}, Query(t)}
      BY Zenon DEF Query
    <3> QED BY <2>4, <3>1, OrderAnswer DEF ListTimeout
  <2> QED BY <1>2, <1>3, <1>4, <1>6, <2>1, <2>2, <2>3, <2>4, Zenon DEF ListenerStep, Listen
<1>7. CASE MemberStep
  <2>1. Member \in Thread
    BY Zenon DEF Thread
  <2>2. CASE UpdateMembers
    BY <2>2, OrderKept, Zenon DEF UpdateMembers, lvars
  <2> QED BY <1>2, <1>3, <1>4, <1>7, <2>1, <2>2, Zenon DEF MemberStep, ListMembers
<1>8. ASSUME NEW s \in Server, Heartbeat(s) \/ NotifyOthers(s) \/ Restart(s)
      PROVE  GivenOK'
  BY <1>8, OrderKept, Zenon DEF Heartbeat, NotifyOthers, Restart, lvars
<1>9. ASSUME NEW s \in Server, Crash(s) PROVE GivenOK'
  <2>1. UNCHANGED <<version, received>>
    BY <1>9, Zenon DEF Crash, lvars
  <2>2. /\ Versions' = Versions
        /\ \A w \in Versions :
             /\ log'[w].key = log[w].key /\ log'[w].time = log[w].time
             /\ \/ log'[w].st = log[w].st
                \/ log[w].st = "open" /\ log'[w].st \in {"gone", CommitState(w)}
    BY <1>9, CrashRows, Zenon
  <2> QED BY <2>1, <2>2, OrderMoves, Zenon
<1> QED BY <1>1, <1>5, <1>6, <1>7, <1>8, <1>9, Zenon DEF Next


-----------------------------------------------------------------------------
(* The theorems. *)

LEMMA StoreAlways == Spec => [](TypeOK /\ StoreInv /\ NoLostWakeup)
<1>1. Init => TypeOK /\ StoreInv /\ NoLostWakeup
  BY StoreInit, Zenon
<1>2. TypeOK /\ StoreInv /\ NoLostWakeup /\ [Next]_vars
      => (TypeOK /\ StoreInv /\ NoLostWakeup)'
  <2>1. TypeOK /\ StoreInv /\ [Next]_vars => TypeOK'
    BY TypeStep, Zenon DEF StoreInv
  <2> QED BY <2>1, StoreStep, Zenon
<1> QED BY <1>1, <1>2, PTL DEF Spec

(* Every variable of the service and its clients keeps its type; a version  *)
(* that a listener holds is never beyond the table.                         *)
THEOREM TypesKept == Spec => []TypeOK
BY StoreAlways, PTL

(* However often the wrapper of a send_event repeats the call, on whichever *)
(* servers, and whatever crashes in between: its event is in the table at   *)
(* most once, and it is there when the call has returned.                   *)
THEOREM EventsStoredOnce == Spec => []StoredOnce
<1>1. StoreInv => StoredOnce
  BY Zenon DEF StoreInv, RowsOK, ReturnsOK, StoredOnce, Done
<1> QED BY <1>1, StoreAlways, PTL

(* A listener is not left waiting after its server has stored an event of   *)
(* its keys: the commit and the notification of the condition are one step  *)
(* for it, and it can only begin to wait before or after both.              *)
THEOREM NoWakeupLost == Spec => []NoLostWakeup
BY StoreAlways, PTL

(* No event that a listener asked for is skipped, handed out twice or out of *)
(* order, across broken calls, changes of server and crashes, on any         *)
(* database; what a listener may miss are only rows that were committed      *)
(* after one of a higher version.                                            *)
THEOREM EventsHandedInOrder == Spec => []HandedOnceInOrder
<1>1. ASSUME TypeOK, GivenOK PROVE HandedOnceInOrder
  <2>1. ASSUME NEW l \in Listener, NEW v \in Query(l), NEW w \in received[l]
        PROVE  w < v
    <3>1. v > version[l] /\ w <= version[l]
      BY <1>1, QueryIs, Zenon DEF GivenOK
    <3>2. v \in Nat /\ w \in Nat /\ version[l] \in Nat
      <4>1. v \in Versions /\ Len(log) \in Nat
        BY <1>1, QueryIs, LogType, Zenon
      <4>2. w \in Versions /\ version[l] \in 0..Len(log)
        BY <1>1, TypeIs, Zenon
      <4> QED BY <4>1, <4>2 DEF Versions
    <3> QED BY <3>1, <3>2
  <2> QED BY <1>1, <2>1, Zenon DEF HandedOnceInOrder, GivenOK
<1>2. Init => GivenOK
  BY StoreInit, Zenon
<1>3. TypeOK /\ StoreInv /\ GivenOK /\ [Next]_vars => GivenOK'
  BY OrderStep, Zenon DEF StoreInv
<1>4. TypeOK /\ GivenOK => HandedOnceInOrder
  BY <1>1, Zenon
<1> QED BY <1>2, <1>3, <1>4, StoreAlways, PTL DEF Spec
=============================================================================
