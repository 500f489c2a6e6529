---------------------------- MODULE Notification ----------------------------
(***************************************************************************)
(* The notification service of AIFlow in its highly available form: the    *)
(* servers that share one event table and one member table, and the        *)
(* threads of one client (listeners of keys, listeners of all events,      *)
(* senders, the thread that refreshes the member list), which share the    *)
(* address of the server they talk to.                                     *)
(*                                                                         *)
(* A server runs its handlers as coroutines of one event loop, so a step   *)
(* between two awaits is atomic, and nothing else runs on a server while   *)
(* add_event waits for the database.  A version is the primary key of a    *)
(* row, given at the insert; the row is seen by others after the commit.   *)
(***************************************************************************)
EXTENDS Naturals, Sequences, FiniteSets

CONSTANTS
  Server,
  KeyListener,      \* threads of start_listen_event
  AllListener,      \* threads of start_listen_events
  Sender,           \* threads that call send_event
  Member,           \* the thread _list_members
  Key,
  Started,          \* which of them a client may have started
  ListenKeys,       \* the keys of each thread of start_listen_event
  Time, StartTime,  \* creation times, start_time of start_listen_events
  FirstServer,      \* the server the constructor of the client settled on
  SerialCommits,    \* TRUE: one transaction writes at a time (SQLite)
  MaxEvents,        \* bound: calls of send_event
  MaxTries,         \* bound: calls within retry_timeout_ms
  MaxFaults         \* bound: crashes and lost replies

Listener == KeyListener \cup AllListener
Thread == Listener \cup Sender \cup {Member}
NoServer == "none"

ASSUME NotificationAssumption ==
  /\ FirstServer \in Server
  /\ Started \subseteq SUBSET Listener
  /\ ListenKeys \in [KeyListener -> SUBSET Key]
  /\ SerialCommits \in BOOLEAN
  /\ MaxEvents \in Nat /\ MaxTries \in Nat \ {0} /\ MaxFaults \in Nat
  /\ Time \subseteq Nat /\ StartTime \in Nat
ASSUME ThreadAssumption ==
  /\ KeyListener \cap AllListener = {} /\ Listener \cap Sender = {}
  /\ Member \notin Listener \cup Sender
ASSUME ServerAssumption == NoServer \notin Server

VARIABLES
  log,        \* the event table: a version is an index
  up, inc,    \* a server runs; its incarnation (the uuid of its HA manager)
  row,        \* member table: incarnation that wrote the row, 0: no row
  living,     \* living_members of each server's HA manager
  greeted,    \* notified_others_after_start
  cached,     \* cached_notify: keys of events other servers are not told of
  current,    \* the client: current_uri (and notification_stub)
  members,    \* the client: living_members
  pc, uri,    \* a thread's call: where it is, server_uri of current_func
  failed, tries, \* a call: failed_members, calls made in its retry loop
  since,      \* a list call: length of the log when it began to wait
  answer,     \* a call of listMembers: the list read before it waits
  flag,       \* _flag of a listener's thread
  version,    \* listen_version, current_version
  received,   \* versions handed to the watcher
  result,     \* how each call of send_event ended; its uuid is its index
  uuid,       \* the uuid of the event a sender is sending
  faults

svars == <<up, inc, row, living, greeted>>
cvars == <<current, members>>
pvars == <<pc, uri, failed, tries, since, answer>>
lvars == <<flag, version, received>>
evars == <<result, uuid>>
vars == <<log, svars, cached, cvars, pvars, lvars, evars, faults>>

Versions == 1 .. Len(log)
Done(v) == log[v].st \in {"done", "late"}

(* ---------------------------------------------------------------------- *)
(* Storage                                                                 *)

\* list_events: the committed rows of the keys, newer than the version asked
\* for (0 asks for all of them).  list_all_events by start_time until a first
\* event arrived, list_all_events_from_version after that.
QueryEvents(l) ==
  {v \in Versions : Done(v) /\ log[v].key \in ListenKeys[l] /\ v > version[l]}
QueryAllEvents(l) ==
  {v \in Versions : Done(v) /\ IF version[l] > 0 THEN v > version[l]
                                                 ELSE log[v].time >= StartTime}
Query(l) == IF l \in KeyListener THEN QueryEvents(l) ELSE QueryAllEvents(l)

\* session.add in add_event: the row gets its version; uuid is unique, so the
\* insert fails when it is stored, and waits while it is being stored.
Rows(u) == {v \in Versions : log[v].uuid = u /\ log[v].st # "gone"}
StoredUuid(u) == \E v \in Rows(u) : Done(v)
\* Mutant: the uuid column is not unique.
MayInsert_NotUnique(u) == SerialCommits => \A v \in Versions : log[v].st # "open"

MayInsert(u) ==
  /\ Rows(u) = {}
  /\ SerialCommits => \A v \in Versions : log[v].st # "open"

(* ---------------------------------------------------------------------- *)
(* Servers: heartbeat and notify threads of the HA manager, faults         *)

Free(s) == up[s] /\ \A t \in Sender : ~(pc[t] = "insert" /\ uri[t] = s)

\* The ttl of a row can have passed if its server is down, or it was written
\* by an earlier incarnation; a reader of the table finds some of these rows
\* too old.
Overdue == {x \in Server : row[x] # 0 /\ (~up[x] \/ row[x] # inc[x])}
TableReads == {{x \in Server : row[x] # 0} \ old : old \in SUBSET Overdue}

\* start_heartbeat: drop the rows that are too old, write the own row (refused
\* when another incarnation's row is there), read the table, and once after
\* the start tell the others, which add this server to their lists and wake
\* the calls of listMembers.
Heartbeat(s) ==
  \E kept \in TableReads :
    LET mine == s \in kept => row[s] = inc[s]
        seen == kept \cup {s}
        told == {x \in seen \ {s} : mine /\ ~greeted[s] /\ up[x]}
    IN /\ up[s]
       /\ row' = [x \in Server |-> IF x = s /\ mine THEN inc[s] ELSE IF x \in kept THEN row[x] ELSE 0]
       /\ living' = [x \in Server |-> CASE x = s /\ mine -> seen
                                        [] x \in told -> living[x] \cup {s}
                                        [] OTHER -> living[x]]
       /\ greeted' = [greeted EXCEPT ![s] = @ \/ mine]
       /\ pc' = IF pc[Member] = "wait" /\ uri[Member] \in told
                THEN [pc EXCEPT ![Member] = "query"] ELSE pc
       /\ UNCHANGED <<log, up, inc, cached, cvars, uri, failed, tries, since, answer, lvars, evars, faults>>

\* Mutant: write_condition is not notified.
WokenBy_KeyOnly(l, ks) == l \in KeyListener /\ ListenKeys[l] \cap ks # {}

\* The condition a list call waits on: that of its key if there is one, else
\* write_condition, which every event notifies.
WokenBy(l, ks) ==
  IF l \in KeyListener /\ Cardinality(ListenKeys[l]) = 1
  THEN ListenKeys[l] \cap ks # {} ELSE ks # {}

\* notify_all of the conditions of the keys ks on the servers S.
WakeAll(S, ks) ==
  [t \in Thread |-> IF t \in Listener /\ pc[t] = "wait" /\ uri[t] \in S /\ WokenBy(t, ks)
                    THEN "query" ELSE pc[t]]

\* start_notify: everything cached is taken off the queue and sent to the
\* other members; a call that fails is logged and forgotten.
NotifyOthers(s) ==
  /\ up[s] /\ cached[s] # {}
  /\ \E got \in SUBSET {m \in living[s] \ {s} : up[m]} : pc' = WakeAll(got, cached[s])
  /\ cached' = [cached EXCEPT ![s] = {}]
  /\ UNCHANGED <<log, svars, cvars, uri, failed, tries, since, answer, lvars, evars, faults>>

Calls(s) == {t \in Thread : uri[t] = s}

\* A server dies: its calls break, an insert that is not committed is rolled
\* back, what it cached for the others is lost.
Crash(s) ==
  /\ up[s] /\ faults < MaxFaults
  /\ faults' = faults + 1
  /\ up' = [up EXCEPT ![s] = FALSE]
  /\ cached' = [cached EXCEPT ![s] = {}]
  /\ pc' = [t \in Thread |-> IF t \in Calls(s) THEN "error" ELSE pc[t]]
  /\ log' = [v \in Versions |->
               IF log[v].st = "open" /\ log[v].by = s THEN [log[v] EXCEPT !.st = "gone"] ELSE log[v]]
  /\ UNCHANGED <<inc, row, living, greeted, cvars, uri, failed, tries, since, answer, lvars, evars>>

\* A server is started again at its address, with a new uuid; its HA manager
\* knows no member until its first heartbeat.
Restart(s) ==
  /\ ~up[s]
  /\ up' = [up EXCEPT ![s] = TRUE]
  /\ inc' = [inc EXCEPT ![s] = @ + 1]
  /\ living' = [living EXCEPT ![s] = {}]
  /\ greeted' = [greeted EXCEPT ![s] = FALSE]
  /\ UNCHANGED <<log, row, cached, cvars, pvars, lvars, evars, faults>>

\* get_living_members: reads the table if the list is empty.
LivingMembers(s) == IF living[s] # {} THEN {living[s]} ELSE TableReads

(* ---------------------------------------------------------------------- *)
(* Calls of the client's threads                                           *)

Goto(t, p) == pc' = [pc EXCEPT ![t] = p]
Wait(t) == Goto(t, "wait") /\ since' = IF t \in Listener THEN [since EXCEPT ![t] = Len(log)] ELSE since

\* The call is over: its local variables are gone.
Return(t, p) ==
  /\ Goto(t, p)
  /\ uri' = [uri EXCEPT ![t] = NoServer]
  /\ failed' = [failed EXCEPT ![t] = {}]
  /\ tries' = [tries EXCEPT ![t] = 0]
  /\ since' = IF t \in Listener THEN [since EXCEPT ![t] = 0] ELSE since
  /\ answer' = IF t = Member THEN {} ELSE answer

\* The connection breaks while the response is on its way.
LoseReply(t) ==
  /\ faults < MaxFaults
  /\ faults' = faults + 1
  /\ Goto(t, "error")
  /\ UNCHANGED <<uri, failed, tries, since, answer>>

\* _send_event up to the insert; a stored uuid aborts the call with an error.
BeginSend(t, s, u) ==
  /\ \/ /\ MayInsert(u)
        /\ \E k \in Key, ct \in Time :
             log' = Append(log, [key |-> k, uuid |-> u, time |-> ct, by |-> s, st |-> "open"])
        /\ Goto(t, "insert")
     \/ StoredUuid(u) /\ Goto(t, "error") /\ log' = log
  /\ UNCHANGED <<living, since, answer>>

\* _list_events: waits before its first query.  _list_all_events: queries
\* first, and if nothing is there goes for the lock of the condition.
BeginList(t) ==
  /\ IF t \in KeyListener THEN Wait(t)
     ELSE since' = since /\ Goto(t, IF QueryAllEvents(t) # {} THEN "query" ELSE "gap")
  /\ UNCHANGED <<log, living, answer>>

\* _list_members: the list as it is now is the answer if the wait times out.
BeginMembers(s) ==
  /\ answer' \in LivingMembers(s)
  /\ living' = [living EXCEPT ![s] = answer']
  /\ Wait(Member)
  /\ log' = log

\* The call of a thread at a server: refused if the server is down, else the
\* handler runs as soon as the event loop is free, up to where it waits.
Call(t, s, u) ==
  /\ \/ ~up[s] /\ Goto(t, "error") /\ UNCHANGED <<log, living, since, answer>>
     \/ Free(s) /\ CASE t \in Sender -> BeginSend(t, s, u)
                     [] t \in Listener -> BeginList(t)
                     [] OTHER -> BeginMembers(s)
  /\ UNCHANGED <<up, inc, row, greeted, cached, members, lvars, faults>>

\* call_with_retry takes the function of the current stub.
FirstCall(t, u) ==
  /\ pc[t] = "idle"
  /\ Call(t, current, u)
  /\ uri' = [uri EXCEPT ![t] = current]
  /\ tries' = [tries EXCEPT ![t] = 1]
  /\ UNCHANGED <<current, failed>>

\* send_event: a fresh uuid for each event.
SendEvent(t) ==
  LET u == Len(result) + 1 IN
  /\ u <= MaxEvents
  /\ result' = Append(result, "calling")
  /\ uuid' = [uuid EXCEPT ![t] = u]
  /\ FirstCall(t, u)

\* The loop of listen: while the flag is set, list events again.
Listen(t) == flag[t] /\ FirstCall(t, 0) /\ UNCHANGED evars
ListenEnds(t) ==
  /\ pc[t] = "idle" /\ ~flag[t]
  /\ Goto(t, "ended")
  /\ UNCHANGED <<log, svars, cached, cvars, uri, failed, tries, since, answer, lvars, evars, faults>>

\* The loop of _list_members.
ListMembers == FirstCall(Member, 0) /\ UNCHANGED evars

\* stop_listen_event, stop_listen_events: clear the flag, then join.
StopListen(t) ==
  /\ flag[t]
  /\ flag' = [flag EXCEPT ![t] = FALSE]
  /\ UNCHANGED <<log, svars, cached, cvars, pvars, version, received, evars, faults>>

\* A row is late if one of a higher version was committed before it: the
\* version is drawn by the insert, and other transactions may commit first.
CommitState(v) == IF \E w \in Versions : w > v /\ Done(w) THEN "late" ELSE "done"

\* The commit of the event, notify_all of both conditions, notify_others; then
\* send_event returns, unless the response is lost.
CommitRow(t, v) ==
  LET s == uri[t]
      wakes == WakeAll({s}, {log[v].key})
  IN /\ log' = [log EXCEPT ![v].st = CommitState(v)]
     /\ cached' = [cached EXCEPT ![s] = @ \cup {log[v].key}]
     /\ \/ /\ pc' = [wakes EXCEPT ![t] = "idle"]
           /\ uri' = [uri EXCEPT ![t] = NoServer]
           /\ failed' = [failed EXCEPT ![t] = {}]
           /\ tries' = [tries EXCEPT ![t] = 0]
           /\ result' = [result EXCEPT ![uuid[t]] = "returned"]
           /\ faults' = faults
        \/ /\ faults < MaxFaults /\ faults' = faults + 1
           /\ pc' = [wakes EXCEPT ![t] = "error"]
           /\ UNCHANGED <<uri, failed, tries, result>>
     /\ UNCHANGED <<svars, cvars, since, answer, lvars, uuid>>
Commit(t) ==
  /\ pc[t] = "insert"
  /\ \E v \in Rows(uuid[t]) : log[v].st = "open" /\ CommitRow(t, v)

\* The lock of write_condition is taken, and the call of listAllEvents waits.
LockCondition(t) ==
  /\ pc[t] = "gap" /\ Free(uri[t])
  /\ Wait(t)
  /\ UNCHANGED <<log, svars, cached, cvars, uri, failed, tries, answer, lvars, evars, faults>>

\* The version of the last event of a response, if it has one.
GoOnFrom(t, vs) ==
  IF vs = {} THEN version' = version
  ELSE \E v \in vs : /\ \A w \in vs : w <= v
                    /\ version' = [version EXCEPT ![t] = v]

\* Mutant: the version moves on before the response has arrived.
Answer_VersionFirst(t, vs) ==
  /\ GoOnFrom(t, vs)
  /\ \/ Return(t, "idle") /\ received' = [received EXCEPT ![t] = @ \cup vs] /\ faults' = faults
     \/ LoseReply(t) /\ UNCHANGED received
  /\ UNCHANGED <<log, svars, cached, cvars, flag, evars>>

\* The response with the events vs: the watcher processes them; the version of
\* the last of them is where the next call starts.
Answer(t, vs) ==
  /\ \/ /\ Return(t, "idle")
        /\ received' = [received EXCEPT ![t] = @ \cup vs]
        /\ GoOnFrom(t, vs)
        /\ faults' = faults
     \/ LoseReply(t) /\ UNCHANGED <<received, version>>
  /\ UNCHANGED <<log, svars, cached, cvars, flag, evars>>

\* A notified call queries again, and waits on if it finds nothing.
ListWoken(t) ==
  /\ pc[t] = "query" /\ Free(uri[t])
  /\ \/ Query(t) # {} /\ Answer(t, Query(t))
     \/ /\ Query(t) = {} /\ Wait(t)
        /\ UNCHANGED <<log, svars, cached, cvars, uri, failed, tries, answer, lvars, evars, faults>>

\* Mutant: a call that times out answers without a query.
ListTimeout_Empty(t) == pc[t] = "wait" /\ Free(uri[t]) /\ Answer(t, {})

\* The timeout of a call passes: _list_events queries once more,
\* _list_all_events answers with what it had, nothing.
ListTimeout(t) ==
  /\ pc[t] = "wait" /\ Free(uri[t])
  /\ Answer(t, IF t \in KeyListener THEN QueryEvents(t) ELSE {})

\* The response of listMembers becomes the client's list; a call that was
\* notified reads the server's list again.
UpdateMembers ==
  LET s == uri[Member] IN
  /\ pc[Member] \in {"wait", "query"} /\ Free(s)
  /\ \E m \in IF pc[Member] = "query" THEN LivingMembers(s) ELSE {answer} :
       /\ living' = IF pc[Member] = "query" THEN [living EXCEPT ![s] = m] ELSE living
       /\ \/ members' = m /\ Return(Member, "idle") /\ faults' = faults
          \/ members' = members /\ LoseReply(Member)
  /\ UNCHANGED <<log, up, inc, row, greeted, cached, current, lvars, evars>>

\* call_with_retry after an RpcError, under ha_change_lock: a call made to the
\* current server moves the client, and itself, to a living member at which it
\* has not failed (the last one of the shuffled list), or clears the set if
\* there is none; a call made to another server is repeated as it is.
Candidates(t) == members \ (failed[t] \cup {current})
Moves(t) == uri[t] = current /\ Candidates(t) # {}
NextCurrent(t) == IF Moves(t) THEN Candidates(t) ELSE {current}

Retry(t) ==
  /\ pc[t] = "error" /\ tries[t] < MaxTries
  /\ \E s \in NextCurrent(t) :
       /\ current' = s
       /\ uri' = IF Moves(t) THEN [uri EXCEPT ![t] = s] ELSE uri
       /\ failed' = [failed EXCEPT ![t] = IF Moves(t) THEN @ \cup {current}
                                          ELSE IF uri[t] = current THEN {} ELSE @]
       /\ Call(t, IF Moves(t) THEN s ELSE uri[t], IF t \in Sender THEN uuid[t] ELSE 0)
  /\ tries' = [tries EXCEPT ![t] = @ + 1]
  /\ UNCHANGED evars

\* The retry timeout: the exception ends a listener's thread and the thread of
\* _list_members, and leaves send_event to its caller.
GiveUp(t) ==
  /\ pc[t] = "error" /\ tries[t] = MaxTries
  /\ current' \in NextCurrent(t)
  /\ Return(t, IF t \in Sender THEN "idle" ELSE "dead")
  /\ result' = IF t \in Sender THEN [result EXCEPT ![uuid[t]] = "raised"] ELSE result
  /\ UNCHANGED <<log, svars, cached, members, lvars, uuid, faults>>

(* ---------------------------------------------------------------------- *)
(* Specification                                                           *)

Init ==
  /\ log = <<>>
  /\ up = [s \in Server |-> TRUE] /\ inc = [s \in Server |-> 1]
  /\ row = [s \in Server |-> 1]
  /\ living = [s \in Server |-> Server]
  /\ greeted = [s \in Server |-> TRUE]
  /\ cached = [s \in Server |-> {}]
  /\ current = FirstServer /\ members = Server
  /\ flag \in {[l \in Listener |-> l \in S] : S \in Started}
  /\ pc = [t \in Thread |-> IF t \in Listener /\ ~flag[t] THEN "ended" ELSE "idle"]
  /\ uri = [t \in Thread |-> NoServer]
  /\ failed = [t \in Thread |-> {}] /\ tries = [t \in Thread |-> 0]
  /\ since = [l \in Listener |-> 0] /\ answer = {}
  /\ version = [l \in Listener |-> 0]
  /\ received = [l \in Listener |-> {}]
  /\ result = <<>> /\ uuid = [t \in Sender |-> 0]
  /\ faults = 0

SenderStep(t) == Commit(t) \/ Retry(t) \/ GiveUp(t)
ListenerStep(t) ==
  Listen(t) \/ ListenEnds(t) \/ LockCondition(t) \/ ListWoken(t) \/ ListTimeout(t) \/ Retry(t) \/ GiveUp(t)
MemberStep == ListMembers \/ UpdateMembers \/ Retry(Member) \/ GiveUp(Member)

Next ==
  \/ \E t \in Sender : SendEvent(t) \/ SenderStep(t)
  \/ \E l \in Listener : StopListen(l) \/ ListenerStep(l)
  \/ MemberStep
  \/ \E s \in Server : Heartbeat(s) \/ NotifyOthers(s) \/ Crash(s) \/ Restart(s)

Spec == Init /\ [][Next]_vars

\* The threads of senders and listeners run, and a wait times out.  Nothing
\* makes a client send or stop, a server come back, or the member list be
\* refreshed.
FairSpec ==
  /\ Spec
  /\ \A t \in Sender : WF_vars(SenderStep(t))
  /\ \A l \in Listener : WF_vars(ListenerStep(l))

(* ---------------------------------------------------------------------- *)
(* Properties                                                              *)

\* Types: the table, the servers, the calls and the client's state.
TypeOK ==
  /\ log \in Seq([key : Key, uuid : Nat, time : Time, by : Server, st : {"open", "done", "late", "gone"}])
  /\ up \in [Server -> BOOLEAN] /\ inc \in [Server -> Nat]
  /\ row \in [Server -> Nat]
  /\ living \in [Server -> SUBSET Server] /\ greeted \in [Server -> BOOLEAN]
  /\ cached \in [Server -> SUBSET Key]
  /\ current \in Server /\ members \subseteq Server
  /\ pc \in [Thread -> {"idle", "insert", "gap", "wait", "query", "error", "ended", "dead"}]
  /\ uri \in [Thread -> Server \cup {NoServer}]
  /\ failed \in [Thread -> SUBSET Server] /\ tries \in [Thread -> 0 .. MaxTries]
  /\ since \in [Listener -> 0 .. Len(log)] /\ answer \subseteq Server
  /\ flag \in [Listener -> BOOLEAN] /\ version \in [Listener -> 0 .. Len(log)]
  /\ received \in [Listener -> SUBSET Versions]
  /\ result \in Seq({"calling", "returned", "raised"})
  /\ uuid \in [Sender -> 0 .. Len(result)]
  /\ faults \in 0 .. MaxFaults

Eligible(l, v) == Done(v) /\ IF l \in KeyListener THEN log[v].key \in ListenKeys[l]
                                                  ELSE log[v].time >= StartTime

\* No event is skipped, handed out twice or out of order, also when the calls
\* of a listener are broken off, repeated and moved to another server: every
\* event it asked for whose version is not above the one it goes on from has
\* been processed by its watcher, and what the next response would hold is
\* newer than everything the watcher was given.  Excepted is a late row: a
\* listener may have gone on from the higher version before it was committed.
HandedOnceInOrder ==
  \A l \in Listener :
    /\ \A v \in Versions :
         v <= version[l] /\ Eligible(l, v) => v \in received[l] \/ log[v].st = "late"
    /\ \A v \in Query(l), w \in received[l] : w < v

\* No event is skipped at all (start_listen_events: "Start listen all
\* events."): what HandedOnceInOrder says without the exception of rows that
\* are committed late.
NoneSkipped ==
  \A l \in Listener :
    \A v \in Versions : v <= version[l] /\ Eligible(l, v) => v \in received[l]

\* A call of send_event stores its event at most once, however often the
\* wrapper repeats it, and has stored it when it returns.
StoredOnce ==
  \A u \in 1 .. Len(result) :
    /\ \A v, w \in Versions :
         log[v].uuid = u /\ Done(v) /\ log[w].uuid = u /\ Done(w) => v = w
    /\ result[u] = "returned" => \E v \in Versions : log[v].uuid = u /\ Done(v)

\* A listener does not sleep through an event stored by the server it waits
\* at: an event of its keys stored since it began to wait has notified it.
NoLostWakeup ==
  \A l \in Listener : pc[l] = "wait" =>
    ~\E v \in Versions : v > since[l] /\ Done(v) /\ log[v].by = uri[l]
                           /\ (l \in KeyListener => log[v].key \in ListenKeys[l])

\* Every stored event reaches every listener that asked for it, unless it was
\* committed late, or the listener is stopped or its thread has ended with an
\* exception; and a
\* listener that is stopped ends, so that stop_listen_event and
\* stop_listen_events, which join its thread, return.
EventsAreDelivered ==
  \A l \in Listener :
    /\ \A v \in 1 .. 2 * MaxEvents :
         (v \in Versions /\ Eligible(l, v) /\ log[v].st = "done") ~> (v \in received[l] \/ ~flag[l] \/ pc[l] = "dead")
    /\ ~flag[l] ~> pc[l] \in {"ended", "dead"}
=============================================================================
