----------------------------- MODULE AppMaster -----------------------------
(***************************************************************************)
(* The application master (AM) of a machine learning cluster: the gRPC     *)
(* service AppMasterServiceImpl, the state machine AMStateMachineImpl with *)
(* its transitions and its event handler thread, the heartbeat monitors,   *)
(* and the metadata that AMMetaImpl keeps in the storage and that a        *)
(* restarted AM recovers from.                                             *)
(*                                                                         *)
(* A request handler is a sequence of steps: the version check, the update *)
(* of the client cache and the monitors, and the transition, which alone   *)
(* takes the write lock.  A transition that calls the nodes (restart,      *)
(* stop, finish) holds the lock over several steps; its progress is the    *)
(* variable work.  The clients are arbitrary here: any node may send any   *)
(* request with any version it has been given.                             *)
(***************************************************************************)
EXTENDS Integers, Sequences, FiniteSets

CONSTANTS
  Node,        \* the nodes of the job, each a role and an index
  Roles,       \* the roles
  RoleOf,      \* the role of a node
  QueueCapacity, \* capacity of eventQueue
  MaxVersion,  \* bound of the model: versions stay at or below it
  MaxCrash     \* bound of the model: crashes of the AM

ASSUME NodeAssumption ==
  /\ IsFiniteSet(Node) /\ Node # {}
  /\ RoleOf \in [Node -> Roles]
ASSUME BoundAssumption ==
  QueueCapacity \in Nat \ {0} /\ MaxVersion \in Nat /\ MaxCrash \in Nat

VARIABLES
  am,        \* the AM task: down, up, finished or failed
  status,    \* current state of the state machine
  version,   \* version of the cluster
  events,    \* eventQueue
  work,      \* transition in progress under the write lock
  clients,   \* nodeClientCache: a node has no client, an open or a closed one
  monitors,  \* heartbeatMonitors: version of the running monitor of a node
  orphans,   \* running monitors that heartbeatMonitors no longer holds
  fired,     \* monitors that timed out and wait for the write lock
  end,       \* end of AppMasterServer
  error,     \* error of AppMasterServer
  mVersion, mStatus, mCluster, mFinish,  \* the storage
  rpc,       \* request of a node to the AM
  clock,     \* latest version drawn from the clock
  crashes,   \* crashes so far
  stopped,   \* history: STOP_JOB was carried out
  rejected   \* history: a transition ended with an error

memory == <<status, version, events, work, clients, monitors, orphans, fired,
            end, error>>
meta == <<mVersion, mStatus, mCluster, mFinish>>
history == <<clock, crashes, stopped, rejected>>
amVars == <<am, memory, meta, rpc, history>>

Status == {"UNKNOW", "INIT", "RUNNING", "FAILOVER", "FINISH"}
Kinds == {"register", "finish", "fail"}
NoWork == [kind |-> "none", stage |-> "none", todo |-> {}, drop |-> {}]
NoRpc == [kind |-> "none", ver |-> 0, stage |-> "none"]
NoError == "null"

Event(type, v) == [type |-> type, ver |-> v]

-----------------------------------------------------------------------------
(* The storage. *)

(* saveAMStatus writes only if the stored status is the expected one. *)
savedStatus(new, pre) ==
  IF pre = "UNKNOW" \/ mStatus \in {"UNKNOW", pre} THEN new ELSE mStatus

tasks(S, r) == Cardinality({n \in S : RoleOf[n] = r})

(* updateRemainJobNum: nodes of a role that have not finished. *)
remainJobNum(finished, r) == tasks(Node, r) - tasks(finished, r)

-----------------------------------------------------------------------------
(* The state machine: which event has a transition in which status, and    *)
(* which one is ignored.  Every other pair is an invalid transition.       *)

(* Mutant: a node may fail a cluster that is failing over already. *)
Arcs_FailAgain ==
  {"INIT"} \X {"REGISTER_NODE", "COMPLETE_CLUSTER", "FAIL_NODE", "STOP_JOB"}
  \cup {"RUNNING"} \X {"FINISH_NODE", "FINISH_CLUSTER", "FAIL_NODE",
                       "REGISTER_NODE", "STOP_JOB"}
  \cup {"FAILOVER"} \X {"FAIL_NODE", "RESTART_CLUSTER", "STOP_JOB"}

Arcs ==
  {"INIT"} \X {"REGISTER_NODE", "COMPLETE_CLUSTER", "FAIL_NODE", "STOP_JOB"}
  \cup {"RUNNING"} \X {"FINISH_NODE", "FINISH_CLUSTER", "FAIL_NODE",
                       "REGISTER_NODE", "STOP_JOB"}
  \cup {"FAILOVER"} \X {"RESTART_CLUSTER", "STOP_JOB"}

Ignored ==
  {"FAILOVER"} \X {"FINISH_NODE", "FAIL_NODE", "REGISTER_NODE"}
  \cup {"INIT"} \X {"FINISH_NODE", "RESTART_CLUSTER"}
  \cup {"FINISH"} \X {"FINISH_NODE", "STOP_JOB"}

locked == work # NoWork

(* sendEvent: an offer to a full queue is given up after five seconds. *)
full == Len(events) >= QueueCapacity
sendEvent(e) == events' = IF full THEN events ELSE Append(events, e)

(* handle() lets an event without a version, or with the current one, in. *)
current(v) == v = 0 \/ v = version

(* onError keeps an error only if there is one already, and ends the AM. *)
onError ==
  /\ error' = IF error # NoError THEN "error" ELSE error
  /\ end' = TRUE
  /\ rejected' = TRUE

(* An event that handle() drops, or that the table ignores. *)
Pass(type, v) ==
  /\ ~current(v) \/ <<status, type>> \in Ignored
  /\ UNCHANGED <<status, version, work, clients, monitors, orphans, end,
                 error, meta, stopped, rejected>>

(* An event with no arc in the current status. *)
Invalid(type, v) ==
  /\ current(v) /\ <<status, type>> \notin Arcs \cup Ignored
  /\ onError
  /\ UNCHANGED <<status, version, work, clients, monitors, orphans, meta,
                 stopped>>

(* Mutant: the cluster is complete when some role is. *)
RegisterNode_AnyRole(n, v) ==
  /\ current(v) /\ status = "INIT"
  /\ mCluster' = mCluster \cup {n}
  /\ IF \E r \in Roles : tasks(mCluster', r) = remainJobNum(mFinish, r)
     THEN sendEvent(Event("COMPLETE_CLUSTER", v)) ELSE UNCHANGED events
  /\ UNCHANGED <<status, version, work, clients, monitors, orphans, end,
                 error, mVersion, mStatus, mFinish, stopped, rejected>>

RegisterNode(n, v) ==
  /\ current(v) /\ status = "INIT"
  /\ mCluster' = mCluster \cup {n}
  /\ IF \A r \in Roles : tasks(mCluster', r) = remainJobNum(mFinish, r)
     THEN sendEvent(Event("COMPLETE_CLUSTER", v)) ELSE UNCHANGED events
  /\ UNCHANGED <<status, version, work, clients, monitors, orphans, end,
                 error, mVersion, mStatus, mFinish, stopped, rejected>>

(* Mutant: the job is finished when all nodes of some role are. *)
FinishNode_AnyRole(n, v) ==
  /\ current(v) /\ status = "RUNNING"
  /\ mFinish' = mFinish \cup {n}
  /\ IF \E r \in Roles : remainJobNum(mFinish', r) = 0
     THEN sendEvent(Event("FINISH_CLUSTER", v)) ELSE UNCHANGED events
  /\ UNCHANGED <<status, version, work, clients, monitors, orphans, end,
                 error, mVersion, mStatus, mCluster, stopped, rejected>>

FinishNode(n, v) ==
  /\ current(v) /\ status = "RUNNING"
  /\ mFinish' = mFinish \cup {n}
  /\ IF \A r \in Roles : remainJobNum(mFinish', r) = 0
     THEN sendEvent(Event("FINISH_CLUSTER", v)) ELSE UNCHANGED events
  /\ UNCHANGED <<status, version, work, clients, monitors, orphans, end,
                 error, mVersion, mStatus, mCluster, stopped, rejected>>

(* Mutant: RESTART_CLUSTER is queued only when the cluster was running. *)
FailNode_RunningOnly(type, v) ==
  /\ current(v) /\ <<status, type>> \in Arcs
  /\ type = "FAIL_NODE" \/ status = "RUNNING"
  /\ mStatus' = savedStatus("FAILOVER", "RUNNING")
  /\ IF status = "RUNNING" THEN sendEvent(Event("RESTART_CLUSTER", v))
     ELSE UNCHANGED events
  /\ IF full THEN onError /\ UNCHANGED status
     ELSE status' = "FAILOVER" /\ UNCHANGED <<end, error, rejected>>
  /\ UNCHANGED <<version, work, clients, monitors, orphans, mVersion, mCluster,
                 mFinish, stopped>>

(* FAIL_NODE, and REGISTER_NODE in a running cluster.  The stored status   *)
(* is expected to be RUNNING, also when the node fails in INIT.  If the    *)
(* queue is full the transition fails after it has saved the status.       *)
FailNode(type, v) ==
  /\ current(v) /\ <<status, type>> \in Arcs
  /\ type = "FAIL_NODE" \/ status = "RUNNING"
  /\ mStatus' = savedStatus("FAILOVER", "RUNNING")
  /\ sendEvent(Event("RESTART_CLUSTER", v))
  /\ IF full THEN onError /\ UNCHANGED status
     ELSE status' = "FAILOVER" /\ UNCHANGED <<end, error, rejected>>
  /\ UNCHANGED <<version, work, clients, monitors, orphans, mVersion, mCluster,
                 mFinish, stopped>>

(* The nodes of the client cache, whose clients are then called in turn. *)
Cached == {n \in Node : clients[n] # "none"}

StopBegin(kind) ==
  work' = [kind |-> kind, stage |-> "tell", todo |-> Cached, drop |-> Cached]

StopJob ==
  /\ <<status, "STOP_JOB">> \in Arcs
  /\ StopBegin("stop")
  /\ UNCHANGED <<status, version, clients, monitors, orphans, end, error, meta,
                 stopped, rejected>>

-----------------------------------------------------------------------------
(* The requests of the nodes. *)

Answers == {"OK", "VERSION_ERROR", "ERROR", "UNAVAILABLE"}

(* A node issues a request; it waits for the answer to one before the next. *)
Send(n, kind, v) ==
  /\ rpc[n].stage \in Answers \cup {"none"}
  /\ rpc' = [rpc EXCEPT ![n] = [kind |-> kind, ver |-> v,
                                stage |-> IF am = "up" THEN "sent" ELSE "UNAVAILABLE"]]

Answer(n, code) == rpc' = [rpc EXCEPT ![n].stage = code]

(* checkVersionError of registerNode, nodeFinish and registerFailNode. *)
CheckVersion(n) ==
  /\ am = "up" /\ rpc[n].stage = "sent"
  /\ Answer(n, IF rpc[n].ver # version THEN "VERSION_ERROR"
               ELSE IF rpc[n].kind = "fail" THEN "ready" ELSE "checked")
  /\ UNCHANGED <<am, memory, meta, history>>

(* A new monitor takes the place of the old one, which keeps running. *)
startHeartBeatMonitor(n, v) ==
  /\ monitors' = [monitors EXCEPT ![n] = v]
  /\ orphans' = IF monitors[n] = 0 THEN orphans
                ELSE orphans \cup {[node |-> n, ver |-> monitors[n]]}

(* registerNode replaces the client and the monitor of the node.  Once     *)
(* stopService has shut the executor down, the monitor cannot be started.  *)
CacheClient(n) ==
  /\ am = "up" /\ rpc[n].kind = "register" /\ rpc[n].stage = "checked"
  /\ clients' = [clients EXCEPT ![n] = "open"]
  /\ IF status = "FINISH"
     THEN /\ onError
          /\ Answer(n, "ERROR")
          /\ UNCHANGED <<monitors, orphans>>
     ELSE /\ startHeartBeatMonitor(n, rpc[n].ver)
          /\ Answer(n, "ready")
          /\ UNCHANGED <<end, error, rejected>>
  /\ UNCHANGED <<am, status, version, events, work, fired, meta, clock,
                 crashes, stopped>>

(* nodeFinish drops the client and the monitor of the node. *)
DropClient(n) ==
  /\ am = "up" /\ rpc[n].kind = "finish" /\ rpc[n].stage = "checked"
  /\ clients' = [clients EXCEPT ![n] = "none"]
  /\ monitors' = [monitors EXCEPT ![n] = 0]
  /\ Answer(n, "ready")
  /\ UNCHANGED <<am, status, version, events, work, orphans, fired, end,
                 error, meta, history>>

(* The last part of a handler: handle() with the event of the request. *)
EventType(kind) ==
  CASE kind = "register" -> "REGISTER_NODE"
    [] kind = "finish" -> "FINISH_NODE"
    [] kind = "fail" -> "FAIL_NODE"

HandleRequest(n) ==
  LET kind == rpc[n].kind
      v == rpc[n].ver
      type == EventType(kind)
  IN  /\ am = "up" /\ ~locked /\ rpc[n].stage = "ready"
      /\ \/ Pass(type, v) /\ Answer(n, "OK") /\ UNCHANGED events
         \/ Invalid(type, v) /\ Answer(n, "ERROR") /\ UNCHANGED events
         \/ kind = "register" /\ RegisterNode(n, v) /\ Answer(n, "OK")
         \/ kind = "finish" /\ FinishNode(n, v) /\ Answer(n, "OK")
         \/ kind \in {"register", "fail"} /\ FailNode(type, v)
            /\ Answer(n, IF full THEN "ERROR" ELSE "OK")
      /\ UNCHANGED <<am, fired, clock, crashes>>

(* stopAllWorker answers at once, then handles STOP_JOB with version 0. *)
StopAllWorker ==
  /\ am = "up" /\ ~locked
  /\ Pass("STOP_JOB", 0) \/ StopJob
  /\ UNCHANGED <<am, events, fired, rpc, clock, crashes>>

-----------------------------------------------------------------------------
(* The heartbeat monitors. *)

MonitorFires(n) ==
  /\ am = "up" /\ status # "FINISH" /\ monitors[n] # 0
  /\ fired' = fired \cup {[node |-> n, ver |-> monitors[n]]}
  /\ monitors' = [monitors EXCEPT ![n] = 0]
  /\ UNCHANGED <<am, status, version, events, work, clients, orphans, end,
                 error, meta, rpc, history>>

OrphanFires(m) ==
  /\ am = "up" /\ status # "FINISH"
  /\ fired' = fired \cup {m}
  /\ orphans' = orphans \ {m}
  /\ UNCHANGED <<am, status, version, events, work, clients, monitors, end,
                 error, meta, rpc, history>>

(* notifyHeartbeatTimeout: FAIL_NODE with the version of the monitor. *)
HandleTimeout(m) ==
  /\ am = "up" /\ ~locked
  /\ fired' = fired \ {m}
  /\ \/ Pass("FAIL_NODE", m.ver) /\ UNCHANGED events
     \/ Invalid("FAIL_NODE", m.ver) /\ UNCHANGED events
     \/ FailNode("FAIL_NODE", m.ver)
  /\ UNCHANGED <<am, rpc, clock, crashes>>

-----------------------------------------------------------------------------
(* The event handler thread. *)

Take(type) ==
  /\ am = "up" /\ ~locked
  /\ events # <<>> /\ Head(events).type = type
  /\ events' = Tail(events)

(* An event that is dropped, ignored or invalid. *)
SkipEvent ==
  /\ events # <<>> /\ Take(Head(events).type)
  /\ \/ Pass(Head(events).type, Head(events).ver)
     \/ Invalid(Head(events).type, Head(events).ver)
  /\ UNCHANGED <<am, fired, rpc, clock, crashes>>

CompleteCluster ==
  /\ Take("COMPLETE_CLUSTER") /\ current(Head(events).ver)
  /\ status = "INIT" /\ status' = "RUNNING"
  /\ mStatus' = savedStatus("RUNNING", "INIT")
  /\ UNCHANGED <<am, version, work, clients, monitors, orphans, fired, end,
                 error, mVersion, mCluster, mFinish, rpc, history>>

FinishCluster ==
  /\ Take("FINISH_CLUSTER") /\ current(Head(events).ver)
  /\ status = "RUNNING"
  /\ StopBegin("finish")
  /\ UNCHANGED <<am, status, version, clients, monitors, orphans, fired, end,
                 error, meta, rpc, history>>

(* restartAllNodes: a new version, drawn from the clock and kept in memory. *)
RestartCluster ==
  /\ Take("RESTART_CLUSTER") /\ current(Head(events).ver)
  /\ status = "FAILOVER" /\ clock < MaxVersion
  /\ clock' = clock + 1 /\ version' = clock'
  /\ work' = [kind |-> "restart", stage |-> "tell",
              todo |-> Cached, drop |-> Cached]
  /\ UNCHANGED <<am, status, clients, monitors, orphans, fired, end, error,
                 meta, rpc, crashes, stopped, rejected>>

(* One node is sent the restart or stop call; a call that fails is logged. *)
TellNode(n) ==
  /\ am = "up" /\ work.stage = "tell" /\ n \in work.todo
  /\ work' = [work EXCEPT !.todo = @ \ {n}]
  /\ UNCHANGED <<am, status, version, events, clients, monitors, orphans,
                 fired, end, error, meta, rpc, history>>

(* All clients are closed; those that were told, and their monitors, go. *)
RestartDrop ==
  /\ am = "up" /\ work.kind = "restart" /\ work.stage = "tell" /\ work.todo = {}
  /\ clients' = [n \in Node |-> IF n \in work.drop \/ clients[n] = "none"
                                THEN "none" ELSE "closed"]
  /\ monitors' = [n \in Node |-> IF n \in work.drop THEN 0 ELSE monitors[n]]
  /\ work' = [work EXCEPT !.stage = "clean"]
  /\ UNCHANGED <<am, status, version, events, orphans, fired, end, error,
                 meta, rpc, history>>

CleanCluster ==
  /\ am = "up" /\ work.stage = "clean"
  /\ mCluster' = {}
  /\ work' = [work EXCEPT !.stage = "save"]
  /\ UNCHANGED <<am, status, version, events, clients, monitors, orphans,
                 fired, end, error, mVersion, mStatus, mFinish, rpc, history>>

RestartSave ==
  /\ am = "up" /\ work.stage = "save"
  /\ mStatus' = savedStatus("INIT", "FAILOVER")
  /\ status' = "INIT"
  /\ work' = NoWork
  /\ UNCHANGED <<am, version, events, clients, monitors, orphans, fired, end,
                 error, mVersion, mCluster, mFinish, rpc, history>>

(* The end of stopAllNodes, which leaves the cache alone if it was empty,  *)
(* the stored status and stopService.                                      *)
StopSave ==
  /\ am = "up" /\ work.kind \in {"stop", "finish"} /\ work.todo = {}
  /\ clients' = IF work.drop = {} THEN clients ELSE [n \in Node |-> "none"]
  /\ monitors' = [n \in Node |-> 0]
  /\ orphans' = {}
  /\ mStatus' = savedStatus("FINISH",
                            IF work.kind = "stop" THEN status ELSE "RUNNING")
  /\ status' = "FINISH"
  /\ end' = TRUE
  /\ stopped' = (stopped \/ work.kind = "stop")
  /\ work' = NoWork
  /\ UNCHANGED <<am, version, events, fired, error, mVersion, mCluster,
                 mFinish, rpc, clock, crashes, rejected>>

-----------------------------------------------------------------------------
(* The AM task. *)

lostRequests ==
  [n \in Node |-> IF rpc[n].stage \in {"sent", "checked", "ready"}
                  THEN [rpc[n] EXCEPT !.stage = "UNAVAILABLE"] ELSE rpc[n]]

lostMemory ==
  /\ status' = "UNKNOW" /\ version' = 0 /\ events' = <<>> /\ work' = NoWork
  /\ clients' = [n \in Node |-> "none"] /\ monitors' = [n \in Node |-> 0]
  /\ orphans' = {} /\ fired' = {}
  /\ end' = FALSE /\ error' = NoError
  /\ rpc' = lostRequests

Crash ==
  /\ am = "up" /\ crashes < MaxCrash
  /\ am' = "down" /\ crashes' = crashes + 1
  /\ lostMemory
  /\ UNCHANGED <<meta, clock, stopped, rejected>>

(* run() leaves its loop, throws if there is an error, and cleans up. *)
Exit ==
  /\ am = "up" /\ end
  /\ am' = IF error # NoError THEN "failed" ELSE "finished"
  /\ lostMemory
  /\ UNCHANGED <<meta, history>>

(* A new AM task: INTI_AM_STATE with the metadata of its predecessor. *)
InitAmState ==
  /\ am \in {"down", "failed"} /\ am' = "up"
  /\ mVersion = 0 => clock < MaxVersion
  /\ clock' = IF mVersion = 0 THEN clock + 1 ELSE clock
  /\ version' = IF mVersion = 0 THEN clock' ELSE mVersion
  /\ mVersion' = version'
  /\ status' = IF mStatus = "UNKNOW" THEN "INIT" ELSE mStatus
  /\ mStatus' = status'
  /\ events' = IF mStatus = "FAILOVER"
               THEN <<Event("RESTART_CLUSTER", version')>> ELSE <<>>
  /\ end' = (mStatus = "FINISH")
  /\ LET live == IF mStatus \in {"INIT", "RUNNING"}
                 THEN mCluster \ mFinish ELSE {}
     IN  /\ clients' = [n \in Node |-> IF n \in live THEN "open" ELSE "none"]
         /\ monitors' = [n \in Node |-> IF n \in live THEN version' ELSE 0]
  /\ UNCHANGED <<work, orphans, fired, error, mCluster, mFinish, rpc, crashes,
                 stopped, rejected>>

-----------------------------------------------------------------------------

AMInit ==
  /\ am = "down"
  /\ status = "UNKNOW" /\ version = 0 /\ events = <<>> /\ work = NoWork
  /\ clients = [n \in Node |-> "none"] /\ monitors = [n \in Node |-> 0]
  /\ orphans = {} /\ fired = {} /\ end = FALSE /\ error = NoError
  /\ mVersion = 0 /\ mStatus = "UNKNOW" /\ mCluster = {} /\ mFinish = {}
  /\ rpc = [n \in Node |-> NoRpc]
  /\ clock = 0 /\ crashes = 0 /\ stopped = FALSE /\ rejected = FALSE

EventStep ==
  \/ SkipEvent \/ CompleteCluster \/ FinishCluster \/ RestartCluster
  \/ RestartDrop \/ CleanCluster \/ RestartSave \/ StopSave

RequestStep(n) ==
  CheckVersion(n) \/ CacheClient(n) \/ DropClient(n) \/ HandleRequest(n)

(* What the AM does, whatever its clients do. *)
AMStep ==
  \/ EventStep
  \/ \E n \in Node : TellNode(n) \/ RequestStep(n) \/ MonitorFires(n)
  \/ \E m \in orphans : OrphanFires(m)
  \/ \E m \in fired : HandleTimeout(m)
  \/ Crash \/ Exit \/ InitAmState

AnyRequest ==
  /\ \E n \in Node, kind \in Kinds, v \in 1..clock : Send(n, kind, v)
  /\ UNCHANGED <<am, memory, meta, history>>

Next == AMStep \/ StopAllWorker \/ AnyRequest

Spec == AMInit /\ [][Next]_amVars

-----------------------------------------------------------------------------
(* Properties. *)

QueuedEvent ==
  [type : {"COMPLETE_CLUSTER", "RESTART_CLUSTER", "FINISH_CLUSTER"},
   ver : 1..clock]
Work ==
  [kind : {"none", "restart", "stop", "finish"},
   stage : {"none", "tell", "clean", "save"},
   todo : SUBSET Node, drop : SUBSET Node]
Monitor == [node : Node, ver : 1..clock]
Request ==
  [kind : Kinds, ver : 1..clock,
   stage : Answers \cup {"sent", "checked", "ready"}]

(* The state of the AM, its storage and the requests are well formed, and   *)
(* every queued event carries a version that the cluster has had.           *)
TypeOK ==
  /\ am \in {"down", "up", "finished", "failed"}
  /\ clock \in 0..MaxVersion /\ crashes \in 0..MaxCrash
  /\ stopped \in BOOLEAN /\ rejected \in BOOLEAN
  /\ status \in Status
  /\ version \in 0..clock
  /\ events \in Seq(QueuedEvent)
  /\ work \in Work /\ work.todo \subseteq work.drop
  /\ clients \in [Node -> {"none", "open", "closed"}]
  /\ monitors \in [Node -> 0..clock]
  /\ orphans \subseteq Monitor /\ fired \subseteq Monitor
  /\ end \in BOOLEAN /\ error \in {NoError, "error"}
  /\ mVersion \in 0..clock /\ mStatus \in Status
  /\ mCluster \subseteq Node /\ mFinish \subseteq Node
  /\ rpc \in [Node -> {NoRpc} \cup Request]

(* The queued RESTART_CLUSTER events of the current version. *)
Restarts ==
  {i \in DOMAIN events : events[i] = Event("RESTART_CLUSTER", version)}

(* However many nodes fail, register again or time out, a failover has      *)
(* exactly one RESTART_CLUSTER event of the current version until the       *)
(* restart begins, and no such event exists outside a failover (FailNode,   *)
(* the ignored events of AM_FAILOVER, RestartCluster and the recovery in    *)
(* InitAmState): each worker is restarted only once.                        *)
FailoverIsRestartedOnce ==
  (am = "up" /\ status # "FINISH") =>
    Cardinality(Restarts) =
      IF status = "FAILOVER" /\ work.kind # "restart" THEN 1 ELSE 0

(* The stored status is FINISH, or the AM task ends without an error, only  *)
(* if every node reported that it finished, unless the job was stopped      *)
(* (FinishNode, FinishCluster, StopJob, and the AM after a crash).          *)
FinishMeansAllFinished ==
  (mStatus = "FINISH" \/ (am = "finished" /\ ~rejected)) /\ ~stopped
    => mFinish = Node

(* While the cluster is RUNNING every node has registered for it or has     *)
(* finished before (RegisterNode, CompleteCluster, cleanCluster in          *)
(* restartAllNodes, and the recovery in InitAmState).                       *)
RunningIsComplete ==
  (am = "up" /\ status = "RUNNING") => mCluster \cup mFinish = Node
=============================================================================
