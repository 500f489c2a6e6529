-------------------------- MODULE MLClusterProofs --------------------------
(***************************************************************************)
(* Proofs about the AM and the cluster, for any nodes and roles, any       *)
(* capacity of the event queue, any kinds and numbers of faults and any    *)
(* bounds.  Of the AM: type correctness, the job is not declared finished  *)
(* before every node has finished, and a failover is restarted once.  Of   *)
(* the cluster: it implements the AM, so that what is proved of the AM     *)
(* holds with the nodes.                                                   *)
(***************************************************************************)
EXTENDS MLCluster, FiniteSetTheorems, TLAPS

USE NodeAssumption, BoundAssumption

-----------------------------------------------------------------------------
(* What a step leaves of the state of the nodes. *)

(* The AM has a version whenever it is up. *)
VersionOK == am = "up" => version # 0

(* A runner that has been connected to an AM has a version of the cluster. *)
RunnerHasVersion ==
  \A n \in Node : pc[n] \notin {"connect", "ended"} => ver[n] # 0

(* The nodes, and the versions that they send to the AM. *)
NodesInv ==
  /\ NodesTypeOK /\ inc \in [Node -> Nat]
  /\ addr \in [Node -> Nat] /\ mAddr \in [Node -> Nat]
  /\ VersionOK /\ RunnerHasVersion

LEMMA ClockType ==
  /\ TypeOK => clock \in Nat
  /\ TypeOK' => clock' \in Nat
BY DEF TypeOK

LEMMA DrawnVersion ==
  ASSUME NEW c \in Nat, NEW v \in 0..c, v # 0
  PROVE  v \in 1..c
OBVIOUS

(* A step of a runner. *)
LEMMA RunnerNodes ==
  ASSUME TypeOK, NodesInv, clock' \in Nat, clock <= clock', VersionOK',
         NEW n \in Node, RunnerStep(n) \/ RunnerFails(n)
  PROVE  NodesInv'
<1> USE DEF NodesInv, NodesTypeOK, RunnerHasVersion, running, Goto,
            addresses, commands, Finally
<1>0. clock \in Nat /\ version \in 0..clock /\ (am = "up" => version # 0)
      /\ mCluster \cup mFinish \subseteq Node
  BY DEF TypeOK, VersionOK
<1>1. CASE InitAMClient(n)
  BY <1>0, <1>1 DEF InitAMClient
<1>2. CASE GetAMStatus(n)
  BY <1>0, <1>2 DEF GetAMStatus
<1>3. CASE GetCurrentJobVersion(n)
  BY <1>0, <1>3 DEF GetCurrentJobVersion
<1>4. CASE DoRegister(n) \/ NotifyAm(n)
  BY <1>0, <1>4 DEF DoRegister, NotifyAm
<1>5. CASE Registered(n)
  BY <1>0, <1>5 DEF Registered
<1>6. CASE WaitClusterRunning(n) \/ GetClusterInfo(n)
  BY <1>0, <1>6 DEF WaitClusterRunning, GetClusterInfo
<1>7. CASE ReadClusterDef(n)
  BY <1>0, <1>7 DEF ReadClusterDef
<1>8. CASE ScriptEnds(n)
  BY <1>0, <1>8, FaultAssumption DEF ScriptEnds, Fault
<1>9. CASE Notified(n)
  BY <1>0, <1>9 DEF Notified
<1>10. CASE RunnerFails(n)
  BY <1>0, <1>10, FaultAssumption DEF RunnerFails, Fault
<1> QED BY <1>1, <1>2, <1>3, <1>4, <1>5, <1>6, <1>7, <1>8, <1>9, <1>10, Zenon
        DEF RunnerStep


(* A step of a NodeServer, of its service or of its heartbeat thread. *)
LEMMA ServerNodes ==
  ASSUME TypeOK, NodesInv, clock' \in Nat, clock <= clock', VersionOK',
         NEW n \in Node,
         ServerStep(n) \/ TaskFails(n) \/ NodeRestart(n) \/ HeartBeatRejected(n)
  PROVE  NodesInv'
<1> USE FaultAssumption DEF NodesInv, NodesTypeOK, RunnerHasVersion, running,
        Goto, addresses, commands, runner, Runner, Fault
<1>0. clock \in Nat
  BY DEF TypeOK
<1>1. CASE RestartRunner(n)
  BY <1>0, <1>1 DEF RestartRunner
<1>2. CASE ClearCommand(n)
  BY <1>0, <1>2 DEF ClearCommand
<1>3. CASE StopServer(n)
  BY <1>0, <1>3 DEF StopServer
<1>4. CASE FlinkRestarts(n)
  BY <1>0, <1>4 DEF FlinkRestarts
<1>5. CASE TaskFails(n)
  BY <1>0, <1>5 DEF TaskFails
<1>6. CASE NodeRestart(n)
  BY <1>0, <1>6 DEF NodeRestart
<1>7. CASE HeartBeatRejected(n)
  BY <1>0, <1>7 DEF HeartBeatRejected
<1> QED BY <1>1, <1>2, <1>3, <1>4, <1>5, <1>6, <1>7, Zenon DEF ServerStep

(* A step of the AM. *)
LEMMA AMNodes ==
  ASSUME TypeOK, NodesInv, clock' \in Nat, clock <= clock', VersionOK',
         \/ AMInternal \/ AMFault
         \/ \E n \in Node : \/ CallNode(n) \/ LateRestart(n)
                            \/ MonitorTimeout(n) \/ ScriptStopsJob(n)
  PROVE  NodesInv'
<1> USE FaultAssumption DEF NodesInv, NodesTypeOK, RunnerHasVersion, running,
        addresses, commands, runner, Fault
<1>0. clock \in Nat
  BY DEF TypeOK
<1>1. CASE AMInternal
  <2>1. /\ UNCHANGED <<task, commands, runner, faults, inc>>
        /\ \/ UNCHANGED <<addr, mAddr>>
           \/ \E n \in Node : addr' = [addr EXCEPT ![n] = inc[n]]
                              /\ UNCHANGED mAddr
           \/ \E n \in Node :
                /\ mAddr' = [mAddr EXCEPT ![n] =
                     IF rpc[n].kind = "register" /\ n \in mCluster' THEN inc[n]
                     ELSE @]
                /\ UNCHANGED addr
           \/ addr' = mAddr /\ UNCHANGED mAddr
    BY <1>1, Zenon DEF AMInternal, HandlerStep
  <2> QED BY <1>0, <2>1
<1>2. CASE AMFault
  BY <1>0, <1>2 DEF AMFault, nodeVars
<1>3. ASSUME NEW n \in Node, CallNode(n) \/ LateRestart(n) PROVE NodesInv'
  BY <1>0, <1>3 DEF CallNode, LateRestart, reachable
<1>4. ASSUME NEW n \in Node, MonitorTimeout(n) \/ ScriptStopsJob(n)
      PROVE  NodesInv'
  BY <1>0, <1>4 DEF MonitorTimeout, ScriptStopsJob
<1> QED BY <1>1, <1>2, <1>3, <1>4, Zenon

-----------------------------------------------------------------------------
(* Type correctness: a lemma for each transition, and for the steps of      *)
(* requests, monitors, the event handler and the task.                      *)

(* Queueing an event keeps the queue well typed. *)
LEMMA SendType ==
  ASSUME NEW E, events \in Seq(E), NEW e \in E, sendEvent(e)
  PROVE  events' \in Seq(E)
BY DEF sendEvent

LEMMA TailType ==
  ASSUME NEW E, NEW s \in Seq(E), s # <<>>
  PROVE  Tail(s) \in Seq(E) /\ Head(s) \in E
OBVIOUS

(* A transition that an event or a request with a version causes. *)
TransitionTyped ==
  /\ status' \in Status /\ version' \in 0..clock
  /\ work' \in Work /\ work'.todo \subseteq work'.drop
  /\ clients' \in [Node -> {"none", "open", "closed"}]
  /\ monitors' \in [Node -> 0..clock] /\ orphans' \subseteq Monitor
  /\ end' \in BOOLEAN /\ error' \in {NoError, "error"}
  /\ mVersion' \in 0..clock /\ mStatus' \in Status
  /\ mCluster' \subseteq Node /\ mFinish' \subseteq Node
  /\ stopped' \in BOOLEAN /\ rejected' \in BOOLEAN

LEMMA PassType ==
  ASSUME TypeOK, NEW t, NEW v, Pass(t, v)
  PROVE  TransitionTyped
BY Zenon DEF TypeOK, Pass, TransitionTyped, meta

LEMMA InvalidType ==
  ASSUME TypeOK, NEW t, NEW v, Invalid(t, v)
  PROVE  TransitionTyped
BY Zenon DEF TypeOK, Invalid, onError, TransitionTyped, meta, NoError

LEMMA RegisterNodeType ==
  ASSUME TypeOK, NEW n \in Node, NEW v \in 1..clock, RegisterNode(n, v)
  PROVE  TransitionTyped /\ events' \in Seq(QueuedEvent)
<1>1. TransitionTyped
  BY Zenon DEF TypeOK, RegisterNode, TransitionTyped
<1>2. Event("COMPLETE_CLUSTER", v) \in QueuedEvent
  BY Zenon DEF Event, QueuedEvent
<1>3. events' \in Seq(QueuedEvent)
  BY <1>2, SendType, Zenon DEF TypeOK, RegisterNode
<1> QED BY <1>1, <1>3, Zenon

LEMMA FinishNodeType ==
  ASSUME TypeOK, NEW n \in Node, NEW v \in 1..clock, FinishNode(n, v)
  PROVE  TransitionTyped /\ events' \in Seq(QueuedEvent)
<1>1. TransitionTyped
  BY Zenon DEF TypeOK, FinishNode, TransitionTyped
<1>2. Event("FINISH_CLUSTER", v) \in QueuedEvent
  BY Zenon DEF Event, QueuedEvent
<1>3. events' \in Seq(QueuedEvent)
  BY <1>2, SendType, Zenon DEF TypeOK, FinishNode
<1> QED BY <1>1, <1>3, Zenon

LEMMA FailNodeType ==
  ASSUME TypeOK, NEW t, NEW v \in 1..clock, FailNode(t, v)
  PROVE  TransitionTyped /\ events' \in Seq(QueuedEvent)
<1>1. TransitionTyped
  BY Zenon DEF TypeOK, FailNode, savedStatus, onError, TransitionTyped, Status,
         NoError
<1>2. Event("RESTART_CLUSTER", v) \in QueuedEvent
  BY Zenon DEF Event, QueuedEvent
<1>3. events' \in Seq(QueuedEvent)
  BY <1>2, SendType, Zenon DEF TypeOK, FailNode
<1> QED BY <1>1, <1>3, Zenon

LEMMA StopBeginType ==
  ASSUME NEW k \in {"stop", "finish", "restart"}, StopBegin(k)
  PROVE  work' \in Work /\ work'.todo \subseteq work'.drop
BY Zenon DEF StopBegin, Work, Cached

LEMMA StopJobType ==
  ASSUME TypeOK, StopJob
  PROVE  TransitionTyped
BY StopBeginType, Zenon DEF TypeOK, StopJob, TransitionTyped, meta

LEMMA AnswerType ==
  ASSUME TypeOK, NEW n \in Node, rpc[n].stage # "none",
         NEW c \in Answers \cup {"sent", "checked", "ready"}, Answer(n, c)
  PROVE  rpc' \in [Node -> {NoRpc} \cup Request]
<1>1. rpc[n] \in Request
  BY DEF TypeOK, NoRpc
<1>2. [rpc[n] EXCEPT !.stage = c] \in Request
  BY <1>1, Zenon DEF Request
<1> QED BY <1>2, Zenon DEF TypeOK, Answer

(* A step that draws no new version. *)
LEMMA Assemble ==
  ASSUME TypeOK, clock' = clock, TransitionTyped,
         am' \in {"down", "up", "finished", "failed"},
         crashes' \in 0..MaxCrash,
         events' \in Seq(QueuedEvent), fired' \subseteq Monitor,
         rpc' \in [Node -> {NoRpc} \cup Request]
  PROVE  TypeOK'
<1>1. QueuedEvent' = QueuedEvent /\ Monitor' = Monitor /\ Request' = Request
      /\ Work' = Work /\ NoRpc' = NoRpc
  BY Zenon DEF QueuedEvent, Monitor, Request, Work, NoRpc
<1> QED BY <1>1, Zenon DEF TypeOK, TransitionTyped

(* A handler takes its transition with a version the node was given. *)
LEMMA RequestReady ==
  ASSUME TypeOK, NEW n \in Node, HandleRequest(n)
  PROVE  /\ rpc[n] \in Request /\ rpc[n].ver \in 1..clock
         /\ am = "up" /\ am' = am /\ ~locked
<1>1. rpc[n].stage = "ready" /\ am = "up" /\ am' = am /\ ~locked
  BY Zenon DEF HandleRequest
<1>2. rpc[n] \in {NoRpc} \cup Request
  BY Zenon DEF TypeOK
<1>3. rpc[n] # NoRpc
  BY <1>1 DEF NoRpc
<1>4. rpc[n] \in Request
  BY <1>2, <1>3, Zenon
<1>5. rpc[n].ver \in 1..clock
  BY <1>4, Zenon DEF Request
<1> QED BY <1>1, <1>4, <1>5, Zenon

LEMMA HandleRequestType ==
  ASSUME TypeOK, NEW n \in Node, HandleRequest(n)
  PROVE  TypeOK'
<1> DEFINE v == rpc[n].ver
<1>1. /\ rpc[n] \in Request /\ v \in 1..clock
      /\ "OK" \in Answers /\ "ERROR" \in Answers
  BY RequestReady, Zenon DEF Answers
<1>2. /\ am' = am /\ fired' = fired /\ clock' = clock /\ crashes' = crashes
  BY Zenon DEF HandleRequest
<1>3. rpc' \in [Node -> {NoRpc} \cup Request]
  BY <1>1, AnswerType, Zenon DEF HandleRequest
<1>4. TransitionTyped /\ events' \in Seq(QueuedEvent)
  <2>1. CASE Pass(EventType(rpc[n].kind), v) /\ UNCHANGED events
    BY <2>1, PassType, Zenon DEF TypeOK
  <2>2. CASE Invalid(EventType(rpc[n].kind), v) /\ UNCHANGED events
    BY <2>2, InvalidType, Zenon DEF TypeOK
  <2>3. CASE RegisterNode(n, v)
    BY <1>1, <2>3, RegisterNodeType, Zenon
  <2>4. CASE FinishNode(n, v)
    BY <1>1, <2>4, FinishNodeType, Zenon
  <2>5. CASE FailNode(EventType(rpc[n].kind), v)
    BY <1>1, <2>5, FailNodeType, Zenon
  <2> QED BY <2>1, <2>2, <2>3, <2>4, <2>5, Zenon DEF HandleRequest
<1> QED BY <1>2, <1>3, <1>4, Assemble, Zenon DEF TypeOK

LEMMA HandleTimeoutType ==
  ASSUME TypeOK, NEW m \in fired, HandleTimeout(m)
  PROVE  TypeOK'
<1>1. m.ver \in 1..clock
  BY Zenon DEF TypeOK, Monitor
<1>2. TransitionTyped /\ events' \in Seq(QueuedEvent)
  <2>1. CASE Pass("FAIL_NODE", m.ver) /\ UNCHANGED events
    BY <2>1, PassType, Zenon DEF TypeOK
  <2>2. CASE Invalid("FAIL_NODE", m.ver) /\ UNCHANGED events
    BY <2>2, InvalidType, Zenon DEF TypeOK
  <2>3. CASE FailNode("FAIL_NODE", m.ver)
    BY <1>1, <2>3, FailNodeType, Zenon
  <2> QED BY <2>1, <2>2, <2>3, Zenon DEF HandleTimeout
<1>3. /\ am' = am /\ rpc' = rpc /\ clock' = clock /\ crashes' = crashes
      /\ fired' \subseteq fired
  BY Zenon DEF HandleTimeout
<1> QED BY <1>2, <1>3, Assemble, Zenon DEF TypeOK

(* The steps of a request before its transition. *)
LEMMA RequestType ==
  ASSUME TypeOK, NEW n \in Node,
         CheckVersion(n) \/ CacheClient(n) \/ DropClient(n)
  PROVE  TypeOK'
<1>1. rpc[n].stage # "none" /\ rpc[n] \in Request /\ rpc[n].ver \in 1..clock
  BY DEF CheckVersion, CacheClient, DropClient, TypeOK, NoRpc, Request
<1>2. rpc' \in [Node -> {NoRpc} \cup Request]
  BY <1>1, AnswerType, Zenon DEF CheckVersion, CacheClient, DropClient, Answers
<1>3. /\ am' = am /\ fired' = fired /\ clock' = clock /\ crashes' = crashes
      /\ events' = events
  BY Zenon DEF CheckVersion, CacheClient, DropClient, memory, history
<1>4. TransitionTyped
  <2>1. CASE CheckVersion(n)
    BY <2>1, Zenon DEF CheckVersion, TypeOK, TransitionTyped, memory, meta, history
  <2>2. CASE CacheClient(n)
    <3>1. monitors' \in [Node -> 0..clock] /\ orphans' \subseteq Monitor
      <4>1. CASE status = "FINISH"
        BY <2>2, <4>1, Zenon DEF CacheClient, TypeOK
      <4>2. CASE status # "FINISH"
        <5>1. startHeartBeatMonitor(n, rpc[n].ver)
          BY <2>2, <4>2, Zenon DEF CacheClient
        <5>2. monitors[n] # 0 => [node |-> n, ver |-> monitors[n]] \in Monitor
          BY SMTT(40) DEF TypeOK, Monitor
        <5> QED BY <1>1, <5>1, <5>2, SMTT(40) DEF startHeartBeatMonitor, TypeOK
      <4> QED BY <4>1, <4>2, Zenon
    <3> QED BY <2>2, <3>1, Zenon DEF CacheClient, onError, TypeOK, TransitionTyped,
                              meta, NoError
  <2>3. CASE DropClient(n)
    BY <2>3 DEF DropClient, TypeOK, TransitionTyped, meta, history
  <2> QED BY <2>1, <2>2, <2>3, Zenon
<1> QED BY <1>2, <1>3, <1>4, Assemble, Zenon DEF TypeOK

LEMMA StopAllWorkerType ==
  ASSUME TypeOK, StopAllWorker
  PROVE  TypeOK'
<1>1. TransitionTyped
  BY PassType, StopJobType, Zenon DEF StopAllWorker
<1>2. UNCHANGED <<am, events, fired, rpc, clock, crashes>>
  BY Zenon DEF StopAllWorker
<1> QED BY <1>1, <1>2, Assemble, Zenon DEF TypeOK

LEMMA MonitorType ==
  ASSUME TypeOK,
         \/ \E n \in Node : MonitorFires(n)
         \/ \E m \in orphans : OrphanFires(m)
  PROVE  TypeOK'
<1>1. CASE \E n \in Node : MonitorFires(n)
  <2>1. PICK n \in Node : MonitorFires(n)
    BY <1>1, Zenon
  <2>2. [node |-> n, ver |-> monitors[n]] \in Monitor
    BY <2>1 DEF MonitorFires, TypeOK, Monitor
  <2>3. TransitionTyped
    BY <2>1 DEF MonitorFires, TypeOK, TransitionTyped, meta, history
  <2> QED BY <2>1, <2>2, <2>3, Assemble, Zenon DEF MonitorFires, TypeOK, history
<1>2. CASE \E m \in orphans : OrphanFires(m)
  <2>1. PICK m \in orphans : OrphanFires(m)
    BY <1>2, Zenon
  <2>2. TransitionTyped
    BY <2>1, Zenon DEF OrphanFires, TypeOK, TransitionTyped, meta, history
  <2> QED BY <2>1, <2>2, Assemble, Zenon DEF OrphanFires, TypeOK, history
<1> QED BY <1>1, <1>2, Zenon

(* The event handler thread, but for RestartCluster. *)
LEMMA EventStepType ==
  ASSUME TypeOK,
         \/ SkipEvent \/ CompleteCluster \/ FinishCluster \/ RestartDrop
         \/ CleanCluster \/ RestartSave \/ StopSave
         \/ \E n \in Node : TellNode(n)
  PROVE  TypeOK'
<1>1. UNCHANGED <<am, fired, rpc, clock, crashes>>
  BY Zenon DEF SkipEvent, CompleteCluster, FinishCluster, RestartDrop, CleanCluster,
         RestartSave, StopSave, TellNode, history
<1>2. events' \in Seq(QueuedEvent)
  <2>1. events' = events \/ (events # <<>> /\ events' = Tail(events))
    BY Zenon DEF SkipEvent, CompleteCluster, FinishCluster, RestartDrop,
       CleanCluster, RestartSave, StopSave, TellNode, Take
  <2>2. events \in Seq(QueuedEvent)
    BY Zenon DEF TypeOK
  <2>3. events # <<>> => Tail(events) \in Seq(QueuedEvent)
    BY <2>2, TailType, Zenon
  <2> QED BY <2>1, <2>2, <2>3, Zenon
<1>3. TransitionTyped
  <2>1. CASE SkipEvent
    BY <2>1, PassType, InvalidType, Zenon DEF SkipEvent
  <2>2. CASE CompleteCluster
    BY <2>2, Zenon DEF CompleteCluster, savedStatus, TypeOK, TransitionTyped, Status,
                history
  <2>3. CASE FinishCluster
    BY <2>3, StopBeginType, Zenon DEF FinishCluster, TypeOK, TransitionTyped, meta,
                               history
  <2>4. CASE RestartDrop
    <3>1. work' \in Work /\ work'.todo \subseteq work'.drop
      BY <2>4, Zenon DEF RestartDrop, TypeOK, Work
    <3> QED BY <2>4, <3>1 DEF RestartDrop, TypeOK, TransitionTyped, meta,
                              history
  <2>5. CASE CleanCluster
    <3>1. work' \in Work /\ work'.todo \subseteq work'.drop
      BY <2>5, ZenonT(40) DEF CleanCluster, TypeOK, Work
    <3> QED BY <2>5, <3>1, Zenon DEF CleanCluster, TypeOK, TransitionTyped, history
  <2>6. CASE RestartSave
    <3>1. work' \in Work /\ work'.todo \subseteq work'.drop
      BY <2>6, Zenon DEF RestartSave, NoWork, Work
    <3> QED BY <2>6, <3>1, Zenon DEF RestartSave, savedStatus, TypeOK,
                              TransitionTyped, Status, history
  <2>7. CASE StopSave
    <3>1. work' \in Work /\ work'.todo \subseteq work'.drop
      BY <2>7, Zenon DEF StopSave, NoWork, Work
    <3>2. stopped' \in BOOLEAN /\ end' \in BOOLEAN
      BY <2>7, Zenon DEF StopSave, TypeOK
    <3>3. mStatus' \in Status /\ status' \in Status
      BY <2>7, Zenon DEF StopSave, savedStatus, TypeOK, Status
    <3>4. clients' \in [Node -> {"none", "open", "closed"}]
      BY <2>7, Zenon DEF StopSave, TypeOK
    <3>5. monitors' \in [Node -> 0..clock]
      <4>1. 0 \in 0..clock
        BY ClockType
      <4> QED BY <2>7, <4>1, Zenon DEF StopSave, TypeOK
    <3> QED BY <2>7, <3>1, <3>2, <3>3, <3>4, <3>5, Zenon
            DEF StopSave, TypeOK, TransitionTyped
  <2>8. CASE \E n \in Node : TellNode(n)
    <3>1. PICK n \in Node : TellNode(n)
      BY <2>8, Zenon
    <3>2. work' = [work EXCEPT !.todo = work.todo \ {n}]
      BY <3>1, Zenon DEF TellNode
    <3>3. work' \in Work /\ work'.todo \subseteq work'.drop
      BY <3>2, Zenon DEF TypeOK, Work
    <3> QED BY <3>1, <3>3, Zenon DEF TellNode, TypeOK, TransitionTyped, meta, history
  <2> QED BY <2>1, <2>2, <2>3, <2>4, <2>5, <2>6, <2>7, <2>8, Zenon
<1> QED BY <1>1, <1>2, <1>3, Assemble, Zenon DEF TypeOK

(* The types grow with the clock. *)
LEMMA ClockGrows ==
  ASSUME clock \in Nat, clock' \in Nat, clock <= clock'
  PROVE  /\ QueuedEvent \subseteq QueuedEvent' /\ Monitor \subseteq Monitor'
         /\ Request \subseteq Request' /\ Work' = Work
         /\ 0..clock \subseteq 0..clock'
         /\ Seq(QueuedEvent) \subseteq Seq(QueuedEvent')
<1>1. 0..clock \subseteq 0..clock' /\ 1..clock \subseteq 1..clock'
  OBVIOUS
<1>2. QueuedEvent \subseteq QueuedEvent'
  BY <1>1, Zenon DEF QueuedEvent
<1>3. Seq(QueuedEvent) \subseteq Seq(QueuedEvent')
  BY <1>2
<1> QED BY <1>1, <1>2, <1>3, Zenon DEF Monitor, Request, Work, Answers

LEMMA RestartClusterType ==
  ASSUME TypeOK, RestartCluster
  PROVE  TypeOK'
<1>1. /\ clock' = clock + 1 /\ clock' \in 0..MaxVersion /\ clock \in Nat
      /\ version' = clock'
  BY DEF RestartCluster, TypeOK
<1>2. clock' \in Nat /\ clock <= clock' /\ version' \in 0..clock'
  BY <1>1
<1>3. /\ QueuedEvent \subseteq QueuedEvent' /\ Monitor \subseteq Monitor'
      /\ Request \subseteq Request' /\ Work' = Work
      /\ 0..clock \subseteq 0..clock'
      /\ Seq(QueuedEvent) \subseteq Seq(QueuedEvent')
  BY <1>1, <1>2, ClockGrows, Zenon
<1>4. events' \in Seq(QueuedEvent')
  BY <1>3, TailType, Zenon DEF RestartCluster, Take, TypeOK
<1>5. work' \in Work' /\ work'.todo \subseteq work'.drop
  BY <1>3, Zenon DEF RestartCluster, Work, Cached
<1>6. /\ rpc' \in [Node -> {NoRpc'} \cup Request']
      /\ monitors' \in [Node -> 0..clock'] /\ mVersion' \in 0..clock'
      /\ orphans' \subseteq Monitor' /\ fired' \subseteq Monitor'
  BY <1>3, Zenon DEF RestartCluster, TypeOK, meta, NoRpc
<1> QED BY <1>1, <1>2, <1>4, <1>5, <1>6, Zenon
        DEF RestartCluster, TypeOK, meta, NoError, Status

LEMMA NoWorkType == NoWork \in Work /\ NoWork.todo \subseteq NoWork.drop
BY Zenon DEF NoWork, Work

LEMMA TaskType ==
  ASSUME TypeOK, Crash \/ Exit
  PROVE  TypeOK'
<1>1. lostMemory /\ UNCHANGED <<meta, clock, stopped, rejected>>
  BY Zenon DEF Crash, Exit, history
<1>2. rpc' \in [Node -> {NoRpc} \cup Request]
  <2>1. ASSUME NEW n \in Node, rpc[n].stage \in {"sent", "checked", "ready"}
        PROVE  [rpc[n] EXCEPT !.stage = "UNAVAILABLE"] \in Request
    <3>1. rpc[n] \in Request
      BY <2>1 DEF TypeOK, NoRpc
    <3> QED BY <3>1, Zenon DEF Request, Answers
  <2> QED BY <1>1, <2>1, Zenon DEF lostMemory, lostRequests, TypeOK
<1>3. TransitionTyped
  <2>1. /\ clients' \in [Node -> {"none", "open", "closed"}]
        /\ monitors' \in [Node -> 0..clock]
        /\ version' \in 0..clock
    BY <1>1 DEF lostMemory, TypeOK
  <2> QED BY <1>1, <2>1, NoWorkType, Zenon DEF lostMemory, TypeOK, TransitionTyped,
                                        meta, Status, NoError
<1>4. events' \in Seq(QueuedEvent) /\ fired' \subseteq Monitor
  BY <1>1 DEF lostMemory
<1>5. am' \in {"down", "up", "finished", "failed"} /\ crashes' \in 0..MaxCrash
  BY SMTT(40) DEF Crash, Exit, TypeOK, history
<1> QED BY <1>1, <1>2, <1>3, <1>4, <1>5, Assemble, Zenon

LEMMA InitAmStateType ==
  ASSUME TypeOK, InitAmState
  PROVE  TypeOK'
<1>1. clock \in Nat /\ MaxVersion \in Nat /\ clock <= MaxVersion
  BY DEF TypeOK
<1>2. /\ clock' \in 0..MaxVersion /\ clock' \in Nat /\ clock <= clock'
      /\ version' \in 1..clock' /\ version' \in 0..clock'
  <2>1. CASE mVersion = 0
    BY <1>1, <2>1 DEF InitAmState, TypeOK
  <2>2. CASE mVersion # 0
    BY <1>1, <2>2 DEF InitAmState, TypeOK
  <2> QED BY <2>1, <2>2, Zenon
<1>3. /\ QueuedEvent \subseteq QueuedEvent' /\ Monitor \subseteq Monitor'
      /\ Request \subseteq Request' /\ Work' = Work
      /\ 0..clock \subseteq 0..clock'
      /\ Seq(QueuedEvent) \subseteq Seq(QueuedEvent')
  BY <1>1, <1>2, ClockGrows, Zenon
<1>4. events' \in Seq(QueuedEvent')
  <2>1. Event("RESTART_CLUSTER", version') \in QueuedEvent'
    BY <1>2, Zenon DEF Event, QueuedEvent
  <2> QED BY <2>1 DEF InitAmState
<1>5. /\ clients' \in [Node -> {"none", "open", "closed"}]
      /\ monitors' \in [Node -> 0..clock']
  BY <1>2 DEF InitAmState
<1>6. /\ rpc' \in [Node -> {NoRpc'} \cup Request'] /\ mVersion' \in 0..clock'
      /\ orphans' \subseteq Monitor' /\ fired' \subseteq Monitor'
      /\ work' \in Work' /\ work'.todo \subseteq work'.drop
  BY <1>2, <1>3, Zenon DEF InitAmState, TypeOK, NoRpc
<1>7. status' \in Status /\ mStatus' \in Status /\ end' \in BOOLEAN
  BY Zenon DEF InitAmState, TypeOK, Status
<1> QED BY <1>2, <1>4, <1>5, <1>6, <1>7, Zenon DEF InitAmState, TypeOK, NoError

LEMMA AnyRequestType ==
  ASSUME TypeOK, AnyRequest
  PROVE  TypeOK'
<1>1. PICK n \in Node, kind \in Kinds, v \in 1..clock : Send(n, kind, v)
  BY Zenon DEF AnyRequest
<1>2. [kind |-> kind, ver |-> v,
       stage |-> IF am = "up" THEN "sent" ELSE "UNAVAILABLE"] \in Request
  BY Zenon DEF Request, Answers
<1>3. rpc' \in [Node -> {NoRpc} \cup Request]
  BY <1>1, <1>2, Zenon DEF Send, TypeOK
<1>4. UNCHANGED <<am, memory, meta, history>>
  BY Zenon DEF AnyRequest
<1>5. TransitionTyped
  BY <1>4, Zenon DEF TypeOK, TransitionTyped, memory, meta, history
<1> QED BY <1>3, <1>4, <1>5, Assemble, Zenon DEF TypeOK, memory, history

LEMMA InitType == AMInit => TypeOK
<1> SUFFICES ASSUME AMInit PROVE TypeOK
  BY Zenon
<1>1. clients \in [Node -> {"none", "open", "closed"}]
  BY Zenon DEF AMInit
<1>2. monitors \in [Node -> 0..clock]
  BY DEF AMInit
<1>3. rpc \in [Node -> {NoRpc} \cup Request]
  BY Zenon DEF AMInit
<1>4. events \in Seq(QueuedEvent)
  BY DEF AMInit
<1>5. clock \in 0..MaxVersion /\ crashes \in 0..MaxCrash
      /\ version \in 0..clock /\ mVersion \in 0..clock
  BY DEF AMInit
<1> QED BY <1>1, <1>2, <1>3, <1>4, <1>5, NoWorkType, Zenon
        DEF AMInit, TypeOK, Status, NoError

LEMMA StepType == TypeOK /\ [Next]_amVars => TypeOK'
<1> SUFFICES ASSUME TypeOK, [Next]_amVars PROVE TypeOK'
  BY Zenon
<1>1. CASE UNCHANGED amVars
  BY <1>1 DEF amVars, memory, meta, history, TypeOK, QueuedEvent, Work,
              Monitor, Request, NoRpc
<1>2. CASE Next
  BY <1>2, HandleRequestType, HandleTimeoutType, RequestType,
     StopAllWorkerType, MonitorType, EventStepType, RestartClusterType,
     TaskType, InitAmStateType, AnyRequestType, Zenon
     DEF Next, AMStep, EventStep, RequestStep
<1> QED BY <1>1, <1>2, Zenon

(* TypeOK holds for any nodes, roles, capacity and bounds. *)
THEOREM TypeCorrect == Spec => []TypeOK
BY InitType, StepType, PTL DEF Spec

-----------------------------------------------------------------------------
(* The job is declared finished only when every node has finished. *)

(* Everything that leads the AM to the end of the job, on the way from the *)
(* last FINISH_NODE to the end of the task, implies that all have finished. *)
Queued(type) == \E i \in 1..Len(events) : events[i].type = type
Ends ==
  \/ Queued("FINISH_CLUSTER")
  \/ work.kind = "finish"
  \/ mStatus = "FINISH" /\ ~stopped
  \/ end /\ ~rejected /\ ~stopped
  \/ am = "finished" /\ ~rejected /\ ~stopped
FinishInv == Ends => mFinish = Node

(* If no node of any role remains, every node has finished: equal numbers  *)
(* of a role mean equal sets, as a finished node is a node.                *)
LEMMA NoneRemains ==
  ASSUME NEW F \in SUBSET Node, \A r \in Roles : remainJobNum(F, r) = 0
  PROVE  F = Node
<1> SUFFICES ASSUME NEW n \in Node PROVE n \in F
  BY Zenon
<1> DEFINE all == {m \in Node : RoleOf[m] = RoleOf[n]}
           fin == {m \in F : RoleOf[m] = RoleOf[n]}
<1>1. fin \subseteq all /\ IsFiniteSet(all) /\ IsFiniteSet(fin)
  BY FS_Subset, Zenon
<1>2. Cardinality(all) \in Nat /\ Cardinality(fin) \in Nat
  BY <1>1, FS_CardinalityType, Zenon
<1>3. Cardinality(all) - Cardinality(fin) = 0
  BY Zenon DEF remainJobNum, tasks
<1>4. Cardinality(fin) = Cardinality(all)
  BY <1>2, <1>3
<1>5. fin = all
  BY <1>1, <1>4, FS_Subset, Zenon
<1> QED BY <1>5, Zenon

(* Appending an event other than FINISH_CLUSTER, or taking one, adds none. *)
LEMMA AppendQueued ==
  ASSUME events \in Seq(QueuedEvent), NEW e \in QueuedEvent, NEW t,
         e.type # t, sendEvent(e), Queued(t)'
  PROVE  Queued(t)
BY DEF sendEvent, Queued

LEMMA TailQueued ==
  ASSUME events \in Seq(QueuedEvent), events # <<>>, NEW t,
         events' = Tail(events), Queued(t)'
  PROVE  Queued(t)
<1>1. PICK i \in 1..Len(Tail(events)) : Tail(events)[i].type = t
  BY Zenon DEF Queued
<1>2. i + 1 \in 1..Len(events) /\ events[i + 1].type = t
  BY <1>1
<1> QED BY <1>2, Zenon DEF Queued

(* A step may lead towards the end only if it led there before, or if it   *)
(* completes the set of finished nodes.                                    *)
Leads == mFinish \subseteq mFinish' /\ (Ends' => Ends \/ mFinish' = Node)

LEMMA PassLeads ==
  ASSUME NEW t, NEW v, Pass(t, v), UNCHANGED am, Queued("FINISH_CLUSTER")' =>
           Queued("FINISH_CLUSTER")
  PROVE  Leads
BY Zenon DEF Pass, Leads, Ends, meta

LEMMA InvalidLeads ==
  ASSUME NEW t, NEW v, Invalid(t, v), am = "up", UNCHANGED am,
         Queued("FINISH_CLUSTER")' => Queued("FINISH_CLUSTER")
  PROVE  Leads
BY Zenon DEF Invalid, onError, Leads, Ends, meta

LEMMA RegisterLeads ==
  ASSUME TypeOK, NEW n \in Node, NEW v \in 1..clock, RegisterNode(n, v),
         UNCHANGED am
  PROVE  Leads
<1>1. /\ Event("COMPLETE_CLUSTER", v) \in QueuedEvent
      /\ Event("COMPLETE_CLUSTER", v).type # "FINISH_CLUSTER"
  BY Zenon DEF Event, QueuedEvent
<1>2. CASE sendEvent(Event("COMPLETE_CLUSTER", v))
  <2>1. Queued("FINISH_CLUSTER")' => Queued("FINISH_CLUSTER")
    BY <1>1, <1>2, AppendQueued, Zenon DEF TypeOK
  <2> QED BY <2>1, Zenon DEF RegisterNode, Leads, Ends
<1>3. CASE UNCHANGED events
  BY <1>3, Zenon DEF RegisterNode, Leads, Ends, Queued
<1> QED BY <1>2, <1>3, Zenon DEF RegisterNode

LEMMA FailLeads ==
  ASSUME TypeOK, NEW t, NEW v \in 1..clock, FailNode(t, v), am = "up",
         UNCHANGED am
  PROVE  Leads
<1>1. /\ Event("RESTART_CLUSTER", v) \in QueuedEvent
      /\ Event("RESTART_CLUSTER", v).type # "FINISH_CLUSTER"
  BY Zenon DEF Event, QueuedEvent
<1>2. sendEvent(Event("RESTART_CLUSTER", v))
  BY Zenon DEF FailNode
<1>3. Queued("FINISH_CLUSTER")' => Queued("FINISH_CLUSTER")
  BY <1>1, <1>2, AppendQueued, Zenon DEF TypeOK
<1>4. mStatus' = "FINISH" => mStatus = "FINISH"
  BY Zenon DEF FailNode, savedStatus
<1>5. end' /\ ~rejected' => end /\ ~rejected
  BY Zenon DEF FailNode, onError
<1> QED BY <1>3, <1>4, <1>5, Zenon DEF FailNode, Leads, Ends

LEMMA FinishLeads ==
  ASSUME TypeOK, NEW n \in Node, NEW v \in 1..clock, FinishNode(n, v),
         UNCHANGED am
  PROVE  Leads
<1>1. mFinish' \in SUBSET Node /\ mFinish \subseteq mFinish'
  BY Zenon DEF FinishNode, TypeOK
<1>2. CASE \A r \in Roles : remainJobNum(mFinish', r) = 0
  <2>1. mFinish' = Node
    BY <1>1, <1>2, NoneRemains, Zenon
  <2> QED BY <1>1, <2>1, Zenon DEF Leads
<1>3. CASE UNCHANGED events
  BY <1>1, <1>3, Zenon DEF FinishNode, Leads, Ends, Queued
<1> QED BY <1>2, <1>3, Zenon DEF FinishNode

LEMMA RequestLeads ==
  ASSUME TypeOK, NEW n \in Node, RequestStep(n)
  PROVE  Leads
<1>1. CASE CheckVersion(n) \/ CacheClient(n) \/ DropClient(n)
  <2>1. UNCHANGED <<am, events, work, mStatus, mFinish, stopped>>
    BY <1>1, Zenon DEF CheckVersion, CacheClient, DropClient, memory, meta, history
  <2>2. UNCHANGED <<end, rejected>> \/ rejected'
    BY <1>1, Zenon DEF CheckVersion, CacheClient, DropClient, onError, memory, history
  <2>3. am = "up"
    BY <1>1, Zenon DEF CheckVersion, CacheClient, DropClient
  <2>4. Queued("FINISH_CLUSTER")' = Queued("FINISH_CLUSTER")
    BY <2>1, Zenon DEF Queued
  <2> QED BY <2>1, <2>2, <2>3, <2>4 DEF Leads, Ends
<1>2. CASE HandleRequest(n)
  <2>1. rpc[n].ver \in 1..clock /\ am = "up" /\ UNCHANGED am
    BY <1>2, RequestReady, Zenon
  <2>2. UNCHANGED events => (Queued("FINISH_CLUSTER")' => Queued("FINISH_CLUSTER"))
    BY Zenon DEF Queued
  <2> QED BY <1>2, <2>1, <2>2, PassLeads, InvalidLeads, RegisterLeads,
             FailLeads, FinishLeads, Zenon DEF HandleRequest
<1> QED BY <1>1, <1>2, Zenon DEF RequestStep

LEMMA MonitorLeads ==
  ASSUME TypeOK,
         \/ \E n \in Node : MonitorFires(n)
         \/ \E m \in orphans : OrphanFires(m)
         \/ \E m \in fired : HandleTimeout(m)
  PROVE  Leads
<1>1. UNCHANGED events => (Queued("FINISH_CLUSTER")' => Queued("FINISH_CLUSTER"))
  BY Zenon DEF Queued
<1>2. CASE \E n \in Node : MonitorFires(n)
  BY <1>1, <1>2 DEF MonitorFires, Leads, Ends, meta, history
<1>3. CASE \E m \in orphans : OrphanFires(m)
  BY <1>1, <1>3 DEF OrphanFires, Leads, Ends, meta, history
<1>4. CASE \E m \in fired : HandleTimeout(m)
  <2>1. PICK m \in fired : HandleTimeout(m)
    BY <1>4, Zenon
  <2>2. m.ver \in 1..clock /\ am = "up" /\ UNCHANGED am
    BY <2>1, Zenon DEF HandleTimeout, TypeOK, Monitor
  <2> QED BY <1>1, <2>1, <2>2, PassLeads, InvalidLeads, FailLeads, Zenon
          DEF HandleTimeout
<1> QED BY <1>2, <1>3, <1>4, Zenon

LEMMA EventLeads ==
  ASSUME TypeOK, EventStep \/ \E n \in Node : TellNode(n)
  PROVE  Leads
<1>1. Queued("FINISH_CLUSTER")' => Queued("FINISH_CLUSTER")
  <2>1. events' = events \/ (events # <<>> /\ events' = Tail(events))
    BY Zenon DEF EventStep, SkipEvent, CompleteCluster, FinishCluster,
       RestartCluster, RestartDrop, CleanCluster, RestartSave, StopSave,
       TellNode, Take
  <2>2. CASE events' = events
    BY <2>2, Zenon DEF Queued
  <2>3. CASE events # <<>> /\ events' = Tail(events)
    BY <2>3, TailQueued, Zenon DEF TypeOK
  <2> QED BY <2>1, <2>2, <2>3, Zenon
<1>2. CASE SkipEvent
  BY <1>1, <1>2, PassLeads, InvalidLeads, Zenon DEF SkipEvent, Take
<1>3. CASE CompleteCluster
  <2>1. mStatus' = "FINISH" => mStatus = "FINISH"
    BY <1>3, Zenon DEF CompleteCluster, savedStatus
  <2> QED BY <1>1, <1>3, <2>1, Zenon DEF CompleteCluster, Leads, Ends, history
<1>4. CASE FinishCluster
  <2>1. Queued("FINISH_CLUSTER")
    <3>1. Head(events) = events[1] /\ 1 \in 1..Len(events)
      BY <1>4 DEF FinishCluster, Take, TypeOK
    <3> QED BY <1>4, <3>1, Zenon DEF FinishCluster, Take, Queued
  <2> QED BY <1>4, <2>1, Zenon DEF FinishCluster, Leads, Ends, meta
<1>5. CASE RestartCluster
  BY <1>1, <1>5, Zenon DEF RestartCluster, Leads, Ends, meta
<1>6. CASE \/ RestartDrop \/ CleanCluster \/ \E n \in Node : TellNode(n)
  <2>1. work'.kind = work.kind
    BY <1>6, Zenon DEF RestartDrop, CleanCluster, TellNode, TypeOK, Work
  <2> QED BY <1>1, <1>6, <2>1 DEF RestartDrop, CleanCluster, TellNode, Leads,
                                  Ends, meta, history
<1>7. CASE RestartSave
  <2>1. mStatus' = "FINISH" => mStatus = "FINISH"
    BY <1>7, Zenon DEF RestartSave, savedStatus
  <2>2. work'.kind # "finish"
    BY <1>7, Zenon DEF RestartSave, NoWork
  <2> QED BY <1>1, <1>7, <2>1, <2>2, Zenon DEF RestartSave, Leads, Ends, history
<1>8. CASE StopSave
  <2>1. work'.kind # "finish"
    BY <1>8, Zenon DEF StopSave, NoWork
  <2>2. CASE work.kind = "finish"
    BY <1>8, <2>2, Zenon DEF StopSave, Leads, Ends
  <2>3. CASE work.kind = "stop"
    BY <1>1, <1>8, <2>1, <2>3, Zenon DEF StopSave, Leads, Ends
  <2> QED BY <1>8, <2>2, <2>3, Zenon DEF StopSave
<1> QED BY <1>2, <1>3, <1>4, <1>5, <1>6, <1>7, <1>8, Zenon DEF EventStep

LEMMA TaskLeads ==
  ASSUME TypeOK, Crash \/ Exit \/ InitAmState
  PROVE  Leads
<1>1. CASE Crash \/ Exit
  <2>1. lostMemory /\ UNCHANGED <<meta, stopped, rejected>>
    BY <1>1, Zenon DEF Crash, Exit, history
  <2>2. ~Queued("FINISH_CLUSTER")' /\ work'.kind # "finish" /\ ~end'
    BY <2>1 DEF lostMemory, Queued, NoWork
  <2>3. am' = "finished" => end
    BY <1>1, Zenon DEF Crash, Exit
  <2> QED BY <2>1, <2>2, <2>3, Zenon DEF Leads, Ends, meta
<1>2. CASE InitAmState
  <2>1. ~Queued("FINISH_CLUSTER")'
    BY <1>2 DEF InitAmState, Queued, Event
  <2>2. /\ end' => mStatus = "FINISH"
        /\ mStatus' = "FINISH" => mStatus = "FINISH"
        /\ am' # "finished"
    BY <1>2, Zenon DEF InitAmState
  <2> QED BY <1>2, <2>1, <2>2, Zenon DEF InitAmState, Leads, Ends
<1> QED BY <1>1, <1>2, Zenon

LEMMA ClientLeads ==
  ASSUME TypeOK, StopAllWorker \/ AnyRequest
  PROVE  Leads
<1>1. UNCHANGED events
  BY Zenon DEF StopAllWorker, AnyRequest, memory
<1>2. Queued("FINISH_CLUSTER")' => Queued("FINISH_CLUSTER")
  BY <1>1, Zenon DEF Queued
<1>3. CASE StopAllWorker
  <2>1. CASE Pass("STOP_JOB", 0)
    BY <1>2, <1>3, <2>1, PassLeads, Zenon DEF StopAllWorker
  <2>2. CASE StopJob
    <3>1. work'.kind # "finish"
      BY <2>2, Zenon DEF StopJob, StopBegin
    <3> QED BY <1>2, <1>3, <2>2, <3>1, Zenon DEF StopAllWorker, StopJob, Leads, Ends,
                                          meta
  <2> QED BY <1>3, <2>1, <2>2, Zenon DEF StopAllWorker
<1>4. CASE AnyRequest
  BY <1>2, <1>4, Zenon DEF AnyRequest, Leads, Ends, memory, meta, history
<1> QED BY <1>3, <1>4, Zenon

LEMMA FinishInvInit == AMInit => FinishInv
<1> SUFFICES ASSUME AMInit PROVE ~Ends
  BY Zenon DEF FinishInv
<1>1. ~Queued("FINISH_CLUSTER")
  BY DEF AMInit, Queued
<1> QED BY <1>1, Zenon DEF AMInit, Ends, NoWork

LEMMA FinishInvStep ==
  TypeOK /\ TypeOK' /\ FinishInv /\ [Next]_amVars => FinishInv'
<1> SUFFICES ASSUME TypeOK, TypeOK', FinishInv, [Next]_amVars PROVE FinishInv'
  BY Zenon
<1>1. CASE Next
  <2>1. Leads
    BY <1>1, RequestLeads, MonitorLeads, EventLeads, TaskLeads, ClientLeads, Zenon
       DEF Next, AMStep
  <2> QED BY <2>1, Zenon DEF Leads, FinishInv, TypeOK
<1>2. CASE UNCHANGED amVars
  BY <1>2, Zenon DEF amVars, memory, meta, history, FinishInv, Ends, Queued
<1> QED BY <1>1, <1>2, Zenon

(* FinishMeansAllFinished: whatever the nodes send and whenever the AM     *)
(* crashes, the stored status is FINISH, or the task of the AM ends        *)
(* without an error, only if all nodes finished or the job was stopped.    *)
THEOREM JobEndsWhenAllFinished == Spec => []FinishMeansAllFinished
<1>1. FinishInv => FinishMeansAllFinished
  BY Zenon DEF FinishInv, Ends, FinishMeansAllFinished
<1> QED BY <1>1, TypeCorrect, FinishInvInit, FinishInvStep, PTL DEF Spec
-----------------------------------------------------------------------------
(* A failover is restarted once. *)

None(s, r) == \A i \in 1..Len(s) : s[i] # r
One(s, r) ==
  \E i \in 1..Len(s) : s[i] = r /\ \A j \in 1..Len(s) : s[j] = r => j = i

LEMMA AppendOther ==
  ASSUME NEW E, NEW s \in Seq(E), NEW e \in E, NEW r, e # r
  PROVE  /\ None(s, r) => None(Append(s, e), r)
         /\ One(s, r) => One(Append(s, e), r)
<1>1. /\ Len(Append(s, e)) = Len(s) + 1 /\ Len(s) \in Nat
      /\ \A i \in 1..Len(s) : Append(s, e)[i] = s[i]
      /\ Append(s, e)[Len(s) + 1] = e
  OBVIOUS
<1>2. None(s, r) => None(Append(s, e), r)
  BY <1>1 DEF None
<1>3. ASSUME One(s, r) PROVE One(Append(s, e), r)
  <2>1. PICK i \in 1..Len(s) : s[i] = r /\ \A j \in 1..Len(s) : s[j] = r => j = i
    BY <1>3, Zenon DEF One
  <2>2. i \in 1..Len(Append(s, e)) /\ Append(s, e)[i] = r
    <3>1. i \in 1..Len(Append(s, e))
      BY <1>1, <2>1, SMTT(40)
    <3>2. Append(s, e)[i] = s[i]
      BY <1>1, <2>1, Zenon
    <3> QED BY <2>1, <3>1, <3>2, Zenon
  <2>3. ASSUME NEW j \in 1..Len(Append(s, e)), Append(s, e)[j] = r
        PROVE  j = i
    <3>1. j # Len(s) + 1
      BY <1>1, <2>3, Zenon
    <3>2. j \in 1..Len(s)
      BY <1>1, <3>1
    <3>3. s[j] = r
      BY <1>1, <2>3, <3>2, Zenon
    <3> QED BY <2>1, <3>2, <3>3, Zenon
  <2> QED BY <2>2, <2>3, Zenon DEF One
<1> QED BY <1>2, <1>3, Zenon

LEMMA AppendFirst ==
  ASSUME NEW E, NEW s \in Seq(E), NEW r \in E, None(s, r)
  PROVE  One(Append(s, r), r)
<1>1. /\ Len(Append(s, r)) = Len(s) + 1 /\ Len(s) \in Nat
      /\ \A i \in 1..Len(s) : Append(s, r)[i] = s[i]
      /\ Append(s, r)[Len(s) + 1] = r
  OBVIOUS
<1>2. Len(s) + 1 \in 1..Len(Append(s, r))
  BY <1>1
<1>3. \A j \in 1..Len(Append(s, r)) : Append(s, r)[j] = r => j = Len(s) + 1
  BY <1>1 DEF None
<1> QED BY <1>1, <1>2, <1>3, Zenon DEF One

LEMMA TakeHead ==
  ASSUME NEW E, NEW s \in Seq(E), s # <<>>, NEW r
  PROVE  /\ None(s, r) => None(Tail(s), r)
         /\ One(s, r) /\ Head(s) # r => One(Tail(s), r)
         /\ None(s, r) => Head(s) # r
<1>1. /\ Len(Tail(s)) = Len(s) - 1 /\ Len(s) \in Nat /\ Len(s) > 0
      /\ \A i \in 1..Len(s) - 1 : Tail(s)[i] = s[i + 1]
      /\ Head(s) = s[1]
  OBVIOUS
<1>2. None(s, r) => None(Tail(s), r)
  BY <1>1 DEF None
<1>3. ASSUME One(s, r), Head(s) # r PROVE One(Tail(s), r)
  <2>1. PICK i \in 1..Len(s) : s[i] = r /\ \A j \in 1..Len(s) : s[j] = r => j = i
    BY <1>3, Zenon DEF One
  <2>2. i - 1 \in 1..Len(Tail(s)) /\ Tail(s)[i - 1] = r
    BY <1>1, <1>3, <2>1
  <2>3. \A j \in 1..Len(Tail(s)) : Tail(s)[j] = r => j = i - 1
    BY <1>1, <2>1
  <2> QED BY <2>2, <2>3, Zenon DEF One
<1>4. None(s, r) => Head(s) # r
  BY <1>1 DEF None
<1> QED BY <1>2, <1>3, <1>4, Zenon

(* The event that a failover of the current version waits for. *)
Restart == Event("RESTART_CLUSTER", version)
Awaited == status = "FAILOVER" /\ work.kind # "restart"

RestartInv ==
  /\ am # "up" => work = NoWork
  /\ work.stage \in {"clean", "save"} => work.kind = "restart"
  /\ work.kind = "restart" => status = "FAILOVER"
  /\ (am = "up" /\ status # "FINISH") =>
       IF Awaited THEN One(events, Restart) ELSE None(events, Restart)

(* A step that neither changes the version nor enters or leaves a failover,*)
(* and that queues or takes no RESTART_CLUSTER of the current version.     *)
LEMMA Undisturbed ==
  ASSUME TypeOK, RestartInv, am = "up", am' = am, version' = version,
         Awaited' = Awaited, status' = "FINISH" \/ status # "FINISH",
         \/ events' = events
         \/ events # <<>> /\ events' = Tail(events)
             /\ (status # "FINISH" => Head(events) # Restart)
         \/ \E e \in QueuedEvent : e # Restart /\ events' = Append(events, e),
         work'.stage \in {"clean", "save"} => work'.kind = "restart",
         work'.kind = "restart" => status' = "FAILOVER"
  PROVE  RestartInv'
<1> SUFFICES ASSUME status' # "FINISH"
             PROVE  IF Awaited THEN One(events', Restart)
                    ELSE None(events', Restart)
  BY Zenon DEF RestartInv, Restart
<1>1. IF Awaited THEN One(events, Restart) ELSE None(events, Restart)
  BY Zenon DEF RestartInv
<1>2. events \in Seq(QueuedEvent)
  BY Zenon DEF TypeOK
<1>3. CASE events' = events
  BY <1>1, <1>3, Zenon
<1>4. CASE events # <<>> /\ events' = Tail(events) /\ Head(events) # Restart
  BY <1>1, <1>2, <1>4, TakeHead, Zenon
<1>5. CASE \E e \in QueuedEvent : e # Restart /\ events' = Append(events, e)
  BY <1>1, <1>2, <1>5, AppendOther, Zenon
<1> QED BY <1>3, <1>4, <1>5, Zenon

(* The failure of a node outside a failover queues the event. *)
LEMMA FailRestarts ==
  ASSUME TypeOK, RestartInv, am = "up", am' = am, ~locked,
         NEW t, NEW v \in 1..clock, FailNode(t, v)
  PROVE  RestartInv'
<1>1. status \in {"INIT", "RUNNING"}
  BY Zenon DEF FailNode, Arcs
<1>2. /\ v = version /\ Event("RESTART_CLUSTER", v) = Restart
      /\ Restart \in QueuedEvent
  BY DEF FailNode, current, Restart, Event, QueuedEvent
<1>3. /\ work' = work /\ version' = version /\ work.kind = "none"
      /\ work.stage = "none"
  BY DEF FailNode, locked, NoWork
<1>4. None(events, Restart) /\ events \in Seq(QueuedEvent)
  BY <1>1, Zenon DEF RestartInv, Awaited, TypeOK
<1>5. CASE full
  <2>1. events' = events /\ status' = status
    BY <1>5, Zenon DEF FailNode, sendEvent
  <2>2. Awaited' = Awaited
    BY <1>3, <2>1, Zenon DEF Awaited
  <2> QED BY <1>1, <1>3, <2>1, <2>2, Undisturbed, Zenon
<1>6. CASE ~full
  <2>1. events' = Append(events, Restart) /\ status' = "FAILOVER"
    BY <1>2, <1>6, Zenon DEF FailNode, sendEvent
  <2>2. One(events', Restart)
    BY <1>2, <1>4, <2>1, AppendFirst, Zenon
  <2>3. Restart' = Restart /\ Awaited'
    BY <1>3, <2>1, Zenon DEF Restart, Awaited
  <2> QED BY <1>3, <2>2, <2>3, Zenon DEF RestartInv
<1> QED BY <1>5, <1>6, Zenon

(* A transition of a request or of a timeout. *)
LEMMA HandleRestarts ==
  ASSUME TypeOK, RestartInv, am = "up", am' = am, ~locked,
         NEW n \in Node, NEW t, NEW v \in 1..clock,
         \/ Pass(t, v) /\ UNCHANGED events
         \/ Invalid(t, v) /\ UNCHANGED events
         \/ RegisterNode(n, v) \/ FinishNode(n, v) \/ FailNode(t, v)
  PROVE  RestartInv'
<1>1. CASE \/ Pass(t, v) /\ UNCHANGED events
           \/ Invalid(t, v) /\ UNCHANGED events
  <2>1. UNCHANGED <<status, version, work, events>>
    BY <1>1, Zenon DEF Pass, Invalid
  <2> QED BY <2>1, Undisturbed, Zenon DEF Awaited, RestartInv
<1>2. CASE RegisterNode(n, v) \/ FinishNode(n, v)
  <2>1. UNCHANGED <<status, version, work>> /\ status # "FINISH"
    BY <1>2, Zenon DEF RegisterNode, FinishNode
  <2>2. \/ events' = events
        \/ \E e \in QueuedEvent : e # Restart /\ events' = Append(events, e)
    <3>1. ASSUME NEW ty \in {"COMPLETE_CLUSTER", "FINISH_CLUSTER"}
          PROVE  Event(ty, v) \in QueuedEvent /\ Event(ty, v) # Restart
      BY Zenon DEF Event, QueuedEvent, Restart
    <3> QED BY <1>2, <3>1, Zenon DEF RegisterNode, FinishNode, sendEvent
  <2>3. Awaited' = Awaited
    BY <2>1, Zenon DEF Awaited
  <2>4. /\ work'.stage \in {"clean", "save"} => work'.kind = "restart"
        /\ work'.kind = "restart" => status' = "FAILOVER"
    BY <2>1, Zenon DEF RestartInv
  <2> QED BY <2>1, <2>2, <2>3, <2>4, Undisturbed, Zenon
<1>3. CASE FailNode(t, v)
  BY <1>3, FailRestarts, Zenon
<1> QED BY <1>1, <1>2, <1>3, Zenon

LEMMA RequestRestarts ==
  ASSUME TypeOK, RestartInv, NEW n \in Node, RequestStep(n)
  PROVE  RestartInv'
<1>1. CASE CheckVersion(n) \/ CacheClient(n) \/ DropClient(n)
  <2>1. UNCHANGED <<am, status, version, work, events>>
    BY <1>1, Zenon DEF CheckVersion, CacheClient, DropClient, memory
  <2> QED BY <2>1, Zenon DEF RestartInv, Awaited, Restart
<1>2. CASE HandleRequest(n)
  <2>1. /\ rpc[n].ver \in 1..clock /\ am = "up" /\ am' = am /\ ~locked
    BY <1>2, RequestReady, Zenon
  <2> QED BY <1>2, <2>1, HandleRestarts, Zenon DEF HandleRequest
<1> QED BY <1>1, <1>2, Zenon DEF RequestStep

LEMMA MonitorRestarts ==
  ASSUME TypeOK, RestartInv,
         \/ \E n \in Node : MonitorFires(n)
         \/ \E m \in orphans : OrphanFires(m)
         \/ \E m \in fired : HandleTimeout(m)
  PROVE  RestartInv'
<1>1. CASE \/ \E n \in Node : MonitorFires(n)
           \/ \E m \in orphans : OrphanFires(m)
  <2>1. UNCHANGED <<am, status, version, work, events>>
    BY <1>1, Zenon DEF MonitorFires, OrphanFires
  <2> QED BY <2>1, Zenon DEF RestartInv, Awaited, Restart
<1>2. CASE \E m \in fired : HandleTimeout(m)
  <2>1. PICK m \in fired : HandleTimeout(m)
    BY <1>2, Zenon
  <2>2. /\ m.ver \in 1..clock /\ m.node \in Node
        /\ am = "up" /\ am' = am /\ ~locked
    BY <2>1, Zenon DEF HandleTimeout, TypeOK, Monitor
  <2> QED BY <2>1, <2>2, HandleRestarts, Zenon DEF HandleTimeout
<1> QED BY <1>1, <1>2, Zenon

LEMMA SkipRestarts ==
  ASSUME TypeOK, RestartInv, SkipEvent
  PROVE  RestartInv'
<1>1. UNCHANGED <<am, status, version, work>>
  BY Zenon DEF SkipEvent, Pass, Invalid
<1>2. am = "up" /\ ~locked /\ events # <<>> /\ events' = Tail(events)
  BY Zenon DEF SkipEvent, Take
<1>3. ASSUME status # "FINISH", Head(events) = Restart PROVE FALSE
  <2>1. Head(events).type = "RESTART_CLUSTER" /\ Head(events).ver = version
    BY <1>3, SMTT(40) DEF Restart, Event
  <2>2. ~None(events, Restart)
    BY <1>2, <1>3, TakeHead, Zenon DEF TypeOK
  <2>3. status = "FAILOVER"
    BY <1>2, <1>3, <2>2, Zenon DEF RestartInv, Awaited
  <2> QED BY <2>1, <2>3, Zenon DEF SkipEvent, Pass, Invalid, current, Arcs, Ignored
<1> QED BY <1>1, <1>2, <1>3, Undisturbed, Zenon DEF Awaited, RestartInv

(* The restart takes the event away and gives the cluster a version that   *)
(* no queued event has.                                                    *)
LEMMA BeginRestarts ==
  ASSUME TypeOK, RestartInv, RestartCluster
  PROVE  RestartInv'
<1>1. /\ am = "up" /\ am' = am /\ events # <<>> /\ events' = Tail(events)
      /\ version' = clock + 1 /\ clock \in Nat
  BY DEF RestartCluster, Take, TypeOK
<1>2. work'.kind = "restart" /\ work'.stage = "tell"
  BY Zenon DEF RestartCluster
<1>3. events \in Seq(QueuedEvent)
  BY Zenon DEF TypeOK
<1>4. None(events, Restart')
  <2>1. \A e \in QueuedEvent : e.ver \in 1..clock
    BY Zenon DEF QueuedEvent
  <2>2. Restart'.ver = clock + 1
    BY <1>1, Zenon DEF Restart, Event
  <2> QED BY <1>1, <1>3, <2>1, <2>2 DEF None
<1>5. None(events', Restart')
  BY <1>1, <1>3, <1>4, TakeHead, Zenon
<1>6. status' = "FAILOVER"
  BY Zenon DEF RestartCluster
<1> QED BY <1>1, <1>2, <1>5, <1>6, Zenon DEF RestartInv, Awaited

LEMMA EventRestarts ==
  ASSUME TypeOK, RestartInv, EventStep \/ \E n \in Node : TellNode(n)
  PROVE  RestartInv'
<1>1. CASE SkipEvent
  BY <1>1, SkipRestarts, Zenon
<1>2. CASE CompleteCluster \/ FinishCluster
  <2>1. /\ am = "up" /\ am' = am /\ version' = version
        /\ events # <<>> /\ events' = Tail(events)
        /\ Head(events) # Restart
    <3>1. /\ am = "up" /\ am' = am /\ version' = version
          /\ events # <<>> /\ events' = Tail(events)
          /\ Head(events).type # "RESTART_CLUSTER"
      BY <1>2, Zenon DEF CompleteCluster, FinishCluster, Take
    <3>2. Restart.type = "RESTART_CLUSTER"
      BY Zenon DEF Restart, Event
    <3> QED BY <3>1, <3>2, Zenon
  <2>2. status # "FINISH" /\ ~Awaited /\ ~Awaited'
    BY <1>2, Zenon DEF CompleteCluster, FinishCluster, Awaited
  <2>3. work'.stage \notin {"clean", "save"} /\ work'.kind # "restart"
    <3>1. work' = work \/ StopBegin("finish")
      BY <1>2, Zenon DEF CompleteCluster, FinishCluster
    <3>2. ~locked
      BY <1>2, Zenon DEF CompleteCluster, FinishCluster, Take
    <3> QED BY <3>1, <3>2 DEF StopBegin, locked, NoWork
  <2>4. Awaited' = Awaited
    BY <2>2, Zenon DEF Awaited
  <2> QED BY <2>1, <2>2, <2>3, <2>4, Undisturbed, Zenon
<1>3. CASE RestartCluster
  BY <1>3, BeginRestarts, Zenon
<1>4. CASE RestartDrop \/ CleanCluster \/ \E n \in Node : TellNode(n)
  <2>1. UNCHANGED <<status, version, events, am>> /\ am = "up"
    BY <1>4, Zenon DEF RestartDrop, CleanCluster, TellNode
  <2>2. /\ work'.kind = work.kind
        /\ work'.stage \in {"clean", "save"} => work'.kind = "restart"
        /\ work'.kind = "restart" => status' = "FAILOVER"
    BY <1>4, Zenon DEF RestartDrop, CleanCluster, TellNode, TypeOK, Work, RestartInv
  <2>3. Awaited' = Awaited
    BY <2>1, <2>2, Zenon DEF Awaited
  <2> QED BY <2>1, <2>2, <2>3, Undisturbed, Zenon
<1>5. CASE RestartSave
  <2>1. /\ am = "up" /\ am' = am /\ UNCHANGED <<version, events>>
        /\ status' = "INIT" /\ work' = NoWork /\ work.kind = "restart"
    BY <1>5, Zenon DEF RestartSave, RestartInv
  <2>2. ~Awaited /\ ~Awaited' /\ Restart' = Restart
    BY <2>1, Zenon DEF Awaited, Restart
  <2>3. work'.stage \notin {"clean", "save"} /\ work'.kind # "restart"
    BY <2>1, Zenon DEF NoWork
  <2>4. status # "FINISH" => None(events', Restart')
    BY <2>1, <2>2, Zenon DEF RestartInv
  <2>5. status # "FINISH"
    BY <2>1, Zenon DEF RestartInv
  <2> QED BY <2>1, <2>2, <2>3, <2>4, <2>5, Zenon DEF RestartInv
<1>6. CASE StopSave
  BY <1>6, Zenon DEF StopSave, RestartInv, NoWork
<1> QED BY <1>1, <1>2, <1>3, <1>4, <1>5, <1>6, Zenon DEF EventStep

LEMMA TaskRestarts ==
  ASSUME TypeOK, RestartInv, Crash \/ Exit \/ InitAmState
  PROVE  RestartInv'
<1>1. CASE Crash \/ Exit
  <2>1. am' # "up" /\ work' = NoWork
    BY <1>1, Zenon DEF Crash, Exit, lostMemory
  <2> QED BY <2>1, Zenon DEF RestartInv, NoWork
<1>2. CASE InitAmState
  <2>1. /\ am' = "up" /\ work = NoWork /\ work' = NoWork
        /\ work'.kind = "none" /\ work'.stage = "none"
    <3>1. am' = "up" /\ am # "up" /\ work' = work
      BY <1>2, Zenon DEF InitAmState
    <3>2. work = NoWork
      BY <3>1, Zenon DEF RestartInv
    <3> QED BY <3>1, <3>2, Zenon DEF NoWork
  <2>2. CASE mStatus = "FAILOVER"
    <3>1. status' = "FAILOVER" /\ events' = <<Restart'>>
      BY <1>2, <2>2, Zenon DEF InitAmState, Restart, Event
    <3>2. One(events', Restart')
      BY <3>1 DEF One
    <3> QED BY <2>1, <3>1, <3>2, Zenon DEF RestartInv, Awaited
  <2>3. CASE mStatus # "FAILOVER"
    <3>1. status' # "FAILOVER" /\ events' = <<>>
      BY <1>2, <2>3, Zenon DEF InitAmState
    <3>2. None(events', Restart')
      BY <3>1 DEF None
    <3> QED BY <2>1, <3>1, <3>2, Zenon DEF RestartInv, Awaited
  <2> QED BY <2>2, <2>3, Zenon
<1> QED BY <1>1, <1>2, Zenon

LEMMA ClientRestarts ==
  ASSUME TypeOK, RestartInv, StopAllWorker \/ AnyRequest
  PROVE  RestartInv'
<1>1. CASE AnyRequest
  <2>1. UNCHANGED <<am, status, version, work, events>>
    BY <1>1, Zenon DEF AnyRequest, memory
  <2> QED BY <2>1, Zenon DEF RestartInv, Awaited, Restart
<1>2. CASE StopAllWorker
  <2>1. /\ am = "up" /\ am' = am /\ UNCHANGED <<status, version, events>>
        /\ work.kind = "none" /\ work.stage = "none"
    <3>1. am = "up" /\ am' = am /\ UNCHANGED events /\ ~locked
      BY <1>2, Zenon DEF StopAllWorker
    <3>2. UNCHANGED <<status, version>>
      BY <1>2, Zenon DEF StopAllWorker, Pass, StopJob
    <3>3. work.kind = "none" /\ work.stage = "none"
      BY <3>1 DEF locked, NoWork
    <3> QED BY <3>1, <3>2, <3>3, Zenon
  <2>2. work'.kind \in {"none", "stop"} /\ work'.stage \in {"none", "tell"}
    BY <1>2, <2>1 DEF StopAllWorker, Pass, StopJob, StopBegin
  <2>3. Awaited' = Awaited
    BY <2>1, <2>2, Zenon DEF Awaited
  <2> QED BY <2>1, <2>2, <2>3, Undisturbed, Zenon
<1> QED BY <1>1, <1>2, Zenon

LEMMA RestartInvInit == AMInit => RestartInv
BY DEF AMInit, RestartInv, NoWork

LEMMA RestartInvStep == TypeOK /\ RestartInv /\ [Next]_amVars => RestartInv'
<1> SUFFICES ASSUME TypeOK, RestartInv, [Next]_amVars PROVE RestartInv'
  BY Zenon
<1>1. CASE Next
  BY <1>1, RequestRestarts, MonitorRestarts, EventRestarts, TaskRestarts,
     ClientRestarts, Zenon DEF Next, AMStep
<1>2. CASE UNCHANGED amVars
  BY <1>2, Zenon DEF amVars, memory, RestartInv, Awaited, Restart
<1> QED BY <1>1, <1>2, Zenon

LEMMA CountRestarts ==
  ASSUME TypeOK
  PROVE  /\ None(events, Restart) => Cardinality(Restarts) = 0
         /\ One(events, Restart) => Cardinality(Restarts) = 1
<1>1. DOMAIN events = 1..Len(events)
  BY DEF TypeOK
<1>2. ASSUME None(events, Restart) PROVE Cardinality(Restarts) = 0
  <2>1. Restarts = {}
    BY <1>1, <1>2, Zenon DEF None, Restarts, Restart
  <2> QED BY <2>1, FS_EmptySet, Zenon
<1>3. ASSUME One(events, Restart) PROVE Cardinality(Restarts) = 1
  <2>1. PICK i \in 1..Len(events) :
           /\ events[i] = Restart
           /\ \A j \in 1..Len(events) : events[j] = Restart => j = i
    BY <1>3, Zenon DEF One
  <2>2. Restarts = {i}
    BY <1>1, <2>1, Zenon DEF Restarts, Restart
  <2> QED BY <2>2, FS_Singleton, Zenon
<1> QED BY <1>2, <1>3, Zenon

(* FailoverIsRestartedOnce: whatever nodes fail, time out or register      *)
(* again, and whenever the AM crashes and recovers, a failover has exactly *)
(* one RESTART_CLUSTER event until the restart begins, and there is none   *)
(* otherwise.                                                              *)
THEOREM FailoverRestartsOnce == Spec => []FailoverIsRestartedOnce
<1>1. TypeOK /\ RestartInv => FailoverIsRestartedOnce
  BY CountRestarts, Zenon DEF RestartInv, Awaited, FailoverIsRestartedOnce
<1> QED BY <1>1, TypeCorrect, RestartInvInit, RestartInvStep, PTL DEF Spec

-----------------------------------------------------------------------------
(* The nodes are clients as the AM allows them. *)

(* A step of the AM does not turn its clock back. *)
LEMMA VersionStep ==
  ASSUME TypeOK, VersionOK, Next
  PROVE  VersionOK' /\ clock <= clock'
<1> USE DEF VersionOK
<1>1. clock \in Nat /\ mVersion \in 0..clock
  BY DEF TypeOK
<1>2. CASE RestartCluster
  BY <1>1, <1>2 DEF RestartCluster
<1>3. CASE InitAmState
  BY <1>1, <1>3 DEF InitAmState
<1>4. CASE Crash \/ Exit
  BY <1>1, <1>4 DEF Crash, Exit, history, NoError
<1>5. CASE EventStep /\ ~RestartCluster
  <2>1. UNCHANGED <<am, version, clock>>
    BY <1>5, Zenon DEF EventStep, SkipEvent, CompleteCluster, FinishCluster,
       RestartDrop, CleanCluster, RestartSave, StopSave, Pass, Invalid, history
  <2> QED BY <2>1, <1>1
<1>6. ASSUME NEW n \in Node, TellNode(n) \/ RequestStep(n) \/ MonitorFires(n)
      PROVE  UNCHANGED <<am, version, clock>>
  BY <1>6, Zenon DEF TellNode, RequestStep, MonitorFires, CheckVersion,
     CacheClient, DropClient, HandleRequest, Pass, Invalid, RegisterNode,
     FinishNode, FailNode, memory, history
<1>7. ASSUME NEW m, OrphanFires(m) \/ HandleTimeout(m)
      PROVE  UNCHANGED <<am, version, clock>>
  BY <1>7, Zenon DEF OrphanFires, HandleTimeout, Pass, Invalid, FailNode, history
<1>8. CASE StopAllWorker \/ AnyRequest
  <2>1. UNCHANGED <<am, version, clock>>
    BY <1>8, Zenon DEF StopAllWorker, AnyRequest, Pass, StopJob, memory, history
  <2> QED BY <2>1, <1>1
<1> QED BY <1>1, <1>2, <1>3, <1>4, <1>5, <1>6, <1>7, <1>8 DEF Next, AMStep


(* The requests of a runner carry a version that the AM has drawn. *)
LEMMA RunnerRequest ==
  ASSUME TypeOK, NodesInv, NEW n \in Node, DoRegister(n) \/ NotifyAm(n)
  PROVE  AnyRequest
<1>1. pc[n] \in {"register", "report"}
  BY Zenon DEF DoRegister, NotifyAm
<1>2. ver[n] \in 0..clock /\ ver[n] # 0
  BY <1>1, Zenon DEF NodesInv, NodesTypeOK, RunnerHasVersion
<1>3. ver[n] \in 1..clock
  BY <1>2, ClockType, DrawnVersion, Zenon
<1>4. \E kind \in Kinds : Send(n, kind, ver[n])
  BY Zenon DEF DoRegister, NotifyAm, Kinds
<1>5. UNCHANGED <<am, memory, meta, history>>
  BY Zenon DEF DoRegister, NotifyAm, theAM
<1> QED BY <1>3, <1>4, <1>5, Zenon DEF AnyRequest

(* What the other steps of a node do, they do without the AM. *)
LEMMA NodeAlone ==
  ASSUME NEW n \in Node,
         \/ RunnerStep(n) /\ ~DoRegister(n) /\ ~NotifyAm(n)
         \/ RunnerFails(n) \/ HeartBeatRejected(n) \/ NodeRestart(n)
         \/ ServerStep(n) \/ TaskFails(n)
  PROVE  UNCHANGED amVars
BY Zenon DEF RunnerStep, InitAMClient, GetAMStatus, GetCurrentJobVersion,
   Registered, WaitClusterRunning, GetClusterInfo, ReadClusterDef, ScriptEnds,
   Notified, RunnerFails, HeartBeatRejected, NodeRestart, ServerStep,
   RestartRunner, ClearCommand, StopServer, FlinkRestarts, TaskFails

(* Every step of the cluster is a step of the AM, or none. *)
LEMMA ClusterStep ==
  ASSUME TypeOK, NodesInv, [ClusterNext]_vars
  PROVE  [Next]_amVars
<1>1. CASE UNCHANGED vars
  BY <1>1, Zenon DEF vars
<1>2. CASE AMInternal \/ AMFault
  <2>1. AMStep
    BY <1>2, Zenon DEF AMInternal, AMFault, HandlerStep, AMStep, RequestStep
  <2> QED BY <2>1, Zenon DEF Next
<1>3. ASSUME NEW n \in Node,
             CallNode(n) \/ LateRestart(n) \/ MonitorTimeout(n)
      PROVE  Next
  <2>1. TellNode(n) \/ MonitorFires(n)
    BY <1>3, Zenon DEF CallNode, LateRestart, MonitorTimeout
  <2> QED BY <2>1, Zenon DEF Next, AMStep
<1>4. ASSUME NEW n \in Node, ScriptStopsJob(n) PROVE Next
  BY <1>4, Zenon DEF ScriptStopsJob, Next
<1>5. ASSUME NEW n \in Node, DoRegister(n) \/ NotifyAm(n) PROVE Next
  BY <1>5, RunnerRequest, Zenon DEF Next
<1> QED BY <1>1, <1>2, <1>3, <1>4, <1>5, NodeAlone, Zenon DEF ClusterNext, RunnerStep


LEMMA NodesInit == Init => TypeOK /\ NodesInv
<1> SUFFICES ASSUME Init PROVE TypeOK /\ NodesInv
  BY Zenon
<1>1. TypeOK
  BY InitType, Zenon DEF Init
<1>2. am = "down" /\ clock = 0
  BY Zenon DEF Init, AMInit
<1>3. NodesInv
  BY <1>2, FaultAssumption DEF Init, NodesInv, NodesTypeOK, VersionOK,
     RunnerHasVersion
<1> QED BY <1>1, <1>3, Zenon

LEMMA NodesStep ==
  TypeOK /\ NodesInv /\ [ClusterNext]_vars => TypeOK' /\ NodesInv'
<1> SUFFICES ASSUME TypeOK, NodesInv, [ClusterNext]_vars
             PROVE  TypeOK' /\ NodesInv'
  BY Zenon
<1>1. [Next]_amVars
  BY ClusterStep, Zenon
<1>2. TypeOK'
  BY <1>1, StepType, Zenon
<1>3. clock \in Nat /\ clock' \in Nat
  BY <1>2, ClockType, Zenon
<1>4. VersionOK' /\ clock <= clock'
  <2>1. CASE Next
    BY <2>1, VersionStep, Zenon DEF NodesInv
  <2>2. CASE UNCHANGED amVars
    BY <2>2, <1>3 DEF amVars, memory, history, NodesInv, VersionOK
  <2> QED BY <1>1, <2>1, <2>2, Zenon
<1>5. ASSUME UNCHANGED vars PROVE NodesInv'
  BY <1>4, <1>5, Zenon DEF vars, amVars, history, nodeVars, commands, addresses,
     NodesInv, NodesTypeOK, RunnerHasVersion, running
<1>6. ASSUME ClusterNext PROVE NodesInv'
  BY <1>3, <1>4, <1>6, RunnerNodes, ServerNodes, AMNodes, Zenon DEF ClusterNext
<1> QED BY <1>2, <1>5, <1>6, Zenon

(* NodesTypeOK: the AM knows no address that was never given out, and a     *)
(* heartbeat thread runs only between the registration and the end of its   *)
(* runner, whatever fails and however often (CommonMLRunner, NodeServer).   *)
THEOREM NodesTypeCorrect == ClusterSpec => []NodesTypeOK
<1>1. NodesInv => NodesTypeOK
  BY Zenon DEF NodesInv
<1> QED BY <1>1, NodesInit, NodesStep, PTL DEF ClusterSpec

(* ImplementsAM: the AM in the cluster is the AM of module AppMaster; the   *)
(* runners send it only requests with a version that it drew before, also   *)
(* when the AM or a task has crashed in between (getCurrentJobVersion,      *)
(* doRegisterAction, notifyAmWorkerFinish).                                 *)
THEOREM ClusterImplementsAM == ClusterSpec => ImplementsAM
<1>1. Init => AMInit
  BY Zenon DEF Init
<1>2. TypeOK /\ NodesInv /\ [ClusterNext]_vars => [Next]_amVars
  BY ClusterStep, Zenon
<1> QED BY <1>1, <1>2, NodesInit, NodesStep, PTL
        DEF ClusterSpec, ImplementsAM, Spec

(* In the cluster too, the job ends only if all nodes have finished or the  *)
(* job was stopped (FinishNode, FinishCluster).                             *)
THEOREM ClusterEndsWhenAllFinished == ClusterSpec => []FinishMeansAllFinished
BY ClusterImplementsAM, JobEndsWhenAllFinished, PTL DEF ImplementsAM

(* In the cluster too, exactly one RESTART_CLUSTER waits for a failover     *)
(* that is not being restarted yet (FailNode, RestartCluster, InitAmState). *)
THEOREM ClusterRestartsOnce == ClusterSpec => []FailoverIsRestartedOnce
BY ClusterImplementsAM, FailoverRestartsOnce, PTL DEF ImplementsAM
=============================================================================
