----------------------------- MODULE MLCluster -----------------------------
(***************************************************************************)
(* The AM of module AppMaster together with the nodes it manages.  A node  *)
(* is a Flink task that runs a NodeServer: a loop that obeys the commands  *)
(* of the AM and starts runners (CommonMLRunner), one after the other.  A  *)
(* runner registers at the AM, waits for the cluster, runs the script and  *)
(* reports the result; a heartbeat thread goes with it.                    *)
(***************************************************************************)
EXTENDS AppMaster

CONSTANTS
  Individual,  \* the failover strategy restarts individual tasks
  Faults,      \* kinds of faults that may happen
  MaxFaults    \* bound of the model: faults

ASSUME FaultAssumption ==
  /\ Individual \in BOOLEAN /\ MaxFaults \in Nat
  /\ Faults \subseteq {"script", "heartbeat", "task", "timeout", "stop", "late"}

VARIABLES
  task,    \* the Flink task of a node and where its NodeServer is
  cmd,     \* amCommand of the NodeServer
  pc,      \* where the runner is
  ver,     \* version the runner works with
  result,  \* resultStatus and currentResultStatus of the runner
  beat,    \* version of the heartbeat thread, 0 if there is none
  info,    \* nodes of the cluster definition that the runner was given
  inc,     \* incarnation of the task, which has an address of its own
  addr,    \* incarnation that the client in the cache of the AM leads to
  mAddr,   \* incarnation whose NodeSpec the storage holds
  returned,  \* nodes that have registered although they had finished
  answered,  \* nodes that have answered nodeRestart but not yet set cmd
  faults   \* faults so far

addresses == <<inc, addr, mAddr, returned>>
commands == <<cmd, answered>>
nodeVars == <<task, commands, pc, ver, result, beat, info, addresses, faults>>
runner == <<pc, ver, result, beat, info>>
vars == <<amVars, nodeVars>>
theAM == <<am, memory, meta, history>>

NewResult == [seen |-> "RUNNING", current |-> "RUNNING"]

Fault(kind) ==
  /\ kind \in Faults /\ faults < MaxFaults
  /\ faults' = faults + 1

-----------------------------------------------------------------------------
(* The runner. *)

Goto(n, next) == pc' = [pc EXCEPT ![n] = next]

(* The end of run(): the heartbeat thread is stopped and the AM is told,   *)
(* unless the runner has not come as far as creating its NodeSpec.         *)
Finally(n, outcome) ==
  /\ IF pc[n] \in {"connect", "status"}
     THEN /\ Goto(n, "ended")
          /\ result' = [result EXCEPT ![n] = [seen |-> outcome,
                                              current |-> outcome]]
     ELSE /\ Goto(n, "report")
          /\ result' = [result EXCEPT ![n].current = outcome]
  /\ beat' = [beat EXCEPT ![n] = 0]
  /\ UNCHANGED <<ver, info>>

running(n) == task[n] \in {"up", "restarting"}

(* initAMClient waits for an AM that answers; run() then asks its version. *)
InitAMClient(n) ==
  /\ running(n) /\ pc[n] = "connect" /\ am = "up"
  /\ ver' = [ver EXCEPT ![n] = version]
  /\ Goto(n, "status")
  /\ UNCHANGED <<amVars, addresses, task, commands, result, beat, info, faults>>

(* getAMStatus in doRegisterAction; it takes the read lock. *)
GetAMStatus(n) ==
  /\ running(n) /\ pc[n] \in {"status", "retry"} /\ am = "up" /\ ~locked
  /\ \/ /\ status = "INIT" \/ (status = "RUNNING" /\ Individual)
        /\ Goto(n, "version")
        /\ UNCHANGED <<ver, result, beat, info>>
     \/ status = "FINISH" /\ Finally(n, "FAILED")
  /\ UNCHANGED <<amVars, addresses, task, commands, faults>>

GetCurrentJobVersion(n) ==
  /\ running(n) /\ pc[n] = "version" /\ am = "up"
  /\ ver' = [ver EXCEPT ![n] = version]
  /\ Goto(n, "register")
  /\ UNCHANGED <<amVars, addresses, task, commands, result, beat, info, faults>>

(* Mutant: the version is left out of the request. *)
DoRegister_NoVersion(n) ==
  /\ running(n) /\ pc[n] = "register"
  /\ Send(n, "register", 0)
  /\ Goto(n, "registering")
  /\ UNCHANGED <<theAM, addresses, task, commands, ver, result, beat, info, faults>>

DoRegister(n) ==
  /\ running(n) /\ pc[n] = "register"
  /\ Send(n, "register", ver[n])
  /\ Goto(n, "registering")
  /\ UNCHANGED <<theAM, addresses, task, commands, ver, result, beat, info, faults>>

Registered(n) ==
  /\ running(n) /\ pc[n] = "registering" /\ rpc[n].stage \in Answers
  /\ CASE rpc[n].stage = "OK" ->
            /\ Goto(n, "wait")
            /\ beat' = [beat EXCEPT ![n] = ver[n]]
            /\ UNCHANGED <<ver, result, info>>
       [] rpc[n].stage = "ERROR" ->
            /\ Goto(n, "retry")
            /\ UNCHANGED <<ver, result, beat, info>>
       [] OTHER -> Finally(n, "FAILED")
  /\ UNCHANGED <<amVars, addresses, task, commands, faults>>

WaitClusterRunning(n) ==
  /\ running(n) /\ pc[n] = "wait" /\ am = "up" /\ ~locked
  /\ status = "RUNNING"
  /\ Goto(n, "clusterInfo")
  /\ UNCHANGED <<amVars, addresses, task, commands, ver, result, beat, info, faults>>

(* getClusterInfo checks the version, then reads the storage. *)
GetClusterInfo(n) ==
  /\ running(n) /\ pc[n] = "clusterInfo" /\ am = "up"
  /\ ver[n] = version
  /\ Goto(n, "readInfo")
  /\ UNCHANGED <<amVars, addresses, task, commands, ver, result, beat, info, faults>>

ReadClusterDef(n) ==
  /\ running(n) /\ pc[n] = "readInfo" /\ am = "up"
  /\ IF mCluster = {} THEN Goto(n, "clusterInfo") /\ UNCHANGED info
     ELSE Goto(n, "script") /\ info' = [info EXCEPT ![n] = mCluster \cup mFinish]
  /\ UNCHANGED <<amVars, addresses, task, commands, ver, result, beat, faults>>

(* A call to an AM that is gone, or a wait that takes too long. *)
RunnerFails(n) ==
  /\ running(n)
  /\ \/ /\ am # "up" /\ UNCHANGED faults
        /\ pc[n] \in {"status", "retry", "version", "wait", "clusterInfo", "readInfo"}
     \/ /\ pc[n] \in {"connect", "status", "retry", "wait", "clusterInfo"}
        /\ Fault("timeout")
  /\ Finally(n, "FAILED")
  /\ UNCHANGED <<amVars, addresses, task, commands>>

ScriptEnds(n) ==
  /\ running(n) /\ pc[n] = "script"
  /\ \/ Finally(n, "SUCCEED") /\ UNCHANGED faults
     \/ Finally(n, "FAILED") /\ Fault("script")
  /\ UNCHANGED <<amVars, addresses, task, commands>>

(* The script may end the whole job through finishJob. *)
ScriptStopsJob(n) ==
  /\ running(n) /\ pc[n] = "script"
  /\ StopAllWorker /\ Fault("stop")
  /\ UNCHANGED <<addresses, task, commands, runner>>

NotifyAm(n) ==
  /\ running(n) /\ pc[n] = "report"
  /\ Send(n, IF result[n].current = "SUCCEED" THEN "finish" ELSE "fail", ver[n])
  /\ Goto(n, "reporting")
  /\ UNCHANGED <<theAM, addresses, task, commands, ver, result, beat, info, faults>>

(* resultStatus is set after the report; if that throws, it never is. *)
Notified(n) ==
  /\ running(n) /\ pc[n] = "reporting" /\ rpc[n].stage \in Answers
  /\ Goto(n, "ended")
  /\ result' = [result EXCEPT ![n].seen =
                  IF rpc[n].stage = "UNAVAILABLE" THEN @ ELSE result[n].current]
  /\ UNCHANGED <<amVars, addresses, task, commands, ver, beat, info, faults>>

-----------------------------------------------------------------------------
(* The heartbeat thread: a stale version makes the node restart.  While    *)
(* the AM restarts the nodes it accepts any version, except in a handler   *)
(* that looked at isRestart before and looks at the version late.          *)

isRestart == work.kind = "restart" /\ work.stage = "tell"

(* Mutant: the thread ends without a command. *)
HeartBeatRejected_Ignored(n) ==
  /\ running(n) /\ beat[n] # 0 /\ am = "up"
  /\ beat[n] # version
  /\ IF isRestart THEN Fault("late") ELSE UNCHANGED faults
  /\ beat' = [beat EXCEPT ![n] = 0]
  /\ UNCHANGED <<amVars, addresses, task, commands, pc, ver, result, info>>

HeartBeatRejected(n) ==
  /\ running(n) /\ beat[n] # 0 /\ am = "up"
  /\ beat[n] # version
  /\ IF isRestart THEN Fault("late") ELSE UNCHANGED faults
  /\ cmd' = [cmd EXCEPT ![n] = "RESTART"]
  /\ beat' = [beat EXCEPT ![n] = 0]
  /\ UNCHANGED <<amVars, addresses, task, answered, pc, ver, result, info>>

-----------------------------------------------------------------------------
(* The service of the node: nodeRestart answers before it sets the         *)
(* command, which may be late.                                             *)

NodeRestart(n) ==
  /\ running(n) /\ n \in answered
  /\ cmd' = [cmd EXCEPT ![n] = "RESTART"]
  /\ answered' = answered \ {n}
  /\ UNCHANGED <<amVars, addresses, task, runner, faults>>

-----------------------------------------------------------------------------
(* The loop of the NodeServer. *)

Runner(n, next) ==
  /\ Goto(n, next)
  /\ ver' = [ver EXCEPT ![n] = 0]
  /\ result' = [result EXCEPT ![n] = NewResult]
  /\ beat' = [beat EXCEPT ![n] = 0]
  /\ info' = [info EXCEPT ![n] = {}]

(* RESTART: stop the runner, start another, and only then clear the        *)
(* command.  A request of the old runner that is on its way is completed.  *)
RestartRunner(n) ==
  /\ task[n] = "up" /\ cmd[n] = "RESTART"
  /\ rpc[n].stage \in Answers \cup {"none"}
  /\ task' = [task EXCEPT ![n] = "restarting"]
  /\ Runner(n, "connect")
  /\ UNCHANGED <<amVars, addresses, commands, faults>>

ClearCommand(n) ==
  /\ task[n] = "restarting"
  /\ task' = [task EXCEPT ![n] = "up"]
  /\ cmd' = [cmd EXCEPT ![n] = "NOPE"]
  /\ UNCHANGED <<amVars, addresses, answered, runner, faults>>

StopServer(n) ==
  /\ task[n] = "up"
  /\ cmd[n] = "STOP" \/ result[n].seen = "SUCCEED"
  /\ task' = [task EXCEPT ![n] = IF result[n].seen = "SUCCEED"
                                 THEN "succeeded" ELSE "stopped"]
  /\ cmd' = [cmd EXCEPT ![n] = "NOPE"]
  /\ answered' = answered \ {n}
  /\ beat' = [beat EXCEPT ![n] = 0]
  /\ Goto(n, "ended")
  /\ UNCHANGED <<amVars, addresses, ver, result, info, faults>>

(* The task dies, or gives up after it has been idle for too long; Flink   *)
(* starts a new one.                                                       *)
TaskFails(n) ==
  /\ Individual /\ running(n)
  /\ \/ Fault("task")
     \/ /\ pc[n] = "ended" /\ result[n].seen # "SUCCEED" /\ cmd[n] = "NOPE"
        /\ Fault("timeout")
  /\ task' = [task EXCEPT ![n] = "failed"]
  /\ Runner(n, "ended")
  /\ answered' = answered \ {n}
  /\ UNCHANGED <<amVars, addresses, cmd>>

FlinkRestarts(n) ==
  /\ task[n] = "failed" /\ rpc[n].stage \in Answers \cup {"none"}
  /\ task' = [task EXCEPT ![n] = "up"]
  /\ cmd' = [cmd EXCEPT ![n] = "NOPE"]
  /\ Runner(n, "connect")
  /\ inc' = [inc EXCEPT ![n] = @ + 1]
  /\ UNCHANGED <<amVars, addr, mAddr, returned, answered, faults>>

-----------------------------------------------------------------------------
(* The AM, with what it does to the nodes. *)

(* The client of the AM still leads to the node. *)
reachable(n) == clients[n] = "open" /\ running(n) /\ addr[n] = inc[n]

CallNode(n) ==
  /\ TellNode(n)
  /\ cmd' = [cmd EXCEPT ![n] =
               IF ~reachable(n) THEN @
               ELSE IF work.kind = "restart" THEN "RESTART" ELSE "STOP"]
  /\ UNCHANGED <<addresses, task, answered, runner, faults>>

LateRestart(n) ==
  /\ TellNode(n) /\ reachable(n) /\ work.kind = "restart"
  /\ answered' = answered \cup {n}
  /\ Fault("late")
  /\ UNCHANGED <<addresses, task, cmd, runner>>

(* A monitor fires if its node is gone, or if heartbeats are late. *)
MonitorTimeout(n) ==
  /\ MonitorFires(n)
  /\ IF running(n) /\ pc[n] # "ended" THEN Fault("heartbeat")
     ELSE UNCHANGED faults
  /\ UNCHANGED <<addresses, task, commands, runner>>

(* A handler of registerNode takes the address of its caller. *)
HandlerStep(n) ==
  \/ (CheckVersion(n) \/ DropClient(n)) /\ UNCHANGED addresses
  \/ /\ CacheClient(n)
     /\ addr' = [addr EXCEPT ![n] = inc[n]] /\ UNCHANGED <<inc, mAddr, returned>>
  \/ /\ HandleRequest(n)
     /\ mAddr' = [mAddr EXCEPT ![n] =
                    IF rpc[n].kind = "register" /\ n \in mCluster' THEN inc[n]
                    ELSE @]
     /\ returned' = returned \cup
                      {m \in mFinish : m = n /\ rpc[n].kind = "register" /\ n \in mCluster'}
     /\ UNCHANGED <<inc, addr>>

AMInternal ==
  /\ \/ /\ EventStep \/ Exit \/ \E m \in fired : HandleTimeout(m)
        /\ UNCHANGED addresses
     \/ \E n \in Node : HandlerStep(n)
     \/ InitAmState /\ addr' = mAddr /\ UNCHANGED <<inc, mAddr, returned>>
  /\ UNCHANGED <<task, commands, runner, faults>>

AMFault ==
  /\ Crash \/ \E m \in orphans : OrphanFires(m)
  /\ UNCHANGED nodeVars

-----------------------------------------------------------------------------

Init ==
  /\ AMInit
  /\ task = [n \in Node |-> "up"] /\ cmd = [n \in Node |-> "NOPE"]
  /\ answered = {}
  /\ pc = [n \in Node |-> "connect"] /\ ver = [n \in Node |-> 0]
  /\ result = [n \in Node |-> NewResult]
  /\ beat = [n \in Node |-> 0] /\ info = [n \in Node |-> {}]
  /\ inc = [n \in Node |-> 0] /\ addr = inc /\ mAddr = inc
  /\ returned = {}
  /\ faults = 0

RunnerStep(n) ==
  \/ InitAMClient(n) \/ GetAMStatus(n) \/ GetCurrentJobVersion(n)
  \/ DoRegister(n) \/ Registered(n)
  \/ WaitClusterRunning(n) \/ GetClusterInfo(n) \/ ReadClusterDef(n)
  \/ ScriptEnds(n) \/ NotifyAm(n) \/ Notified(n)

ServerStep(n) ==
  RestartRunner(n) \/ ClearCommand(n) \/ StopServer(n) \/ FlinkRestarts(n)

ClusterNext ==
  \/ AMInternal \/ AMFault
  \/ \E n \in Node :
       \/ CallNode(n) \/ LateRestart(n) \/ MonitorTimeout(n)
       \/ RunnerStep(n) \/ RunnerFails(n) \/ ScriptStopsJob(n)
       \/ HeartBeatRejected(n) \/ NodeRestart(n) \/ ServerStep(n) \/ TaskFails(n)

ClusterSpec == Init /\ [][ClusterNext]_vars

(* Every thread of the AM and of a node keeps running. *)
ClusterFairSpec ==
  /\ ClusterSpec
  /\ WF_vars(AMInternal)
  /\ \A n \in Node :
       /\ WF_vars(CallNode(n)) /\ WF_vars(RunnerStep(n))
       /\ WF_vars(HeartBeatRejected(n) /\ UNCHANGED faults)
       /\ WF_vars(NodeRestart(n)) /\ WF_vars(ServerStep(n))
       /\ WF_vars(RunnerFails(n) /\ UNCHANGED faults)

-----------------------------------------------------------------------------
(* Properties. *)

(* The nodes are well formed, the AM knows no address that was never given  *)
(* out, and a heartbeat thread runs only between the registration and the   *)
(* end of its runner (startHeartBeat, stopHeartBeat).                       *)
NodesTypeOK ==
  /\ task \in [Node -> {"up", "restarting", "stopped", "succeeded", "failed"}]
  /\ cmd \in [Node -> {"NOPE", "STOP", "RESTART"}]
  /\ \A n \in answered : running(n)
  /\ pc \in [Node -> {"connect", "status", "retry", "version", "register",
                      "registering", "wait", "clusterInfo", "readInfo",
                      "script", "report", "reporting", "ended"}]
  /\ ver \in [Node -> 0..clock] /\ beat \in [Node -> 0..clock]
  /\ info \in [Node -> SUBSET Node]
  /\ \A n \in Node : addr[n] \in 0..inc[n] /\ mAddr[n] \in 0..inc[n]
  /\ \A n \in Node : beat[n] # 0 =>
       running(n) /\ pc[n] \in {"wait", "clusterInfo", "readInfo", "script"}
  /\ faults \in 0..MaxFaults

(* A script that runs with the current version was given all the nodes of   *)
(* the job, registered or finished, although getClusterInfo checks the      *)
(* version and reads the storage in two steps, while nodes register, tasks  *)
(* die and come back, and restartAllNodes cleans the storage.  Not promised *)
(* once a node that had finished has registered again: registerNode stores  *)
(* it, and it then counts in the place of a node that is missing.  Nor once *)
(* a restarted AM has taken up a version that had been replaced before it   *)
(* crashed (see VersionIsKept): scripts of that version are current again,  *)
(* with what they read while restartAllNodes cleaned the storage.           *)
ScriptSeesWholeCluster ==
  \A n \in Node :
    (pc[n] = "script" /\ am = "up" /\ ver[n] = version)
      => info[n] = Node \/ returned # {} \/ version # clock

(* The storage holds the version of the cluster (AMMeta calls it the        *)
(* current cluster version).  restartAllNodes keeps the new one in memory.  *)
VersionIsKept == (am = "up" /\ ~locked) => mVersion = version

(* An AM that met a state transition error does not end successfully with   *)
(* the job unfinished: handleStateTransitionError is to fail the job.       *)
ErrorFailsJob == (am = "finished" /\ rejected) => mStatus = "FINISH"

(* Once all the nodes have succeeded, the job ends (FinishNode and          *)
(* FinishCluster in the AM, notifyAmWorkerFinish in the runners).           *)
AllFinishedEndsJob ==
  (\A n \in Node : task[n] = "succeeded") ~> (am = "finished")

(* A failover comes to an end: the cluster is restarted, stopped or ended   *)
(* (RESTART_CLUSTER is queued in FailNode and again in InitAmState).  The   *)
(* bound of the versions is excepted.                                       *)
FailoverEnds ==
  (am = "up" /\ status = "FAILOVER" /\ clock < MaxVersion)
    ~> (am # "up" \/ status # "FAILOVER")

(* The runner of n waits for a cluster of another version. *)
LeftBehind(n) ==
  /\ am = "up" /\ running(n)
  /\ pc[n] \in {"wait", "clusterInfo"} /\ ver[n] # version

(* A runner that waits for a cluster of another version does not wait for   *)
(* ever: the AM tells its node to restart or its heartbeat is rejected      *)
(* (restartAllNodes, heartBeatNode, NodeHeartBeatRunner, NodeServer.run).   *)
(* Not so if the RESTART of a further failover falls between RestartRunner  *)
(* and ClearCommand, which overwrites it: in the runs tasks do not die.     *)
LeftBehindCatchesUp == \A n \in Node : LeftBehind(n) ~> ~LeftBehind(n)

(* A node that the AM asks to stop leaves its loop (nodeStop, NodeServer    *)
(* .run); setAmCommand after a restart must not lose the command.           *)
StopIsObeyed ==
  \A n \in Node : (cmd[n] = "STOP") ~> (task[n] \in {"stopped", "succeeded"})

(* The AM in the cluster is the AM of module AppMaster, and the nodes send   *)
(* it nothing but requests with versions they were given (doRegisterAction,  *)
(* notifyAmWorkerFinish), one at a time.                                     *)
ImplementsAM == Spec
=============================================================================
