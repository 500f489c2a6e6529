------------------------ MODULE WorkflowEventsProofs ------------------------
(***************************************************************************)
(* Proofs about workflow executions on events, for all contexts, rules,    *)
(* extractors, events, requests and crashes: at most one execution runs    *)
(* for a context, STOP stops it, and the rules are met by the events that  *)
(* their configs promise and by no others.                                 *)
(***************************************************************************)
EXTENDS WorkflowEvents, TLAPS

\* An event with a key that is sent.
SentEvents == [key : {e.key : e \in Events}, value : {e.value : e \in Events}, time : Nat]

ExecRecords == [context : Context, status : {"running", "finished", "killed"}, by : {"processor", "client"}]

\* A row with an execution of the scheduler or none.
RowLike(r) ==
    /\ r = [exec |-> r.exec, state |-> r.state]
    /\ r.exec \in DOMAIN execs \cup {None}

\* The shape of the variables.  States of rules may be anything.
Shape ==
    /\ pipe \in Seq(SentEvents) /\ clock \in Nat
    /\ execs \in Seq(ExecRecords)
    /\ registered \subseteq Context
    /\ rows = [x \in Context |-> rows[x]]
    /\ \A x \in Context : RowLike(rows[x]) /\ (x \notin registered => rows[x] = NewRow)
    /\ proc = [pc |-> proc.pc, event |-> proc.event, rules |-> proc.rules, todo |-> proc.todo,
               left |-> proc.left, ctx |-> proc.ctx, read |-> proc.read, met |-> proc.met]
    /\ proc.read = [x \in Context |-> proc.read[x]]

\* The contexts that the processor has read and not handled have rows with the
\* same execution, so what it decides on is what the store has.
LeftOK ==
    /\ proc.left \subseteq registered
    /\ proc.pc = "states" /\ proc.todo # Broadcast => proc.todo \subseteq Context
    /\ proc.pc = "register" => proc.todo \subseteq Context /\ proc.ctx \in proc.todo
    /\ \A x \in proc.left : RowLike(proc.read[x]) /\ proc.read[x].exec = rows[x].exec

\* The context that is handled: until an execution is started its row has the
\* execution that was read, and one is started only if that does not run.
HandledOK ==
    proc.pc \in {"start", "stop", "save"} =>
        /\ proc.ctx \in registered \ proc.left
        /\ RowLike(proc.read[proc.ctx])
        /\ proc.pc # "save" => proc.read[proc.ctx].exec = rows[proc.ctx].exec
        /\ proc.pc = "start" => ~Running(rows[proc.ctx].exec)
        /\ proc.pc = "stop" => rows[proc.ctx].exec # None
        /\ proc.pc = "save" => \/ proc.read[proc.ctx].exec = rows[proc.ctx].exec
                               \/ ~Running(rows[proc.ctx].exec)

\* An execution that the processor has started and not saved.
InHand(x) == proc.pc = "save" /\ proc.ctx = execs[x].context /\ proc.read[proc.ctx].exec = x

\* RunsPerContext, in these terms.
Known ==
    \A x \in DOMAIN execs :
        (execs[x].by = "processor" /\ execs[x].status = "running" /\ x \notin orphans) =>
            \/ rows[execs[x].context].exec = x
            \/ InHand(x)

RunsInv == Shape /\ LeftOK /\ HandledOK /\ Known

\* A row with another state.
LEMMA RowWithState ==
    ASSUME NEW r, RowLike(r), NEW s
    PROVE  [r EXCEPT !.state = s] = [exec |-> r.exec, state |-> s]
BY DEF RowLike

LEMMA RunsIs ==
    ASSUME RunsInv PROVE Shape /\ LeftOK /\ HandledOK /\ Known
BY Zenon DEF RunsInv

LEMMA RunsNext ==
    ASSUME Shape', LeftOK', HandledOK', Known' PROVE RunsInv'
BY Zenon DEF RunsInv

\* What the invariant is about.
RunsVars == <<pipe, clock, registered, rows, execs, proc, orphans>>

\* A step that leaves the store, the scheduler and the processor alone keeps
\* the invariant.
LEMMA Others ==
    ASSUME RunsInv, UNCHANGED RunsVars
    PROVE  RunsInv'
BY RunsIs, RunsNext, Zenon DEF RunsVars, Shape, RowLike, LeftOK, HandledOK, Running, Known, InHand

\* The watcher sends only events with keys that the extractor knows.
LEMMA SendEventStep ==
    ASSUME RunsInv, SendEvent
    PROVE  RunsInv'
<1>1. PICK e \in Events, t \in {clock, clock + 1} :
        pipe' = Append(pipe, [key |-> e.key, value |-> e.value, time |-> t]) /\ clock' = t
  BY Zenon DEF SendEvent
<1>2. UNCHANGED <<registered, rows, execs, proc, orphans>>
  BY Zenon DEF SendEvent
<1>3. [key |-> e.key, value |-> e.value, time |-> t] \in SentEvents /\ clock' \in Nat
  BY <1>1, RunsIs DEF Shape, SentEvents
<1>4. pipe' \in Seq(SentEvents)
  BY <1>1, <1>3, RunsIs DEF Shape
<1> QED
  BY <1>2, <1>3, <1>4, RunsIs, RunsNext, Zenon DEF Shape, RowLike, LeftOK, HandledOK, Running, Known, InHand

\* An idle processor: the invariant says nothing of contexts it has read.
LEMMA IdleOK ==
    ASSUME proc' = Idle
    PROVE  /\ proc' = [pc |-> proc'.pc, event |-> proc'.event, rules |-> proc'.rules, todo |-> proc'.todo,
                       left |-> proc'.left, ctx |-> proc'.ctx, read |-> proc'.read, met |-> proc'.met]
           /\ proc'.read = [x \in Context |-> proc'.read[x]]
           /\ LeftOK' /\ HandledOK'
           /\ proc'.pc = "recv"
BY Zenon DEF Idle, LeftOK, HandledOK

\* run receives an event, and the contexts that are to be read are those of
\* the extractor.
LEMMA RecvStep ==
    ASSUME RunsInv, Recv
    PROVE  RunsInv'
<1> DEFINE e == Head(pipe)
<1>1. e \in SentEvents /\ pipe' \in Seq(SentEvents) /\ UNCHANGED <<clock, registered, rows, execs, orphans>>
  BY RunsIs DEF Shape, Recv
<1>2. proc.pc = "recv"
  BY Zenon DEF Recv
<1>3. CASE ~Subscribed(rules, e) \/ Extract[e.key] = Fails
  <2>1. proc' = Idle
    BY <1>3, Zenon DEF Recv
  <2>2. LeftOK' /\ HandledOK' /\ Shape'
    BY <2>1, <1>1, IdleOK, RunsIs, Zenon DEF Shape, RowLike
  <2>3. Known'
    BY <1>1, <1>2, <2>1, RunsIs, Zenon DEF Known, InHand
  <2> QED
    BY <2>2, <2>3, RunsNext, Zenon
<1>4. CASE ~(~Subscribed(rules, e) \/ Extract[e.key] = Fails)
  <2>1. proc' = [Idle EXCEPT !.pc = "states", !.event = e, !.rules = rules, !.todo = Extract[e.key]]
    BY <1>4, Zenon DEF Recv
  <2>2. /\ proc' = [pc |-> "states", event |-> e, rules |-> rules, todo |-> Extract[e.key], left |-> {},
                    ctx |-> None, read |-> [x \in Context |-> NewRow], met |-> {}]
    BY <2>1, Zenon DEF Idle
  <2>3. \E d \in Events : e.key = d.key
    BY <1>1, Zenon DEF SentEvents
  <2>4. Extract[e.key] # Broadcast => Extract[e.key] \subseteq Context
    BY <2>3, <1>4, EventsAssumption, Zenon
  <2>5. LeftOK' /\ HandledOK'
    BY <2>2, <2>4, Zenon DEF LeftOK, HandledOK
  <2>6. Shape'
    BY <2>2, <1>1, RunsIs, Zenon DEF Shape, RowLike
  <2>7. Known'
    BY <1>1, <1>2, <2>2, RunsIs, Zenon DEF Known, InHand
  <2> QED
    BY <2>5, <2>6, <2>7, RunsNext, Zenon
<1> QED
  BY <1>3, <1>4, Zenon

\* The states of all contexts, read at once.
LEMMA ListStatesStep ==
    ASSUME RunsInv, ListStates
    PROVE  RunsInv'
<1>1. /\ proc.pc = "states" /\ registered \subseteq Context
      /\ UNCHANGED <<pipe, clock, registered, rows, execs, orphans>>
  BY RunsIs, Zenon DEF ListStates, Shape
<1>2. proc' = [pc |-> "handle", event |-> proc.event, rules |-> proc.rules, todo |-> {},
               left |-> registered, ctx |-> proc.ctx, read |-> rows, met |-> proc.met]
  BY RunsIs, Zenon DEF ListStates, Shape
<1>3. Shape'
  BY <1>1, <1>2, RunsIs, Zenon DEF Shape, RowLike
<1>4. LeftOK' /\ HandledOK'
  BY <1>1, <1>2, RunsIs, Zenon DEF Shape, RowLike, LeftOK, HandledOK
<1>5. Known'
  BY <1>1, <1>2, RunsIs, Zenon DEF Known, InHand
<1> QED
  BY <1>3, <1>4, <1>5, RunsNext, Zenon

\* The state of one context, which joins the ones to be handled.
LEMMA JoinStep ==
    ASSUME RunsInv, NEW c \in proc.todo, proc.todo \subseteq Context,
           proc.pc \in {"states", "register"},
           proc' = [pc |-> "states", event |-> proc.event, rules |-> proc.rules, todo |-> proc.todo \ {c},
                    left |-> proc.left \cup {c}, ctx |-> proc.ctx,
                    read |-> [x \in Context |-> IF x = c THEN rows[c] ELSE proc.read[x]], met |-> proc.met],
           registered' \subseteq Context, registered \cup {c} \subseteq registered',
           UNCHANGED <<pipe, clock, rows, execs, orphans>>
    PROVE  RunsInv'
<1>1. Shape'
  BY RunsIs, Zenon DEF Shape, RowLike
<1>2. LeftOK' /\ HandledOK'
  BY RunsIs, Zenon DEF Shape, RowLike, LeftOK, HandledOK
<1>3. Known'
  BY RunsIs, Zenon DEF Known, InHand
<1> QED
  BY <1>1, <1>2, <1>3, RunsNext, Zenon

\* get_workflow_context_event_handler_state: the context has a row, or one is
\* to be registered.
LEMMA GetStateStep ==
    ASSUME RunsInv, GetState
    PROVE  RunsInv'
<1>1. proc.pc = "states" /\ proc.todo # Broadcast /\ UNCHANGED <<pipe, clock, registered, rows, execs, orphans>>
  BY Zenon DEF GetState
<1>2. proc.todo \subseteq Context /\ registered \subseteq Context
  BY <1>1, RunsIs, Zenon DEF LeftOK, Shape
<1>3. CASE proc.todo = {}
  <2>1. proc' = [pc |-> "handle", event |-> proc.event, rules |-> proc.rules, todo |-> proc.todo,
                 left |-> proc.left, ctx |-> proc.ctx, read |-> proc.read, met |-> proc.met]
    BY <1>3, RunsIs, Zenon DEF GetState, Shape
  <2>2. Shape' /\ LeftOK' /\ HandledOK'
    BY <1>1, <2>1, RunsIs, Zenon DEF Shape, RowLike, LeftOK, HandledOK
  <2>3. Known'
    BY <1>1, <2>1, RunsIs, Zenon DEF Known, InHand
  <2> QED
    BY <2>2, <2>3, RunsNext, Zenon
<1>4. CASE proc.todo # {}
  <2>1. PICK c \in proc.todo :
          proc' = IF c \notin registered THEN [proc EXCEPT !.pc = "register", !.ctx = c]
                  ELSE [proc EXCEPT !.todo = @ \ {c}, !.left = @ \cup {c}, !.read[c] = rows[c]]
    BY <1>4, Zenon DEF GetState
  <2>2. CASE c \notin registered
    <3>1. proc' = [pc |-> "register", event |-> proc.event, rules |-> proc.rules, todo |-> proc.todo,
                   left |-> proc.left, ctx |-> c, read |-> proc.read, met |-> proc.met]
      BY <2>1, <2>2, RunsIs, Zenon DEF Shape
    <3>2. Shape' /\ LeftOK' /\ HandledOK'
      BY <1>1, <1>2, <3>1, RunsIs, Zenon DEF Shape, RowLike, LeftOK, HandledOK
    <3>3. Known'
      BY <1>1, <3>1, RunsIs, Zenon DEF Known, InHand
    <3> QED
      BY <3>2, <3>3, RunsNext, Zenon
  <2>3. CASE c \in registered
    <3>1. proc' = [pc |-> "states", event |-> proc.event, rules |-> proc.rules, todo |-> proc.todo \ {c},
                   left |-> proc.left \cup {c}, ctx |-> proc.ctx,
                   read |-> [x \in Context |-> IF x = c THEN rows[c] ELSE proc.read[x]], met |-> proc.met]
      BY <1>1, <1>2, <2>1, <2>3, RunsIs, Zenon DEF Shape
    <3> QED
      BY <1>1, <1>2, <2>3, <3>1, JoinStep
  <2> QED
    BY <2>2, <2>3, Zenon
<1> QED
  BY <1>3, <1>4, Zenon

\* The row of a context is inserted for an event, unless there is one by then.
LEMMA RegisterStep ==
    ASSUME RunsInv, Register
    PROVE  RunsInv'
<1> DEFINE c == proc.ctx
<1>1. /\ proc.pc = "register" /\ c \in proc.todo /\ proc.todo \subseteq Context
      /\ UNCHANGED <<pipe, clock, rows, execs, orphans>>
  BY RunsIs, Zenon DEF Register, LeftOK
<1>2. CASE c \notin registered
  <2>1. NewRow = rows[c]
    BY <1>1, <1>2, RunsIs, Zenon DEF Shape
  <2>2. /\ registered' = registered \cup {c}
        /\ proc' = [proc EXCEPT !.pc = "states", !.todo = @ \ {c}, !.left = @ \cup {c}, !.read[c] = rows[c]]
    BY <1>2, <2>1, Zenon DEF Register
  <2>3. registered' \subseteq Context /\ registered \cup {c} \subseteq registered'
    BY <1>1, <2>2, RunsIs, Zenon DEF Shape
  <2> HIDE DEF c
  <2>4. proc' = [pc |-> "states", event |-> proc.event, rules |-> proc.rules, todo |-> proc.todo \ {c},
                 left |-> proc.left \cup {c}, ctx |-> proc.ctx,
                 read |-> [x \in Context |-> IF x = c THEN rows[c] ELSE proc.read[x]], met |-> proc.met]
    BY <1>1, <2>2, RunsIs, Zenon DEF Shape
  <2> QED
    BY <1>1, <2>3, <2>4, JoinStep, Zenon
<1>3. CASE c \in registered
  <2>1. proc' = Idle /\ registered' = registered
    BY <1>3, Zenon DEF Register, Abort
  <2>2. Shape' /\ LeftOK' /\ HandledOK'
    BY <1>1, <2>1, IdleOK, RunsIs, Zenon DEF Shape, RowLike
  <2>3. Known'
    BY <1>1, <2>1, RunsIs, Zenon DEF Known, InHand
  <2> QED
    BY <2>2, <2>3, RunsNext, Zenon
<1> QED
  BY <1>2, <1>3, Zenon

\* The row of the default context is inserted for a request: a row without an
\* execution, where there was none.
LEMMA RegisterDefaultStep ==
    ASSUME RunsInv, NEW t \in Thread, RegisterDefault(t)
    PROVE  RunsInv'
<1>1. /\ UNCHANGED <<pipe, clock, rows, execs, proc, orphans>>
      /\ registered' = registered \cup {Default} /\ Default \in Context
  BY EventsAssumption, Zenon DEF RegisterDefault
<1>2. Shape'
  BY <1>1, RunsIs, Zenon DEF Shape, RowLike
<1>3. LeftOK' /\ HandledOK' /\ Known'
  BY <1>1, RunsIs, Zenon DEF LeftOK, HandledOK, RowLike, Running, Known, InHand
<1> QED
  BY <1>2, <1>3, RunsNext, Zenon

\* A context is handled: the decision is on the execution its row has.
LEMMA HandleStep ==
    ASSUME RunsInv, Handle
    PROVE  RunsInv'
<1>1. proc.pc = "handle" /\ UNCHANGED <<pipe, clock, registered, rows, execs, orphans>>
  BY Zenon DEF Handle
<1>2. CASE proc' = Idle
  <2>1. Shape' /\ LeftOK' /\ HandledOK'
    BY <1>1, <1>2, IdleOK, RunsIs, Zenon DEF Shape, RowLike
  <2>2. Known'
    BY <1>1, <1>2, RunsIs, Zenon DEF Known, InHand
  <2> QED
    BY <2>1, <2>2, RunsNext, Zenon
<1>3. CASE proc' # Idle
  <2>1. PICK c \in proc.left :
          LET s == WithEvent(c)
              m == Met(proc.rules, s)
          IN proc' = [proc EXCEPT
                        !.pc = Chosen(FirstAction(proc.rules, m), proc.read[c].exec),
                        !.ctx = c, !.left = @ \ {c}, !.met = m,
                        !.read[c].state = CheckRules(proc.rules, s)]
    BY <1>3, Zenon DEF Handle, Abort
  <2> DEFINE m == Met(proc.rules, WithEvent(c))
             s == CheckRules(proc.rules, WithEvent(c))
             pc == Chosen(FirstAction(proc.rules, m), proc.read[c].exec)
             read == [x \in Context |-> IF x = c THEN [exec |-> rows[c].exec, state |-> s] ELSE proc.read[x]]
  <2>2. proc' = [proc EXCEPT !.pc = pc, !.ctx = c, !.left = @ \ {c}, !.met = m, !.read[c].state = s]
    BY <2>1, Zenon
  <2>3. /\ c \in registered /\ c \in Context /\ RowLike(proc.read[c])
        /\ proc.read[c].exec = rows[c].exec
    BY RunsIs, Zenon DEF Shape, LeftOK
  <2>4. /\ pc \in {"start", "stop", "save"}
        /\ pc = "start" => ~Running(rows[c].exec)
        /\ pc = "stop" => rows[c].exec # None
    BY <2>3, Zenon DEF Chosen
  <2> HIDE DEF m, s, pc
  <2>5. [proc.read EXCEPT ![c].state = s] = read
    <3>1. proc.read = [x \in Context |-> proc.read[x]]
      BY RunsIs, Zenon DEF Shape
    <3> QED
      BY <2>3, <3>1 DEF RowLike
  <2>6. proc' = [pc |-> pc, event |-> proc.event, rules |-> proc.rules, todo |-> proc.todo,
                 left |-> proc.left \ {c}, ctx |-> c, read |-> read, met |-> m]
    BY <2>2, <2>5, RunsIs, Zenon DEF Shape
  <2>7. Shape'
    BY <1>1, <2>6, RunsIs, Zenon DEF Shape, RowLike
  <2>8. LeftOK'
    BY <1>1, <2>3, <2>4, <2>6, RunsIs, Zenon DEF Shape, LeftOK, RowLike
  <2>9. HandledOK'
    BY <1>1, <2>3, <2>4, <2>6, Zenon DEF HandledOK, RowLike, Running
  <2>10. Known'
    BY <1>1, <2>6, RunsIs, Zenon DEF Known, InHand
  <2> QED
    BY <2>7, <2>8, <2>9, <2>10, RunsNext, Zenon
<1> QED
  BY <1>2, <1>3, Zenon

\* An execution that ends changes neither its context nor who started it, and
\* none begins to run.
LEMMA Ends ==
    ASSUME RunsInv, NEW x \in DOMAIN execs, NEW v \in {"finished", "killed"},
           execs' = [execs EXCEPT ![x].status = v]
    PROVE  /\ execs' \in Seq(ExecRecords) /\ DOMAIN execs' = DOMAIN execs
           /\ \A y \in DOMAIN execs : /\ execs'[y].context = execs[y].context
                                      /\ execs'[y].by = execs[y].by
                                      /\ execs'[y].status = "running" => execs[y].status = "running"
           /\ \A y \in DOMAIN execs \cup {None} : Running(y)' => Running(y)
<1>1. execs \in Seq(ExecRecords)
  BY RunsIs, Zenon DEF Shape
<1>2. execs[x] \in ExecRecords
  BY <1>1
<1>3. [execs[x] EXCEPT !.status = v] \in ExecRecords
  BY <1>2, Zenon DEF ExecRecords
<1>4. execs' = [execs EXCEPT ![x] = [execs[x] EXCEPT !.status = v]]
  BY Zenon
<1>5. execs' \in Seq(ExecRecords) /\ DOMAIN execs' = DOMAIN execs
  BY <1>1, <1>3, <1>4
<1>6. \A y \in DOMAIN execs : /\ execs'[y].context = execs[y].context
                              /\ execs'[y].by = execs[y].by
                              /\ execs'[y].status = "running" => execs[y].status = "running"
  BY <1>1, <1>2, <1>4 DEF ExecRecords
<1> QED
  BY <1>5, <1>6, Zenon DEF Running

\* A run ends, by itself or by a request of a client.
LEMMA EndsStep ==
    ASSUME RunsInv, NEW x \in DOMAIN execs, Finish(x) \/ ClientKills(x)
    PROVE  RunsInv'
<1>1. UNCHANGED <<pipe, clock, registered, rows, proc, orphans>>
  BY Zenon DEF Finish, ClientKills
<1>2. PICK v \in {"finished", "killed"} : execs' = [execs EXCEPT ![x].status = v]
  BY Zenon DEF Finish, ClientKills
<1>3. /\ execs' \in Seq(ExecRecords) /\ DOMAIN execs' = DOMAIN execs
      /\ \A y \in DOMAIN execs : /\ execs'[y].context = execs[y].context
                                 /\ execs'[y].by = execs[y].by
                                 /\ execs'[y].status = "running" => execs[y].status = "running"
      /\ \A y \in DOMAIN execs \cup {None} : Running(y)' => Running(y)
  BY <1>2, Ends, Zenon
<1>4. Shape'
  BY <1>1, <1>3, RunsIs, Zenon DEF Shape, RowLike
<1>5. LeftOK'
  BY <1>1, <1>3, RunsIs, Zenon DEF LeftOK, RowLike
<1>6. proc.pc \in {"start", "stop", "save"} => rows[proc.ctx].exec \in DOMAIN execs \cup {None}
  BY RunsIs, Zenon DEF Shape, HandledOK, RowLike
<1>7. HandledOK'
  BY <1>1, <1>3, <1>6, RunsIs, Zenon DEF HandledOK, RowLike
<1>8. Known'
  BY <1>1, <1>3, RunsIs DEF Known, InHand
<1> QED
  BY <1>4, <1>5, <1>7, <1>8, RunsNext, Zenon

\* The processor stops the execution of the context it handles, and goes on or
\* drops the event.
LEMMA StopStep ==
    ASSUME RunsInv, Stop
    PROVE  RunsInv'
<1> DEFINE c == proc.ctx
           x == proc.read[c].exec
           killed == [execs EXCEPT ![x].status = "killed"]
<1>1. /\ proc.pc = "stop" /\ UNCHANGED <<pipe, clock, registered, rows, orphans>>
      /\ execs' \in {execs, killed}
      /\ proc' = [proc EXCEPT !.pc = "save"] \/ proc' = Idle
  BY Zenon DEF Stop, Abort
<1>2. x = rows[c].exec /\ x \in DOMAIN execs /\ c \in registered /\ c \in Context
  BY <1>1, RunsIs, Zenon DEF HandledOK, Shape, RowLike
<1>3. /\ execs' \in Seq(ExecRecords) /\ DOMAIN execs' = DOMAIN execs
      /\ \A y \in DOMAIN execs : /\ execs'[y].context = execs[y].context
                                 /\ execs'[y].by = execs[y].by
                                 /\ execs'[y].status = "running" => execs[y].status = "running"
      /\ \A y \in DOMAIN execs \cup {None} : Running(y)' => Running(y)
  <2>1. CASE execs' = execs
    BY <2>1, RunsIs, Zenon DEF Shape, Running
  <2>2. CASE execs' = killed
    BY <1>2, <2>2, Ends, Zenon
  <2> QED
    BY <1>1, <2>1, <2>2, Zenon
<1> HIDE DEF killed
<1>4. \A y \in DOMAIN execs :
        (execs[y].by = "processor" /\ execs[y].status = "running" /\ y \notin orphans)
            => rows[execs[y].context].exec = y
  BY <1>1, RunsIs, Zenon DEF Known, InHand
<1>5. Known'
  BY <1>1, <1>3, <1>4, Zenon DEF Known
<1>6. CASE proc' = [proc EXCEPT !.pc = "save"]
  <2>1. proc' = [pc |-> "save", event |-> proc.event, rules |-> proc.rules, todo |-> proc.todo,
                 left |-> proc.left, ctx |-> c, read |-> proc.read, met |-> proc.met]
    BY <1>6, RunsIs, Zenon DEF Shape
  <2>2. Shape'
    BY <1>1, <1>3, <2>1, RunsIs, Zenon DEF Shape, RowLike
  <2>3. LeftOK'
    BY <1>1, <1>3, <2>1, RunsIs, Zenon DEF LeftOK, RowLike
  <2>4. HandledOK'
    BY <1>1, <1>2, <1>3, <2>1, RunsIs, Zenon DEF HandledOK, RowLike
  <2> QED
    BY <1>5, <2>2, <2>3, <2>4, RunsNext, Zenon
<1>7. CASE proc' = Idle
  <2>1. Shape' /\ LeftOK' /\ HandledOK'
    BY <1>1, <1>3, <1>7, IdleOK, RunsIs, Zenon DEF Shape, RowLike
  <2> QED
    BY <1>5, <2>1, RunsNext, Zenon
<1> QED
  BY <1>1, <1>6, <1>7, Zenon

\* A new execution is the last of the sequence, and the others stay as they are.
LEMMA Begins ==
    ASSUME RunsInv, NEW r \in ExecRecords, execs' = Append(execs, r)
    PROVE  /\ execs' \in Seq(ExecRecords)
           /\ DOMAIN execs' = DOMAIN execs \cup {Len(execs) + 1}
           /\ Len(execs) + 1 \notin DOMAIN execs /\ Len(execs) + 1 # None
           /\ Len(execs') = Len(execs) + 1
           /\ execs'[Len(execs) + 1] = r
           /\ \A y \in DOMAIN execs : execs'[y] = execs[y]
           /\ \A y \in DOMAIN execs \cup {None} : Running(y)' <=> Running(y)
<1>1. execs \in Seq(ExecRecords) /\ Len(execs) \in Nat
  BY RunsIs DEF Shape
<1>2. /\ execs' \in Seq(ExecRecords)
      /\ DOMAIN execs' = DOMAIN execs \cup {Len(execs) + 1}
      /\ Len(execs) + 1 \notin DOMAIN execs
      /\ Len(execs') = Len(execs) + 1
      /\ execs'[Len(execs) + 1] = r
      /\ \A y \in DOMAIN execs : execs'[y] = execs[y]
  BY <1>1
<1>3. Len(execs) + 1 # None
  BY <1>1, EventsAssumption
<1> QED
  BY <1>2, <1>3, Zenon DEF Running

\* The processor starts an execution: no other of the context runs, and its
\* id is in the hand of the processor, or lost with the call.
LEMMA StartStep ==
    ASSUME RunsInv, Start
    PROVE  RunsInv'
<1> DEFINE c == proc.ctx
           n == Len(execs) + 1
           r == [context |-> c, status |-> "running", by |-> "processor"]
<1>1. proc.pc = "start" /\ UNCHANGED <<pipe, clock, registered, rows>>
  BY Zenon DEF Start
<1>2. c \in Context /\ c \in registered /\ RowLike(proc.read[c]) /\ proc.read[c].exec = rows[c].exec
      /\ ~Running(rows[c].exec) /\ rows[c].exec \in DOMAIN execs \cup {None}
  BY <1>1, RunsIs, Zenon DEF HandledOK, Shape, RowLike
<1>3. r \in ExecRecords /\ execs \in Seq(ExecRecords)
  BY <1>2, RunsIs, Zenon DEF ExecRecords, Shape
<1>4. Len(Append(execs, r)) = n
  BY <1>3
<1>5. CASE execs' = Append(execs, r) /\ UNCHANGED orphans
           /\ proc' = [proc EXCEPT !.pc = "save", !.read[c].exec = Len(Append(execs, r))]
  <2> DEFINE read == [x \in Context |-> IF x = c THEN [exec |-> n, state |-> proc.read[c].state] ELSE proc.read[x]]
  <2>1. [proc.read EXCEPT ![c].exec = n] = read
    BY <1>2, RunsIs DEF Shape, RowLike
  <2>2. proc' = [pc |-> "save", event |-> proc.event, rules |-> proc.rules, todo |-> proc.todo,
                 left |-> proc.left, ctx |-> c, read |-> read, met |-> proc.met]
    BY <1>4, <1>5, <2>1, RunsIs, Zenon DEF Shape
  <2>3. /\ execs' \in Seq(ExecRecords) /\ DOMAIN execs' = DOMAIN execs \cup {n}
        /\ execs'[n] = r /\ n # None
        /\ \A y \in DOMAIN execs : execs'[y] = execs[y]
        /\ \A y \in DOMAIN execs \cup {None} : Running(y)' <=> Running(y)
    BY <1>3, <1>5, Begins, Zenon
  <2> HIDE DEF n
  <2>4. Shape'
    BY <1>1, <2>2, <2>3, RunsIs, Zenon DEF Shape, RowLike
  <2>5. c \notin proc.left
    BY <1>1, RunsIs, Zenon DEF HandledOK
  <2>6. LeftOK'
    BY <1>1, <2>2, <2>3, <2>5, RunsIs, Zenon DEF Shape, LeftOK, RowLike
  <2>7. HandledOK'
    BY <1>1, <1>2, <2>2, <2>3, <2>5, Zenon DEF HandledOK, RowLike
  <2>8. \A y \in DOMAIN execs :
          (execs[y].by = "processor" /\ execs[y].status = "running" /\ y \notin orphans)
              => rows[execs[y].context].exec = y
    BY <1>1, RunsIs, Zenon DEF Known, InHand
  <2>9. proc'.pc = "save" /\ proc'.ctx = execs'[n].context /\ proc'.read[proc'.ctx].exec = n
    <3>1. read[c].exec = n
      BY <1>2, Zenon
    <3>2. execs'[n].context = c
      BY <2>3
    <3> QED
      BY <2>2, <3>1, <3>2, Zenon
  <2>10. Known'
    <3>1. SUFFICES ASSUME NEW y \in DOMAIN execs',
                          execs'[y].by = "processor", execs'[y].status = "running", y \notin orphans'
                   PROVE  rows'[execs'[y].context].exec = y \/ InHand(y)'
      BY Zenon DEF Known
    <3>2. CASE y = n
      BY <2>9, <3>2, Zenon DEF InHand
    <3>3. CASE y \in DOMAIN execs
      BY <1>1, <1>5, <2>3, <2>8, <3>1, <3>3, Zenon
    <3> QED
      BY <2>3, <3>2, <3>3, Zenon
  <2> QED
    BY <2>4, <2>6, <2>7, <2>10, RunsNext, Zenon
<1>6. CASE proc' = [proc EXCEPT !.pc = "save"] /\ UNCHANGED <<execs, orphans>>
  <2>1. proc' = [pc |-> "save", event |-> proc.event, rules |-> proc.rules, todo |-> proc.todo,
                 left |-> proc.left, ctx |-> c, read |-> proc.read, met |-> proc.met]
    BY <1>6, RunsIs, Zenon DEF Shape
  <2>2. Shape' /\ LeftOK'
    BY <1>1, <1>2, <1>6, <2>1, RunsIs, Zenon DEF Shape, LeftOK, RowLike
  <2>4. HandledOK'
    BY <1>1, <1>2, <1>6, <2>1, RunsIs, Zenon DEF HandledOK, RowLike, Running
  <2>3. Known'
    BY <1>1, <1>6, <2>1, RunsIs, Zenon DEF Known, InHand
  <2> QED
    BY <2>2, <2>3, <2>4, RunsNext, Zenon
<1>7. CASE proc' = Idle /\ UNCHANGED <<execs, orphans>>
  <2>1. Shape' /\ LeftOK' /\ HandledOK'
    BY <1>1, <1>7, IdleOK, RunsIs, Zenon DEF Shape, RowLike
  <2>2. Known'
    BY <1>1, <1>7, RunsIs, Zenon DEF Known, InHand
  <2> QED
    BY <2>1, <2>2, RunsNext, Zenon
<1>8. CASE proc' = Idle /\ execs' = Append(execs, r) /\ orphans' = orphans \cup {n}
  <2>1. /\ execs' \in Seq(ExecRecords) /\ DOMAIN execs' = DOMAIN execs \cup {n}
        /\ \A y \in DOMAIN execs : execs'[y] = execs[y]
    BY <1>3, <1>8, Begins, Zenon
  <2> HIDE DEF n
  <2>2. Shape' /\ LeftOK' /\ HandledOK'
    BY <1>1, <1>8, <2>1, IdleOK, RunsIs, Zenon DEF Shape, RowLike
  <2>3. Known'
    BY <1>1, <1>8, <2>1, RunsIs, Zenon DEF Known, InHand
  <2> QED
    BY <2>2, <2>3, RunsNext, Zenon
<1> QED
  BY <1>4, <1>5, <1>6, <1>7, <1>8, Zenon DEF Start, Abort

\* An execution of a client has no row.
LEMMA ClientStartsStep ==
    ASSUME RunsInv, NEW c \in Context, ClientStarts(c)
    PROVE  RunsInv'
<1> DEFINE n == Len(execs) + 1
           r == [context |-> c, status |-> "running", by |-> "client"]
<1>1. UNCHANGED <<pipe, clock, registered, rows, proc, orphans>> /\ execs' = Append(execs, r) /\ r \in ExecRecords
  BY Zenon DEF ClientStarts, ExecRecords
<1>2. /\ execs' \in Seq(ExecRecords) /\ DOMAIN execs' = DOMAIN execs \cup {n}
      /\ execs'[n] = r
      /\ \A y \in DOMAIN execs : execs'[y] = execs[y]
      /\ \A y \in DOMAIN execs \cup {None} : Running(y)' <=> Running(y)
  BY <1>1, Begins, Zenon
<1> HIDE DEF n
<1>3. Shape' /\ LeftOK'
  BY <1>1, <1>2, RunsIs, Zenon DEF Shape, RowLike, LeftOK
<1>4. proc.pc \in {"start", "stop", "save"} => rows[proc.ctx].exec \in DOMAIN execs \cup {None}
  BY RunsIs, Zenon DEF Shape, HandledOK, RowLike
<1>5. HandledOK'
  BY <1>1, <1>2, <1>4, RunsIs, Zenon DEF HandledOK, RowLike
<1>6. Known'
  BY <1>1, <1>2, RunsIs DEF Known, InHand
<1> QED
  BY <1>3, <1>5, <1>6, RunsNext, Zenon

\* The row gets the execution that was read or started; the one it had then
\* is the same or does not run.
LEMMA SaveStep ==
    ASSUME RunsInv, Save
    PROVE  RunsInv'
<1> DEFINE c == proc.ctx
<1>1. /\ proc.pc = "save" /\ UNCHANGED <<pipe, clock, registered, execs, orphans>>
      /\ rows' = [rows EXCEPT ![c] = proc.read[c]] /\ proc' = Continue(proc)
  BY Zenon DEF Save
<1>2. /\ c \in registered \ proc.left /\ c \in Context /\ RowLike(proc.read[c])
      /\ proc.read[c].exec = rows[c].exec \/ ~Running(rows[c].exec)
      /\ execs \in Seq(ExecRecords)
  BY <1>1, RunsIs, Zenon DEF HandledOK, Shape
<1>3. /\ rows' = [x \in Context |-> rows'[x]] /\ rows'[c] = proc.read[c]
      /\ \A x \in Context : x # c => rows'[x] = rows[x]
  BY <1>1, <1>2, RunsIs, Zenon DEF Shape
<1> HIDE DEF c
<1>4. \A x \in Context : RowLike(rows[x])' /\ (x \notin registered => rows'[x] = NewRow)
  BY <1>1, <1>2, <1>3, RunsIs, Zenon DEF Shape, RowLike
<1>5. proc'.pc \in {"recv", "handle"}
  BY <1>1, RunsIs, Zenon DEF Continue, Idle, Shape
<1>6. Known'
  <2>1. SUFFICES ASSUME NEW x \in DOMAIN execs, execs[x].by = "processor", execs[x].status = "running",
                        x \notin orphans
                 PROVE  rows'[execs[x].context].exec = x
    BY <1>1, Zenon DEF Known
  <2>2. execs[x].context \in Context /\ x # None /\ x \in Nat
    <3>1. execs[x] \in ExecRecords /\ x \in Nat
      BY <1>2
    <3> QED
      BY <3>1, EventsAssumption, Zenon DEF ExecRecords
  <2>3. CASE execs[x].context # c
    BY <1>1, <1>3, <2>1, <2>2, <2>3, RunsIs, Zenon DEF Known, InHand, c
  <2>4. CASE execs[x].context = c
    <3>1. rows[c].exec = x \/ proc.read[c].exec = x
      BY <2>1, <2>4, RunsIs, Zenon DEF Known, InHand, c
    <3>2. rows[c].exec = x => proc.read[c].exec = x
      BY <1>2, <2>1, <2>2, Zenon DEF Running
    <3> QED
      BY <1>3, <2>4, <3>1, <3>2, Zenon
  <2> QED
    BY <2>3, <2>4, Zenon
<1>7. CASE proc.left = {}
  <2>1. proc' = Idle
    BY <1>1, <1>7, Zenon DEF Continue
  <2>2. Shape' /\ LeftOK' /\ HandledOK'
    BY <1>1, <1>3, <1>4, <2>1, IdleOK, RunsIs, Zenon DEF Shape
  <2> QED
    BY <1>6, <2>2, RunsNext, Zenon
<1>8. CASE proc.left # {}
  <2>1. proc' = [pc |-> "handle", event |-> proc.event, rules |-> proc.rules, todo |-> proc.todo,
                 left |-> proc.left, ctx |-> None, read |-> proc.read, met |-> {}]
    BY <1>1, <1>8, RunsIs, Zenon DEF Continue, Shape
  <2>2. Shape'
    BY <1>1, <1>3, <1>4, <2>1, RunsIs DEF Shape
  <2>3. \A x \in proc.left : x \in registered /\ rows'[x] = rows[x]
    BY <1>2, <1>3, RunsIs, Zenon DEF Shape, LeftOK
  <2>4. \A x \in proc.left : RowLike(proc.read[x])' /\ proc.read[x].exec = rows'[x].exec
    BY <1>1, <2>1, <2>3, RunsIs DEF LeftOK, RowLike
  <2>5. LeftOK' /\ HandledOK'
    BY <1>1, <2>1, <2>3, <2>4 DEF LeftOK, HandledOK
  <2> QED
    BY <1>6, <2>2, <2>5, RunsNext, Zenon
<1> QED
  BY <1>7, <1>8, Zenon

\* A crash makes an orphan of an execution that was started and not saved.
LEMMA CrashStep ==
    ASSUME RunsInv, Crash
    PROVE  RunsInv'
<1>1. /\ UNCHANGED <<clock, registered, rows, execs>> /\ pipe' = <<>>
      /\ proc' = Idle /\ orphans' = orphans \cup Unsaved
  BY Zenon DEF Crash
<1>2. Shape' /\ LeftOK' /\ HandledOK'
  BY <1>1, IdleOK, RunsIs DEF Shape, RowLike
<1>3. \A x \in DOMAIN execs : InHand(x) => rows[execs[x].context].exec = x \/ x \in Unsaved
  BY Zenon DEF InHand, Unsaved
<1>4. Known'
  BY <1>1, <1>3, RunsIs, Zenon DEF Known
<1> QED
  BY <1>2, <1>4, RunsNext, Zenon

\* The invariant holds at the start.
LEMMA RunsInit ==
    ASSUME Init
    PROVE  RunsInv
BY DEF RunsInv, Init, Idle, NewRow, Shape, RowLike, LeftOK, HandledOK, Known

\* Every step of the specification keeps the invariant.
LEMMA RunsStep ==
    ASSUME RunsInv, [Next]_vars
    PROVE  RunsInv'
<1>1. CASE UNCHANGED vars
  BY <1>1, Others, Zenon DEF vars, RunsVars
<1>2. CASE Processor
  BY <1>2, RecvStep, ListStatesStep, GetStateStep, RegisterStep, HandleStep, StartStep, StopStep, SaveStep, Zenon
     DEF Processor
<1>3. ASSUME NEW t \in Thread, OnEvent(t) \/ UpdateWorkflow(t) \/ GetDefault(t)
      PROVE  RunsInv'
  <2>1. UNCHANGED RunsVars
    BY <1>3, Zenon DEF OnEvent, UpdateWorkflow, GetDefault, RunsVars
  <2> QED
    BY <2>1, Others, Zenon
<1> QED
  BY <1>1, <1>2, <1>3, SendEventStep, RegisterDefaultStep, ClientStartsStep, EndsStep, CrashStep, Zenon DEF Next

\* At most one execution runs for a context on events (RunsPerContext), for
\* all contexts, rules, extractors and orders of events, requests, ends of
\* runs and crashes: _handle_event_for_workflow starts one only if the last
\* does not run, and writes its id back before it handles the next event.
THEOREM OneRunPerContext == Spec => []RunsPerContext
<1>1. Init => RunsInv
  BY RunsInit, Zenon
<1>2. RunsInv /\ [Next]_vars => RunsInv'
  BY RunsStep, Zenon
<1>3. RunsInv => RunsPerContext
  BY RunsIs, Zenon DEF Known, InHand, RunsPerContext, Running
<1> QED
  BY <1>1, <1>2, <1>3, PTL DEF Spec

(***************************************************************************)
(* The rules.  The rows hold what the events of the log make of the rule   *)
(* states, whatever else happens; from this follow StoppedIsStopped,       *)
(* OnceIsUsedOnce and NoEventIgnored.                                      *)
(***************************************************************************)

\* A sequence, of whatever elements.
IsLog(l) == l \in Seq({l[n] : n \in DOMAIN l})

\* The log of a context: entries with an event after time 0, in order of time.
LogLike(l) ==
    /\ IsLog(l)
    /\ \A n \in 1..Len(l) : /\ l[n] = [event |-> l[n].event, rules |-> l[n].rules, met |-> l[n].met]
                            /\ l[n].event.time \in Nat \ {0}
                            /\ l[n].met \subseteq DOMAIN l[n].rules
    /\ \A m, n \in 1..Len(l) : m <= n => l[m].event.time <= l[n].event.time

\* The entries whose event is the last of its key.
Latest(l) == {m \in 1..Len(l) : \A k \in m + 1..Len(l) : l[k].event.key # l[m].event.key}
LastEvents(l) == {l[m].event : m \in Latest(l)}

\* The state of the i-th rule after the events of the log: the last event of
\* each key, and the time of the last event by which the i-th rule was met.
RuleStateAfter(l, i, rs) ==
    /\ rs = [map |-> rs.map, schedule |-> rs.schedule, latest |-> rs.latest]
    /\ rs.map = LastEvents(l)
    /\ rs.schedule \in Nat
    /\ \A m \in 1..Len(l) : i \in l[m].met => l[m].event.time <= rs.schedule
    /\ rs.schedule = 0 \/ \E m \in 1..Len(l) : i \in l[m].met /\ rs.schedule = l[m].event.time

\* The rule states after the events of the log; none before the first.
StateAfter(l, s) ==
    /\ l = <<>> => s = NoState
    /\ l # <<>> => s # NoState
    /\ \A i \in DOMAIN s : RuleStateAfter(l, i, s[i])

\* The log with one event more.
Logged(l, e, rs, m) == Append(l, [event |-> e, rules |-> rs, met |-> m])

\* Appending keeps the entries.
LEMMA LoggedIs ==
    ASSUME NEW l, IsLog(l), NEW x
    PROVE  /\ IsLog(Append(l, x)) /\ Len(l) \in Nat
           /\ Len(Append(l, x)) = Len(l) + 1
           /\ \A n \in 1..Len(l) : Append(l, x)[n] = l[n]
           /\ Append(l, x)[Len(l) + 1] = x
           /\ Append(l, x) # <<>>
           /\ l = <<>> <=> Len(l) = 0
<1> DEFINE S == {l[n] : n \in DOMAIN l}
           T == S \cup {x}
           k == Append(l, x)
<1>1. l \in Seq(S) /\ S \subseteq T
  BY Zenon DEF IsLog
<1>2. l \in Seq(T) /\ x \in T
  BY <1>1
<1> HIDE DEF T, S
<1>3. /\ k \in Seq(T) /\ Len(k) = Len(l) + 1 /\ Len(l) \in Nat
      /\ \A n \in 1..Len(l) : k[n] = l[n]
      /\ k[Len(l) + 1] = x /\ k # <<>>
  BY <1>2
<1>4. k \in Seq({k[n] : n \in DOMAIN k})
  BY <1>3
<1>5. l = <<>> <=> Len(l) = 0
  BY <1>2
<1> QED
  BY <1>3, <1>4, <1>5, Zenon DEF IsLog

\* The last events of each key, with one event more.
LEMMA LatestLogged ==
    ASSUME NEW l, IsLog(l), NEW e, NEW rs, NEW m
    PROVE  LastEvents(Logged(l, e, rs, m)) = {d \in LastEvents(l) : d.key # e.key} \cup {e}
<1> DEFINE x == [event |-> e, rules |-> rs, met |-> m]
           k == Append(l, x)
           N == Len(l) + 1
<1>1. /\ Len(l) \in Nat /\ Len(k) = N
      /\ \A n \in 1..Len(l) : k[n] = l[n]
      /\ k[N] = x
  BY LoggedIs
<1>2. k[N].event = e
  BY <1>1
<1> HIDE DEF k, x
<1>3. Latest(k) = {n \in Latest(l) : l[n].event.key # e.key} \cup {N}
  <2>1. ASSUME NEW n \in 1..Len(l)
        PROVE  n \in Latest(k) <=> n \in Latest(l) /\ l[n].event.key # e.key
    BY <1>1, <1>2 DEF Latest
  <2>2. N \in Latest(k)
    BY <1>1 DEF Latest
  <2>3. Latest(k) \subseteq 1..Len(l) \cup {N} /\ Latest(l) \subseteq 1..Len(l)
    BY <1>1 DEF Latest
  <2> QED
    BY <2>1, <2>2, <2>3, Zenon
<1>4. \A n \in Latest(l) : k[n] = l[n]
  BY <1>1, Zenon DEF Latest
<1>5. LastEvents(k) = {d \in LastEvents(l) : d.key # e.key} \cup {e}
  BY <1>2, <1>3, <1>4 DEF LastEvents
<1> QED
  BY <1>5, Zenon DEF Logged, k, x

\* The rule states with the event, as handle_event makes them.
StateWith(s, rs, e) == AddEvent(IF s = NoState THEN NewState(rs) ELSE s, e)

\* The state r of the i-th rule when the event e has been added, and before
\* the rules are checked: L is the log l with the event.
RuleStateWith(l, L, e, i, r) ==
    /\ r = [map |-> LastEvents(L), schedule |-> r.schedule, latest |-> e.time]
    /\ r.schedule \in Nat
    /\ \A n \in 1..Len(l) : i \in l[n].met => l[n].event.time <= r.schedule
    /\ r.schedule = 0 \/ \E n \in 1..Len(l) : i \in l[n].met /\ r.schedule = l[n].event.time

\* add_event: the events of the rule state are the last ones of each key.
LEMMA RuleStateWithEvent ==
    ASSUME NEW l, LogLike(l), NEW s, StateAfter(l, s), NEW rs, NEW e, NEW m,
           NEW i \in DOMAIN StateWith(s, rs, e)
    PROVE  RuleStateWith(l, Logged(l, e, rs, m), e, i, StateWith(s, rs, e)[i])
<1> DEFINE b == IF s = NoState THEN NewState(rs) ELSE s
           r == AddEvent(b, e)[i]
           L == Logged(l, e, rs, m)
<1>1. i \in DOMAIN b
  BY Zenon DEF AddEvent, StateWith
<1>2. RuleStateAfter(l, i, b[i])
  <2>1. CASE s = NoState
    <3>1. l = <<>>
      BY <2>1, Zenon DEF StateAfter
    <3>2. Len(l) = 0
      BY <3>1, Zenon
    <3>3. LastEvents(l) = {}
      BY <3>2 DEF Latest, LastEvents
    <3>4. b[i] = NewRuleState
      BY <1>1, <2>1, Zenon DEF NewState
    <3> QED
      BY <3>2, <3>3, <3>4 DEF RuleStateAfter, NewRuleState
  <2>2. CASE s # NoState
    BY <1>1, <2>2, Zenon DEF StateAfter
  <2> QED
    BY <2>1, <2>2, Zenon
<1> HIDE DEF b
<1>3. r = [b[i] EXCEPT !.map = {d \in @ : d.key # e.key} \cup {e}, !.latest = e.time]
  BY <1>1, Zenon DEF AddEvent
<1>4. r = [map |-> {d \in b[i].map : d.key # e.key} \cup {e}, schedule |-> b[i].schedule, latest |-> e.time]
  BY <1>2, <1>3, Zenon DEF RuleStateAfter
<1>5. {d \in b[i].map : d.key # e.key} \cup {e} = LastEvents(L)
  BY <1>2, LatestLogged DEF RuleStateAfter, LogLike
<1> HIDE DEF L
<1>6. r = [map |-> LastEvents(L), schedule |-> b[i].schedule, latest |-> e.time]
  BY <1>4, <1>5, Zenon
<1> HIDE DEF r
<1>7. RuleStateWith(l, L, e, i, r)
  BY <1>2, <1>6, Zenon DEF RuleStateAfter, RuleStateWith
<1> QED
  BY <1>7, Zenon DEF b, r, L, StateWith

\* The log stays in order, and an entry is met by rules that it has.
LEMMA LogLikeLogged ==
    ASSUME NEW l, LogLike(l), NEW e, NEW rs, NEW m,
           e.time \in Nat \ {0}, \A n \in 1..Len(l) : l[n].event.time <= e.time,
           m \subseteq DOMAIN rs
    PROVE  LogLike(Logged(l, e, rs, m))
<1> DEFINE x == [event |-> e, rules |-> rs, met |-> m]
           k == Append(l, x)
           N == Len(l) + 1
<1>1. /\ IsLog(k) /\ Len(l) \in Nat /\ Len(k) = N
      /\ \A n \in 1..Len(l) : k[n] = l[n]
      /\ k[N] = x
  BY LoggedIs DEF LogLike
<1>2. /\ k[N] = [event |-> k[N].event, rules |-> k[N].rules, met |-> k[N].met]
      /\ k[N].event.time = e.time /\ k[N].met \subseteq DOMAIN k[N].rules
  BY <1>1
<1> HIDE DEF k
<1>3. \A n \in 1..N : n \in 1..Len(l) \/ n = N
  BY <1>1
<1>4. ASSUME NEW a \in 1..N, NEW n \in 1..N, a <= n
      PROVE  k[a].event.time <= k[n].event.time
  BY <1>1, <1>2, <1>3, <1>4 DEF LogLike
<1>5. ASSUME NEW n \in 1..N
      PROVE  /\ k[n] = [event |-> k[n].event, rules |-> k[n].rules, met |-> k[n].met]
             /\ k[n].event.time \in Nat \ {0}
             /\ k[n].met \subseteq DOMAIN k[n].rules
  BY <1>1, <1>2, <1>3, Zenon DEF LogLike
<1>6. LogLike(k)
  BY <1>1, <1>4, <1>5, Zenon DEF LogLike
<1> QED
  BY <1>6, Zenon DEF Logged, k

\* handle_event: what is saved is the state after the log with the event.
LEMMA StateAfterEvent ==
    ASSUME NEW l, LogLike(l), NEW s, StateAfter(l, s), NEW rs, NEW e,
           e.time \in Nat \ {0}, \A n \in 1..Len(l) : l[n].event.time <= e.time,
           DOMAIN rs # {},
           DOMAIN rs \subseteq DOMAIN StateWith(s, rs, e)
    PROVE  LET t == StateWith(s, rs, e)
           IN StateAfter(Logged(l, e, rs, Met(rs, t)), CheckRules(rs, t))
<1> DEFINE t == StateWith(s, rs, e)
           m == Met(rs, t)
           x == [event |-> e, rules |-> rs, met |-> m]
           L == Logged(l, e, rs, m)
           N == Len(l) + 1
           u == CheckRules(rs, t)
           ts == LastEvents(L)
<1>1. /\ Len(l) \in Nat /\ Len(L) = N /\ L # <<>>
      /\ \A n \in 1..Len(l) : L[n] = l[n]
      /\ L[N] = x
  BY LoggedIs DEF LogLike, Logged
<1>2. L[N].event = e /\ L[N].met = m
  BY <1>1
<1> HIDE DEF m
<1>3. \A i \in DOMAIN t : RuleStateWith(l, L, e, i, t[i])
  BY RuleStateWithEvent, Zenon
<1>4. DOMAIN rs \subseteq DOMAIN t
  BY Zenon
<1> HIDE DEF t, L
<1>5. /\ DOMAIN u = DOMAIN t
      /\ \A i \in DOMAIN t : u[i] = IF i \in m THEN [t[i] EXCEPT !.schedule = t[i].latest] ELSE t[i]
  BY Zenon DEF CheckRules, m
<1> HIDE DEF u
<1>6. u # NoState
  BY <1>4, <1>5 DEF NoState
<1>7. ASSUME NEW i \in DOMAIN u
      PROVE  RuleStateAfter(L, i, u[i])
  <2>1. \A n \in 1..N : n \in 1..Len(l) \/ n = N
    BY <1>1
  <2>2. CASE i \in m
    <3>1. t[i].latest = e.time
      BY <1>3, <1>5 DEF RuleStateWith
    <3>2. u[i] = [map |-> ts, schedule |-> e.time, latest |-> e.time]
      BY <1>3, <1>5, <2>2, <3>1 DEF RuleStateWith
    <3>3. \A n \in 1..N : i \in L[n].met => L[n].event.time <= u[i].schedule
      BY <1>1, <1>2, <2>1, <3>2 DEF LogLike
    <3>4. \E n \in 1..N : i \in L[n].met /\ u[i].schedule = L[n].event.time
      BY <1>1, <1>2, <2>2, <3>2
    <3> QED
      BY <1>1, <3>2, <3>3, <3>4 DEF RuleStateAfter
  <2>3. CASE i \notin m
    <3>1. u[i] = t[i] /\ i \in DOMAIN t
      BY <1>5, <2>3, Zenon
    <3>2. /\ u[i] = [map |-> ts, schedule |-> u[i].schedule, latest |-> e.time]
          /\ u[i].schedule \in Nat
          /\ \A n \in 1..Len(l) : i \in l[n].met => l[n].event.time <= u[i].schedule
          /\ u[i].schedule = 0 \/ \E n \in 1..Len(l) : i \in l[n].met /\ u[i].schedule = l[n].event.time
      BY <1>3, <3>1, Zenon DEF RuleStateWith
    <3>3. \A n \in 1..N : i \in L[n].met => L[n].event.time <= u[i].schedule
      BY <1>1, <1>2, <2>1, <2>3, <3>2, Zenon
    <3>4. u[i].schedule = 0 \/ \E n \in 1..N : i \in L[n].met /\ u[i].schedule = L[n].event.time
      BY <1>1, <3>2
    <3> QED
      BY <1>1, <3>2, <3>3, <3>4 DEF RuleStateAfter
  <2> QED
    BY <2>2, <2>3, Zenon
<1>8. StateAfter(L, u)
  BY <1>1, <1>6, <1>7, Zenon DEF StateAfter
<1> QED
  BY <1>8, Zenon DEF L, u, m, t

\* The rules do not change, and no two events have the same time.
Steady(l, n) ==
    \A k, m \in 1..n : /\ l[k].rules = l[m].rules
                       /\ k < m => l[k].event.time < l[m].event.time

\* What the configs promise at an event does not depend on later ones.
LEMMA PromisedPrefix ==
    ASSUME NEW l, NEW L, IsLog(l), Len(l) <= Len(L), \A n \in 1..Len(l) : L[n] = l[n],
           NEW n \in 1..Len(l), NEW rule, NEW i
    PROVE  PromisedRule(L, n, rule, UsedAt(L, n, i)) <=> PromisedRule(l, n, rule, UsedAt(l, n, i))
<1>1. Len(l) \in Nat
  BY DEF IsLog
<1>2. \A k \in 1..n : L[k] = l[k]
  BY <1>1
<1> DEFINE U == UsedAt(L, n, i)
           u == UsedAt(l, n, i)
<1>3. U = u
  BY <1>1, <1>2 DEF UsedAt
<1> HIDE DEF U, u
<1>4. ASSUME NEW config
      PROVE  Promised(L, n, config, U) <=> Promised(l, n, config, u)
  <2>1. \A m \in 1..n : \A k \in m + 1..n : L[k] = l[k]
    BY <1>1, <1>2
  <2>2. ASSUME NEW m \in 1..n
        PROVE  (/\ L[m].event.key \in config.keys
                /\ \A k \in m + 1..n : L[k].event.key # L[m].event.key
                /\ config.equals => L[m].event.value = config.value
                /\ config.once => \A k \in U : k < m)
           <=> (/\ l[m].event.key \in config.keys
                /\ \A k \in m + 1..n : l[k].event.key # l[m].event.key
                /\ config.equals => l[m].event.value = config.value
                /\ config.once => \A k \in u : k < m)
    BY <1>2, <1>3, <2>1, Zenon
  <2> QED
    BY <2>2, Zenon DEF Promised
<1> QED
  BY <1>4, Zenon DEF PromisedRule, U, u

\* _check_event_meet in terms of the log.
LEMMA EventMeetIs ==
    ASSUME NEW l, NEW L, NEW e, NEW i, NEW r, RuleStateWith(l, L, e, i, r), NEW config
    PROVE  EventMeet(config, r) <=>
               \E m \in Latest(L) : /\ L[m].event.key \in config.keys
                                    /\ config.equals => L[m].event.value = config.value
                                    /\ config.once => L[m].event.time > r.schedule
BY DEF RuleStateWith, EventMeet, Matching, LastEvents

\* A rule that is met is one that is promised: for ONCE the event is later than
\* schedule_time, the time of the last event by which the rule at this place was
\* met.
LEMMA MetIsPromised ==
    ASSUME NEW l, LogLike(l), NEW e, NEW rs, NEW m, LogLike(Logged(l, e, rs, m)),
           NEW i \in DOMAIN rs, NEW r, RuleStateWith(l, Logged(l, e, rs, m), e, i, r),
           CheckRule(rs[i], r)
    PROVE  PromisedRule(Logged(l, e, rs, m), Len(l) + 1, rs[i], UsedAt(Logged(l, e, rs, m), Len(l) + 1, i))
<1> DEFINE L == Logged(l, e, rs, m)
           N == Len(l) + 1
           used == UsedAt(L, N, i)
<1>1. /\ Len(l) \in Nat /\ Len(L) = N
      /\ \A n \in 1..Len(l) : L[n] = l[n]
      /\ L[N] = [event |-> e, rules |-> rs, met |-> m]
  BY LoggedIs DEF LogLike, Logged
<1>2. LogLike(L) /\ RuleStateWith(l, L, e, i, r)
  BY Zenon
<1> HIDE DEF L
<1>3. L[N].rules = rs
  BY <1>1
<1>4. ASSUME NEW k \in used
      PROVE  k \in 1..Len(l) /\ L[k].event.time <= r.schedule
  <2>1. k \in 1..N - 1 /\ i \in L[k].met
    BY <1>4, Zenon DEF UsedAt
  <2>2. k \in 1..Len(l)
    BY <1>1, <2>1
  <2> QED
    BY <1>1, <1>2, <2>1, <2>2, Zenon DEF RuleStateWith
<1> HIDE DEF used
<1>5. ASSUME NEW config, EventMeet(config, r)
      PROVE  Promised(L, N, config, used)
  <2>1. PICK a \in Latest(L) : /\ L[a].event.key \in config.keys
                               /\ config.equals => L[a].event.value = config.value
                               /\ config.once => L[a].event.time > r.schedule
    BY <1>2, <1>5, EventMeetIs, Zenon
  <2>2. a \in 1..N /\ \A k \in a + 1..N : L[k].event.key # L[a].event.key
    BY <1>1, Zenon DEF Latest
  <2>3. ASSUME config.once, NEW k \in used
        PROVE  k < a
    <3>1. L[k].event.time <= r.schedule /\ L[a].event.time > r.schedule /\ k \in 1..N
      BY <1>1, <1>4, <2>1, <2>3
    <3>2. a <= k => L[a].event.time <= L[k].event.time
      BY <1>1, <1>2, <2>2, <3>1, Zenon DEF LogLike
    <3>3. L[a].event.time \in Nat /\ L[k].event.time \in Nat /\ r.schedule \in Nat
      BY <1>1, <1>2, <2>2, <3>1, Zenon DEF LogLike, RuleStateWith
    <3> QED
      BY <1>1, <2>2, <3>1, <3>2, <3>3
  <2> QED
    BY <2>1, <2>2, <2>3, Zenon DEF Promised
<1>6. PromisedRule(L, N, rs[i], used)
  BY <1>5, Zenon DEF PromisedRule, CheckRule
<1> QED
  BY <1>6, Zenon DEF L, used

\* If rules do not change and times differ, a rule that is promised is met:
\* schedule_time is the time of an event by which the rule was met, and the
\* promised one came after it.
LEMMA PromisedIsMet ==
    ASSUME NEW l, LogLike(l), NEW e, NEW rs, NEW m, LogLike(Logged(l, e, rs, m)),
           Steady(Logged(l, e, rs, m), Len(l) + 1),
           NEW i \in DOMAIN rs, NEW r, RuleStateWith(l, Logged(l, e, rs, m), e, i, r),
           PromisedRule(Logged(l, e, rs, m), Len(l) + 1, rs[i], UsedAt(Logged(l, e, rs, m), Len(l) + 1, i))
    PROVE  CheckRule(rs[i], r)
<1> DEFINE L == Logged(l, e, rs, m)
           N == Len(l) + 1
           used == UsedAt(L, N, i)
<1>1. /\ Len(l) \in Nat /\ Len(L) = N
      /\ \A n \in 1..Len(l) : L[n] = l[n]
      /\ L[N] = [event |-> e, rules |-> rs, met |-> m]
  BY LoggedIs DEF LogLike, Logged
<1>2. LogLike(L) /\ Steady(L, N) /\ RuleStateWith(l, L, e, i, r) /\ PromisedRule(L, N, rs[i], used)
  BY Zenon
<1> HIDE DEF L
<1>3. L[N].rules = rs
  BY <1>1
<1>4. ASSUME NEW config, Promised(L, N, config, used)
      PROVE  EventMeet(config, r)
  <2>1. PICK a \in 1..N : /\ L[a].event.key \in config.keys
                          /\ \A k \in a + 1..N : L[k].event.key # L[a].event.key
                          /\ config.equals => L[a].event.value = config.value
                          /\ config.once => \A k \in used : k < a
    BY <1>4, Zenon DEF Promised
  <2>2. a \in Latest(L)
    BY <1>1, <2>1, Zenon DEF Latest
  <2>3. ASSUME config.once
        PROVE  L[a].event.time > r.schedule
    <3>1. L[a].event.time \in Nat \ {0}
      BY <1>1, <1>2, Zenon DEF LogLike
    <3>2. CASE r.schedule = 0
      BY <3>1, <3>2
    <3>3. ASSUME NEW k \in 1..Len(l), i \in l[k].met, r.schedule = l[k].event.time
          PROVE  L[a].event.time > r.schedule
      <4>1. k \in 1..N /\ N \in 1..N /\ k \in 1..N - 1 /\ L[k] = l[k]
        BY <1>1
      <4>3. k \in used
        BY <3>3, <4>1, Zenon DEF UsedAt
      <4>4. k < a
        BY <2>1, <2>3, <4>1, <4>3, Zenon
      <4>5. L[k].event.time < L[a].event.time
        BY <1>2, <4>1, <4>4, Zenon DEF Steady
      <4> QED
        BY <3>1, <3>3, <4>1, <4>5, <1>2, Zenon DEF RuleStateWith
    <3> QED
      BY <1>2, <3>2, <3>3, Zenon DEF RuleStateWith
  <2> QED
    BY <1>2, <2>1, <2>2, <2>3, EventMeetIs, Zenon
<1> QED
  BY <1>2, <1>4, Zenon DEF PromisedRule, CheckRule

(***************************************************************************)
(* The invariant on rows, logs and the processor.                          *)
(***************************************************************************)

Busy == proc.pc # "recv"

\* Events come in order of their times.
TimesOK ==
    /\ \A i \in DOMAIN pipe : pipe[i].time \in 1..clock
    /\ \A i, j \in DOMAIN pipe : i <= j => pipe[i].time <= pipe[j].time
    /\ Busy => /\ proc.event.time \in 1..clock
               /\ \A i \in DOMAIN pipe : proc.event.time <= pipe[i].time
    /\ \A c \in Context : \A n \in 1..Len(log[c]) :
        /\ log[c][n].event.time <= clock
        /\ \A i \in DOMAIN pipe : log[c][n].event.time <= pipe[i].time
        /\ Busy => log[c][n].event.time <= proc.event.time

\* The state of a row is the one after the log of its context, and the
\* processor has read the states that the rows have.
StatesOK ==
    /\ log = [c \in Context |-> log[c]]
    /\ \A c \in Context : LogLike(log[c]) /\ StateAfter(log[c], rows[c].state)
    /\ \A c \in proc.left : proc.read[c].state = rows[c].state

\* The context that is handled has the state with the event, checked.
CheckedOK ==
    /\ Busy => DOMAIN proc.rules # {}
    /\ proc.pc \in {"start", "stop", "save"} =>
        LET t == StateWith(rows[proc.ctx].state, proc.rules, proc.event)
        IN /\ DOMAIN proc.rules \subseteq DOMAIN t
           /\ proc.met = Met(proc.rules, t)
           /\ proc.read[proc.ctx].state = CheckRules(proc.rules, t)

\* An action STOP has stopped the execution before the row is saved.
StopOK ==
    /\ proc.pc = "start" => FirstAction(proc.rules, proc.met) = "START"
    /\ proc.pc = "save" /\ FirstAction(proc.rules, proc.met) = "STOP" => ~Running(proc.read[proc.ctx].exec)

\* OnceIsUsedOnce and NoEventIgnored for one log.
OnceOK(l) ==
    \A n \in DOMAIN l : \A i \in l[n].met : PromisedRule(l, n, l[n].rules[i], UsedAt(l, n, i))
NoneIgnored(l) ==
    \A n \in DOMAIN l : Steady(l, n) =>
        \A i \in DOMAIN l[n].rules : PromisedRule(l, n, l[n].rules[i], UsedAt(l, n, i)) => i \in l[n].met

RulesInv ==
    /\ TimesOK /\ StatesOK /\ CheckedOK /\ StopOK
    /\ StoppedIsStopped
    /\ \A c \in Context : OnceOK(log[c]) /\ NoneIgnored(log[c])

LEMMA RulesIs ==
    ASSUME RulesInv
    PROVE  /\ TimesOK /\ StatesOK /\ CheckedOK /\ StopOK /\ StoppedIsStopped
           /\ \A c \in Context : OnceOK(log[c]) /\ NoneIgnored(log[c])
BY Zenon DEF RulesInv

LEMMA RulesNext ==
    ASSUME TimesOK', StatesOK', CheckedOK', StopOK', StoppedIsStopped',
           (\A c \in Context : OnceOK(log[c]) /\ NoneIgnored(log[c]))'
    PROVE  RulesInv'
BY Zenon DEF RulesInv

\* No execution begins to run in a step: one that does not run stays so.
NoneBegins == \A y \in DOMAIN execs \cup {None} : Running(y)' => Running(y)

\* What does not concern the processor, when no row is saved.
LEMMA RowsKept ==
    ASSUME RunsInv, RulesInv, UNCHANGED <<rows, log>>, NoneBegins
    PROVE  /\ StoppedIsStopped'
           /\ (\A c \in Context : OnceOK(log[c]) /\ NoneIgnored(log[c]))'
           /\ (log = [c \in Context |-> log[c]])'
           /\ (\A c \in Context : LogLike(log[c]) /\ StateAfter(log[c], rows[c].state))'
<1>1. \A c \in Context : rows[c].exec \in DOMAIN execs \cup {None}
  BY RunsIs, Zenon DEF Shape, RowLike
<1>2. StoppedIsStopped'
  BY <1>1, RulesIs, Zenon DEF StoppedIsStopped, NoneBegins
<1> QED
  BY <1>2, RulesIs, Zenon DEF StatesOK

\* A step that leaves the processor and the rows alone, and begins no
\* execution that a row has.
LEMMA RulesOthers ==
    ASSUME RunsInv, RulesInv, UNCHANGED <<pipe, clock, rows, proc, log>>, NoneBegins
    PROVE  RulesInv'
<1>1. TimesOK' /\ CheckedOK'
  BY RulesIs, Zenon DEF TimesOK, CheckedOK, Busy
<1>2. proc.pc = "save" => proc.read[proc.ctx].exec \in DOMAIN execs \cup {None}
  BY RunsIs, Zenon DEF HandledOK, RowLike
<1>3. StopOK'
  BY <1>2, RulesIs, Zenon DEF StopOK, NoneBegins
<1>4. StatesOK'
  BY RowsKept, RulesIs, Zenon DEF StatesOK
<1> QED
  BY <1>1, <1>3, <1>4, RowsKept, RulesNext, Zenon

\* The watcher sends an event that is not older than the others.
LEMMA RulesSendEvent ==
    ASSUME RunsInv, RulesInv, SendEvent
    PROVE  RulesInv'
<1>1. PICK e \in Events, t \in {clock, clock + 1} :
        t > 0 /\ pipe' = Append(pipe, [key |-> e.key, value |-> e.value, time |-> t]) /\ clock' = t
  BY Zenon DEF SendEvent
<1>2. UNCHANGED <<rows, execs, proc, log>>
  BY Zenon DEF SendEvent
<1> DEFINE x == [key |-> e.key, value |-> e.value, time |-> t]
<1>3. pipe \in Seq(SentEvents) /\ clock \in Nat /\ t \in Nat /\ x \in SentEvents /\ x.time = t
  BY <1>1, RunsIs DEF Shape, SentEvents
<1>4. /\ DOMAIN pipe' = DOMAIN pipe \cup {Len(pipe) + 1} /\ DOMAIN pipe = 1..Len(pipe) /\ Len(pipe) \in Nat
      /\ \A i \in DOMAIN pipe : pipe'[i] = pipe[i]
      /\ pipe'[Len(pipe) + 1] = x
  BY <1>1, <1>3
<1> HIDE DEF x
<1>5. clock <= t /\ t \in 1..clock' /\ 1..clock \subseteq 1..clock'
  BY <1>1, <1>3
<1>6. /\ \A i \in DOMAIN pipe : pipe[i].time \in 1..clock
      /\ \A c \in Context : \A n \in 1..Len(log[c]) : log[c][n].event.time <= clock /\ log[c][n].event.time \in Nat
      /\ Busy => proc.event.time \in 1..clock
  BY RulesIs, Zenon DEF TimesOK, StatesOK, LogLike
<1>7. TimesOK'
  <2>1. \A i \in DOMAIN pipe' : pipe'[i].time \in 1..clock'
    BY <1>3, <1>4, <1>5, <1>6, Zenon
  <2>2. ASSUME NEW i \in DOMAIN pipe', NEW j \in DOMAIN pipe', i <= j
        PROVE  pipe'[i].time <= pipe'[j].time
    <3>1. CASE j = Len(pipe) + 1
      BY <1>1, <1>3, <1>5, <2>1, <3>1, <1>4
    <3>2. CASE j \in DOMAIN pipe
      BY <1>4, <2>2, <3>2, RulesIs DEF TimesOK
    <3> QED
      BY <1>4, <3>1, <3>2, Zenon
  <2>3. Busy' => /\ proc'.event.time \in 1..clock'
                 /\ \A i \in DOMAIN pipe' : proc'.event.time <= pipe'[i].time
    BY <1>2, <1>3, <1>4, <1>5, <1>6, RulesIs DEF TimesOK, Busy
  <2>4. ASSUME NEW c \in Context, NEW n \in 1..Len(log[c])
        PROVE  /\ log[c][n].event.time <= clock'
               /\ \A i \in DOMAIN pipe' : log[c][n].event.time <= pipe'[i].time
               /\ Busy => log[c][n].event.time <= proc.event.time
    <3>1. log[c][n].event.time <= clock /\ log[c][n].event.time \in Nat
      BY <1>6, Zenon
    <3>2. /\ \A i \in DOMAIN pipe : log[c][n].event.time <= pipe[i].time
          /\ Busy => log[c][n].event.time <= proc.event.time
      BY RulesIs, Zenon DEF TimesOK
    <3> QED
      BY <1>1, <1>3, <1>4, <1>5, <3>1, <3>2
  <2> QED
    BY <1>2, <2>1, <2>2, <2>3, <2>4, Zenon DEF TimesOK, Busy
<1>8. NoneBegins
  BY <1>2, Zenon DEF NoneBegins, Running
<1>9. CheckedOK' /\ StopOK' /\ (\A c \in proc.left : proc.read[c].state = rows[c].state)'
  BY <1>2, RulesIs, Zenon DEF CheckedOK, StopOK, StatesOK, Busy, Running
<1> QED
  BY <1>2, <1>7, <1>8, <1>9, RowsKept, RulesNext, Zenon DEF StatesOK

\* The events that stay in the pipe, when k have been taken from it.
LEMMA PipeKept ==
    ASSUME RunsInv, RulesInv, UNCHANGED <<clock, log>>, NEW k \in Nat,
           DOMAIN pipe' \subseteq Nat,
           \A i \in DOMAIN pipe' : i + k \in DOMAIN pipe /\ pipe'[i] = pipe[i + k],
           Busy' => /\ proc'.event.time \in 1..clock
                    /\ \A i \in DOMAIN pipe' : proc'.event.time <= pipe'[i].time
                    /\ \A c \in Context : \A n \in 1..Len(log[c]) : log[c][n].event.time <= proc'.event.time
    PROVE  TimesOK'
<1>1. \A i \in DOMAIN pipe' : pipe'[i].time \in 1..clock'
  BY RulesIs, Zenon DEF TimesOK
<1>2. ASSUME NEW i \in DOMAIN pipe', NEW j \in DOMAIN pipe', i <= j
      PROVE  pipe'[i].time <= pipe'[j].time
  <2>1. i + k <= j + k /\ i + k \in DOMAIN pipe /\ j + k \in DOMAIN pipe
    BY <1>2
  <2> QED
    BY <2>1, RulesIs, Zenon DEF TimesOK
<1>3. \A c \in Context : \A n \in 1..Len(log[c]) :
        log[c][n].event.time <= clock /\ \A i \in DOMAIN pipe' : log[c][n].event.time <= pipe'[i].time
  BY RulesIs, Zenon DEF TimesOK
<1> QED
  BY <1>1, <1>2, <1>3, Zenon DEF TimesOK

\* The processor drops the event it handles: what it has read is forgotten.
LEMMA RulesIdle ==
    ASSUME RunsInv, RulesInv, proc' = Idle, UNCHANGED <<clock, rows, log>>, NoneBegins,
           NEW k \in Nat, DOMAIN pipe' \subseteq Nat,
           \A i \in DOMAIN pipe' : i + k \in DOMAIN pipe /\ pipe'[i] = pipe[i + k]
    PROVE  RulesInv'
<1>1. proc'.pc = "recv" /\ proc'.left = {}
  BY Zenon DEF Idle
<1>2. TimesOK'
  BY <1>1, PipeKept, Zenon DEF Busy
<1>3. CheckedOK' /\ StopOK'
  BY <1>1, Zenon DEF CheckedOK, StopOK, Busy
<1> QED
  BY <1>1, <1>2, <1>3, RowsKept, RulesNext, Zenon DEF StatesOK

\* The same when the pipe stays as it is.
LEMMA RulesAbort ==
    ASSUME RunsInv, RulesInv, proc' = Idle, UNCHANGED <<pipe, clock, rows, log>>, NoneBegins
    PROVE  RulesInv'
<1>1. pipe \in Seq(SentEvents)
  BY RunsIs, Zenon DEF Shape
<1>2. DOMAIN pipe' \subseteq Nat /\ \A i \in DOMAIN pipe' : i + 0 \in DOMAIN pipe /\ pipe'[i] = pipe[i + 0]
  BY <1>1
<1> QED
  BY <1>2, RulesIdle, Zenon

\* The processor receives the oldest event of the pipe.
LEMMA RulesRecv ==
    ASSUME RunsInv, RulesInv, Recv
    PROVE  RulesInv'
<1> DEFINE e == Head(pipe)
<1>1. /\ pipe \in Seq(SentEvents) /\ pipe # <<>> /\ pipe' = Tail(pipe) /\ proc.pc = "recv"
      /\ UNCHANGED <<clock, rows, execs, log>>
  BY RunsIs, Zenon DEF Shape, Recv
<1>2. /\ DOMAIN pipe' \subseteq Nat
      /\ \A i \in DOMAIN pipe' : i + 1 \in DOMAIN pipe /\ pipe'[i] = pipe[i + 1]
      /\ 1 \in DOMAIN pipe /\ e = pipe[1] /\ DOMAIN pipe \subseteq Nat \ {0}
  BY <1>1
<1>3. NoneBegins
  BY <1>1, Zenon DEF NoneBegins, Running
<1>4. CASE ~Subscribed(rules, e) \/ Extract[e.key] = Fails
  <2>1. proc' = Idle
    BY <1>4, Zenon DEF Recv
  <2> QED
    BY <1>1, <1>2, <1>3, <2>1, RulesIdle, Zenon
<1>5. CASE ~(~Subscribed(rules, e) \/ Extract[e.key] = Fails)
  <2>1. proc' = [pc |-> "states", event |-> e, rules |-> rules, todo |-> Extract[e.key], left |-> {},
                 ctx |-> None, read |-> [x \in Context |-> NewRow], met |-> {}]
    BY <1>5, Zenon DEF Recv, Idle
  <2>2. DOMAIN rules # {}
    BY <1>5, Zenon DEF Subscribed
  <2>3. CheckedOK' /\ StopOK'
    BY <2>1, <2>2, Zenon DEF CheckedOK, StopOK
  <2> HIDE DEF e
  <2>4. proc'.event.time \in 1..clock
    BY <1>2, <2>1, RulesIs, Zenon DEF TimesOK
  <2>5. \A i \in DOMAIN pipe' : proc'.event.time <= pipe'[i].time
    BY <1>2, <2>1, RulesIs DEF TimesOK
  <2>6. \A c \in Context : \A n \in 1..Len(log[c]) : log[c][n].event.time <= proc'.event.time
    BY <1>2, <2>1, RulesIs, Zenon DEF TimesOK
  <2>7. TimesOK'
    BY <1>1, <1>2, <2>4, <2>5, <2>6, PipeKept, Zenon
  <2>8. proc'.left = {}
    BY <2>1, Zenon
  <2> QED
    BY <1>1, <1>3, <2>3, <2>7, <2>8, RowsKept, RulesNext, Zenon DEF StatesOK
<1> QED
  BY <1>4, <1>5, Zenon

\* A step of the processor between two states in which it handles no context:
\* it reads states of rows, and the event and the rules stay the same.
LEMMA RulesRead ==
    ASSUME RunsInv, RulesInv, UNCHANGED <<pipe, clock, rows, log>>, NoneBegins, Busy,
           proc'.pc \in {"states", "register", "handle"},
           proc'.event = proc.event, proc'.rules = proc.rules,
           \A c \in proc'.left : proc'.read[c].state = rows[c].state
    PROVE  RulesInv'
<1>1. TimesOK'
  BY RulesIs, Zenon DEF TimesOK, Busy
<1>2. CheckedOK' /\ StopOK'
  BY RulesIs, Zenon DEF CheckedOK, StopOK, Busy
<1> QED
  BY <1>1, <1>2, RowsKept, RulesNext, Zenon DEF StatesOK

\* The states are read, of all contexts or one after the other.
LEMMA RulesStates ==
    ASSUME RunsInv, RulesInv, ListStates \/ GetState \/ Register
    PROVE  RulesInv'
<1>1. UNCHANGED <<pipe, clock, rows, execs, log>> /\ proc.pc \in {"states", "register"}
  BY Zenon DEF ListStates, GetState, Register
<1>2. NoneBegins /\ Busy
  BY <1>1, Zenon DEF NoneBegins, Running, Busy
<1>3. \A c \in proc.left : proc.read[c].state = rows[c].state
  BY RulesIs, Zenon DEF StatesOK
<1>4. CASE ListStates
  <2>1. proc' = [pc |-> "handle", event |-> proc.event, rules |-> proc.rules, todo |-> {},
                 left |-> registered, ctx |-> proc.ctx, read |-> rows, met |-> proc.met]
    BY <1>4, RunsIs, Zenon DEF ListStates, Shape
  <2> QED
    BY <1>1, <1>2, <2>1, RulesRead, Zenon
<1>5. CASE GetState
  <2>0. proc.todo \subseteq Context
    BY <1>5, RunsIs, Zenon DEF GetState, LeftOK
  <2>1. CASE proc.todo = {}
    <3>1. proc' = [pc |-> "handle", event |-> proc.event, rules |-> proc.rules, todo |-> proc.todo,
                   left |-> proc.left, ctx |-> proc.ctx, read |-> proc.read, met |-> proc.met]
      BY <1>5, <2>1, RunsIs, Zenon DEF GetState, Shape
    <3> QED
      BY <1>1, <1>2, <1>3, <3>1, RulesRead, Zenon
  <2>2. CASE proc.todo # {}
    <3>1. PICK c \in proc.todo :
            proc' = IF c \notin registered THEN [proc EXCEPT !.pc = "register", !.ctx = c]
                    ELSE [proc EXCEPT !.todo = @ \ {c}, !.left = @ \cup {c}, !.read[c] = rows[c]]
      BY <1>5, <2>2, Zenon DEF GetState
    <3>2. CASE c \notin registered
      <4>1. proc' = [pc |-> "register", event |-> proc.event, rules |-> proc.rules, todo |-> proc.todo,
                     left |-> proc.left, ctx |-> c, read |-> proc.read, met |-> proc.met]
        BY <3>1, <3>2, RunsIs, Zenon DEF Shape
      <4> QED
        BY <1>1, <1>2, <1>3, <4>1, RulesRead, Zenon
    <3>3. CASE c \in registered
      <4>1. proc' = [pc |-> proc.pc, event |-> proc.event, rules |-> proc.rules, todo |-> proc.todo \ {c},
                     left |-> proc.left \cup {c}, ctx |-> proc.ctx,
                     read |-> [x \in Context |-> IF x = c THEN rows[c] ELSE proc.read[x]], met |-> proc.met]
        BY <2>0, <3>1, <3>3, RunsIs, Zenon DEF Shape
      <4>2. \A x \in proc'.left : proc'.read[x].state = rows[x].state
        BY <1>3, <2>0, <4>1, RunsIs, Zenon DEF LeftOK, Shape
      <4> QED
        BY <1>1, <1>2, <4>1, <4>2, RulesRead, Zenon
    <3> QED
      BY <3>2, <3>3, Zenon
  <2> QED
    BY <2>1, <2>2, Zenon
<1>6. CASE Register
  <2> DEFINE c == proc.ctx
  <2>0. proc.todo \subseteq Context /\ c \in proc.todo
    BY <1>6, RunsIs, Zenon DEF Register, LeftOK
  <2>1. CASE c \in registered
    <3>1. proc' = Idle
      BY <1>6, <2>1, Zenon DEF Register, Abort
    <3> QED
      BY <1>1, <1>2, <3>1, RulesAbort, Zenon
  <2>2. CASE c \notin registered
    <3>1. NewRow = rows[c]
      BY <2>0, <2>2, RunsIs, Zenon DEF Shape
    <3>2. proc' = [proc EXCEPT !.pc = "states", !.todo = @ \ {c}, !.left = @ \cup {c}, !.read[c] = rows[c]]
      BY <1>6, <2>2, <3>1, Zenon DEF Register
    <3> HIDE DEF c
    <3>3. proc' = [pc |-> "states", event |-> proc.event, rules |-> proc.rules, todo |-> proc.todo \ {c},
                   left |-> proc.left \cup {c}, ctx |-> proc.ctx,
                   read |-> [x \in Context |-> IF x = c THEN rows[c] ELSE proc.read[x]], met |-> proc.met]
      BY <2>0, <3>2, RunsIs, Zenon DEF Shape
    <3>4. \A x \in proc'.left : proc'.read[x].state = rows[x].state
      BY <1>3, <2>0, <3>3, RunsIs, Zenon DEF LeftOK, Shape
    <3> QED
      BY <1>1, <1>2, <3>3, <3>4, RulesRead, Zenon
  <2> QED
    BY <2>1, <2>2, Zenon
<1> QED
  BY <1>4, <1>5, <1>6, Zenon

\* A step of the processor within the handling of one context: the execution
\* may change, the rest stays the same.
LEMMA RulesAct ==
    ASSUME RunsInv, RulesInv, UNCHANGED <<pipe, clock, rows, log>>, NoneBegins,
           proc.pc \in {"start", "stop"}, proc'.pc = "save",
           proc'.event = proc.event, proc'.rules = proc.rules, proc'.met = proc.met,
           proc'.ctx = proc.ctx, proc'.left = proc.left,
           \A c \in Context : proc'.read[c].state = proc.read[c].state,
           FirstAction(proc.rules, proc.met) = "STOP" => ~Running(proc.read[proc.ctx].exec)'
    PROVE  RulesInv'
<1>1. TimesOK'
  BY RulesIs, Zenon DEF TimesOK, Busy
<1>2. StopOK'
  BY Zenon DEF StopOK
<1>3. proc.ctx \in Context /\ proc.left \subseteq Context
  BY RunsIs, Zenon DEF HandledOK, LeftOK, Shape
<1>4. CheckedOK'
  BY <1>3, RulesIs, Zenon DEF CheckedOK, Busy
<1>5. (\A c \in proc.left : proc.read[c].state = rows[c].state)'
  BY <1>3, RulesIs, Zenon DEF StatesOK
<1> QED
  BY <1>1, <1>2, <1>4, <1>5, RowsKept, RulesNext, Zenon DEF StatesOK

\* handle_event: the rules are checked on the state of the row.
LEMMA RulesHandle ==
    ASSUME RunsInv, RulesInv, Handle
    PROVE  RulesInv'
<1>1. proc.pc = "handle" /\ UNCHANGED <<pipe, clock, rows, execs, log>>
  BY Zenon DEF Handle
<1>2. NoneBegins /\ Busy
  BY <1>1, Zenon DEF NoneBegins, Running, Busy
<1>3. CASE proc' = Idle
  BY <1>1, <1>2, <1>3, RulesAbort, Zenon
<1>4. CASE proc' # Idle
  <2>1. PICK c \in proc.left :
          LET s == WithEvent(c)
              m == Met(proc.rules, s)
          IN /\ DOMAIN proc.rules \subseteq DOMAIN s
             /\ proc' = [proc EXCEPT
                        !.pc = Chosen(FirstAction(proc.rules, m), proc.read[c].exec),
                        !.ctx = c, !.left = @ \ {c}, !.met = m,
                        !.read[c].state = CheckRules(proc.rules, s)]
    BY <1>4, Zenon DEF Handle, Abort
  <2>2. WithEvent(c) = StateWith(rows[c].state, proc.rules, proc.event)
    BY RulesIs, Zenon DEF WithEvent, StateWith, StatesOK
  <2> DEFINE t == StateWith(rows[c].state, proc.rules, proc.event)
             m == Met(proc.rules, t)
             s == CheckRules(proc.rules, t)
             a == FirstAction(proc.rules, m)
             pc == Chosen(a, proc.read[c].exec)
             read == [x \in Context |-> IF x = c THEN [exec |-> rows[c].exec, state |-> s] ELSE proc.read[x]]
  <2>3. /\ DOMAIN proc.rules \subseteq DOMAIN t
        /\ proc' = [proc EXCEPT !.pc = pc, !.ctx = c, !.left = @ \ {c}, !.met = m, !.read[c].state = s]
    BY <2>1, <2>2, Zenon
  <2>4. c \in Context /\ proc.left \subseteq Context /\ RowLike(proc.read[c]) /\ proc.read[c].exec = rows[c].exec
    BY RunsIs, Zenon DEF Shape, LeftOK
  <2>5. /\ pc \in {"start", "stop", "save"}
        /\ pc = "start" => a = "START"
        /\ pc = "save" /\ a = "STOP" => ~Running(rows[c].exec)
    BY <2>4, Zenon DEF Chosen, Running
  <2> HIDE DEF m, s, pc, t
  <2>6. [proc.read EXCEPT ![c].state = s] = read
    <3>1. proc.read = [x \in Context |-> proc.read[x]]
      BY RunsIs, Zenon DEF Shape
    <3>2. [proc.read[c] EXCEPT !.state = s] = [exec |-> rows[c].exec, state |-> s]
      BY <2>4, RowWithState, Zenon
    <3>3. [proc.read EXCEPT ![c].state = s]
            = [x \in Context |-> IF x = c THEN [proc.read[c] EXCEPT !.state = s] ELSE proc.read[x]]
      BY <2>4, <3>1
    <3> QED
      BY <3>2, <3>3, Zenon
  <2>7. proc' = [pc |-> pc, event |-> proc.event, rules |-> proc.rules, todo |-> proc.todo,
                 left |-> proc.left \ {c}, ctx |-> c, read |-> read, met |-> m]
    BY <2>3, <2>6, RunsIs, Zenon DEF Shape
  <2>8. TimesOK'
    BY <1>1, <1>2, <2>7, RulesIs, Zenon DEF TimesOK, Busy
  <2>9. read[c].state = s /\ read[c].exec = rows[c].exec /\ \A x \in Context : x # c => read[x] = proc.read[x]
    BY <2>4, Zenon
  <2>10. StopOK'
    BY <1>1, <2>5, <2>7, <2>9, Zenon DEF StopOK, Running
  <2>11. CheckedOK'
    <3>1. /\ proc'.rules = proc.rules /\ proc'.event = proc.event /\ proc'.ctx = c
          /\ proc'.met = m /\ proc'.read[c].state = s
      BY <2>7, <2>9, Zenon
    <3>2. DOMAIN proc.rules # {} /\ DOMAIN proc.rules \subseteq DOMAIN t
      BY <1>2, <2>3, RulesIs, Zenon DEF CheckedOK
    <3> QED
      BY <1>1, <3>1, <3>2, Zenon DEF CheckedOK, t, m, s
  <2>12. (\A x \in proc.left : proc.read[x].state = rows[x].state)'
    BY <1>1, <2>4, <2>7, <2>9, RulesIs, Zenon DEF StatesOK
  <2> QED
    BY <1>1, <1>2, <2>8, <2>10, <2>11, <2>12, RowsKept, RulesNext, Zenon DEF StatesOK
<1> QED
  BY <1>3, <1>4, Zenon

\* start_new_workflow_execution is called for START only.
LEMMA RulesStart ==
    ASSUME RunsInv, RulesInv, Start
    PROVE  RulesInv'
<1> DEFINE c == proc.ctx
           n == Len(execs) + 1
           r == [context |-> c, status |-> "running", by |-> "processor"]
<1>1. proc.pc = "start" /\ UNCHANGED <<pipe, clock, registered, rows, log>>
  BY Zenon DEF Start
<1>2. c \in Context /\ RowLike(proc.read[c]) /\ FirstAction(proc.rules, proc.met) = "START"
  BY <1>1, RunsIs, RulesIs, Zenon DEF HandledOK, Shape, StopOK
<1>3. r \in ExecRecords /\ execs \in Seq(ExecRecords)
  BY <1>2, RunsIs, Zenon DEF ExecRecords, Shape
<1>4. Len(Append(execs, r)) = n
  BY <1>3
<1>5. execs' = Append(execs, r) \/ UNCHANGED execs
  BY Zenon DEF Start
<1>6. NoneBegins
  BY <1>3, <1>5, Begins, Zenon DEF NoneBegins, Running
<1>7. CASE proc' = [proc EXCEPT !.pc = "save", !.read[c].exec = Len(Append(execs, r))]
  <2> DEFINE read == [x \in Context |-> IF x = c THEN [exec |-> n, state |-> proc.read[c].state] ELSE proc.read[x]]
  <2>1. [proc.read EXCEPT ![c].exec = n] = read
    BY <1>2, RunsIs DEF Shape, RowLike
  <2>2. proc' = [pc |-> "save", event |-> proc.event, rules |-> proc.rules, todo |-> proc.todo,
                 left |-> proc.left, ctx |-> c, read |-> read, met |-> proc.met]
    BY <1>4, <1>7, <2>1, RunsIs, Zenon DEF Shape
  <2>3. \A x \in Context : read[x].state = proc.read[x].state
    BY <1>2, Zenon
  <2> QED
    BY <1>1, <1>2, <1>6, <2>2, <2>3, RulesAct, Zenon
<1>8. CASE proc' = [proc EXCEPT !.pc = "save"]
  <2>1. proc' = [pc |-> "save", event |-> proc.event, rules |-> proc.rules, todo |-> proc.todo,
                 left |-> proc.left, ctx |-> c, read |-> proc.read, met |-> proc.met]
    BY <1>8, RunsIs, Zenon DEF Shape
  <2> QED
    BY <1>1, <1>2, <1>6, <2>1, RulesAct, Zenon
<1>9. CASE proc' = Idle
  BY <1>1, <1>6, <1>9, RulesAbort, Zenon
<1> QED
  BY <1>7, <1>8, <1>9, Zenon DEF Start, Abort

\* stop_workflow_execution returns when the execution has been killed.
LEMMA RulesStop ==
    ASSUME RunsInv, RulesInv, Stop
    PROVE  RulesInv'
<1> DEFINE c == proc.ctx
           x == proc.read[c].exec
           killed == [execs EXCEPT ![x].status = "killed"]
<1>1. /\ proc.pc = "stop" /\ UNCHANGED <<pipe, clock, registered, rows, log>>
      /\ execs' \in {execs, killed}
      /\ (proc' = [proc EXCEPT !.pc = "save"] /\ execs' = killed) \/ proc' = Idle
  BY Zenon DEF Stop, Abort
<1>2. x = rows[c].exec /\ x \in DOMAIN execs /\ c \in Context
  BY <1>1, RunsIs, Zenon DEF HandledOK, Shape, RowLike
<1>3. NoneBegins
  <2>1. CASE execs' = execs
    BY <2>1, Zenon DEF NoneBegins, Running
  <2>2. CASE execs' = killed
    BY <1>2, <2>2, Ends, Zenon DEF NoneBegins
  <2> QED
    BY <1>1, <2>1, <2>2, Zenon
<1>4. CASE proc' = [proc EXCEPT !.pc = "save"] /\ execs' = killed
  <2>1. proc' = [pc |-> "save", event |-> proc.event, rules |-> proc.rules, todo |-> proc.todo,
                 left |-> proc.left, ctx |-> c, read |-> proc.read, met |-> proc.met]
    BY <1>4, RunsIs, Zenon DEF Shape
  <2>2. execs[x] \in ExecRecords
    BY <1>2, RunsIs DEF Shape
  <2>3. execs'[x].status = "killed"
    BY <1>2, <1>4, <2>2, Zenon DEF ExecRecords
  <2>4. ~Running(proc.read[proc.ctx].exec)'
    BY <2>1, <2>3, Zenon DEF Running
  <2> QED
    BY <1>1, <1>3, <2>1, <2>4, RulesAct, Zenon
<1>5. CASE proc' = Idle
  BY <1>1, <1>3, <1>5, RulesAbort, Zenon
<1> QED
  BY <1>1, <1>4, <1>5, Zenon

\* The log of a context gets the event, and its row the state after it.
LEMMA LogStep ==
    ASSUME RunsInv, RulesInv, proc.pc = "save"
    PROVE  LET c == proc.ctx
               L == Logged(log[c], proc.event, proc.rules, proc.met)
           IN LogLike(L) /\ StateAfter(L, proc.read[c].state) /\ OnceOK(L) /\ NoneIgnored(L)
<1> DEFINE c == proc.ctx
           l == log[c]
           e == proc.event
           rs == proc.rules
           t == StateWith(rows[c].state, rs, e)
           m == proc.met
           L == Logged(l, e, rs, m)
           N == Len(l) + 1
<1>1. c \in Context
  BY RunsIs, Zenon DEF HandledOK, Shape
<1>2. LogLike(l) /\ StateAfter(l, rows[c].state) /\ OnceOK(l) /\ NoneIgnored(l)
  BY <1>1, RulesIs, Zenon DEF StatesOK
<1>3. clock \in Nat
  BY RunsIs, Zenon DEF Shape
<1>4. e.time \in Nat \ {0} /\ \A n \in 1..Len(l) : l[n].event.time <= e.time
  BY <1>1, <1>3, RulesIs DEF TimesOK, Busy
<1>5. DOMAIN rs # {} /\ DOMAIN rs \subseteq DOMAIN t /\ m = Met(rs, t) /\ proc.read[c].state = CheckRules(rs, t)
  BY RulesIs, Zenon DEF CheckedOK, Busy
<1> HIDE DEF c, l, e, rs, m
<1>6. m \subseteq DOMAIN rs
  BY <1>5, Zenon DEF Met
<1>7. LogLike(L)
  BY <1>2, <1>4, <1>6, LogLikeLogged, Zenon
<1>8. StateAfter(L, proc.read[c].state)
  BY <1>2, <1>4, <1>5, StateAfterEvent, Zenon
<1>9. \A i \in DOMAIN rs : RuleStateWith(l, L, e, i, t[i])
  BY <1>2, <1>5, RuleStateWithEvent, Zenon
<1>10. \A i \in DOMAIN rs : i \in m <=> CheckRule(rs[i], t[i])
  BY <1>5, Zenon DEF Met
<1>11. /\ Len(l) \in Nat /\ Len(L) = N /\ DOMAIN L = 1..N /\ DOMAIN l = 1..Len(l)
       /\ \A n \in 1..Len(l) : L[n] = l[n]
       /\ L[N] = [event |-> e, rules |-> rs, met |-> m]
       /\ IsLog(l)
  <2>1. IsLog(l) /\ IsLog(L)
    BY <1>2, <1>7, Zenon DEF LogLike
  <2>2. DOMAIN L = 1..Len(L) /\ DOMAIN l = 1..Len(l)
    BY <2>1 DEF IsLog
  <2> QED
    BY <2>1, <2>2, LoggedIs DEF Logged
<1>12. L[N].rules = rs /\ L[N].met = m
  BY <1>11
<1> HIDE DEF t
<1>13. ASSUME NEW n \in DOMAIN L, NEW i \in L[n].met
       PROVE  PromisedRule(L, n, L[n].rules[i], UsedAt(L, n, i))
  <2>1. CASE n = N
    <3>1. i \in DOMAIN rs /\ CheckRule(rs[i], t[i]) /\ RuleStateWith(l, L, e, i, t[i])
      BY <1>6, <1>9, <1>10, <1>12, <1>13, <2>1, Zenon
    <3>2. PromisedRule(L, N, rs[i], UsedAt(L, N, i))
      BY <1>2, <1>7, <1>13, <3>1, MetIsPromised, Zenon
    <3> QED
      BY <1>12, <2>1, <3>2, Zenon
  <2>2. CASE n \in 1..Len(l)
    <3>1. PromisedRule(l, n, l[n].rules[i], UsedAt(l, n, i))
      BY <1>2, <1>11, <1>13, <2>2, Zenon DEF OnceOK
    <3>2. PromisedRule(L, n, l[n].rules[i], UsedAt(L, n, i))
      <4>1. Len(l) <= Len(L)
        BY <1>11
      <4> HIDE DEF L
      <4> QED
        BY <1>11, <2>2, <3>1, <4>1, PromisedPrefix, Zenon
    <3> QED
      BY <1>11, <2>2, <3>2, Zenon
  <2> QED
    BY <1>11, <2>1, <2>2
<1>14. ASSUME NEW n \in DOMAIN L, Steady(L, n), NEW i \in DOMAIN L[n].rules,
              PromisedRule(L, n, L[n].rules[i], UsedAt(L, n, i))
       PROVE  i \in L[n].met
  <2>1. CASE n = N
    <3>1. i \in DOMAIN rs /\ PromisedRule(L, N, rs[i], UsedAt(L, N, i)) /\ Steady(L, N) /\ RuleStateWith(l, L, e, i, t[i])
      BY <1>9, <1>12, <1>14, <2>1, Zenon
    <3>2. CheckRule(rs[i], t[i])
      BY <1>2, <1>7, <3>1, PromisedIsMet, Zenon
    <3> QED
      BY <1>10, <1>12, <2>1, <3>1, <3>2, Zenon
  <2>2. CASE n \in 1..Len(l)
    <3>1. Steady(l, n)
      <4>1. \A a \in 1..n : a \in 1..Len(l)
        BY <1>11, <2>2
      <4> QED
        BY <1>11, <1>14, <4>1, Zenon DEF Steady
    <3>2. PromisedRule(l, n, l[n].rules[i], UsedAt(l, n, i))
      <4>1. PromisedRule(L, n, l[n].rules[i], UsedAt(L, n, i)) /\ Len(l) <= Len(L)
        BY <1>11, <1>14, <2>2
      <4> HIDE DEF L
      <4> QED
        BY <1>11, <2>2, <4>1, PromisedPrefix, Zenon
    <3>3. i \in l[n].met
      BY <1>2, <1>11, <1>14, <2>2, <3>1, <3>2, Zenon DEF NoneIgnored
    <3> QED
      BY <1>11, <2>2, <3>3, Zenon
  <2> QED
    BY <1>11, <2>1, <2>2
<1>15. OnceOK(L) /\ NoneIgnored(L)
  BY <1>13, <1>14, Zenon DEF OnceOK, NoneIgnored
<1> QED
  BY <1>7, <1>8, <1>15, Zenon DEF L, c, l, e, rs, m

\* update_workflow_context_event_handler_state
LEMMA RulesSave ==
    ASSUME RunsInv, RulesInv, Save
    PROVE  RulesInv'
<1> DEFINE c == proc.ctx
           x == [event |-> proc.event, rules |-> proc.rules, met |-> proc.met]
           L == Logged(log[c], proc.event, proc.rules, proc.met)
<1>1. /\ proc.pc = "save" /\ UNCHANGED <<pipe, clock, registered, execs>>
      /\ rows' = [rows EXCEPT ![c] = proc.read[c]] /\ proc' = Continue(proc)
      /\ log' = [log EXCEPT ![c] = L]
  BY Zenon DEF Save, Logged
<1>2. c \in Context /\ c \notin proc.left /\ proc.left \subseteq Context
  BY <1>1, RunsIs, Zenon DEF HandledOK, Shape, LeftOK
<1>3. LogLike(L) /\ StateAfter(L, proc.read[c].state) /\ OnceOK(L) /\ NoneIgnored(L)
  BY <1>1, LogStep, Zenon
<1>4. /\ IsLog(log[c]) /\ Len(log[c]) \in Nat /\ Len(L) = Len(log[c]) + 1
      /\ \A n \in 1..Len(log[c]) : L[n] = log[c][n]
      /\ L[Len(L)] = x
  <2>1. IsLog(log[c])
    BY <1>2, RulesIs, Zenon DEF StatesOK, LogLike
  <2> QED
    BY <2>1, LoggedIs DEF Logged
<1>5. /\ rows' = [y \in Context |-> rows'[y]] /\ rows'[c] = proc.read[c]
      /\ \A y \in Context : y # c => rows'[y] = rows[y]
  BY <1>1, <1>2, RunsIs, Zenon DEF Shape
<1>6. /\ log' = [y \in Context |-> log'[y]] /\ log'[c] = L
      /\ \A y \in Context : y # c => log'[y] = log[y]
  BY <1>1, <1>2, RulesIs, Zenon DEF StatesOK
<1>7. L[Len(L)].rules = proc.rules /\ L[Len(L)].met = proc.met /\ L[Len(L)].event = proc.event
  BY <1>4
<1> HIDE DEF c, L
<1>8. \A y \in Context : OnceOK(log'[y]) /\ NoneIgnored(log'[y])
  BY <1>3, <1>6, RulesIs, Zenon
<1>9. \A y \in Context : LogLike(log'[y]) /\ StateAfter(log'[y], rows'[y].state)
  BY <1>3, <1>5, <1>6, RulesIs, Zenon DEF StatesOK
<1>10. StoppedIsStopped'
  <2>1. ASSUME NEW y \in Context, log'[y] # <<>>,
               FirstAction(log'[y][Len(log'[y])].rules, log'[y][Len(log'[y])].met) = "STOP"
        PROVE  ~Running(rows'[y].exec)
    <3>1. CASE y = c
      <4>1. FirstAction(proc.rules, proc.met) = "STOP"
        BY <1>6, <1>7, <2>1, <3>1, Zenon
      <4>2. ~Running(proc.read[c].exec)
        BY <1>1, <4>1, RulesIs, Zenon DEF StopOK, c
      <4> QED
        BY <1>5, <3>1, <4>2, Zenon
    <3>2. CASE y # c
      BY <1>5, <1>6, <2>1, <3>2, RulesIs, Zenon DEF StoppedIsStopped
    <3> QED
      BY <3>1, <3>2, Zenon
  <2> QED
    BY <1>1, <2>1, Zenon DEF StoppedIsStopped, Running
<1>11. ASSUME NEW y \in Context, NEW n \in 1..Len(log'[y])
       PROVE  log'[y][n].event.time <= proc.event.time \/ \E k \in 1..Len(log[y]) : log'[y][n] = log[y][k]
  <2>1. CASE y = c /\ n = Len(L)
    BY <1>1, <1>6, <1>7, <2>1, RunsIs, RulesIs DEF TimesOK, Busy, Shape
  <2>2. CASE y = c /\ n # Len(L)
    BY <1>4, <1>6, <1>11, <2>2
  <2>3. CASE y # c
    BY <1>6, <1>11, <2>3, Zenon
  <2> QED
    BY <2>1, <2>2, <2>3, Zenon
<1>12. \A y \in Context : \A n \in 1..Len(log[y]) : log[y][n].event.time <= proc.event.time
  BY <1>1, RulesIs, Zenon DEF TimesOK, Busy
<1>13. \A y \in Context : \A n \in 1..Len(log'[y]) :
         log'[y][n].event.time <= proc.event.time /\ log'[y][n].event.time \in Nat
  <2>1. ASSUME NEW y \in Context, NEW n \in 1..Len(log'[y])
        PROVE  log'[y][n].event.time <= proc.event.time /\ log'[y][n].event.time \in Nat
    <3>1. LogLike(log'[y])
      BY <1>9, Zenon
    <3>2. log'[y][n].event.time \in Nat
      BY <3>1, Zenon DEF LogLike
    <3>3. log'[y][n].event.time <= proc.event.time
      BY <1>11, <1>12, Zenon
    <3> QED
      BY <3>2, <3>3, Zenon
  <2> QED
    BY <2>1, Zenon
<1>14. /\ proc.event.time \in 1..clock
       /\ \A i \in DOMAIN pipe : proc.event.time <= pipe[i].time /\ pipe[i].time \in Nat
       /\ clock \in Nat
  BY <1>1, RunsIs, RulesIs DEF TimesOK, Busy, Shape
<1>15. ASSUME Busy' => proc'.event = proc.event
       PROVE  TimesOK'
  <2>1. \A y \in Context : \A n \in 1..Len(log'[y]) :
          /\ log'[y][n].event.time <= clock
          /\ \A i \in DOMAIN pipe : log'[y][n].event.time <= pipe[i].time
    <3>1. ASSUME NEW y \in Context, NEW n \in 1..Len(log'[y])
          PROVE  /\ log'[y][n].event.time <= clock
                 /\ \A i \in DOMAIN pipe : log'[y][n].event.time <= pipe[i].time
      <4>1. log'[y][n].event.time <= proc.event.time /\ log'[y][n].event.time \in Nat
        BY <1>13, Zenon
      <4> QED
        BY <1>14, <4>1
    <3> QED
      BY <3>1, Zenon
  <2>2. /\ \A i \in DOMAIN pipe : pipe[i].time \in 1..clock
        /\ \A i, j \in DOMAIN pipe : i <= j => pipe[i].time <= pipe[j].time
    BY RulesIs, Zenon DEF TimesOK
  <2> QED
    BY <1>1, <1>13, <1>14, <1>15, <2>1, <2>2, Zenon DEF TimesOK
<1>16. CASE proc.left = {}
  <2>1. proc' = Idle
    BY <1>1, <1>16, Zenon DEF Continue
  <2>2. proc'.pc = "recv" /\ proc'.left = {}
    BY <2>1, Zenon DEF Idle
  <2>3. TimesOK' /\ CheckedOK' /\ StopOK'
    BY <1>15, <2>2, Zenon DEF CheckedOK, StopOK, Busy
  <2> QED
    BY <1>6, <1>8, <1>9, <1>10, <2>2, <2>3, RulesNext, Zenon DEF StatesOK
<1>17. CASE proc.left # {}
  <2>1. proc' = [pc |-> "handle", event |-> proc.event, rules |-> proc.rules, todo |-> proc.todo,
                 left |-> proc.left, ctx |-> None, read |-> proc.read, met |-> {}]
    BY <1>1, <1>17, RunsIs, Zenon DEF Continue, Shape
  <2>2. TimesOK'
    BY <1>15, <2>1, Zenon
  <2>3. CheckedOK' /\ StopOK'
    <3>1. proc'.pc = "handle" /\ proc'.rules = proc.rules
      BY <2>1, Zenon
    <3>2. DOMAIN proc.rules # {}
      BY <1>1, RulesIs, Zenon DEF CheckedOK, Busy
    <3> QED
      BY <3>1, <3>2, Zenon DEF CheckedOK, StopOK, Busy
  <2>4. \A y \in proc.left : proc.read[y].state = rows'[y].state
    BY <1>2, <1>5, RulesIs, Zenon DEF StatesOK
  <2> QED
    BY <1>6, <1>8, <1>9, <1>10, <2>1, <2>2, <2>3, <2>4, RulesNext, Zenon DEF StatesOK
<1> QED
  BY <1>16, <1>17, Zenon

\* A crash loses the events of the pipe, and no row.
LEMMA RulesCrash ==
    ASSUME RunsInv, RulesInv, Crash
    PROVE  RulesInv'
<1>1. /\ UNCHANGED <<clock, rows, execs, log>> /\ pipe' = <<>> /\ proc' = Idle
  BY Zenon DEF Crash
<1>2. NoneBegins /\ DOMAIN pipe' = {}
  BY <1>1 DEF NoneBegins, Running
<1> QED
  BY <1>1, <1>2, RulesIdle, Zenon

\* The invariant holds at the start.
LEMMA RulesInit ==
    ASSUME Init
    PROVE  RulesInv
<1>1. /\ log = [c \in Context |-> <<>>] /\ rows = [c \in Context |-> NewRow] /\ proc.pc = "recv"
      /\ proc.left = {} /\ pipe = <<>>
  BY Zenon DEF Init, Idle
<1>2. \A c \in Context : log[c] = <<>> /\ rows[c].state = NoState
  BY <1>1, Zenon DEF NewRow
<1>3. LogLike(<<>>) /\ StateAfter(<<>>, NoState) /\ OnceOK(<<>>) /\ NoneIgnored(<<>>)
  BY DEF LogLike, IsLog, StateAfter, NoState, OnceOK, NoneIgnored
<1>4. TimesOK
  BY <1>1, <1>2 DEF TimesOK, Busy
<1>5. StatesOK
  BY <1>1, <1>2, <1>3, Zenon DEF StatesOK
<1>6. CheckedOK /\ StopOK /\ StoppedIsStopped
  BY <1>1, <1>2, Zenon DEF CheckedOK, StopOK, StoppedIsStopped, Busy
<1> QED
  BY <1>2, <1>3, <1>4, <1>5, <1>6, Zenon DEF RulesInv

\* Every step keeps the invariant.
LEMMA RulesStep ==
    ASSUME RunsInv, RulesInv, [Next]_vars
    PROVE  RulesInv'
<1>1. ASSUME UNCHANGED <<pipe, clock, rows, execs, proc, log>>
      PROVE  RulesInv'
  <2>1. NoneBegins
    BY <1>1, Zenon DEF NoneBegins, Running
  <2> QED
    BY <1>1, <2>1, RulesOthers, Zenon
<1>2. CASE UNCHANGED vars
  BY <1>1, <1>2, Zenon DEF vars
<1>3. ASSUME NEW t \in Thread, OnEvent(t) \/ UpdateWorkflow(t) \/ GetDefault(t) \/ RegisterDefault(t)
      PROVE  RulesInv'
  BY <1>1, <1>3, Zenon DEF OnEvent, UpdateWorkflow, GetDefault, RegisterDefault
<1>4. ASSUME NEW c \in Context, ClientStarts(c)
      PROVE  RulesInv'
  <2>1. /\ UNCHANGED <<pipe, clock, rows, proc, log>>
        /\ execs' = Append(execs, [context |-> c, status |-> "running", by |-> "client"])
        /\ [context |-> c, status |-> "running", by |-> "client"] \in ExecRecords
    BY <1>4, Zenon DEF ClientStarts, ExecRecords
  <2>2. NoneBegins
    BY <2>1, Begins, Zenon DEF NoneBegins
  <2> QED
    BY <2>1, <2>2, RulesOthers, Zenon
<1>5. ASSUME NEW x \in DOMAIN execs, ClientKills(x) \/ Finish(x)
      PROVE  RulesInv'
  <2>1. UNCHANGED <<pipe, clock, rows, proc, log>>
    BY <1>5, Zenon DEF Finish, ClientKills
  <2>2. PICK v \in {"finished", "killed"} : execs' = [execs EXCEPT ![x].status = v]
    BY <1>5, Zenon DEF Finish, ClientKills
  <2>3. NoneBegins
    BY <2>2, Ends, Zenon DEF NoneBegins
  <2> QED
    BY <2>1, <2>3, RulesOthers, Zenon
<1>6. CASE Processor
  BY <1>6, RulesRecv, RulesStates, RulesHandle, RulesStart, RulesStop, RulesSave, Zenon DEF Processor
<1> QED
  BY <1>2, <1>3, <1>4, <1>5, <1>6, RulesSendEvent, RulesCrash, Zenon DEF Next

\* Both invariants hold in every state.
LEMMA RulesAlways == Spec => [](RunsInv /\ RulesInv)
<1>1. Init => RunsInv /\ RulesInv
  BY RunsInit, RulesInit, Zenon
<1>2. RunsInv /\ RulesInv /\ [Next]_vars => (RunsInv /\ RulesInv)'
  BY RunsStep, RulesStep, Zenon
<1> QED
  BY <1>1, <1>2, PTL DEF Spec

\* When the last event of a context asked for STOP, its execution does not run
\* (StoppedIsStopped), for all rules, events, requests, failures of the calls
\* and crashes: the row is saved after stop_workflow_execution has returned,
\* and only START puts another execution into it.
THEOREM StopStops == Spec => []StoppedIsStopped
<1>1. RunsInv /\ RulesInv => StoppedIsStopped
  BY RulesIs, Zenon
<1> QED
  BY <1>1, RulesAlways, PTL

\* No event of a ONCE config meets the rule at a place twice (OnceIsUsedOnce),
\* for all rules, contexts and events, also of the same time, and all requests
\* that replace rules, failures of calls and crashes: schedule_time is saved
\* with the row, for a place of the list of rules, and never goes back.
THEOREM OnceIsOnce == Spec => []OnceIsUsedOnce
<1>1. RunsInv /\ RulesInv => OnceIsUsedOnce
  BY RulesIs, Zenon DEF OnceOK, OnceIsUsedOnce
<1> QED
  BY <1>1, RulesAlways, PTL

\* No event is taken for one that was used (NoEventIgnored), for all rules,
\* contexts and events of different times: schedule_time of a rule state is
\* the time of an event by which the rule was met.
THEOREM NoneIsIgnored == Spec => []NoEventIgnored
<1>1. RunsInv /\ RulesInv => NoEventIgnored
  BY RulesIs, Zenon DEF NoneIgnored, Steady, NoEventIgnored
<1> QED
  BY <1>1, RulesAlways, PTL
=============================================================================
