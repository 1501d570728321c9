------------------------------ MODULE DagProofs ------------------------------
(***************************************************************************)
(* Theorems about DagEngine: for every graph, option and bound; and those  *)
(* that rest on no node being executed twice at the same time, because     *)
(* there is one run loop, or because the routers of the graph are plain    *)
(* and no hook fails.                                                      *)
(***************************************************************************)
EXTENDS DagEngine, InductionLemmas, SequenceTheorems

(* Edges lead to nodes of the graph, so everything computed by following   *)
(* them is a set of nodes.                                                 *)
LEMMA GraphTypes ==
  ASSUME NEW n \in Nodes
  PROVE  /\ \A e \in Edges(n) : e.to \in Nodes
         /\ \A out : Activated(n, out) \subseteq Nodes
         /\ \A label : {e.to : e \in Matches(n, label)} \subseteq Nodes
<1>1. Out[n] \in Seq([to : Nodes, label : Labels, cond : BOOLEAN, guard : BOOLEAN])
  BY GraphAssumption
<1>2. \A e \in Edges(n) : e.to \in Nodes
  <2>1. \A i \in DOMAIN Out[n] :
          Out[n][i] \in [to : Nodes, label : Labels, cond : BOOLEAN, guard : BOOLEAN]
    BY <1>1, ElementOfSeq, LenProperties
  <2>2. QED
    BY <2>1 DEF Edges
<1>3. QED
  BY <1>2 DEF Activated, Matches

(* What is told of the nodes of a batch or of a sweep: one event for each, *)
(* in some order.                                                          *)
LEMMA ToldOnce ==
  ASSUME NEW S \in SUBSET Nodes, NEW q \in SetToSeqs(S), NEW type \in EventType
  PROVE  /\ Cardinality(S) \in Nat
         /\ DOMAIN q = 1 .. Cardinality(S)
         /\ \A i \in DOMAIN q : q[i] \in S
         /\ \A i, j \in DOMAIN q : i # j => q[i] # q[j]
         /\ \A m \in S : \E i \in DOMAIN q : q[i] = m
         /\ Told(type, q) \in Seq(Events)
         /\ Len(Told(type, q)) = Cardinality(S)
         /\ \A i \in DOMAIN q : Told(type, q)[i] = Event(type, {q[i]}, NoResult)
<1>1. IsFiniteSet(S) /\ Cardinality(S) \in Nat
  BY GraphAssumption, FS_Subset, FS_CardinalityType
<1>2. /\ q \in [1 .. Cardinality(S) -> S]
      /\ \A i, j \in 1 .. Cardinality(S) : i # j => q[i] # q[j]
  BY Zenon DEF SetToSeqs
<1>3. \A m \in S : \E i \in DOMAIN q : q[i] = m
  <2> DEFINE D == 1 .. Cardinality(S)
             R == {q[i] : i \in D}
  <2>1. IsFiniteSet(D) /\ Cardinality(D) = Cardinality(S)
    BY <1>1, FS_Interval
  <2>2. q \in Bijection(D, R)
    BY <1>2 DEF Bijection, Injection, Surjection, IsInjective
  <2>3. Cardinality(R) = Cardinality(S)
    <3>1. ExistsBijection(D, R)
      BY <2>2 DEF ExistsBijection
    <3> HIDE DEF D, R
    <3>2. QED
      BY <2>1, <3>1, FS_Bijection
  <2>4. R \subseteq S
    BY <1>2
  <2>5. R = S
    BY <1>1, <2>3, <2>4, FS_Subset
  <2>6. QED
    BY <1>2, <2>5
<1>4. \A i \in DOMAIN q : Event(type, {q[i]}, NoResult) \in Events
  BY <1>2 DEF Event, Events
<1>5. DOMAIN q = 1 .. Cardinality(S)
  BY <1>2
<1>6. Told(type, q) = [i \in 1 .. Cardinality(S) |-> Event(type, {q[i]}, NoResult)]
  BY <1>5 DEF Told
<1>7. Told(type, q) \in Seq(Events) /\ Len(Told(type, q)) = Cardinality(S)
  <2>1. Told(type, q) \in [1 .. Cardinality(S) -> Events]
    BY <1>4, <1>5, <1>6
  <2>2. QED
    BY <1>1, <2>1, SeqDef
<1>8. QED
  BY <1>1, <1>2, <1>3, <1>5, <1>6, <1>7

(* An event of the engine, the starts of one batch and the skips of one    *)
(* sweep are well typed.                                                   *)
LEMMA EventTypes ==
  /\ \A type \in EventType, S \in SUBSET Nodes, out \in Labels \cup {NoResult} :
       Event(type, S, out) \in Events
  /\ \A type \in EventType : Lifecycle(type) \in Events
  /\ \A S \in SUBSET Nodes : StartEvents(S) \subseteq Seq(Events)
  /\ \A n, S : S \in SUBSET Nodes => SkipEvents(n, S) \subseteq Seq(Events)
<1>1. \A type \in EventType, S \in SUBSET Nodes, out \in Labels \cup {NoResult} :
       Event(type, S, out) \in Events
  BY DEF Event, Events
<1>2. QED
  BY <1>1, ToldOnce DEF Lifecycle, StartEvents, SkipEvents, SweepOrders, EventType

(* Moving one node execution keeps the program counters typed.             *)
LEMMA GotoTypes ==
  ASSUME TypeOK, NEW l \in Loops, NEW n \in Nodes, NEW pc \in ExecPC, Goto(l, n, pc)
  PROVE  exec' \in [Loops -> [Nodes -> ExecPC]]
BY DEF TypeOK, Goto

(* The finally block keeps what it writes typed.                           *)
LEMMA FinallyTypes ==
  ASSUME TypeOK, NEW l \in Loops, NEW n \in Nodes, Finally(l, n)
  PROVE  /\ exec' \in [Loops -> [Nodes -> ExecPC]]
         /\ active' \subseteq Nodes
         /\ loop' \in [Loops -> LoopPC]
<1>1. exec' \in [Loops -> [Nodes -> ExecPC]]
  BY GotoTypes DEF Finally, ExecPC
<1>2. QED
  BY <1>1 DEF TypeOK, Finally, LoopPC

(* The error path keeps what it writes typed.                              *)
LEMMA HandleErrorTypes ==
  ASSUME TypeOK, NEW l \in Loops, NEW n \in Nodes,
         NEW st \in [Nodes -> NodeStatus], NEW emitted \in Seq(Events),
         HandleError(l, n, st, emitted)
  PROVE  /\ status' \in [Nodes -> NodeStatus]
         /\ events' \in Seq(Events)
         /\ xstatus' \in ExecutionStatus
         /\ exec' \in [Loops -> [Nodes -> ExecPC]]
         /\ active' \subseteq Nodes
         /\ loop' \in [Loops -> LoopPC]
<1> DEFINE failed == [st EXCEPT ![n] = "failed"]
           sub    == Subtree(failed, n)
<1>1. CASE /\ status' = [st EXCEPT ![n] = "retrying"]
           /\ events' = emitted
           /\ Goto(l, n, "backoff")
           /\ UNCHANGED <<xstatus, active, loop>>
  BY <1>1, GotoTypes DEF TypeOK, NodeStatus, ExecPC
<1>2. CASE /\ status' = [m \in Nodes |-> IF m \in sub THEN "skipped" ELSE failed[m]]
           /\ \E skipped \in SkipEvents(n, sub) :
                events' = emitted \o <<Event("nodeFailed", {n}, NoResult)>> \o skipped
           /\ xstatus' = "failed"
           /\ Finally(l, n)
  <2>1. PICK skipped \in SkipEvents(n, sub) :
          events' = emitted \o <<Event("nodeFailed", {n}, NoResult)>> \o skipped
    BY <1>2
  <2>2. Event("nodeFailed", {n}, NoResult) \in Events /\ skipped \in Seq(Events)
    <3>1. sub \in SUBSET Nodes
      BY DEF Subtree, Open
    <3>2. QED
      BY EventTypes, <3>1 DEF EventType
  <2>3. emitted \o <<Event("nodeFailed", {n}, NoResult)>> \in Seq(Events)
    BY <2>2
  <2>4. events' \in Seq(Events)
    BY <2>1, <2>2, <2>3, ConcatProperties
  <2>5. status' \in [Nodes -> NodeStatus]
    BY <1>2 DEF NodeStatus
  <2>6. QED
    BY <1>2, <2>4, <2>5, FinallyTypes DEF ExecutionStatus
<1>3. CASE /\ status' = st /\ events' = emitted
           /\ Finally(l, n)
           /\ UNCHANGED xstatus
  BY <1>3, FinallyTypes DEF TypeOK
<1>4. QED
  BY <1>1, <1>2, <1>3 DEF HandleError

(* Completing a node keeps what it writes typed.                           *)
LEMMA CompletesTypes ==
  ASSUME TypeOK, NEW l \in Loops, NEW n \in Nodes, NEW out \in Labels,
         NEW st \in [Nodes -> NodeStatus], NEW added \in SUBSET Nodes,
         NEW emitted \in Seq(Events),
         Completes(l, n, out, st, added, emitted)
  PROVE  /\ status' \in [Nodes -> NodeStatus]
         /\ results' \in [Nodes -> Labels \cup {NoResult}]
         /\ cand' \subseteq Nodes
         /\ events' \in Seq(Events)
         /\ exec' \in [Loops -> [Nodes -> ExecPC]]
<1>1. exec' \in [Loops -> [Nodes -> ExecPC]]
  BY GotoTypes DEF Completes, ExecPC
<1>2. Event("nodeCompleted", {n}, out) \in Events
  BY EventTypes DEF EventType
<1>3. events' \in Seq(Events)
  BY <1>2, ConcatProperties DEF Completes
<1>4. QED
  BY <1>1, <1>3 DEF Completes, TypeOK, NodeStatus

-----------------------------------------------------------------------------
(* Type correctness.                                                       *)

LEMMA InitTypes == Init => TypeOK
<1> SUFFICES ASSUME Init PROVE TypeOK
  OBVIOUS
<1>1. calls \in 0 .. MaxCalls
  BY OptionAssumption DEF Init
<1>2. events \in Seq(Events)
  BY DEF Init
<1>3. QED
  BY <1>1, <1>2 DEF Init, TypeOK, NodeStatus, ExecutionStatus, LoopPC, ExecPC

(* The steps of a run loop, and the calls that start one.                  *)
LEMMA LoopTypes ==
  ASSUME TypeOK, NEW l \in Loops, Execute(l) \/ Resume(l) \/ LoopStep(l)
  PROVE  TypeOK'
<1>1. CASE BeginLoop(l)
  <2>1. Lifecycle("executionStarted") \in Events
    BY EventTypes DEF EventType
  <2>2. events' \in Seq(Events)
    BY <1>1, <2>1 DEF BeginLoop, TypeOK
  <2>3. QED
    BY <1>1, <2>2 DEF BeginLoop, TypeOK, SeedCandidates, Open, ExecutionStatus,
       LoopPC, nodeVars, execVars
<1>2. CASE LoopReturns(l)
  <2>1. Lifecycle("executionCompleted") \in Events
    BY EventTypes DEF EventType
  <2>2. events' \in Seq(Events)
    BY <1>2, <2>1 DEF LoopReturns, TypeOK
  <2>3. xstatus' \in ExecutionStatus
    BY <1>2 DEF LoopReturns, FinalStatus, TypeOK, ExecutionStatus
  <2>4. QED
    BY <1>2, <2>2, <2>3 DEF LoopReturns, TypeOK, LoopPC, nodeVars, execVars
<1>3. CASE LoopWaits(l)
  BY <1>3 DEF LoopWaits, TypeOK, LoopPC, nodeVars, execVars
<1>4. CASE LoopStarts(l)
  <2>1. PICK batch \in SUBSET ReadyNodes :
          /\ status' = [n \in Nodes |-> IF n \in batch THEN "running" ELSE status[n]]
          /\ attempts' = [n \in Nodes |-> IF n \in batch THEN attempts[n] + 1 ELSE attempts[n]]
          /\ attempt' = [attempt EXCEPT ![l] =
               [n \in Nodes |-> IF n \in batch THEN attempts[n] + 1 ELSE attempt[l][n]]]
          /\ exec' = [exec EXCEPT ![l] =
               [n \in Nodes |-> IF n \in batch THEN "start" ELSE exec[l][n]]]
          /\ active' = active \cup batch
          /\ \E started \in StartEvents(batch) : events' = events \o started
    BY <1>4 DEF LoopStarts
  <2>2. batch \in SUBSET Nodes
    BY DEF ReadyNodes, TypeOK
  <2>3. StartEvents(batch) \subseteq Seq(Events)
    BY EventTypes, <2>2
  <2>4. events' \in Seq(Events)
    BY <2>1, <2>3, ConcatProperties DEF TypeOK
  <2>5. /\ status' \in [Nodes -> NodeStatus]
        /\ attempts' \in [Nodes -> Nat]
        /\ active' \subseteq Nodes
    BY <2>1, <2>2 DEF TypeOK, NodeStatus
  <2>6. attempt' \in [Loops -> [Nodes -> Nat]]
    BY <2>1 DEF TypeOK
  <2>7. exec' \in [Loops -> [Nodes -> ExecPC]]
    BY <2>1 DEF TypeOK, ExecPC
  <2>8. /\ results' \in [Nodes -> Labels \cup {NoResult}]
        /\ xstatus' \in ExecutionStatus
        /\ cand' \subseteq Nodes
        /\ signals' \subseteq Loops \X Nodes
        /\ aborted' \in BOOLEAN
        /\ loop' \in [Loops -> LoopPC]
        /\ calls' \in 0 .. MaxCalls
    BY <1>4 DEF LoopStarts, TypeOK, LoopPC
  <2>9. QED
    BY <2>4, <2>5, <2>6, <2>7, <2>8 DEF TypeOK
<1>5. CASE BatchSettles(l)
  BY <1>5 DEF BatchSettles, TypeOK, LoopPC, nodeVars, execVars
<1>6. QED
  BY <1>1, <1>2, <1>3, <1>4, <1>5 DEF Execute, Resume, LoopStep

(* The steps of a node execution.                                          *)
LEMMA NodeStepTypes ==
  ASSUME TypeOK, NEW l \in Loops, NEW n \in Nodes, NodeStep(l, n)
  PROVE  TypeOK'
<1> USE DEF nodeVars
<1>1. CASE BodyStarts(l, n)
  <2>1. exec' \in [Loops -> [Nodes -> ExecPC]]
    BY <1>1, GotoTypes DEF BodyStarts, ExecPC
  <2>2. status' \in [Nodes -> NodeStatus] /\ xstatus' \in ExecutionStatus
    BY <1>1 DEF BodyStarts, TypeOK, NodeStatus, ExecutionStatus
  <2>3. signals' \subseteq Loops \X Nodes
    BY <1>1 DEF BodyStarts, Unnamed, TypeOK
  <2>4. QED
    BY <1>1, <2>1, <2>2, <2>3 DEF BodyStarts, TypeOK
<1>2. CASE StartHookThrows(l, n)
  BY <1>2, GotoTypes DEF StartHookThrows, TypeOK, ExecPC
<1>3. CASE BodyReturns(l, n)
  <2>1. PICK out \in Returns[n] : Completes(l, n, out, status, Activated(n, out), events)
    BY <1>3 DEF BodyReturns
  <2>2. out \in Labels /\ Activated(n, out) \in SUBSET Nodes
    BY GraphAssumption, GraphTypes
  <2>3. QED
    BY <1>3, <2>1, <2>2, CompletesTypes DEF BodyReturns, TypeOK
<1>4. CASE RouterDecides(l, n)
  <2>1. PICK label, skipped :
          LET st    == RouteStatus(Route(n, label))
              taken == {e.to : e \in Matches(n, label)}
          IN  /\ label \in Returns[n] /\ skipped \in SkipEvents(n, Swept(n, label))
              /\ attempts' = [m \in Nodes |-> IF m \in taken THEN 0 ELSE attempts[m]]
              /\ IF taken # {}
                 THEN /\ Completes(l, n, label, st, taken \cup Activated(n, label),
                                  events \o skipped)
                      /\ UNCHANGED <<xstatus, active, loop>>
                 ELSE /\ HandleError(l, n, st, events \o skipped)
                      /\ UNCHANGED <<results, cand>>
    BY <1>4 DEF RouterDecides
  <2> DEFINE emitted == events \o skipped
             taken   == {e.to : e \in Matches(n, label)}
             st      == RouteStatus(Route(n, label))
  <2>2. label \in Labels /\ taken \cup Activated(n, label) \in SUBSET Nodes
    BY <2>1, GraphAssumption, GraphTypes
  <2>3. st \in [Nodes -> NodeStatus]
    BY DEF RouteStatus, TypeOK, NodeStatus
  <2>4. emitted \in Seq(Events)
    <3>1. Swept(n, label) \in SUBSET Nodes
      BY DEF Swept
    <3>2. skipped \in Seq(Events)
      BY <2>1, <3>1, EventTypes
    <3>3. QED
      BY <3>2, ConcatProperties DEF TypeOK
  <2>5. attempts' \in [Nodes -> Nat]
    BY <2>1 DEF TypeOK
  <2> HIDE DEF emitted, taken, st
  <2>6. CASE Completes(l, n, label, st, taken \cup Activated(n, label), emitted)
              /\ UNCHANGED <<xstatus, active, loop>>
    BY <1>4, <2>2, <2>3, <2>4, <2>5, <2>6, CompletesTypes DEF RouterDecides, TypeOK
  <2>7. CASE HandleError(l, n, st, emitted) /\ UNCHANGED <<results, cand>>
    BY <1>4, <2>3, <2>4, <2>5, <2>7, HandleErrorTypes DEF RouterDecides, TypeOK
  <2>8. QED
    BY <2>1, <2>6, <2>7 DEF emitted, taken, st
<1>5. CASE BodyThrows(l, n)
  BY <1>5, HandleErrorTypes DEF BodyThrows, TypeOK
<1>6. CASE BackoffEnds(l, n)
  BY <1>6, FinallyTypes DEF BackoffEnds, TypeOK, NodeStatus
<1>7. CASE SignalTimesOut(l, n)
  <2>1. signals' \subseteq Loops \X Nodes
    BY <1>7 DEF SignalTimesOut, Unnamed, TypeOK
  <2>2. QED
    BY <1>7, <2>1, HandleErrorTypes DEF SignalTimesOut, TypeOK
<1>8. CASE Notified(l, n)
  BY <1>8, FinallyTypes DEF Notified, TypeOK
<1>9. CASE CompleteHookThrows(l, n)
  BY <1>9, HandleErrorTypes DEF CompleteHookThrows, TypeOK
<1>10. QED
  BY <1>1, <1>2, <1>3, <1>4, <1>5, <1>6, <1>7, <1>8, <1>9 DEF NodeStep

(* The control calls.                                                      *)
LEMMA ControlTypes ==
  ASSUME TypeOK, Pause \/ Cancel \/ Abort \/ DeliverSignal
  PROVE  TypeOK'
<1> USE DEF nodeVars, execVars
<1>1. ASSUME NEW name, Control(name) PROVE calls' \in 0 .. MaxCalls
  BY <1>1, OptionAssumption DEF Control, TypeOK
<1>2. CASE Pause
  <2>1. Lifecycle("executionPaused") \in Events
    BY EventTypes DEF EventType
  <2>2. QED
    BY <1>1, <1>2, <2>1 DEF Pause, Control, TypeOK, ExecutionStatus
<1>3. CASE Cancel
  <2>1. Lifecycle("executionCancelled") \in Events
    BY EventTypes DEF EventType
  <2>2. QED
    BY <1>1, <1>3, <2>1 DEF Cancel, Control, TypeOK, ExecutionStatus
<1>4. CASE Abort
  BY <1>1, <1>4 DEF Abort, Control, TypeOK
<1>5. CASE DeliverSignal
  <2>1. PICK s \in signals :
          /\ signals' = signals \ {s}
          /\ Goto(s[1], s[2], "body")
          /\ UNCHANGED <<nodeVars, attempt, xstatus, active, cand, aborted, loop,
                         events, calls>>
    BY <1>5 DEF DeliverSignal
  <2>2. s[1] \in Loops /\ s[2] \in Nodes
    BY DEF TypeOK
  <2>3. exec' \in [Loops -> [Nodes -> ExecPC]]
    BY <2>1, <2>2, GotoTypes DEF ExecPC
  <2>4. QED
    BY <2>1, <2>3 DEF TypeOK
<1>6. QED
  BY <1>2, <1>3, <1>4, <1>5

LEMMA TypeKept == TypeOK /\ [Next]_vars => TypeOK'
<1>1. ASSUME TypeOK, Next PROVE TypeOK'
  BY <1>1, LoopTypes, NodeStepTypes, ControlTypes DEF Next
<1>2. ASSUME TypeOK, UNCHANGED vars PROVE TypeOK'
  BY <1>2 DEF TypeOK, vars
<1>3. QED
  BY <1>1, <1>2

(* Every reachable state of the engine is well typed, for every graph.     *)
THEOREM TypeCorrect == Spec => []TypeOK
<1>1. QED
  BY InitTypes, TypeKept, PTL DEF Spec

-----------------------------------------------------------------------------
(* The batch barrier: outside its batch a run loop executes nothing, so a  *)
(* batch starts from rest.  A registered signal wait is really waiting, so *)
(* that a signal cannot revive a finished execution.                       *)

AtRest == \A l \in Loops : loop[l] # "batch" => Executing(l) = {}
SignalsWait == \A s \in signals : exec[s[1]][s[2]] = "wait"
BarrierInv == TypeOK /\ AtRest /\ SignalsWait /\ LoopBound

(* A step of a node execution moves that execution only, and leaves every  *)
(* run loop inside or outside its batch.                                   *)
Moves(l, n, pc) ==
  /\ Goto(l, n, pc)
  /\ exec[l][n] \notin {"none", "stuck"}
  /\ \A k \in Loops : (loop'[k] = "batch") <=> (loop[k] = "batch")
  /\ \/ pc = "wait" /\ signals' \subseteq signals \cup {<<l, n>>}
     \/ exec[l][n] # "wait" /\ signals' = signals
     \/ signals' \subseteq {s \in signals : s[2] # n}

LEMMA FinallyMoves ==
  ASSUME TypeOK, NEW l \in Loops, NEW n \in Nodes, Finally(l, n)
  PROVE  /\ Goto(l, n, "none")
         /\ \A k \in Loops : (loop'[k] = "batch") <=> (loop[k] = "batch")
BY DEF Finally, TypeOK

LEMMA HandleErrorMoves ==
  ASSUME TypeOK, NEW l \in Loops, NEW n \in Nodes, NEW st, NEW emitted,
         HandleError(l, n, st, emitted)
  PROVE  /\ \E pc \in {"none", "backoff"} : Goto(l, n, pc)
         /\ \A k \in Loops : (loop'[k] = "batch") <=> (loop[k] = "batch")
<1>1. CASE Goto(l, n, "backoff") /\ UNCHANGED loop
  BY <1>1
<1>2. CASE Finally(l, n)
  BY <1>2, FinallyMoves
<1>3. QED
  BY <1>1, <1>2 DEF HandleError

LEMMA NodeStepMoves ==
  ASSUME TypeOK, NEW l \in Loops, NEW n \in Nodes, NodeStep(l, n)
  PROVE  \E pc \in ExecPC : Moves(l, n, pc)
<1> USE DEF Moves, ExecPC
<1>1. CASE BodyStarts(l, n)
  <2>1. CASE Kind[n] = "signal"
    <3>1. Moves(l, n, "wait")
      BY <1>1, <2>1 DEF BodyStarts, Unnamed
    <3>2. QED
      BY <3>1
  <2>2. CASE Kind[n] # "signal"
    <3>1. Moves(l, n, "body")
      BY <1>1, <2>2 DEF BodyStarts
    <3>2. QED
      BY <3>1
  <2>3. QED
    BY <2>1, <2>2
<1>2. CASE StartHookThrows(l, n)
  <2>1. Moves(l, n, "stuck")
    BY <1>2 DEF StartHookThrows
  <2>2. QED
    BY <2>1
<1>3. CASE BodyReturns(l, n)
  <2>1. Moves(l, n, "notify")
    BY <1>3 DEF BodyReturns, Completes
  <2>2. QED
    BY <2>1
<1>4. CASE RouterDecides(l, n)
  <2>1. Moves(l, n, "notify") \/ \E pc \in {"none", "backoff"} : Moves(l, n, pc)
    BY <1>4, HandleErrorMoves DEF RouterDecides, Completes
  <2>2. QED
    BY <2>1
<1>5. CASE BodyThrows(l, n)
  BY <1>5, HandleErrorMoves DEF BodyThrows
<1>6. CASE BackoffEnds(l, n)
  BY <1>6, FinallyMoves DEF BackoffEnds
<1>7. CASE SignalTimesOut(l, n)
  BY <1>7, HandleErrorMoves DEF SignalTimesOut, Unnamed
<1>8. CASE Notified(l, n)
  BY <1>8, FinallyMoves DEF Notified
<1>9. CASE CompleteHookThrows(l, n)
  BY <1>9, HandleErrorMoves DEF CompleteHookThrows
<1>10. QED
  BY <1>1, <1>2, <1>3, <1>4, <1>5, <1>6, <1>7, <1>8, <1>9 DEF NodeStep

(* Moving an execution on never adds one.                                  *)
LEMMA MovesShrink ==
  ASSUME TypeOK, NEW l \in Loops, NEW n \in Nodes, NEW pc,
         Goto(l, n, pc), exec[l][n] \notin {"none", "stuck"}
  PROVE  \A k \in Loops : Executing(k)' \subseteq Executing(k)
BY DEF Goto, Executing, TypeOK

(* Fewer executions keep to the bound.                                     *)
LEMMA ShrinkBound ==
  ASSUME LoopBound, \A k \in Loops : Executing(k)' \subseteq Executing(k)
  PROVE  LoopBound'
<1> SUFFICES ASSUME NEW k \in Loops
             PROVE  Cardinality(Executing(k)') <= MaxConcurrency
  BY DEF LoopBound, Loops
<1>1. IsFiniteSet(Executing(k))
  BY GraphAssumption, FS_Subset DEF Executing
<1>2. /\ Cardinality(Executing(k)') <= Cardinality(Executing(k))
      /\ Cardinality(Executing(k)) \in Nat /\ Cardinality(Executing(k)') \in Nat
  BY <1>1, FS_Subset, FS_CardinalityType
<1>3. Cardinality(Executing(k)) <= MaxConcurrency
  BY DEF LoopBound
<1>4. QED
  BY <1>2, <1>3, OptionAssumption

(* A batch never has more nodes than the option allows.                    *)
LEMMA BatchSizeBound ==
  ASSUME TypeOK
  PROVE  BatchSize \in Nat /\ BatchSize <= MaxConcurrency
<1>1. IsFiniteSet(ReadyNodes) /\ IsFiniteSet(active)
  <2>1. ReadyNodes \subseteq Nodes /\ active \subseteq Nodes
    BY DEF ReadyNodes, TypeOK
  <2>2. QED
    BY <2>1, GraphAssumption, FS_Subset
<1>2. Cardinality(ReadyNodes) \in Nat /\ Cardinality(active) \in Nat
  BY <1>1, FS_CardinalityType
<1>3. QED
  BY <1>2, OptionAssumption DEF BatchSize

LEMMA NodeStepBarrier ==
  ASSUME BarrierInv, NEW l \in Loops, NEW n \in Nodes, NodeStep(l, n)
  PROVE  BarrierInv'
<1>1. TypeOK /\ TypeOK'
  BY NodeStepTypes DEF BarrierInv
<1>2. PICK pc \in ExecPC : Moves(l, n, pc)
  BY <1>1, NodeStepMoves
<1>3. \A k \in Loops : Executing(k)' \subseteq Executing(k)
  BY <1>1, <1>2, MovesShrink DEF Moves
<1>4. AtRest'
  BY <1>2, <1>3 DEF BarrierInv, AtRest, Moves, Loops
<1>5. SignalsWait'
  <2>1. SUFFICES ASSUME NEW s \in signals' PROVE exec'[s[1]][s[2]] = "wait"
    BY DEF SignalsWait
  <2>2. /\ s[1] \in Loops /\ s[2] \in Nodes /\ s = <<s[1], s[2]>>
        /\ s \in signals => exec[s[1]][s[2]] = "wait"
    <3>1. signals' \subseteq Loops \X Nodes
      BY <1>1 DEF TypeOK
    <3>2. SignalsWait
      BY DEF BarrierInv
    <3>3. QED
      BY <3>1, <3>2 DEF SignalsWait
  <2>3. \A k \in Loops, m \in Nodes :
          exec'[k][m] = IF k = l /\ m = n THEN pc ELSE exec[k][m]
    BY <1>1, <1>2 DEF Moves, Goto, TypeOK
  <2>4. CASE pc = "wait" /\ signals' \subseteq signals \cup {<<l, n>>}
    BY <2>2, <2>3, <2>4
  <2>5. CASE exec[l][n] # "wait" /\ signals' = signals
    BY <2>2, <2>3, <2>5
  <2>6. CASE signals' \subseteq {t \in signals : t[2] # n}
    BY <2>2, <2>3, <2>6
  <2>7. QED
    BY <1>2, <2>4, <2>5, <2>6 DEF Moves
<1>6. LoopBound'
  BY <1>3, ShrinkBound DEF BarrierInv
<1>7. QED
  BY <1>1, <1>4, <1>5, <1>6 DEF BarrierInv

LEMMA LoopBarrier ==
  ASSUME BarrierInv, NEW l \in Loops, Execute(l) \/ Resume(l) \/ LoopStep(l)
  PROVE  BarrierInv'
<1>1. TypeOK /\ TypeOK'
  BY LoopTypes DEF BarrierInv
<1> USE DEF nodeVars, execVars
<1>2. ASSUME UNCHANGED <<exec, signals>>,
             \A k \in Loops : loop'[k] # "batch" => Executing(k) = {}
      PROVE  BarrierInv'
  BY <1>1, <1>2 DEF BarrierInv, AtRest, SignalsWait, LoopBound, Executing
<1>3. CASE BeginLoop(l)
  BY <1>1, <1>2, <1>3 DEF BeginLoop, BarrierInv, AtRest, TypeOK
<1>4. CASE LoopReturns(l)
  BY <1>1, <1>2, <1>4 DEF LoopReturns, BarrierInv, AtRest, TypeOK
<1>5. CASE LoopWaits(l)
  BY <1>1, <1>2, <1>5 DEF LoopWaits, BarrierInv, AtRest, TypeOK
<1>6. CASE LoopStarts(l)
  <2>1. PICK batch \in SUBSET ReadyNodes :
          /\ Cardinality(batch) = BatchSize
          /\ exec' = [exec EXCEPT ![l] =
               [n \in Nodes |-> IF n \in batch THEN "start" ELSE exec[l][n]]]
    BY <1>6 DEF LoopStarts
  <2>2. Executing(l) = {}
    BY <1>6 DEF LoopStarts, BarrierInv, AtRest
  <2>3. Executing(l)' = batch
    BY <1>1, <2>1, <2>2 DEF Executing, TypeOK, ReadyNodes
  <2>4. \A k \in Loops \ {l} : Executing(k)' = Executing(k)
    BY <1>1, <2>1 DEF Executing, TypeOK
  <2>5. /\ signals' = signals
        /\ \A k \in Loops : loop'[k] = IF k = l THEN "batch" ELSE loop[k]
    BY <1>1, <1>6 DEF LoopStarts, TypeOK
  <2>6. AtRest'
    BY <2>4, <2>5 DEF AtRest, BarrierInv, Loops
  <2>7. LoopBound'
    BY <1>1, <2>1, <2>3, <2>4, BatchSizeBound DEF LoopBound, BarrierInv, Loops
  <2>8. SignalsWait'
    <3>1. SUFFICES ASSUME NEW s \in signals PROVE exec'[s[1]][s[2]] = "wait"
      BY <2>5 DEF SignalsWait
    <3>2. s[1] \in Loops /\ s[2] \in Nodes /\ exec[s[1]][s[2]] = "wait"
      BY <1>1 DEF TypeOK, BarrierInv, SignalsWait
    <3>3. s[1] # l
      BY <2>2, <3>2 DEF Executing
    <3>4. QED
      BY <1>1, <2>1, <3>2, <3>3 DEF TypeOK
  <2>9. QED
    BY <1>1, <2>6, <2>7, <2>8 DEF BarrierInv
<1>7. CASE BatchSettles(l)
  BY <1>1, <1>2, <1>7 DEF BatchSettles, BatchSettled, BarrierInv, AtRest, TypeOK, Executing
<1>8. QED
  BY <1>3, <1>4, <1>5, <1>6, <1>7 DEF Execute, Resume, LoopStep

LEMMA ControlBarrier ==
  ASSUME BarrierInv, Pause \/ Cancel \/ Abort \/ DeliverSignal
  PROVE  BarrierInv'
<1>1. TypeOK /\ TypeOK'
  BY ControlTypes DEF BarrierInv
<1>2. CASE Pause \/ Cancel \/ Abort
  BY <1>1, <1>2 DEF Pause, Cancel, Abort, Control, execVars, BarrierInv, AtRest,
     SignalsWait, LoopBound, Executing
<1>3. CASE DeliverSignal
  <2>1. PICK s \in signals :
          signals' = signals \ {s} /\ Goto(s[1], s[2], "body") /\ loop' = loop
    BY <1>3 DEF DeliverSignal
  <2>2. /\ s[1] \in Loops /\ s[2] \in Nodes /\ s = <<s[1], s[2]>>
        /\ exec[s[1]][s[2]] = "wait"
    BY <1>1, <2>1 DEF TypeOK, BarrierInv, SignalsWait
  <2>3. \A k \in Loops : Executing(k)' \subseteq Executing(k)
    BY <1>1, <2>1, <2>2, MovesShrink
  <2>4. AtRest' /\ LoopBound'
    BY <2>1, <2>3, ShrinkBound DEF BarrierInv, AtRest, Loops
  <2>5. SignalsWait'
    <3>1. SUFFICES ASSUME NEW t \in signals, t # s PROVE exec'[t[1]][t[2]] = "wait"
      BY <2>1 DEF SignalsWait
    <3>2. /\ t[1] \in Loops /\ t[2] \in Nodes /\ t = <<t[1], t[2]>>
          /\ exec[t[1]][t[2]] = "wait"
      BY <1>1 DEF TypeOK, BarrierInv, SignalsWait
    <3>3. QED
      BY <1>1, <2>1, <2>2, <3>1, <3>2 DEF Goto, TypeOK
  <2>6. QED
    BY <1>1, <2>4, <2>5 DEF BarrierInv
<1>4. QED
  BY <1>2, <1>3

LEMMA BarrierInductive ==
  /\ Init => BarrierInv
  /\ BarrierInv /\ [Next]_vars => BarrierInv'
<1>1. ASSUME Init PROVE BarrierInv
  <2>1. TypeOK
    BY <1>1, InitTypes
  <2>2. \A l \in Loops : Executing(l) = {}
    BY <1>1 DEF Init, Executing
  <2>3. LoopBound
    BY <2>2, FS_EmptySet, OptionAssumption DEF LoopBound
  <2>4. QED
    BY <1>1, <2>1, <2>2, <2>3 DEF Init, BarrierInv, AtRest, SignalsWait
<1>2. ASSUME BarrierInv, Next PROVE BarrierInv'
  BY <1>2, NodeStepBarrier, LoopBarrier, ControlBarrier DEF Next
<1>3. ASSUME BarrierInv, UNCHANGED vars PROVE BarrierInv'
  BY <1>3 DEF vars, BarrierInv, TypeOK, AtRest, SignalsWait, LoopBound, Executing
<1>4. QED
  BY <1>1, <1>2, <1>3

(* However many run loops overlap and whatever fails, no run loop has more *)
(* than maxConcurrency node executions in flight.                          *)
THEOREM LoopBounded == Spec => []LoopBound
<1>1. BarrierInv => LoopBound
  BY DEF BarrierInv
<1>2. QED
  BY <1>1, BarrierInductive, PTL DEF Spec

(* execute() and resume() return only when every node execution they       *)
(* started is over, or stuck in a failed hook.                             *)
THEOREM ReturnsResting == Spec => []ReturnsAtRest
<1>1. BarrierInv => ReturnsAtRest
  BY DEF BarrierInv, AtRest, ReturnsAtRest
<1>2. QED
  BY <1>1, BarrierInductive, PTL DEF Spec

(* With one run loop the option bounds the whole engine.                   *)
THEOREM OneLoopConcurrency == MaxLoops = 1 => (Spec => []ConcurrencyBound)
<1> SUFFICES ASSUME MaxLoops = 1 PROVE Spec => []ConcurrencyBound
  OBVIOUS
<1>1. LoopBound => ConcurrencyBound
  <2>1. Loops = {1}
    BY DEF Loops
  <2>2. UNION {Executing(l) : l \in Loops} = Executing(1)
    BY <2>1
  <2>3. QED
    BY <2>1, <2>2 DEF LoopBound, ConcurrencyBound
<1>2. QED
  BY <1>1, LoopBounded, PTL

(* A run loop keeps within maxConcurrency and returns at rest, whatever    *)
(* hooks throw and however routers decide.                                 *)
THEOREM LoopsResting == Spec => []LoopsRest
<1>1. LoopBound /\ ReturnsAtRest => LoopsRest
  BY DEF LoopsRest
<1>2. QED
  BY <1>1, LoopBounded, ReturnsResting, PTL

-----------------------------------------------------------------------------
(* The active set.                                                         *)

(* A step of a node execution takes the node out of the active set exactly *)
(* when the execution is over.                                             *)
LEMMA NodeStepActive ==
  ASSUME TypeOK, NEW l \in Loops, NEW n \in Nodes, NodeStep(l, n)
  PROVE  /\ exec[l][n] # "none"
         /\ \/ Goto(l, n, "none") /\ active' = active \ {n}
            \/ \E pc \in ExecPC \ {"none"} : Goto(l, n, pc) /\ active' = active
<1> DEFINE Over == Goto(l, n, "none") /\ active' = active \ {n}
           Goes == \E pc \in ExecPC \ {"none"} : Goto(l, n, pc) /\ active' = active
<1>1. ASSUME NEW st, NEW emitted, HandleError(l, n, st, emitted)
      PROVE  Over \/ Goes
  <2>1. CASE Goto(l, n, "backoff") /\ active' = active
    BY <2>1 DEF ExecPC
  <2>2. CASE Finally(l, n)
    BY <2>2 DEF Finally
  <2>3. QED
    BY <1>1, <2>1, <2>2 DEF HandleError
<1>2. CASE BodyStarts(l, n)
  BY <1>2 DEF BodyStarts, ExecPC
<1>3. CASE StartHookThrows(l, n)
  BY <1>3 DEF StartHookThrows, ExecPC
<1>4. CASE BodyReturns(l, n)
  BY <1>4 DEF BodyReturns, Completes, ExecPC
<1>5. CASE RouterDecides(l, n)
  <2>1. (Goto(l, n, "notify") /\ active' = active)
          \/ \E st, emitted : HandleError(l, n, st, emitted)
    BY <1>5 DEF RouterDecides, Completes
  <2>2. Over \/ Goes
    BY <1>1, <2>1 DEF ExecPC
  <2>3. QED
    BY <1>5, <2>2 DEF RouterDecides
<1>6. CASE BodyThrows(l, n)
  BY <1>1, <1>6 DEF BodyThrows
<1>7. CASE BackoffEnds(l, n)
  BY <1>7 DEF BackoffEnds, Finally
<1>8. CASE SignalTimesOut(l, n)
  BY <1>1, <1>8 DEF SignalTimesOut
<1>9. CASE Notified(l, n)
  BY <1>9 DEF Notified, Finally
<1>10. CASE CompleteHookThrows(l, n)
  BY <1>1, <1>10 DEF CompleteHookThrows
<1>11. QED
  BY <1>2, <1>3, <1>4, <1>5, <1>6, <1>7, <1>8, <1>9, <1>10 DEF NodeStep

(* What one move of an execution does to every program counter.            *)
LEMMA GotoMoves ==
  ASSUME TypeOK, NEW l \in Loops, NEW n \in Nodes, NEW pc, Goto(l, n, pc)
  PROVE  \A k \in Loops, m \in Nodes :
           exec'[k][m] = IF k = l /\ m = n THEN pc ELSE exec[k][m]
BY DEF Goto, TypeOK

(* As long as no node is executed twice at a time the active set is exact. *)
LEMMA ActiveStep ==
  ASSUME BarrierInv, NoDoubleRun, ActiveTracksExecution, [Next]_vars
  PROVE  ActiveTracksExecution'
<1>1. TypeOK /\ SignalsWait
  BY DEF BarrierInv
<1>2. ASSUME UNCHANGED <<exec, active>> PROVE ActiveTracksExecution'
  BY <1>2 DEF ActiveTracksExecution, Loops
<1>3. ASSUME NEW l \in Loops, NEW n \in Nodes, NodeStep(l, n)
      PROVE  ActiveTracksExecution'
  <2>1. exec[l][n] # "none" /\ \A k \in Loops \ {l} : exec[k][n] = "none"
    BY <1>1, <1>3, NodeStepActive DEF NoDoubleRun
  <2>2. CASE Goto(l, n, "none") /\ active' = active \ {n}
    <3>1. \A k \in Loops, m \in Nodes :
            exec'[k][m] = IF k = l /\ m = n THEN "none" ELSE exec[k][m]
      BY <1>1, <2>2, GotoMoves
    <3>2. QED
      BY <2>1, <2>2, <3>1 DEF ActiveTracksExecution, Loops
  <2>3. CASE \E pc \in ExecPC \ {"none"} : Goto(l, n, pc) /\ active' = active
    <3>1. PICK pc \in ExecPC \ {"none"} : Goto(l, n, pc) /\ active' = active
      BY <2>3
    <3>2. \A k \in Loops, m \in Nodes :
            exec'[k][m] = IF k = l /\ m = n THEN pc ELSE exec[k][m]
      BY <1>1, <3>1, GotoMoves
    <3>3. QED
      BY <2>1, <3>1, <3>2 DEF ActiveTracksExecution, Loops
  <2>4. QED
    BY <1>1, <1>3, <2>2, <2>3, NodeStepActive
<1>4. ASSUME NEW l \in Loops, LoopStarts(l) PROVE ActiveTracksExecution'
  <2>1. PICK batch \in SUBSET ReadyNodes :
          /\ exec' = [exec EXCEPT ![l] =
               [n \in Nodes |-> IF n \in batch THEN "start" ELSE exec[l][n]]]
          /\ active' = active \cup batch
    BY <1>4 DEF LoopStarts
  <2>2. batch \subseteq Nodes
    BY DEF ReadyNodes, Open
  <2>3. \A k \in Loops, n \in Nodes :
          exec'[k][n] = IF k = l /\ n \in batch THEN "start" ELSE exec[k][n]
    BY <1>1, <2>1 DEF TypeOK
  <2>4. \A n \in Nodes :
          (\E k \in Loops : exec'[k][n] # "none")
            <=> n \in batch \/ \E k \in Loops : exec[k][n] # "none"
    BY <2>3
  <2>5. QED
    BY <2>1, <2>2, <2>4 DEF ActiveTracksExecution, Loops
<1>5. CASE DeliverSignal
  <2>1. PICK s \in signals : Goto(s[1], s[2], "body") /\ active' = active
    BY <1>5 DEF DeliverSignal
  <2>2. s[1] \in Loops /\ s[2] \in Nodes /\ exec[s[1]][s[2]] = "wait"
    BY <1>1, <2>1 DEF TypeOK, SignalsWait
  <2>3. \A k \in Loops, m \in Nodes :
          exec'[k][m] = IF k = s[1] /\ m = s[2] THEN "body" ELSE exec[k][m]
    BY <1>1, <2>1, <2>2, GotoMoves
  <2>4. QED
    BY <2>1, <2>2, <2>3 DEF ActiveTracksExecution, Loops
<1>6. CASE \E l \in Loops : Execute(l) \/ Resume(l) \/ LoopStep(l)
  BY <1>2, <1>4, <1>6 DEF Execute, Resume, BeginLoop, LoopStep, LoopReturns,
     LoopWaits, BatchSettles, execVars
<1>7. CASE Pause \/ Cancel \/ Abort
  BY <1>2, <1>7 DEF Pause, Cancel, Abort, Control, execVars
<1>8. CASE UNCHANGED vars
  BY <1>2, <1>8 DEF vars
<1>9. QED
  BY <1>3, <1>5, <1>6, <1>7, <1>8 DEF Next

LEMMA ActiveInit == Init => ActiveTracksExecution
BY DEF Init, ActiveTracksExecution

(* With one run loop the active set is exactly what the loop executes,     *)
(* executions stuck in a failed hook included.                             *)
THEOREM OneLoopActive == MaxLoops = 1 => (Spec => []ActiveTracksExecution)
<1> SUFFICES ASSUME MaxLoops = 1 PROVE Spec => []ActiveTracksExecution
  OBVIOUS
<1>1. NoDoubleRun
  BY DEF NoDoubleRun, Loops
<1>2. BarrierInv /\ ActiveTracksExecution /\ [Next]_vars => ActiveTracksExecution'
  BY <1>1, ActiveStep
<1>3. QED
  BY <1>2, ActiveInit, BarrierInductive, PTL DEF Spec

-----------------------------------------------------------------------------
(* What a router does to the nodes behind it.                              *)

(* X holds what r leads to and all that lies behind it.                    *)
Behind(r, X) == Succs(r) \subseteq X /\ \A m \in X : Succs(m) \subseteq X

(* What lies behind the routers, and may be skipped by one.                *)
Routed ==
  {n \in Nodes : \A X \in SUBSET Nodes :
     (\A r \in Nodes : Kind[r] = "router" => Behind(r, X)) => n \in X}

(* A router each of whose labels is on an edge, with one label for each    *)
(* target, and no other router, nor anything one may skip, before its      *)
(* targets; if a task leads to one of them too, the target waits for both. *)
PlainRouter(r) ==
  /\ Returns[r] \subseteq {e.label : e \in Edges(r)}
  /\ \A e \in Edges(r) : \A p \in Preds(e.to) \ {r} :
       Kind[p] # "router" /\ p \notin Routed /\ e.to \notin RaceJoins
  /\ \A e, f \in Edges(r) : e.to = f.to => e.label = f.label

LEMMA RoutedBehind ==
  ASSUME NEW r \in Nodes, Kind[r] = "router"
  PROVE  Behind(r, Routed)
<1>1. \A m \in Nodes : Succs(m) \subseteq Nodes
  BY GraphTypes DEF Succs
<1>2. Succs(r) \subseteq Routed
  <2>1. SUFFICES ASSUME NEW k \in Succs(r), NEW X \in SUBSET Nodes,
                        \A q \in Nodes : Kind[q] = "router" => Behind(q, X)
                 PROVE  k \in X
    BY <1>1 DEF Routed
  <2>2. Behind(r, X)
    BY <2>1
  <2>3. QED
    BY <2>2 DEF Behind
<1>3. ASSUME NEW m \in Routed PROVE Succs(m) \subseteq Routed
  <2>1. m \in Nodes
    BY DEF Routed
  <2>2. SUFFICES ASSUME NEW k \in Succs(m), NEW X \in SUBSET Nodes,
                        \A q \in Nodes : Kind[q] = "router" => Behind(q, X)
                 PROVE  k \in X
    BY <1>1, <2>1 DEF Routed
  <2>3. m \in X
    BY <2>2 DEF Routed
  <2>4. Behind(r, X)
    BY <2>2
  <2>5. QED
    BY <2>3, <2>4 DEF Behind
<1>4. QED
  BY <1>2, <1>3 DEF Behind

Underway == {"running", "waiting", "retrying"}

(* The marks after each edge, as Route computes them.                      *)
NoMark == [ready |-> {}, skipped |-> {}, swept |-> {}]
MarkEdge(r, label, mark, i) ==
  LET e   == Out[r][i]
      sub == Subtree(RouteStatus(mark), e.to)
  IN  IF Chosen(e, label)
      THEN [mark EXCEPT !.ready = @ \cup {e.to}, !.skipped = @ \ {e.to}]
      ELSE [ready   |-> mark.ready \ sub,
            skipped |-> mark.skipped \cup sub,
            swept   |-> mark.swept \cup sub]
Marks(r, label, k, f) ==
  f = [i \in 0 .. k |-> IF i = 0 THEN NoMark ELSE MarkEdge(r, label, f[i - 1], i)]

LEMMA RouteIsMarks ==
  ASSUME NEW r, NEW label
  PROVE  Route(r, label) = (CHOOSE f : Marks(r, label, Len(Out[r]), f))[Len(Out[r])]
BY DEF Route, Marks, MarkEdge, NoMark

LEMMA MarksAt ==
  ASSUME NEW r, NEW label, NEW k \in Nat, NEW f, Marks(r, label, k, f)
  PROVE  /\ f[0] = NoMark
         /\ \A i \in 1 .. k : f[i] = MarkEdge(r, label, f[i - 1], i)
<1>1. \A i \in 0 .. k :
        f[i] = IF i = 0 THEN NoMark ELSE MarkEdge(r, label, f[i - 1], i)
  BY Zenon DEF Marks
<1>2. \A i \in 1 .. k : i \in 0 .. k /\ i # 0
  OBVIOUS
<1>3. 0 \in 0 .. k
  OBVIOUS
<1>4. QED
  BY <1>1, <1>2, <1>3, Zenon

LEMMA MarksExist ==
  ASSUME NEW r, NEW label, NEW n \in Nat
  PROVE  \E f : Marks(r, label, n, f)
<1> DEFINE P == {k \in 0 .. n : \E f : Marks(r, label, k, f)}
<1>1. 0 \in P
  <2> DEFINE f == [i \in 0 .. 0 |-> NoMark]
  <2>1. f = [i \in 0 .. 0 |-> IF i = 0 THEN NoMark ELSE MarkEdge(r, label, f[i - 1], i)]
    OBVIOUS
  <2> HIDE DEF f
  <2>2. Marks(r, label, 0, f)
    BY <2>1 DEF Marks
  <2>3. QED
    BY <2>2
<1>2. ASSUME NEW k \in 1 .. n, k - 1 \in P PROVE k \in P
  <2>1. PICK f : Marks(r, label, k - 1, f)
    BY <1>2
  <2> DEFINE g == [i \in 0 .. k |-> IF i < k THEN f[i] ELSE MarkEdge(r, label, f[k - 1], k)]
  <2>2. k - 1 \in Nat /\ k \in Nat /\ 0 < k
    OBVIOUS
  <2>3. f[0] = NoMark /\ \A i \in 1 .. k - 1 : f[i] = MarkEdge(r, label, f[i - 1], i)
    BY <2>1, <2>2, MarksAt
  <2>4. \A i \in 0 .. k - 1 : g[i] = f[i]
    OBVIOUS
  <2>5. g[k] = MarkEdge(r, label, f[k - 1], k)
    OBVIOUS
  <2> HIDE DEF g
  <2>6. \A i \in 0 .. k :
          g[i] = IF i = 0 THEN NoMark ELSE MarkEdge(r, label, g[i - 1], i)
    <3>1. CASE TRUE
      <4>1. SUFFICES ASSUME NEW i \in 0 .. k
                     PROVE  g[i] = IF i = 0 THEN NoMark ELSE MarkEdge(r, label, g[i - 1], i)
        OBVIOUS
      <4>2. CASE i = 0
        BY <2>2, <2>3, <2>4, <4>2
      <4>3. CASE i = k
        <5>1. g[k - 1] = f[k - 1]
          BY <2>2, <2>4
        <5>2. QED
          BY <2>2, <2>5, <4>3, <5>1
      <4>4. CASE i # 0 /\ i # k
        <5>1. i \in 1 .. k - 1 /\ i \in 0 .. k - 1 /\ i - 1 \in 0 .. k - 1
          BY <4>4
        <5>2. g[i] = f[i] /\ g[i - 1] = f[i - 1]
          BY <2>4, <5>1
        <5>3. f[i] = MarkEdge(r, label, f[i - 1], i)
          BY <2>3, <5>1
        <5>4. QED
          BY <4>4, <5>2, <5>3
      <4>5. QED
        BY <4>2, <4>3, <4>4
    <3>2. QED
      BY <3>1
  <2>7. g = [i \in 0 .. k |-> g[i]]
    BY DEF g
  <2>8. Marks(r, label, k, g)
    BY <2>6, <2>7 DEF Marks
  <2>9. QED
    BY <2>8
<1> HIDE DEF P
<1>3. 0 .. n \subseteq P
  BY <1>1, <1>2, UpTo
<1>4. QED
  BY <1>3 DEF P

(* A sweep gets to a node other than the one it starts from over a         *)
(* predecessor.                                                            *)
LEMMA SweepsThrough ==
  ASSUME NEW st, NEW s, NEW m \in Subtree(st, s), m # s
  PROVE  \E p \in Preds(m) : p \in Subtree(st, s)
<1>1. SUFFICES ASSUME \A p \in Preds(m) : p \notin Subtree(st, s) PROVE FALSE
  OBVIOUS
<1> DEFINE X == Subtree(st, s) \ {m}
<1>2. X \in SUBSET Open(st) /\ s \in Subtree(st, s)
  BY DEF Subtree
<1>3. ASSUME NEW k \in X, NEW j \in Succs(k) \cap Open(st) PROVE j \in X
  <2>1. k \in Subtree(st, s) /\ k \in Nodes
    BY DEF Subtree, Open
  <2>2. j \in Subtree(st, s)
    BY <2>1 DEF Subtree
  <2>3. j # m
    BY <1>1, <2>1 DEF Preds
  <2>4. QED
    BY <2>2, <2>3
<1>4. s \in X
  BY <1>2
<1>5. \A k \in X : Succs(k) \cap Open(st) \subseteq X
  BY <1>3
<1>6. m \in X
  <2> HIDE DEF X
  <2>1. \A Y \in SUBSET Open(st) :
          s \in Y /\ (\A k \in Y : Succs(k) \cap Open(st) \subseteq Y) => m \in Y
    BY DEF Subtree
  <2>2. QED
    BY <1>2, <1>4, <1>5, <2>1
<1>7. QED
  BY <1>6

(* A sweep stays within any set that holds its start and is closed under   *)
(* successors.                                                             *)
LEMMA SweepsWithin ==
  ASSUME NEW st, NEW X, NEW s \in X, \A m \in X : Succs(m) \subseteq X
  PROVE  Subtree(st, s) \subseteq X
<1> SUFFICES ASSUME NEW m \in Subtree(st, s) PROVE m \in X
  OBVIOUS
<1> DEFINE Y == X \cap Open(st)
<1>1. s \in Y /\ \A k \in Y : Succs(k) \cap Open(st) \subseteq Y
  BY DEF Subtree
<1>2. Y \in SUBSET Open(st)
  OBVIOUS
<1>3. m \in Y
  <2> HIDE DEF Y
  <2>1. \A Z \in SUBSET Open(st) :
          s \in Z /\ (\A k \in Z : Succs(k) \cap Open(st) \subseteq Z) => m \in Z
    BY DEF Subtree
  <2>2. QED
    BY <1>1, <1>2, <2>1
<1>4. QED
  BY <1>3

(* Nodes a router leads to are untouched until it has decided, but for     *)
(* targets of labels it does not return.                                   *)
Undecided ==
  \A r \in Nodes : Kind[r] = "router" /\ status[r] \notin {"completed", "skipped"} =>
    \A e \in Edges(r) : \/ status[e.to] = "pending"
                        \/ status[e.to] = "skipped" /\ e.label \notin Returns[r]

Targets(r, label) == {e.to : e \in Matches(r, label)}

(* The marks after some edges of r: its chosen targets among them are      *)
(* ready, and what is skipped was open and is behind the other edges.      *)
MarkedRight(r, label, i, mark) ==
  /\ mark \in [ready : SUBSET Nodes, skipped : SUBSET Nodes, swept : SUBSET Nodes]
  /\ mark.ready = {Out[r][j].to : j \in {k \in 1 .. i : Out[r][k].label = label}}
  /\ mark.skipped \cap Targets(r, label) = {}
  /\ mark.skipped \subseteq Open(status)
  /\ mark.swept = mark.skipped
  /\ \A m \in mark.skipped : m \in Succs(r) \/ \E p \in Preds(m) : p \in mark.skipped
  /\ mark.skipped \subseteq Routed

LEMMA RouteMarks ==
  ASSUME TypeOK, Undecided, NEW r \in Nodes, Kind[r] = "router", PlainRouter(r),
         status[r] \in Underway, NEW label \in Returns[r]
  PROVE  /\ MarkedRight(r, label, Len(Out[r]), Route(r, label))
         /\ Route(r, label).ready = Targets(r, label)
<1> DEFINE n == Len(Out[r])
<1>1. n \in Nat /\ DOMAIN Out[r] = 1 .. n
  BY GraphAssumption
<1>2. PICK f : Marks(r, label, n, f) /\ Route(r, label) = f[n]
  <2>1. \E f : Marks(r, label, n, f)
    BY <1>1, MarksExist
  <2>2. Marks(r, label, n, CHOOSE f : Marks(r, label, n, f))
    BY <2>1, Zenon
  <2>3. QED
    BY <2>2, RouteIsMarks, Zenon
<1>3. f[0] = NoMark /\ \A i \in 1 .. n : f[i] = MarkEdge(r, label, f[i - 1], i)
  <2>1. n \in Nat /\ Marks(r, label, n, f)
    BY <1>1, <1>2
  <2>2. \A k \in Nat : \A g : Marks(r, label, k, g) =>
          g[0] = NoMark /\ \A i \in 1 .. k : g[i] = MarkEdge(r, label, g[i - 1], i)
    BY MarksAt
  <2> HIDE DEF n
  <2>3. f[0] = NoMark
    BY <2>1, <2>2
  <2>4. \A i \in 1 .. n : f[i] = MarkEdge(r, label, f[i - 1], i)
    BY <2>1, <2>2
  <2>5. QED
    BY <2>3, <2>4
<1>4. \A i \in 1 .. n : Out[r][i] \in Edges(r) /\ Out[r][i].to \in Nodes
                         /\ Out[r][i].to \in Succs(r)
  BY <1>1, GraphTypes DEF Edges, Succs
<1>5. \A t \in Targets(r, label) : status[t] = "pending" /\ t # r
  <2>1. SUFFICES ASSUME NEW e \in Edges(r), e.label = label
                 PROVE  status[e.to] = "pending" /\ e.to # r
    BY DEF Targets, Matches
  <2>2. status[r] \notin {"completed", "skipped", "pending"}
    BY DEF Underway
  <2>3. QED
    BY <2>1, <2>2 DEF Undecided
<1> DEFINE P == {i \in 0 .. n : MarkedRight(r, label, i, f[i])}
<1>6. 0 \in P
  <2>1. MarkedRight(r, label, 0, NoMark)
    BY DEF MarkedRight, NoMark
  <2>2. QED
    BY <1>1, <1>3, <2>1
<1>7. ASSUME NEW i \in 1 .. n, i - 1 \in P PROVE i \in P
  <2> DEFINE mark == f[i - 1]
             e    == Out[r][i]
             sub  == Subtree(RouteStatus(mark), e.to)
  <2>1. MarkedRight(r, label, i - 1, mark)
    BY <1>7
  <2>2. e \in Edges(r) /\ e.to \in Nodes /\ e.to \in Succs(r)
    BY <1>4
  <2>3. f[i] = MarkEdge(r, label, mark, i)
    BY <1>3
  <2>4. 1 .. i = (1 .. i - 1) \cup {i}
    BY <1>1
  <2> HIDE DEF mark
  <2>5. CASE e.label = label
    <3>1. f[i] = [mark EXCEPT !.ready = @ \cup {e.to}, !.skipped = @ \ {e.to}]
      BY <2>3, <2>5 DEF MarkEdge, Chosen
    <3>2. e.to \in Targets(r, label)
      BY <2>2, <2>5 DEF Targets, Matches
    <3>3. f[i] = [ready |-> mark.ready \cup {e.to}, skipped |-> mark.skipped,
                  swept |-> mark.swept]
      <4>1. mark.skipped \ {e.to} = mark.skipped
        BY <2>1, <3>2 DEF MarkedRight
      <4>2. QED
        BY <2>1, <3>1, <4>1 DEF MarkedRight
    <3>4. mark.ready \cup {e.to}
            = {Out[r][j].to : j \in {k \in 1 .. i : Out[r][k].label = label}}
      <4>1. {k \in 1 .. i : Out[r][k].label = label}
              = {k \in 1 .. i - 1 : Out[r][k].label = label} \cup {i}
        BY <2>4, <2>5
      <4>2. QED
        BY <2>1, <4>1 DEF MarkedRight
    <3> HIDE DEF e
    <3>5. /\ f[i] \in [ready : SUBSET Nodes, skipped : SUBSET Nodes, swept : SUBSET Nodes]
          /\ f[i].ready = mark.ready \cup {e.to}
          /\ f[i].skipped = mark.skipped /\ f[i].swept = mark.swept
      <4>1. /\ mark.ready \subseteq Nodes /\ mark.skipped \subseteq Nodes
            /\ mark.swept \subseteq Nodes
        BY <2>1 DEF MarkedRight
      <4>2. QED
        BY <2>2, <3>3, <4>1
    <3>6. MarkedRight(r, label, i, f[i])
      BY <2>1, <3>4, <3>5 DEF MarkedRight
    <3>7. QED
      BY <3>6
  <2>6. CASE e.label # label
    <3>1. f[i] = [ready |-> mark.ready \ sub, skipped |-> mark.skipped \cup sub,
                  swept |-> mark.swept \cup sub]
      BY <2>3, <2>6 DEF MarkEdge, Chosen
    <3>2. mark.ready \subseteq Targets(r, label)
      BY <1>1, <1>4, <2>1 DEF MarkedRight, Targets, Matches
    <3>3. sub \subseteq Open(RouteStatus(mark))
      BY DEF Subtree
    <3>4. \A m \in Nodes : RouteStatus(mark)[m] =
            IF m \in mark.ready THEN "ready"
            ELSE IF m \in mark.skipped THEN "skipped" ELSE status[m]
      <4>1. SUFFICES ASSUME NEW m \in Nodes
                     PROVE  RouteStatus(mark)[m] =
                              IF m \in mark.ready THEN "ready"
                              ELSE IF m \in mark.skipped THEN "skipped" ELSE status[m]
        OBVIOUS
      <4>2. RouteStatus(mark)[m] = CASE m \in mark.ready   -> "ready"
                                     [] m \in mark.skipped -> "skipped"
                                     [] OTHER              -> status[m]
        BY DEF RouteStatus
      <4>3. m \notin mark.ready \/ m \notin mark.skipped
        BY <2>1, <3>2 DEF MarkedRight
      <4>4. QED
        BY <4>2, <4>3
    <3>5. Open(RouteStatus(mark)) \subseteq Open(status) /\ r \notin Open(RouteStatus(mark))
      <4>1. \A t \in mark.ready : status[t] = "pending" /\ t # r
        BY <1>5, <3>2
      <4>2. QED
        BY <3>4, <4>1 DEF Open, Underway
    <3>6. sub \subseteq Routed
      BY <2>2, RoutedBehind, SweepsWithin DEF Behind
    <3>7. sub \cap Targets(r, label) = {}
      <4>1. SUFFICES ASSUME NEW t \in sub, NEW g \in Edges(r), g.label = label, t = g.to
                     PROVE  FALSE
        BY DEF Targets, Matches
      <4>2. t # e.to
        BY <2>2, <2>6, <4>1 DEF PlainRouter
      <4>3. PICK p \in Preds(t) : p \in sub
        BY <4>1, <4>2, SweepsThrough
      <4>4. p = r
        <5>1. p \in Routed /\ p \in Preds(g.to)
          BY <3>6, <4>1, <4>3
        <5>2. QED
          BY <4>1, <5>1 DEF PlainRouter
      <4>5. QED
        BY <3>3, <3>5, <4>3, <4>4
    <3>8. mark.ready \ sub = mark.ready
      BY <3>2, <3>7
    <3>9. {k \in 1 .. i : Out[r][k].label = label} = {k \in 1 .. i - 1 : Out[r][k].label = label}
      BY <2>4, <2>6
    <3>10. \A m \in sub : m \in Succs(r) \/ \E p \in Preds(m) : p \in sub
      BY <2>2, SweepsThrough
    <3> HIDE DEF e, sub
    <3>11. MarkedRight(r, label, i, f[i])
      <4>1. f[i] = [ready |-> mark.ready, skipped |-> mark.skipped \cup sub,
                    swept |-> mark.skipped \cup sub]
        BY <2>1, <3>1, <3>8 DEF MarkedRight
      <4>2. sub \subseteq Open(status) /\ sub \subseteq Nodes
        BY <3>3, <3>5 DEF Open
      <4>3. QED
        BY <2>1, <3>6, <3>7, <3>9, <3>10, <4>1, <4>2 DEF MarkedRight
    <3>12. QED
      BY <3>11
  <2>7. QED
    BY <2>5, <2>6
<1> HIDE DEF P
<1>8. 0 .. n \subseteq P
  BY <1>1, <1>6, <1>7, UpTo
<1>9. MarkedRight(r, label, n, Route(r, label))
  BY <1>1, <1>2, <1>8 DEF P
<1>10. {Out[r][j].to : j \in {k \in 1 .. n : Out[r][k].label = label}} = Targets(r, label)
  BY <1>1 DEF Targets, Matches, Edges
<1>11. QED
  BY <1>9, <1>10 DEF MarkedRight

-----------------------------------------------------------------------------
(* Graphs whose routers are plain, run without failing hooks, by any       *)
(* number of overlapping run loops.                                        *)

PlainGraph == ~PluginFaults /\ \A n \in Nodes : Kind[n] = "router" => PlainRouter(n)
NoRouters == \A n \in Nodes : Kind[n] # "router"

(* The status of a node says what the run loop executing it is doing.      *)
StatusTracks ==
  \A l \in Loops, n \in Nodes :
    /\ exec[l][n] \in {"start", "body", "wait", "backoff"} => status[n] \in Underway
    /\ exec[l][n] = "notify" => status[n] = "completed"
    /\ exec[l][n] # "stuck"

PlainInv == BarrierInv /\ StatusTracks /\ NoDoubleRun /\ Undecided

(* A sweep that takes no node along tells nothing.                         *)
LEMMA NoSkips ==
  ASSUME NEW n
  PROVE  \A skipped \in SkipEvents(n, {}) : skipped = << >>
<1> SUFFICES ASSUME NEW q \in SweepOrders(n, {}) PROVE Told("nodeSkipped", q) = << >>
  BY DEF SkipEvents
<1>1. q \in SetToSeqs({}) /\ Cardinality({}) = 0 /\ "nodeSkipped" \in EventType
  BY FS_EmptySet DEF SweepOrders, EventType
<1>2. Told("nodeSkipped", q) \in Seq(Events) /\ Len(Told("nodeSkipped", q)) = 0
  BY <1>1, ToldOnce
<1>3. QED
  BY <1>2, EmptySeq

(* The error path of a node under way: it backs off, or it is over.  The   *)
(* sweep behind it starts at a node that is not open and skips nothing.    *)
LEMMA PlainError ==
  ASSUME TypeOK, ~PluginFaults, NEW l \in Loops, NEW n \in Nodes,
         HandleError(l, n, status, events)
  PROVE  /\ \/ Goto(l, n, "backoff") /\ status' = [status EXCEPT ![n] = "retrying"]
               /\ events' = events
            \/ /\ Goto(l, n, "none") /\ status' = [status EXCEPT ![n] = "failed"]
               /\ events' = events \o <<Event("nodeFailed", {n}, NoResult)>>
         /\ \A m \in Nodes \ {n} : status'[m] = status[m]
<1> DEFINE failed == [status EXCEPT ![n] = "failed"]
           sub    == Subtree(failed, n)
<1>1. CASE /\ status' = [m \in Nodes |-> IF m \in sub THEN "skipped" ELSE failed[m]]
           /\ \E skipped \in SkipEvents(n, sub) :
                events' = events \o <<Event("nodeFailed", {n}, NoResult)>> \o skipped
           /\ Finally(l, n)
  <2>1. failed[n] = "failed" /\ \A m \in Nodes \ {n} : failed[m] = status[m]
    BY DEF TypeOK
  <2>2. sub = {}
    BY <2>1 DEF Subtree, Open
  <2>3. status' = failed
    <3>1. failed \in [Nodes -> NodeStatus]
      BY DEF TypeOK, NodeStatus
    <3>2. \A m \in Nodes : status'[m] = failed[m]
      BY <1>1, <2>2
    <3>3. status' = [m \in Nodes |-> failed[m]]
      BY <1>1, <2>2, <3>2
    <3>4. QED
      BY <3>1, <3>3
  <2>4. events' = events \o <<Event("nodeFailed", {n}, NoResult)>>
    <3>1. events \o <<Event("nodeFailed", {n}, NoResult)>> \in Seq(Events)
      BY EventTypes DEF EventType, TypeOK
    <3>2. \A skipped \in SkipEvents(n, {}) : skipped = << >>
      BY NoSkips
    <3>3. QED
      BY <1>1, <2>2, <3>1, <3>2, ConcatEmptySeq
  <2>5. QED
    BY <1>1, <2>1, <2>3, <2>4 DEF Finally
<1>2. CASE /\ status' = [status EXCEPT ![n] = "retrying"] /\ Goto(l, n, "backoff")
           /\ events' = events
  BY <1>2 DEF TypeOK
<1>3. QED
  BY <1>1, <1>2 DEF HandleError

(* What a step of an execution of n does to another node: nothing, or n is *)
(* a router and decides about an open node behind it.                      *)
Moved(n, m) ==
  \/ status'[m] = status[m]
  \/ /\ m \in Open(status) /\ Kind[n] = "router"
     /\ \/ m \in Succs(n) /\ status'[m] \in {"ready", "skipped"}
        \/ /\ status'[m] = "skipped"
           /\ \E p \in Preds(m) \cap Routed : status'[p] = "skipped"

(* What it does to all: the execution of n moves to pc and n gets a status *)
(* that fits.                                                              *)
PlainMove(l, n, pc) ==
  /\ Goto(l, n, pc)
  /\ pc # "stuck"
  /\ pc \in {"start", "body", "wait", "backoff"} => status'[n] \in Underway
  /\ pc = "notify" => status'[n] = "completed"
  /\ status[n] \in Underway \/ (status[n] = "completed" /\ status'[n] = "completed")
  /\ status'[n] # "skipped"
  /\ Kind[n] = "router" =>
       status'[n] = "completed" \/ \A m \in Nodes \ {n} : status'[m] = status[m]
  /\ \A m \in Nodes \ {n} : Moved(n, m)

(* A plain router completes: the targets it chose are ready, others are    *)
(* skipped with what was open behind them.                                 *)
Decides(n, label, mark) ==
  /\ label \in Returns[n]
  /\ MarkedRight(n, label, Len(Out[n]), mark) /\ mark.ready = Targets(n, label)
  /\ status[n] \in Underway /\ status'[n] = "completed"
  /\ \A m \in Nodes \ {n} :
       status'[m] = IF m \in mark.ready THEN "ready"
                    ELSE IF m \in mark.skipped THEN "skipped" ELSE status[m]

LEMMA RouterMoves ==
  ASSUME PlainGraph, TypeOK, StatusTracks, Undecided,
         NEW l \in Loops, NEW n \in Nodes, RouterDecides(l, n)
  PROVE  \E label, mark : \E skipped \in SkipEvents(n, mark.swept) :
           /\ Decides(n, label, mark)
           /\ Completes(l, n, label, RouteStatus(mark),
                        Targets(n, label) \cup Activated(n, label), events \o skipped)
           /\ xstatus' = xstatus
<1>1. PlainRouter(n) /\ Kind[n] = "router" /\ status[n] \in Underway
  BY DEF PlainGraph, RouterDecides, StatusTracks
<1>2. PICK label, skipped :
        LET st    == RouteStatus(Route(n, label))
            taken == {e.to : e \in Matches(n, label)}
        IN  /\ label \in Returns[n] /\ skipped \in SkipEvents(n, Swept(n, label))
            /\ IF taken # {}
               THEN /\ Completes(l, n, label, st, taken \cup Activated(n, label),
                                events \o skipped)
                    /\ UNCHANGED <<xstatus, active, loop>>
               ELSE /\ HandleError(l, n, st, events \o skipped)
                    /\ UNCHANGED <<results, cand>>
  BY DEF RouterDecides
<1>3. {e.to : e \in Matches(n, label)} = Targets(n, label) /\ Targets(n, label) # {}
  BY <1>1, <1>2 DEF Targets, Matches, PlainRouter
<1> DEFINE mark == Route(n, label)
<1>4. MarkedRight(n, label, Len(Out[n]), mark) /\ mark.ready = Targets(n, label)
  BY <1>1, <1>2, RouteMarks
<1>5. skipped \in SkipEvents(n, mark.swept)
  <2>1. Swept(n, label) = mark.swept
    BY <1>4 DEF MarkedRight, Swept
  <2>2. QED
    BY <1>2, <2>1
<1>6. /\ Completes(l, n, label, RouteStatus(mark),
                   Targets(n, label) \cup Activated(n, label), events \o skipped)
      /\ xstatus' = xstatus
  BY <1>2, <1>3
<1> HIDE DEF mark
<1>7. \A m \in Nodes : status'[m] = IF m = n THEN "completed" ELSE RouteStatus(mark)[m]
  BY <1>6 DEF Completes, RouteStatus
<1>8. \A m \in Nodes : RouteStatus(mark)[m] =
        IF m \in mark.ready THEN "ready"
        ELSE IF m \in mark.skipped THEN "skipped" ELSE status[m]
  <2>1. SUFFICES ASSUME NEW m \in Nodes
                 PROVE  RouteStatus(mark)[m] =
                          IF m \in mark.ready THEN "ready"
                          ELSE IF m \in mark.skipped THEN "skipped" ELSE status[m]
    OBVIOUS
  <2>2. RouteStatus(mark)[m] = CASE m \in mark.ready   -> "ready"
                                 [] m \in mark.skipped -> "skipped"
                                 [] OTHER              -> status[m]
    BY DEF RouteStatus
  <2>3. m \notin mark.ready \/ m \notin mark.skipped
    BY <1>4 DEF MarkedRight
  <2>4. QED
    BY <2>2, <2>3
<1>9. Decides(n, label, mark)
  BY <1>1, <1>2, <1>4, <1>7, <1>8 DEF Decides
<1>10. QED
  BY <1>5, <1>6, <1>9

LEMMA PlainNodeStep ==
  ASSUME PlainGraph, TypeOK, StatusTracks, Undecided,
         NEW l \in Loops, NEW n \in Nodes, NodeStep(l, n)
  PROVE  exec[l][n] # "none" /\ \E pc \in ExecPC : PlainMove(l, n, pc)
<1> USE DEF ExecPC
<1>1. exec[l][n] # "none"
  BY NodeStepActive
<1>2. ASSUME exec[l][n] \in {"body", "wait"}, HandleError(l, n, status, events)
      PROVE  \E pc \in ExecPC : PlainMove(l, n, pc)
  <2>1. status[n] \in Underway
    BY <1>2 DEF StatusTracks
  <2>2. /\ \/ Goto(l, n, "backoff") /\ status' = [status EXCEPT ![n] = "retrying"]
           \/ Goto(l, n, "none") /\ status' = [status EXCEPT ![n] = "failed"]
        /\ \A m \in Nodes \ {n} : status'[m] = status[m]
    BY <1>2, PlainError DEF PlainGraph
  <2>3. PlainMove(l, n, "backoff") \/ PlainMove(l, n, "none")
    BY <2>1, <2>2 DEF PlainMove, Moved, TypeOK, Underway
  <2>4. QED
    BY <1>2, <2>3
<1>3. CASE BodyStarts(l, n)
  <2>1. status[n] \in Underway
    BY <1>3 DEF BodyStarts, StatusTracks
  <2>2. status'[n] \in Underway /\ \A m \in Nodes \ {n} : status'[m] = status[m]
    BY <1>3, <2>1 DEF BodyStarts, TypeOK, Underway
  <2>3. PlainMove(l, n, "wait") \/ PlainMove(l, n, "body")
    BY <1>3, <2>1, <2>2 DEF BodyStarts, PlainMove, Moved, Underway
  <2>4. QED
    BY <1>1, <2>3
<1>4. CASE BodyReturns(l, n)
  <2>1. status[n] \in Underway
    BY <1>4 DEF BodyReturns, StatusTracks
  <2>2. Goto(l, n, "notify") /\ status' = [status EXCEPT ![n] = "completed"]
    BY <1>4 DEF BodyReturns, Completes
  <2>3. PlainMove(l, n, "notify")
    BY <2>1, <2>2 DEF PlainMove, Moved, TypeOK
  <2>4. QED
    BY <1>1, <2>3
<1>5. CASE BodyThrows(l, n)
  BY <1>2, <1>5 DEF BodyThrows
<1>6. CASE SignalTimesOut(l, n)
  BY <1>2, <1>6 DEF SignalTimesOut
<1>7. CASE BackoffEnds(l, n)
  <2>1. status[n] \in Underway
    BY <1>7 DEF BackoffEnds, StatusTracks
  <2>2. PlainMove(l, n, "none")
    BY <1>7, <2>1 DEF BackoffEnds, Finally, PlainMove, Moved, TypeOK
  <2>3. QED
    BY <1>1, <2>2
<1>8. CASE Notified(l, n)
  <2>1. status[n] = "completed"
    BY <1>8 DEF Notified, StatusTracks
  <2>2. PlainMove(l, n, "none")
    BY <1>8, <2>1 DEF Notified, Finally, PlainMove, Moved, nodeVars
  <2>3. QED
    BY <1>1, <2>2
<1>9. CASE StartHookThrows(l, n) \/ CompleteHookThrows(l, n)
  BY <1>9 DEF StartHookThrows, CompleteHookThrows, PlainGraph
<1>10. CASE RouterDecides(l, n)
  <2>0. PICK label, mark : \E skipped :
          /\ Decides(n, label, mark)
          /\ Completes(l, n, label, RouteStatus(mark),
                       Targets(n, label) \cup Activated(n, label), events \o skipped)
    BY <1>10, RouterMoves
  <2>1. /\ MarkedRight(n, label, Len(Out[n]), mark)
        /\ mark.ready = Targets(n, label) /\ label \in Returns[n]
        /\ Goto(l, n, "notify") /\ status[n] \in Underway /\ status'[n] = "completed"
        /\ \A m \in Nodes \ {n} :
             status'[m] = IF m \in mark.ready THEN "ready"
                          ELSE IF m \in mark.skipped THEN "skipped" ELSE status[m]
    BY <2>0 DEF Completes, Decides
  <2>2. PlainRouter(n) /\ Kind[n] = "router" /\ n \notin Open(status)
    BY <1>10, <2>1 DEF RouterDecides, PlainGraph, Open, Underway
  <2>3. ASSUME NEW m \in Nodes \ {n}, m \in mark.ready PROVE Moved(n, m)
    <3>1. PICK e \in Edges(n) : e.to = m /\ e.label = label
      BY <2>1, <2>3 DEF Targets, Matches
    <3>2. status[m] = "pending"
      BY <2>1, <2>2, <3>1 DEF Undecided, Underway
    <3>3. m \in Succs(n)
      BY <3>1 DEF Succs
    <3>4. QED
      BY <2>1, <2>2, <2>3, <3>2, <3>3 DEF Moved, Open
  <2>4. ASSUME NEW m \in Nodes \ {n}, m \in mark.skipped PROVE Moved(n, m)
    <3>1. m \notin mark.ready /\ m \in Open(status) /\ status'[m] = "skipped"
      BY <2>1, <2>4 DEF MarkedRight
    <3>2. CASE m \in Succs(n)
      BY <2>2, <3>1, <3>2 DEF Moved
    <3>3. CASE \E p \in Preds(m) : p \in mark.skipped
      <4>1. PICK p \in Preds(m) : p \in mark.skipped
        BY <3>3
      <4>2. p \in Nodes \ {n} /\ p \notin mark.ready /\ p \in Routed
        BY <2>1, <2>2, <4>1 DEF MarkedRight, Preds
      <4>3. status'[p] = "skipped"
        BY <2>1, <4>1, <4>2
      <4>4. QED
        BY <2>2, <3>1, <4>1, <4>2, <4>3 DEF Moved
    <3>4. QED
      BY <2>1, <2>4, <3>2, <3>3 DEF MarkedRight
  <2>5. \A m \in Nodes \ {n} : Moved(n, m)
    BY <2>1, <2>3, <2>4 DEF Moved
  <2>6. PlainMove(l, n, "notify")
    BY <2>1, <2>5 DEF PlainMove
  <2>7. QED
    BY <1>1, <2>6
<1>11. QED
  BY <1>1, <1>3, <1>4, <1>5, <1>6, <1>7, <1>8, <1>9, <1>10 DEF NodeStep

(* The order of a step is kept if settled nodes keep their status and only *)
(* ready nodes start.                                                      *)
LEMMA OrderStays ==
  ASSUME TypeOK, DependencyOrder,
         \A m \in Nodes : status[m] \in {"completed", "skipped"} => status'[m] = status[m],
         \A m \in Nodes : status'[m] \in Started => status[m] \in Started \/ m \in ReadyNodes
  PROVE  DependencyOrder'
<1> SUFFICES ASSUME NEW n \in Nodes, status'[n] \in Started, Preds(n) # {}
             PROVE  HasCompletedPred(n)' /\ (n \in RaceJoins \/ AllPredsSettled(n)')
  BY DEF DependencyOrder, Preds, Succs, Edges, Started
<1>1. HasCompletedPred(n) /\ (n \in RaceJoins \/ AllPredsSettled(n))
  BY DEF DependencyOrder, ReadyNodes
<1>2. Preds(n) \subseteq Nodes
  BY DEF Preds
<1>3. HasCompletedPred(n)'
  BY <1>1, <1>2 DEF HasCompletedPred, Preds, Succs, Edges
<1>4. AllPredsSettled(n) => AllPredsSettled(n)'
  BY <1>2 DEF AllPredsSettled, Preds, Succs, Edges
<1>5. QED
  BY <1>1, <1>3, <1>4

(* What every step of a plain graph keeps.                                 *)
Settles ==
  \A n \in Nodes : status[n] \in {"completed", "failed", "skipped"}
                     => status'[n] = status[n]
PlainParts ==
  /\ StatusTracks' /\ NoDoubleRun' /\ Undecided' /\ Settles
  /\ DependencyOrder => DependencyOrder'

(* Targets of an undecided router stay untouched if settled nodes keep     *)
(* their status and nothing happens to a target while its router has not   *)
(* decided.                                                                *)
LEMMA UndecidedStays ==
  ASSUME Undecided, Settles,
         \A r \in Nodes : Kind[r] = "router" /\ status'[r] \notin {"completed", "skipped"} =>
           \A e \in Edges(r) : status'[e.to] = status[e.to]
  PROVE  Undecided'
BY DEF Undecided, Settles, Edges

LEMMA PlainMoveKeeps ==
  ASSUME PlainGraph, PlainInv, NEW l \in Loops, NEW n \in Nodes, NEW pc \in ExecPC,
         exec[l][n] # "none", PlainMove(l, n, pc)
  PROVE  PlainParts
<1>1. TypeOK /\ StatusTracks /\ NoDoubleRun /\ Undecided
  BY DEF PlainInv, BarrierInv
<1>2. \A k \in Loops, m \in Nodes :
        exec'[k][m] = IF k = l /\ m = n THEN pc ELSE exec[k][m]
  BY <1>1, GotoMoves DEF PlainMove
<1>3. \A k \in Loops \ {l} : exec[k][n] = "none"
  BY <1>1 DEF NoDoubleRun
<1>4. Settles
  BY DEF Settles, PlainMove, Moved, Underway, Open
<1>5. StatusTracks'
  <2>1. SUFFICES ASSUME NEW k \in Loops, NEW m \in Nodes
                 PROVE  /\ exec'[k][m] \in {"start", "body", "wait", "backoff"}
                             => status'[m] \in Underway
                        /\ exec'[k][m] = "notify" => status'[m] = "completed"
                        /\ exec'[k][m] # "stuck"
    BY DEF StatusTracks, Loops, Underway
  <2>2. CASE m = n
    BY <1>2, <1>3, <2>2 DEF PlainMove
  <2>3. CASE m # n
    <3>1. exec'[k][m] = exec[k][m]
      BY <1>2, <2>3
    <3>2. CASE status'[m] = status[m]
      BY <1>1, <3>1, <3>2 DEF StatusTracks
    <3>3. CASE m \in Open(status)
      <4>1. exec[k][m] \in ExecPC
        BY <1>1 DEF TypeOK
      <4>2. exec[k][m] = "none"
        BY <1>1, <3>3, <4>1 DEF Open, StatusTracks, ExecPC, Underway
      <4>3. QED
        BY <3>1, <4>2
    <3>4. QED
      BY <2>3, <3>2, <3>3 DEF PlainMove, Moved
  <2>4. QED
    BY <2>2, <2>3
<1>6. NoDoubleRun'
  BY <1>1, <1>2, <1>3 DEF NoDoubleRun, Loops
<1>7. ASSUME DependencyOrder PROVE DependencyOrder'
  <2>1. \A m \in Nodes : status'[m] \in Started => status[m] \in Started
    BY DEF PlainMove, Moved, Underway, Started
  <2>2. QED
    BY <1>1, <1>4, <1>7, <2>1, OrderStays DEF Settles
<1>8. Undecided'
  <2>1. SUFFICES ASSUME NEW r \in Nodes, Kind[r] = "router",
                        status'[r] \notin {"completed", "skipped"}, NEW e \in Edges(r)
                 PROVE  status'[e.to] = status[e.to]
    BY <1>1, <1>4, UndecidedStays
  <2>2. /\ e.to \in Nodes
        /\ \A p \in Preds(e.to) \ {r} : Kind[p] # "router" /\ p \notin Routed
    BY <2>1, GraphTypes DEF PlainGraph, PlainRouter
  <2>3. CASE e.to = n
    <3>1. status[r] \notin {"completed", "skipped"}
      BY <1>4, <2>1 DEF Settles
    <3>2. status[n] \notin {"pending", "skipped"}
      BY DEF PlainMove, Underway
    <3>3. QED
      BY <1>1, <2>1, <2>3, <3>1, <3>2 DEF Undecided
  <2>4. CASE e.to # n
    <3>1. Moved(n, e.to)
      BY <2>2, <2>4 DEF PlainMove
    <3>2. ASSUME e.to \in Succs(n), Kind[n] = "router" PROVE status'[e.to] = status[e.to]
      <4>1. n = r
        BY <2>2, <3>2 DEF Preds
      <4>2. QED
        BY <2>1, <2>2, <2>4, <4>1 DEF PlainMove
    <3>3. \A p \in Preds(e.to) \cap Routed : p = r
      BY <2>2
    <3>4. QED
      BY <2>1, <3>1, <3>2, <3>3 DEF Moved
  <2>5. QED
    BY <2>3, <2>4
<1>9. QED
  BY <1>4, <1>5, <1>6, <1>7, <1>8 DEF PlainParts

LEMMA StartsKeep ==
  ASSUME PlainGraph, PlainInv, NEW l \in Loops, LoopStarts(l)
  PROVE  PlainParts
<1>1. TypeOK /\ StatusTracks /\ NoDoubleRun /\ Undecided
  BY DEF PlainInv, BarrierInv
<1>2. PICK batch \in SUBSET ReadyNodes :
        /\ status' = [n \in Nodes |-> IF n \in batch THEN "running" ELSE status[n]]
        /\ exec' = [exec EXCEPT ![l] =
             [n \in Nodes |-> IF n \in batch THEN "start" ELSE exec[l][n]]]
  BY DEF LoopStarts
<1>3. \A k \in Loops, m \in Nodes :
        exec'[k][m] = IF k = l /\ m \in batch THEN "start" ELSE exec[k][m]
  BY <1>1, <1>2 DEF TypeOK
<1>4. batch \subseteq Open(status) /\ batch \subseteq ReadyNodes
  BY DEF ReadyNodes
<1>5. \A k \in Loops, m \in batch : exec[k][m] = "none"
  <2>1. SUFFICES ASSUME NEW k \in Loops, NEW m \in batch PROVE exec[k][m] = "none"
    OBVIOUS
  <2>2. m \in Nodes /\ status[m] \in {"pending", "ready"}
    BY <1>4 DEF Open
  <2>3. exec[k][m] \in ExecPC
    BY <1>1, <2>2 DEF TypeOK
  <2>4. QED
    BY <1>1, <2>2, <2>3 DEF StatusTracks, Underway, ExecPC
<1>6. Settles
  BY <1>2, <1>4 DEF Settles, Open
<1>7. StatusTracks'
  <2>1. SUFFICES ASSUME NEW k \in Loops, NEW m \in Nodes
                 PROVE  /\ exec'[k][m] \in {"start", "body", "wait", "backoff"}
                             => status'[m] \in Underway
                        /\ exec'[k][m] = "notify" => status'[m] = "completed"
                        /\ exec'[k][m] # "stuck"
    BY DEF StatusTracks, Loops, Underway
  <2>2. CASE m \in batch
    BY <1>2, <1>3, <1>5, <2>2 DEF Underway
  <2>3. CASE m \notin batch
    BY <1>1, <1>2, <1>3, <2>3 DEF StatusTracks
  <2>4. QED
    BY <2>2, <2>3
<1>8. NoDoubleRun'
  <2>1. SUFFICES ASSUME NEW j \in Loops, NEW k \in Loops, j # k, NEW m \in Nodes
                 PROVE  exec'[j][m] = "none" \/ exec'[k][m] = "none"
    BY DEF NoDoubleRun, Loops
  <2>2. exec[j][m] = "none" \/ exec[k][m] = "none"
    BY <1>1, <2>1 DEF NoDoubleRun
  <2>3. QED
    BY <1>3, <1>5, <2>1, <2>2
<1>9. ASSUME DependencyOrder PROVE DependencyOrder'
  <2>1. \A m \in Nodes : status'[m] \in Started
                           => status[m] \in Started \/ m \in ReadyNodes
    BY <1>2, <1>4
  <2>2. QED
    BY <1>1, <1>6, <1>9, <2>1, OrderStays DEF Settles
<1>10. Undecided'
  <2>1. SUFFICES ASSUME NEW r \in Nodes, Kind[r] = "router",
                        status'[r] \notin {"completed", "skipped"}, NEW e \in Edges(r)
                 PROVE  status'[e.to] = status[e.to]
    BY <1>1, <1>6, UndecidedStays
  <2>2. e.to \in Nodes /\ r \in Preds(e.to)
        /\ (Preds(e.to) \ {r} # {} => e.to \notin RaceJoins)
    <3>1. e.to \in Nodes /\ r \in Preds(e.to)
      BY GraphTypes DEF Preds, Succs
    <3>2. QED
      BY <2>1, <3>1 DEF PlainGraph, PlainRouter
  <2>3. status[r] \notin {"completed", "skipped"}
    BY <1>6, <2>1 DEF Settles
  <2>4. e.to \notin ReadyNodes
    BY <2>2, <2>3 DEF ReadyNodes, HasCompletedPred, AllPredsSettled
  <2>5. QED
    BY <1>2, <1>4, <2>2, <2>4
<1>11. QED
  BY <1>6, <1>7, <1>8, <1>9, <1>10 DEF PlainParts

LEMMA PlainStep ==
  ASSUME PlainGraph, PlainInv, [Next]_vars
  PROVE  PlainInv' /\ PlainParts
<1>1. TypeOK /\ SignalsWait /\ StatusTracks /\ Undecided
  BY DEF PlainInv, BarrierInv
<1>2. BarrierInv'
  BY BarrierInductive DEF PlainInv
<1>3. ASSUME UNCHANGED <<status, exec>> PROVE PlainParts
  <2>1. \A m \in Nodes : status'[m] \in Started => status[m] \in Started
    BY <1>3
  <2>2. DependencyOrder => DependencyOrder'
    BY <1>1, <1>3, <2>1, OrderStays
  <2>3. Settles
    BY <1>3 DEF Settles
  <2>4. Undecided'
    BY <1>1, <1>3, <2>3, UndecidedStays
  <2>5. QED
    BY <1>3, <2>2, <2>3, <2>4 DEF PlainInv, PlainParts, StatusTracks, NoDoubleRun, Loops
<1>4. ASSUME NEW l \in Loops, NEW n \in Nodes, NodeStep(l, n)
      PROVE  PlainParts
  BY <1>1, <1>4, PlainNodeStep, PlainMoveKeeps
<1>5. ASSUME DeliverSignal PROVE PlainParts
  <2>1. PICK s \in signals : Goto(s[1], s[2], "body") /\ status' = status
    BY <1>5 DEF DeliverSignal, nodeVars
  <2>2. s[1] \in Loops /\ s[2] \in Nodes /\ exec[s[1]][s[2]] = "wait"
    BY <1>1, <2>1 DEF TypeOK, SignalsWait
  <2>3. PICK l \in Loops, n \in Nodes : exec[l][n] = "wait" /\ Goto(l, n, "body")
    BY <2>1, <2>2
  <2>4. PlainMove(l, n, "body")
    BY <1>1, <2>1, <2>3 DEF PlainMove, Moved, StatusTracks, Underway
  <2>5. exec[l][n] # "none" /\ "body" \in ExecPC
    BY <2>3 DEF ExecPC
  <2>6. QED
    BY <2>4, <2>5, PlainMoveKeeps
<1>6. ASSUME \E l \in Loops : Execute(l) \/ Resume(l) \/ LoopStep(l)
      PROVE  PlainParts
  <2>1. CASE \E l \in Loops : LoopStarts(l)
    BY <2>1, StartsKeep
  <2>2. CASE ~\E l \in Loops : LoopStarts(l)
    <3>1. UNCHANGED <<status, exec>>
      BY <1>6, <2>2 DEF Execute, Resume, BeginLoop, LoopStep, LoopReturns,
         LoopWaits, BatchSettles, execVars, nodeVars
    <3>2. QED
      BY <1>3, <3>1
  <2>3. QED
    BY <2>1, <2>2
<1>7. ASSUME Pause \/ Cancel \/ Abort PROVE PlainParts
  BY <1>3, <1>7 DEF Pause, Cancel, Abort, Control, execVars, nodeVars
<1>8. ASSUME UNCHANGED vars PROVE PlainParts
  BY <1>3, <1>8 DEF vars
<1>9. PlainParts
  BY <1>4, <1>5, <1>6, <1>7, <1>8 DEF Next
<1>10. QED
  BY <1>2, <1>9 DEF PlainInv, PlainParts

LEMMA PlainInit == Init => PlainInv /\ DependencyOrder
<1>1. ASSUME Init PROVE StatusTracks /\ NoDoubleRun /\ Undecided /\ DependencyOrder
  BY <1>1, GraphTypes DEF Init, StatusTracks, NoDoubleRun, Undecided, DependencyOrder, Started
<1>2. QED
  BY <1>1, BarrierInductive DEF PlainInv

(* In a plain graph two overlapping run loops never execute the same node. *)
THEOREM PlainNoDoubleRun == PlainGraph => (Spec => []NoDoubleRun)
<1> SUFFICES ASSUME PlainGraph PROVE Spec => []NoDoubleRun
  OBVIOUS
<1>1. PlainInv => NoDoubleRun
  BY DEF PlainInv
<1>2. PlainInv /\ [Next]_vars => PlainInv'
  BY PlainStep
<1>3. QED
  BY <1>1, <1>2, PlainInit, PTL DEF Spec

(* In a plain graph every node starts after its dependencies, and they     *)
(* stay completed or skipped through retries, pauses and resumes.          *)
THEOREM PlainDependencyOrder == PlainGraph => (Spec => []DependencyOrder)
<1> SUFFICES ASSUME PlainGraph PROVE Spec => []DependencyOrder
  OBVIOUS
<1>1. PlainInv /\ DependencyOrder /\ [Next]_vars => PlainInv' /\ DependencyOrder'
  BY PlainStep DEF PlainParts
<1>2. QED
  BY <1>1, PlainInit, PTL DEF Spec

(* In a plain graph a completed, failed or skipped node stays so.          *)
THEOREM PlainSettledForGood == PlainGraph => (Spec => SettledForGood)
<1> SUFFICES ASSUME PlainGraph PROVE Spec => SettledForGood
  OBVIOUS
<1>1. PlainInv /\ [Next]_vars => PlainInv'
  BY PlainStep
<1>2. PlainInv /\ [Next]_vars
        => [\A n \in Nodes : status[n] \in {"completed", "failed", "skipped"}
              => status'[n] = status[n]]_vars
  BY PlainStep DEF PlainParts, Settles
<1>3. QED
  BY <1>1, <1>2, PlainInit, PTL DEF Spec, SettledForGood

(* In a plain graph the active set is exact, however many run loops        *)
(* overlap.                                                                *)
THEOREM PlainActive == PlainGraph => (Spec => []ActiveTracksExecution)
<1> SUFFICES ASSUME PlainGraph PROVE Spec => []ActiveTracksExecution
  OBVIOUS
<1>1. PlainInv /\ ActiveTracksExecution /\ [Next]_vars
        => PlainInv' /\ ActiveTracksExecution'
  BY PlainStep, ActiveStep DEF PlainInv
<1>2. QED
  BY <1>1, PlainInit, ActiveInit, PTL DEF Spec

(* In a plain graph run loops share the state soundly, however many of     *)
(* them pauses and resumes leave overlapping.                              *)
THEOREM PlainLoops == PlainGraph => (Spec => []LoopsSound)
<1> SUFFICES ASSUME PlainGraph PROVE Spec => []LoopsSound
  OBVIOUS
<1>1. TypeOK /\ LoopBound /\ NoDoubleRun /\ ActiveTracksExecution => LoopsSound
  BY DEF LoopsSound
<1>2. Spec => []TypeOK BY TypeCorrect
<1>3. Spec => []LoopBound BY LoopBounded
<1>4. Spec => []NoDoubleRun BY PlainNoDoubleRun
<1>5. Spec => []ActiveTracksExecution BY PlainActive
<1>6. QED
  BY <1>1, <1>2, <1>3, <1>4, <1>5, PTL

-----------------------------------------------------------------------------
(* What plain routers decide is done.  In a decision tree what lies behind *)
(* routers is reached on one way only; where branches merge again, nodes   *)
(* behind completed ones are skipped.                                      *)

SingleBehind == \A n \in Routed : \E p : Preds(n) = {p}
DecisionTree == PlainGraph /\ SingleBehind

(* Only a decision skips a node.                                           *)
LEMMA OthersSkipNone ==
  ASSUME PlainGraph, TypeOK, StatusTracks, NEW l \in Loops, NEW n \in Nodes,
         NodeStep(l, n), ~RouterDecides(l, n), NEW m \in Nodes, status'[m] = "skipped"
  PROVE  status[m] = "skipped"
<1>1. ASSUME HandleError(l, n, status, events) PROVE status[m] = "skipped"
  BY <1>1, PlainError DEF PlainGraph, TypeOK
<1>2. CASE BodyThrows(l, n)
  BY <1>1, <1>2 DEF BodyThrows
<1>3. CASE SignalTimesOut(l, n)
  BY <1>1, <1>3 DEF SignalTimesOut
<1>4. CASE BodyReturns(l, n)
  BY <1>4 DEF BodyReturns, Completes, TypeOK
<1>5. CASE BodyStarts(l, n)
  BY <1>5 DEF BodyStarts, TypeOK
<1>6. CASE BackoffEnds(l, n) \/ Notified(l, n)
  BY <1>6 DEF BackoffEnds, Notified, TypeOK, nodeVars
<1>7. CASE StartHookThrows(l, n) \/ CompleteHookThrows(l, n)
  BY <1>7 DEF StartHookThrows, CompleteHookThrows, PlainGraph
<1>8. QED
  BY <1>2, <1>3, <1>4, <1>5, <1>6, <1>7 DEF NodeStep

(* Only an execution that is over is COMPLETED, what a router decided for  *)
(* is not skipped, and in a decision tree what is skipped has routers or   *)
(* skipped nodes before it.                                                *)
EndsDone == xstatus = "completed" => AllDone
ChosenKept ==
  \A r \in Nodes : Kind[r] = "router" /\ status[r] = "completed" =>
    \A e \in Matches(r, results[r]) : status[e.to] # "skipped"
SkippedBehind ==
  \A n \in Nodes : status[n] = "skipped" =>
    n \in Routed /\ \A p \in Preds(n) : Kind[p] = "router" \/ status[p] = "skipped"
RouteInv == EndsDone /\ ChosenKept /\ (SingleBehind => SkippedBehind)

LEMMA DoneStays ==
  ASSUME EndsDone, Settles, xstatus' = "completed" => xstatus = "completed" \/ AllDone
  PROVE  EndsDone'
BY DEF EndsDone, Settles, AllDone

(* An execution is COMPLETED only by a run loop that finds all nodes done. *)
LEMMA DoneCompletes ==
  ASSUME [Next]_vars, xstatus' = "completed" PROVE xstatus = "completed" \/ AllDone
<1>1. ASSUME NEW l \in Loops, NEW n \in Nodes, NodeStep(l, n) PROVE xstatus = "completed"
  <2>1. ASSUME NEW st, NEW em, HandleError(l, n, st, em) PROVE xstatus' \in {xstatus, "failed"}
    BY <2>1 DEF HandleError
  <2>2. xstatus' \in {xstatus, "failed", "suspended"}
    BY <1>1, <2>1 DEF NodeStep, BodyStarts, StartHookThrows, BodyReturns, RouterDecides,
       BodyThrows, BackoffEnds, SignalTimesOut, Notified, CompleteHookThrows
  <2>3. QED
    BY <2>2
<1>2. ASSUME NEW l \in Loops, Execute(l) \/ Resume(l) \/ LoopStep(l)
      PROVE  xstatus = "completed" \/ AllDone
  BY <1>2 DEF Execute, Resume, BeginLoop, LoopStep, LoopReturns, LoopWaits, LoopStarts,
     BatchSettles, FinalStatus
<1>3. CASE \/ Pause \/ Cancel \/ Abort \/ UNCHANGED vars
           \/ DeliverSignal
  BY <1>3 DEF Pause, Cancel, Abort, Control, DeliverSignal, vars
<1>4. QED
  BY <1>1, <1>2, <1>3 DEF Next

LEMMA RoutesStay ==
  ASSUME ChosenKept, SingleBehind => SkippedBehind, Settles,
         \A m \in Nodes : status'[m] = "skipped" => status[m] = "skipped",
         \A m \in Nodes : Kind[m] = "router" /\ status'[m] = "completed"
                            => status[m] = "completed" /\ results'[m] = results[m]
  PROVE  ChosenKept' /\ (SingleBehind => SkippedBehind')
<1>1. ChosenKept'
  <2>1. SUFFICES ASSUME NEW r \in Nodes, Kind[r] = "router", status'[r] = "completed",
                        NEW e \in Matches(r, results'[r])
                 PROVE  status'[e.to] # "skipped"
    BY DEF ChosenKept, Matches, Edges
  <2>2. e \in Matches(r, results[r]) /\ status[r] = "completed" /\ e.to \in Nodes
    BY <2>1, GraphTypes DEF Matches
  <2>3. QED
    BY <2>1, <2>2 DEF ChosenKept
<1>2. ASSUME SingleBehind PROVE SkippedBehind'
  <2>0. SkippedBehind
    BY <1>2
  <2>1. SUFFICES ASSUME NEW m \in Nodes, status'[m] = "skipped", NEW p \in Preds(m)
                 PROVE  m \in Routed /\ (Kind[p] = "router" \/ status'[p] = "skipped")
    <3>1. SUFFICES ASSUME NEW m \in Nodes, status'[m] = "skipped"
                   PROVE  m \in Routed /\ \A p \in Preds(m) :
                                       Kind[p] = "router" \/ status'[p] = "skipped"
      BY DEF SkippedBehind, Preds, Succs, Edges
    <3>2. m \in Routed
      BY <2>0, <3>1 DEF SkippedBehind
    <3>3. QED
      BY <2>1, <3>1, <3>2
  <2>2. status[m] = "skipped" /\ p \in Nodes
    BY <2>1 DEF Preds
  <2>3. QED
    BY <2>0, <2>1, <2>2 DEF SkippedBehind, Settles
<1>3. QED
  BY <1>1, <1>2

LEMMA RouteDecided ==
  ASSUME PlainGraph, TypeOK, Undecided, Settles, ChosenKept,
         SingleBehind => SkippedBehind, NEW n \in Nodes, Kind[n] = "router",
         NEW label, NEW mark, Decides(n, label, mark),
         results' = [results EXCEPT ![n] = label]
  PROVE  ChosenKept' /\ (SingleBehind => SkippedBehind')
<1>1. /\ MarkedRight(n, label, Len(Out[n]), mark) /\ mark.ready = Targets(n, label)
      /\ status[n] \in Underway /\ status'[n] = "completed"
      /\ results'[n] = label /\ \A m \in Nodes \ {n} : results'[m] = results[m]
  BY DEF Decides, TypeOK
<1>2. \A m \in Nodes \ {n} :
        status'[m] = IF m \in mark.ready THEN "ready"
                     ELSE IF m \in mark.skipped THEN "skipped" ELSE status[m]
  BY DEF Decides
<1>3. \A m \in Nodes : status'[m] = "skipped" => status[m] = "skipped" \/ m \in mark.skipped
  BY <1>1, <1>2
<1>4. /\ mark.skipped \subseteq Open(status) /\ mark.skipped \subseteq Routed
      /\ \A m \in mark.skipped : m \in Succs(n) \/ \E p \in Preds(m) : p \in mark.skipped
  BY <1>1 DEF MarkedRight
<1>5. \A m \in mark.skipped : m # n /\ status'[m] = "skipped"
  BY <1>1, <1>2, <1>4 DEF MarkedRight, Open, Underway
<1>6. ChosenKept'
  <2>1. SUFFICES ASSUME NEW r \in Nodes, Kind[r] = "router", status'[r] = "completed",
                        NEW e \in Matches(r, results'[r])
                 PROVE  status'[e.to] # "skipped"
    BY DEF ChosenKept, Matches, Edges
  <2>2. /\ e \in Edges(r) /\ e.to \in Nodes
        /\ \A p \in Preds(e.to) \ {r} : Kind[p] # "router" /\ p \notin Routed
    BY <2>1, GraphTypes DEF Matches, PlainGraph, PlainRouter
  <2>3. CASE r = n
    <3>1. e.to \in Targets(n, label)
      BY <1>1, <2>1, <2>3 DEF Targets
    <3>2. CASE e.to = n
      BY <1>1, <3>2
    <3>3. CASE e.to # n
      BY <1>1, <1>2, <2>2, <3>1, <3>3
    <3>4. QED
      BY <3>2, <3>3
  <2>4. CASE r # n
    <3>1. r \notin mark.ready /\ r \notin mark.skipped
      BY <1>2, <2>1, <2>4
    <3>2. status[r] = "completed" /\ results'[r] = results[r]
      BY <1>1, <1>2, <2>1, <2>4, <3>1
    <3>3. status[e.to] # "skipped"
      BY <2>1, <3>2 DEF ChosenKept
    <3>4. e.to \notin mark.skipped
      <4>1. n \notin Preds(e.to) /\ \A p \in Preds(e.to) \cap Routed : p = r
        BY <2>2, <2>4
      <4>2. QED
        BY <1>4, <2>2, <3>1, <4>1 DEF Preds
    <3>5. QED
      BY <1>3, <2>2, <3>3, <3>4
  <2>5. QED
    BY <2>3, <2>4
<1>7. ASSUME SingleBehind PROVE SkippedBehind'
  <2>0. SkippedBehind
    BY <1>7
  <2>1. SUFFICES ASSUME NEW m \in Nodes, status'[m] = "skipped"
                 PROVE  m \in Routed /\ \A p \in Preds(m) :
                                     Kind[p] = "router" \/ status'[p] = "skipped"
    BY DEF SkippedBehind, Preds, Succs, Edges
  <2>2. CASE status[m] = "skipped"
    BY <2>0, <2>1, <2>2 DEF SkippedBehind, Settles, Preds
  <2>3. CASE m \in mark.skipped
    <3>1. m \in Routed
      BY <1>4, <2>3
    <3>2. PICK p : Preds(m) = {p}
      BY <1>7, <3>1 DEF SingleBehind
    <3>3. CASE m \in Succs(n)
      BY <3>1, <3>2, <3>3 DEF Preds
    <3>4. CASE \E q \in Preds(m) : q \in mark.skipped
      BY <1>5, <3>1, <3>2, <3>4
    <3>5. QED
      BY <1>4, <2>3, <3>3, <3>4
  <2>4. QED
    BY <1>3, <2>1, <2>2, <2>3
<1>8. QED
  BY <1>6, <1>7

LEMMA RouteStep ==
  ASSUME PlainGraph, PlainInv, RouteInv, [Next]_vars
  PROVE  RouteInv'
<1>1. TypeOK /\ StatusTracks /\ Undecided /\ Settles
  BY PlainStep DEF PlainInv, BarrierInv, PlainParts
<1>2. EndsDone /\ ChosenKept /\ (SingleBehind => SkippedBehind)
  BY DEF RouteInv
<1>3. EndsDone'
  BY <1>1, <1>2, DoneCompletes, DoneStays
<1>4. ASSUME UNCHANGED <<status, results>> PROVE RouteInv'
  BY <1>1, <1>2, <1>3, <1>4, RoutesStay DEF RouteInv
<1>5. ASSUME NEW l \in Loops, NEW n \in Nodes, NodeStep(l, n) PROVE RouteInv'
  <2>1. CASE RouterDecides(l, n)
    <3>1. PICK label, mark :
            Decides(n, label, mark) /\ results' = [results EXCEPT ![n] = label]
      BY <1>1, <2>1, RouterMoves DEF Completes
    <3>2. Kind[n] = "router"
      BY <2>1 DEF RouterDecides
    <3>3. QED
      BY <1>1, <1>2, <1>3, <3>1, <3>2, RouteDecided DEF RouteInv
  <2>2. CASE ~RouterDecides(l, n)
    <3>1. \A m \in Nodes : status'[m] = "skipped" => status[m] = "skipped"
      BY <1>1, <1>5, <2>2, OthersSkipNone
    <3>2. ASSUME NEW m \in Nodes, Kind[m] = "router", status'[m] = "completed"
          PROVE  status[m] = "completed" /\ results'[m] = results[m]
      <4>1. CASE BodyReturns(l, n)
        <5>1. /\ Kind[n] # "router" /\ status' = [status EXCEPT ![n] = "completed"]
              /\ \E out : results' = [results EXCEPT ![n] = out]
          BY <4>1 DEF BodyReturns, Completes
        <5>2. QED
          BY <1>1, <3>2, <5>1 DEF TypeOK
      <4>2. CASE ~BodyReturns(l, n)
        <5>1. results' = results
          BY <1>5, <2>2, <4>2 DEF NodeStep, BodyStarts, StartHookThrows, BodyThrows,
             BackoffEnds, SignalTimesOut, Notified, CompleteHookThrows, nodeVars
        <5>2. ASSUME HandleError(l, n, status, events) PROVE status[m] = "completed"
          BY <1>1, <3>2, <5>2, PlainError DEF PlainGraph, TypeOK
        <5>3. status[m] = "completed"
          BY <1>1, <1>5, <2>2, <3>2, <4>2, <5>2 DEF NodeStep, BodyStarts, StartHookThrows,
             BodyThrows, BackoffEnds, SignalTimesOut, Notified,
             CompleteHookThrows, PlainGraph, TypeOK, nodeVars
        <5>4. QED
          BY <5>1, <5>3
      <4>3. QED
        BY <4>1, <4>2
    <3>3. QED
      BY <1>1, <1>2, <1>3, <3>1, <3>2, RoutesStay DEF RouteInv
  <2>3. QED
    BY <2>1, <2>2
<1>6. ASSUME NEW l \in Loops, LoopStarts(l) PROVE RouteInv'
  <2>1. PICK batch \in SUBSET ReadyNodes :
          status' = [n \in Nodes |-> IF n \in batch THEN "running" ELSE status[n]]
    BY <1>6 DEF LoopStarts
  <2>2. results' = results
    BY <1>6 DEF LoopStarts
  <2>3. QED
    BY <1>1, <1>2, <1>3, <2>1, <2>2, RoutesStay DEF RouteInv
<1>7. ASSUME NEW l \in Loops, LoopReturns(l) \/ LoopWaits(l) \/ BatchSettles(l)
                                \/ BeginLoop(l)
      PROVE  RouteInv'
  BY <1>4, <1>7 DEF LoopReturns, LoopWaits, BatchSettles, BeginLoop, nodeVars
<1>8. CASE \/ Pause \/ Cancel \/ Abort \/ UNCHANGED vars
           \/ DeliverSignal
  BY <1>4, <1>8 DEF Pause, Cancel, Abort, Control, DeliverSignal, nodeVars, vars
<1>9. QED
  BY <1>5, <1>6, <1>7, <1>8 DEF Next, Execute, Resume, LoopStep

LEMMA RoutesAlways == PlainGraph => (Spec => []RouteInv)
<1> SUFFICES ASSUME PlainGraph PROVE Spec => []RouteInv
  OBVIOUS
<1>1. Init => PlainInv /\ RouteInv
  BY PlainInit DEF Init, RouteInv, EndsDone, ChosenKept, SkippedBehind
<1>2. PlainInv /\ RouteInv /\ [Next]_vars => PlainInv' /\ RouteInv'
  BY PlainStep, RouteStep
<1>3. QED
  BY <1>1, <1>2, PTL DEF Spec

LEMMA RoutesDone == RouteInv => RouteTaken
<1> SUFFICES ASSUME RouteInv, xstatus = "completed", NEW r \in Nodes, Kind[r] = "router",
                    status[r] = "completed", NEW e \in Matches(r, results[r])
             PROVE  status[e.to] = "completed"
  BY DEF RouteTaken
<1>1. e.to \in Nodes /\ status[e.to] # "skipped"
  BY GraphTypes DEF RouteInv, ChosenKept, Matches
<1>2. QED
  BY <1>1 DEF RouteInv, EndsDone, AllDone

(* In a plain graph an execution that completed has run what its routers   *)
(* decided for, through retries, pauses and overlapping run loops.         *)
THEOREM PlainRoutesTaken == PlainGraph => (Spec => []RouteTaken)
<1> SUFFICES ASSUME PlainGraph PROVE Spec => []RouteTaken
  OBVIOUS
<1>1. Spec => []RouteInv
  BY RoutesAlways
<1>2. QED
  BY <1>1, RoutesDone, PTL

(* In a decision tree it has run what lies behind completed nodes as well. *)
THEOREM TreesRunComplete == DecisionTree => (Spec => []CompletedRan)
<1> SUFFICES ASSUME PlainGraph, SingleBehind PROVE Spec => []CompletedRan
  BY DEF DecisionTree
<1>1. RouteInv => CompletedRan
  <2>1. RouteInv => MergesRun
    BY DEF RouteInv, EndsDone, SkippedBehind, AllDone, MergesRun, Preds
  <2>2. QED
    BY <2>1, RoutesDone DEF CompletedRan
<1>2. Spec => []RouteInv
  BY RoutesAlways
<1>3. QED
  BY <1>1, <1>2, PTL

-----------------------------------------------------------------------------
(* One run loop: an engine that is executed once and not resumed.          *)

(* Until execute() is called nothing has happened to the nodes.            *)
Fresh == loop[1] = "idle" => \A n \in Nodes : status[n] = "pending"

LEMMA OnlyInBatch ==
  ASSUME MaxLoops = 1, BarrierInv, NEW l \in Loops, NEW n \in Nodes, NodeStep(l, n)
  PROVE  l = 1 /\ loop[1] = "batch" /\ loop'[1] = "batch"
<1>1. TypeOK /\ AtRest /\ l = 1
  BY DEF BarrierInv, Loops
<1>2. PICK pc \in ExecPC : Moves(l, n, pc)
  BY <1>1, NodeStepMoves
<1>3. n \in Executing(l)
  BY <1>2 DEF Moves, Executing
<1>4. QED
  BY <1>1, <1>2, <1>3 DEF AtRest, Moves

LEMMA FreshStep ==
  ASSUME MaxLoops = 1, BarrierInv, Fresh, [Next]_vars
  PROVE  Fresh'
<1>1. TypeOK /\ Loops = {1}
  BY DEF BarrierInv, Loops
<1>2. ASSUME NEW l \in Loops, NEW n \in Nodes, NodeStep(l, n) PROVE Fresh'
  BY <1>2, OnlyInBatch DEF Fresh
<1>3. ASSUME UNCHANGED <<status, loop>> PROVE Fresh'
  BY <1>3 DEF Fresh
<1>4. ASSUME NEW l \in Loops, Execute(l) \/ Resume(l) \/ LoopStep(l) PROVE Fresh'
  <2>1. l = 1 /\ loop'[1] # "idle"
    BY <1>1, <1>4 DEF Execute, Resume, BeginLoop, LoopStep, LoopReturns, LoopWaits,
       LoopStarts, BatchSettles, TypeOK
  <2>2. QED
    BY <2>1 DEF Fresh
<1>5. CASE \/ Pause \/ Cancel \/ Abort \/ UNCHANGED vars
           \/ DeliverSignal
  BY <1>3, <1>5 DEF Pause, Cancel, Abort, Control, DeliverSignal, nodeVars, vars
<1>6. QED
  BY <1>2, <1>4, <1>5 DEF Next

LEMMA FreshInit == Init => Fresh
BY DEF Init, Fresh

(* A node that fails leaves the execution in a status that starts nothing, *)
(* until resume() begins another run loop.                                 *)
FailureStops ==
  (\E n \in Nodes : status[n] = "failed") =>
    aborted \/ xstatus \in {"failed", "paused", "suspended"}

(* What one step of a node execution does to the failed and the running.   *)
LEMMA HandleErrorFails ==
  ASSUME TypeOK, NEW l \in Loops, NEW n \in Nodes, NEW st \in [Nodes -> NodeStatus],
         NEW emitted, HandleError(l, n, st, emitted)
  PROVE  /\ \/ xstatus' = "failed"
            \/ /\ xstatus' = xstatus
               /\ \A m \in Nodes : status'[m] = "failed" => st[m] = "failed"
         /\ \A m \in Nodes : status'[m] = "running" => st[m] = "running"
<1> DEFINE failed == [st EXCEPT ![n] = "failed"]
           sub    == Subtree(failed, n)
<1>1. CASE status' = [st EXCEPT ![n] = "retrying"] /\ xstatus' = xstatus
  BY <1>1
<1>2. CASE /\ status' = [m \in Nodes |-> IF m \in sub THEN "skipped" ELSE failed[m]]
           /\ xstatus' = "failed"
  <2>1. \A m \in Nodes : failed[m] = IF m = n THEN "failed" ELSE st[m]
    OBVIOUS
  <2>2. \A m \in Nodes : status'[m] = "skipped" \/ status'[m] = failed[m]
    BY <1>2
  <2> HIDE DEF failed, sub
  <2>3. QED
    BY <1>2, <2>1, <2>2
<1>3. CASE status' = st /\ xstatus' = xstatus
  BY <1>3
<1>4. QED
  BY <1>1, <1>2, <1>3 DEF HandleError

LEMMA NodeStepFails ==
  ASSUME TypeOK, NEW l \in Loops, NEW n \in Nodes, NodeStep(l, n)
  PROVE  /\ \/ xstatus' \in {"failed", "suspended"}
            \/ /\ xstatus' = xstatus
               /\ \A m \in Nodes : status'[m] = "failed" => status[m] = "failed"
         /\ \A m \in Nodes : status'[m] = "running" => status[m] = "running"
         /\ aborted' = aborted
<1> DEFINE Fine == /\ \/ xstatus' \in {"failed", "suspended"}
                      \/ /\ xstatus' = xstatus
                         /\ \A m \in Nodes : status'[m] = "failed" => status[m] = "failed"
                   /\ \A m \in Nodes : status'[m] = "running" => status[m] = "running"
<1>1. status \in [Nodes -> NodeStatus]
  BY DEF TypeOK
<1>2. ASSUME NEW emitted, HandleError(l, n, status, emitted) PROVE Fine
  BY <1>1, <1>2, HandleErrorFails
<1>3. CASE BodyThrows(l, n) \/ SignalTimesOut(l, n) \/ CompleteHookThrows(l, n)
  BY <1>2, <1>3 DEF BodyThrows, SignalTimesOut, CompleteHookThrows
<1>4. CASE RouterDecides(l, n)
  <2>1. PICK label \in Returns[n] :
          \E added, emitted :
            \/ /\ Completes(l, n, label, RouteStatus(Route(n, label)), added, emitted)
               /\ xstatus' = xstatus
            \/ HandleError(l, n, RouteStatus(Route(n, label)), emitted)
    BY <1>4 DEF RouterDecides
  <2> DEFINE st == RouteStatus(Route(n, label))
  <2>2. st \in [Nodes -> NodeStatus]
    BY <1>1 DEF RouteStatus, NodeStatus
  <2>3. \A m \in Nodes : st[m] \in {"ready", "skipped", status[m]}
    BY DEF RouteStatus
  <2> HIDE DEF st
  <2>4. ASSUME NEW added, NEW emitted, Completes(l, n, label, st, added, emitted),
               xstatus' = xstatus
        PROVE  Fine
    <3>1. \A m \in Nodes : status'[m] = IF m = n THEN "completed" ELSE st[m]
      BY <2>2, <2>4 DEF Completes
    <3>2. \A m \in Nodes : status'[m] \in {"failed", "running"} => status[m] = status'[m]
      BY <2>3, <3>1
    <3>3. QED
      BY <2>4, <3>2
  <2>5. ASSUME NEW emitted, HandleError(l, n, st, emitted) PROVE Fine
    <3>1. /\ \/ xstatus' = "failed"
             \/ /\ xstatus' = xstatus
                /\ \A m \in Nodes : status'[m] = "failed" => st[m] = "failed"
          /\ \A m \in Nodes : status'[m] = "running" => st[m] = "running"
      BY <2>2, <2>5, HandleErrorFails
    <3>2. QED
      BY <2>3, <3>1
  <2>6. Fine
    <3> HIDE DEF Fine
    <3>1. QED
      BY <2>1, <2>4, <2>5 DEF st
  <2>7. QED
    BY <1>4, <2>6 DEF RouterDecides
<1>5. CASE BodyReturns(l, n)
  BY <1>1, <1>5 DEF BodyReturns, Completes
<1>6. CASE BodyStarts(l, n)
  BY <1>1, <1>6 DEF BodyStarts
<1>7. CASE StartHookThrows(l, n) \/ BackoffEnds(l, n) \/ Notified(l, n)
  BY <1>1, <1>7 DEF StartHookThrows, BackoffEnds, Notified, nodeVars
<1>8. aborted' = aborted
  BY DEF NodeStep, BodyStarts, StartHookThrows, BodyReturns, RouterDecides, BodyThrows,
     BackoffEnds, SignalTimesOut, Notified, CompleteHookThrows
<1>9. QED
  BY <1>3, <1>4, <1>5, <1>6, <1>7, <1>8 DEF NodeStep

LEMMA FailureStep ==
  ASSUME MaxLoops = 1, BarrierInv, Fresh, FailureStops, [Next]_vars
  PROVE  /\ FailureStops'
         /\ (\E m \in Nodes : status[m] = "failed") => ~\E n \in Nodes : Starts(n)
<1>1. TypeOK /\ Loops = {1}
  BY DEF BarrierInv, Loops
<1>2. ASSUME NEW l \in Loops, NEW n \in Nodes, NodeStep(l, n)
      PROVE  FailureStops' /\ ~\E m \in Nodes : Starts(m)
  BY <1>1, <1>2, NodeStepFails DEF FailureStops, Starts
<1>3. ASSUME status' = status, aborted => aborted',
             xstatus' \in {xstatus, "paused"} \/ aborted'
      PROVE  FailureStops' /\ ~\E m \in Nodes : Starts(m)
  BY <1>3 DEF FailureStops, Starts
<1>4. ASSUME NEW l \in Loops, BeginLoop(l)
      PROVE  FailureStops' /\ ~\E m \in Nodes : Starts(m)
  <2>1. loop[1] = "idle" /\ status' = status
    BY <1>1, <1>4 DEF BeginLoop, nodeVars
  <2>2. QED
    BY <2>1 DEF Fresh, FailureStops, Starts
<1>5. ASSUME NEW l \in Loops, LoopReturns(l)
      PROVE  FailureStops' /\ ~\E m \in Nodes : Starts(m)
  <2>1. status' = status /\ aborted' = aborted /\ xstatus' = FinalStatus
    BY <1>5 DEF LoopReturns, nodeVars
  <2>2. QED
    BY <2>1 DEF FailureStops, FinalStatus, AllDone, Starts
<1>6. ASSUME NEW l \in Loops, LoopStarts(l)
      PROVE  FailureStops' /\ ~\E n \in Nodes : status[n] = "failed"
  <2>1. ~\E n \in Nodes : status[n] = "failed"
    BY <1>6 DEF LoopStarts, MayStart, Halted, FailureStops
  <2>2. \A n \in Nodes : status'[n] \in {"running", status[n]}
    BY <1>6 DEF LoopStarts
  <2>3. QED
    BY <2>1, <2>2 DEF FailureStops
<1>7. ASSUME NEW l \in Loops, LoopWaits(l) \/ BatchSettles(l)
      PROVE  FailureStops' /\ ~\E m \in Nodes : Starts(m)
  BY <1>3, <1>7 DEF LoopWaits, BatchSettles, nodeVars
<1>8. CASE \/ Pause \/ Cancel \/ Abort \/ UNCHANGED vars
           \/ DeliverSignal
  BY <1>3, <1>8 DEF Pause, Cancel, Abort, Control, DeliverSignal, nodeVars, vars
<1>9. QED
  BY <1>2, <1>4, <1>5, <1>6, <1>7, <1>8 DEF Next, Execute, Resume, LoopStep

(* Fail-fast holds for every graph, whatever hooks throw, whatever waits   *)
(* suspend the execution and whoever pauses or cancels it, as long as      *)
(* nobody resumes it.                                                      *)
THEOREM OneLoopFailsFast == MaxLoops = 1 => (Spec => FailFast)
<1> SUFFICES ASSUME MaxLoops = 1 PROVE Spec => FailFast
  OBVIOUS
<1> DEFINE Inv == BarrierInv /\ Fresh /\ FailureStops
<1>1. Init => Inv
  BY BarrierInductive, FreshInit DEF Init, FailureStops
<1>2. Inv /\ [Next]_vars => Inv'
  BY BarrierInductive, FreshStep, FailureStep
<1>3. Inv /\ [Next]_vars
        => [(\E m \in Nodes : status[m] = "failed") => ~\E n \in Nodes : Starts(n)]_vars
  BY FailureStep
<1>4. QED
  BY <1>1, <1>2, <1>3, PTL DEF Spec, FailFast

(* With one run loop and a plain graph a node behind conditional edges is  *)
(* a candidate, or started, only when the output of the node before it     *)
(* selects one of them.                                                    *)
ByCondition(n, m) == Preds(m) = {n} /\ Conditional(n, m)
Selected(n, m) ==
  /\ status[n] = "completed"
  /\ \E e \in Edges(n) : e.to = m /\ e.label \in {results[n], Default}
MatchInv ==
  \A n, m \in Nodes :
    ByCondition(n, m) /\ (m \in cand \/ status[m] \in Started) => Selected(n, m)

LEMMA MatchStays ==
  ASSUME MatchInv,
         \A m \in Nodes : status[m] = "completed" => UNCHANGED <<status[m], results[m]>>,
         \A m \in Nodes : m \in cand' => \/ m \in cand
                                         \/ \A n \in Nodes : ByCondition(n, m) => Selected(n, m)',
         \A m \in Nodes : status'[m] \in Started => status[m] \in Started \/ m \in cand
  PROVE  MatchInv'
<1> SUFFICES ASSUME NEW n \in Nodes, NEW m \in Nodes, ByCondition(n, m),
                    m \in cand' \/ status'[m] \in Started
             PROVE  Selected(n, m)'
  BY DEF MatchInv, ByCondition, Conditional, Preds, Succs, Edges, Started
<1>1. Selected(n, m) => Selected(n, m)'
  BY DEF Selected, Edges
<1>2. QED
  BY <1>1 DEF MatchInv

LEMMA MatchStep ==
  ASSUME MaxLoops = 1, PlainGraph, PlainInv, Fresh, MatchInv, [Next]_vars
  PROVE  MatchInv'
<1>1. TypeOK /\ StatusTracks /\ Undecided /\ Loops = {1}
  BY DEF PlainInv, BarrierInv, Loops
<1>2. ASSUME UNCHANGED <<status, results>>, cand' \subseteq cand PROVE MatchInv'
  BY <1>2, MatchStays
<1>3. ASSUME NEW l \in Loops, NEW n \in Nodes, NodeStep(l, n) PROVE MatchInv'
  <2>1. PICK pc \in ExecPC : PlainMove(l, n, pc)
    BY <1>1, <1>3, PlainNodeStep
  <2>2. \A m \in Nodes : status'[m] \in Started => status[m] \in Started
    BY <2>1 DEF PlainMove, Moved, Underway, Started
  <2>3. \A m \in Nodes : status[m] = "completed" => status'[m] = status[m]
    BY <2>1 DEF PlainMove, Moved, Underway, Open
  <2>4. CASE BodyReturns(l, n)
    <3>1. PICK out \in Returns[n] :
            /\ status' = [status EXCEPT ![n] = "completed"]
            /\ results' = [results EXCEPT ![n] = out]
            /\ cand' = cand \cup Activated(n, out)
      BY <2>4 DEF BodyReturns, Completes
    <3>2. status[n] # "completed"
      BY <1>1, <2>4 DEF BodyReturns, StatusTracks, Underway
    <3>3. \A m \in Nodes \ {n} : results'[m] = results[m]
      BY <1>1, <3>1 DEF TypeOK
    <3>4. status'[n] = "completed" /\ results'[n] = out
      BY <1>1, <3>1 DEF TypeOK
    <3>5. ASSUME NEW m \in Activated(n, out), NEW k \in Nodes, ByCondition(k, m)
          PROVE  Selected(k, m)'
      <4>1. PICK e \in Edges(n) : /\ e.to = m
                                  /\ IF e.cond THEN e.label \in {out, Default}
                                     ELSE e.label = Default => ~\E f \in Edges(n) : f.cond
        BY DEF Activated
      <4>2. n \in Preds(m)
        BY <4>1 DEF Preds, Succs
      <4>3. k = n /\ e.cond
        BY <3>5, <4>1, <4>2 DEF ByCondition, Conditional
      <4>4. QED
        BY <3>4, <4>1, <4>3 DEF Selected, Edges
    <3>6. \A m \in Nodes : status[m] = "completed" => UNCHANGED <<status[m], results[m]>>
      BY <2>3, <3>2, <3>3
    <3>7. \A m \in Nodes : m \in cand' =>
            m \in cand \/ \A k \in Nodes : ByCondition(k, m) => Selected(k, m)'
      BY <3>1, <3>5
    <3>8. QED
      BY <2>2, <3>6, <3>7, MatchStays
  <2>5. CASE RouterDecides(l, n)
    <3>1. PICK label, mark :
            /\ Decides(n, label, mark)
            /\ results' = [results EXCEPT ![n] = label]
            /\ cand' = cand \cup (Targets(n, label) \cup Activated(n, label))
      BY <1>1, <2>5, RouterMoves DEF Completes
    <3>2. status[n] # "completed" /\ status'[n] = "completed" /\ results'[n] = label
      BY <1>1, <3>1 DEF Decides, Underway, TypeOK
    <3>3. \A m \in Nodes \ {n} : results'[m] = results[m]
      BY <1>1, <3>1 DEF TypeOK
    <3>4. ASSUME NEW m \in Targets(n, label) \cup Activated(n, label),
                 NEW k \in Nodes, ByCondition(k, m)
          PROVE  Selected(k, m)'
      <4>1. PICK e \in Edges(n) :
              /\ e.to = m
              /\ \/ e.label = label
                 \/ IF e.cond THEN e.label \in {label, Default}
                    ELSE e.label = Default => ~\E f \in Edges(n) : f.cond
        BY DEF Targets, Matches, Activated
      <4>2. k = n
        BY <3>4, <4>1 DEF ByCondition, Preds, Succs
      <4>3. e.label \in {label, Default}
        BY <3>4, <4>1, <4>2 DEF ByCondition, Conditional
      <4>4. QED
        BY <3>2, <4>1, <4>2, <4>3 DEF Selected, Edges
    <3>5. \A m \in Nodes : status[m] = "completed" => UNCHANGED <<status[m], results[m]>>
      BY <2>3, <3>2, <3>3
    <3>6. \A m \in Nodes : m \in cand' =>
            m \in cand \/ \A k \in Nodes : ByCondition(k, m) => Selected(k, m)'
      BY <3>1, <3>4
    <3>7. QED
      BY <2>2, <3>5, <3>6, MatchStays
  <2>6. CASE ~BodyReturns(l, n) /\ ~RouterDecides(l, n)
    <3>1. results' = results /\ cand' = cand
      BY <1>3, <2>6 DEF NodeStep, BodyStarts, StartHookThrows, BodyThrows,
         BackoffEnds, SignalTimesOut, Notified, CompleteHookThrows, nodeVars
    <3>2. QED
      BY <2>2, <2>3, <3>1, MatchStays
  <2>7. QED
    BY <2>4, <2>5, <2>6
<1>4. ASSUME NEW l \in Loops, BeginLoop(l) PROVE MatchInv'
  <2>1. \A m \in Nodes : status[m] = "pending"
    BY <1>1, <1>4 DEF BeginLoop, Fresh
  <2>2. UNCHANGED <<status, results>> /\ cand' = SeedCandidates
    BY <1>4 DEF BeginLoop, nodeVars
  <2>3. \A m \in cand' : Preds(m) = {}
    BY <2>1, <2>2 DEF SeedCandidates, HasCompletedPred, Preds
  <2>4. \A m \in Nodes : m \in cand' =>
          m \in cand \/ \A k \in Nodes : ByCondition(k, m) => Selected(k, m)'
    BY <2>3 DEF ByCondition
  <2>5. QED
    BY <2>1, <2>2, <2>4, MatchStays
<1>5. ASSUME NEW l \in Loops, LoopStarts(l) PROVE MatchInv'
  <2>1. PICK batch \in SUBSET ReadyNodes :
          status' = [n \in Nodes |-> IF n \in batch THEN "running" ELSE status[n]]
    BY <1>5 DEF LoopStarts
  <2>2. results' = results /\ cand' \subseteq cand
    BY <1>5 DEF LoopStarts
  <2>3. \A m \in batch : m \in cand /\ status[m] # "completed"
    BY DEF ReadyNodes, Open
  <2>4. QED
    BY <2>1, <2>2, <2>3, MatchStays
<1>6. ASSUME NEW l \in Loops, LoopReturns(l) \/ LoopWaits(l) \/ BatchSettles(l)
      PROVE  MatchInv'
  BY <1>2, <1>6 DEF LoopReturns, LoopWaits, BatchSettles, nodeVars
<1>7. CASE \/ Pause \/ Cancel \/ Abort \/ UNCHANGED vars
           \/ DeliverSignal
  BY <1>2, <1>7 DEF Pause, Cancel, Abort, Control, DeliverSignal, nodeVars, vars
<1>8. QED
  BY <1>3, <1>4, <1>5, <1>6, <1>7 DEF Next, Execute, Resume, LoopStep

(* In a plain graph executed once, of the nodes reached only by the        *)
(* conditional edges of one node none starts that the output of this node  *)
(* does not select.                                                        *)
THEOREM OneLoopMatches ==
  MaxLoops = 1 /\ PlainGraph => (Spec => []OnlyMatchingStart)
<1> SUFFICES ASSUME MaxLoops = 1, PlainGraph PROVE Spec => []OnlyMatchingStart
  OBVIOUS
<1> DEFINE Inv == PlainInv /\ Fresh /\ MatchInv
<1>1. Init => Inv
  BY PlainInit, FreshInit DEF Init, MatchInv, Started
<1>2. Inv /\ [Next]_vars => Inv'
  BY PlainStep, FreshStep, MatchStep DEF PlainInv
<1>3. Inv => OnlyMatchingStart
  BY DEF MatchInv, ByCondition, Selected, OnlyMatchingStart
<1>4. QED
  BY <1>1, <1>2, <1>3, PTL DEF Spec

-----------------------------------------------------------------------------
(* Acyclic plain graphs without conditional edges, executed by one run     *)
(* loop: an execution that fails has a failed node.  GraphBuilder.build()  *)
(* refuses a graph with a cycle.                                           *)

Acyclic == \A S \in SUBSET Nodes : S # {} => \E n \in S : Preds(n) \cap S = {}
StraightGraph ==
  /\ PlainGraph /\ NoRouters /\ Acyclic
  /\ \A n \in Nodes : \A e \in Edges(n) : ~e.cond

(* Nothing is skipped, for the sweep behind a failed node starts at a node *)
(* that is not open.                                                       *)
NeverSkipped == \A n \in Nodes : status[n] # "skipped"

(* A node under way is being executed.                                     *)
Busy == \A n \in Nodes : status[n] \in Underway => exec[1][n] # "none"

(* The candidates lack no node that is to be run, and no node under way,   *)
(* which may be put back for a retry.                                      *)
Whole ==
  loop[1] # "idle" =>
    \A n \in Nodes :
      /\ status[n] \in Underway \cup {"pending", "ready"}
      /\ Preds(n) = {} \/ HasCompletedPred(n)
      => n \in cand

Caused == xstatus = "failed" /\ ~aborted => \E n \in Nodes : status[n] = "failed"

(* A run that was returned as it had ended does nothing more.              *)
Finished ==
  /\ \A l \in Loops : loop[l] = "done" /\ \A n \in Nodes : exec[l][n] = "none"
  /\ xstatus # "failed"

CauseInv == NeverSkipped /\ (Finished \/ (Busy /\ Whole /\ Caused))

(* The kinds of a step of a node execution.                                *)
RunsOn(n) ==
  /\ status[n] \in Underway /\ status'[n] \in Underway /\ exec'[1][n] # "none"
  /\ cand' = cand /\ xstatus' \in {xstatus, "suspended"}
GivesResult(n) ==
  /\ status[n] \in Underway /\ status'[n] = "completed"
  /\ cand' = cand \cup Succs(n) /\ xstatus' = xstatus
GivesUp(n) ==
  status[n] \in Underway /\ status'[n] = "failed" /\ cand' = cand /\ xstatus' = "failed"
GoesBack(n) ==
  status[n] \in Underway /\ status'[n] = "pending" /\ cand' = cand /\ xstatus' = xstatus
Leaves(n) ==
  status[n] = "completed" /\ status'[n] = "completed" /\ cand' = cand /\ xstatus' = xstatus

LEMMA StraightError ==
  ASSUME TypeOK, ~PluginFaults, NEW n \in Nodes, status[n] \in Underway,
         HandleError(1, n, status, events), cand' = cand, MaxLoops = 1
  PROVE  /\ RunsOn(n) \/ GivesUp(n)
         /\ \A m \in Nodes \ {n} : status'[m] = status[m]
<1> DEFINE failed == [status EXCEPT ![n] = "failed"]
           sub    == Subtree(failed, n)
<1>1. 1 \in Loops
  BY DEF Loops
<1>2. CASE /\ status' = [status EXCEPT ![n] = "retrying"]
           /\ Goto(1, n, "backoff") /\ xstatus' = xstatus
  <2>1. exec'[1][n] = "backoff"
    BY <1>1, <1>2, GotoMoves
  <2>2. QED
    BY <1>2, <2>1 DEF RunsOn, TypeOK, Underway
<1>3. CASE /\ status' = [m \in Nodes |-> IF m \in sub THEN "skipped" ELSE failed[m]]
           /\ xstatus' = "failed"
  <2>1. failed[n] = "failed" /\ \A m \in Nodes \ {n} : failed[m] = status[m]
    BY DEF TypeOK
  <2>2. sub = {}
    BY <2>1 DEF Subtree, Open
  <2>3. QED
    BY <1>3, <2>1, <2>2 DEF GivesUp
<1>4. QED
  BY <1>2, <1>3 DEF HandleError

LEMMA StraightMove ==
  ASSUME MaxLoops = 1, StraightGraph, TypeOK, StatusTracks, Undecided, NEW n \in Nodes, NodeStep(1, n)
  PROVE  /\ RunsOn(n) \/ GivesResult(n) \/ GivesUp(n) \/ GoesBack(n) \/ Leaves(n)
         /\ \A m \in Nodes \ {n} : status'[m] = status[m] /\ exec'[1][m] = exec[1][m]
         /\ aborted' = aborted
<1>1. 1 \in Loops /\ PlainGraph /\ NoRouters
  BY DEF Loops, StraightGraph
<1>2. \A m \in Nodes \ {n} : exec'[1][m] = exec[1][m]
  <2>1. PICK pc \in ExecPC : PlainMove(1, n, pc)
    BY <1>1, PlainNodeStep
  <2>2. QED
    BY <1>1, <2>1, GotoMoves DEF PlainMove
<1>3. aborted' = aborted
  BY <1>1, NodeStepFails
<1>4. /\ exec[1][n] \in {"start", "body", "wait", "backoff"} => status[n] \in Underway
      /\ exec[1][n] = "notify" => status[n] = "completed"
  BY <1>1 DEF StatusTracks
<1>5. CASE BodyStarts(1, n)
  <2>1. status[n] \in Underway
    BY <1>4, <1>5 DEF BodyStarts
  <2>2. exec'[1][n] # "none"
    BY <1>1, <1>5, GotoMoves DEF BodyStarts
  <2>3. status'[n] \in Underway /\ \A m \in Nodes \ {n} : status'[m] = status[m]
    BY <1>5, <2>1 DEF BodyStarts, TypeOK, Underway
  <2>4. RunsOn(n)
    BY <1>5, <2>1, <2>2, <2>3 DEF BodyStarts, RunsOn
  <2>5. QED
    BY <1>2, <1>3, <2>3, <2>4
<1>6. CASE BodyReturns(1, n)
  <2>1. PICK out \in Returns[n] :
          status' = [status EXCEPT ![n] = "completed"] /\ cand' = cand \cup Activated(n, out)
    BY <1>6 DEF BodyReturns, Completes
  <2>2. status[n] \in Underway /\ xstatus' = xstatus
    BY <1>4, <1>6 DEF BodyReturns
  <2>3. Activated(n, out) = Succs(n)
    BY DEF Activated, Succs, StraightGraph
  <2>4. status'[n] = "completed" /\ \A m \in Nodes \ {n} : status'[m] = status[m]
    BY <2>1 DEF TypeOK
  <2>5. GivesResult(n)
    BY <2>1, <2>2, <2>3, <2>4 DEF GivesResult
  <2>6. QED
    BY <1>2, <1>3, <2>4, <2>5
<1>7. CASE BodyThrows(1, n) \/ SignalTimesOut(1, n)
  <2>1. status[n] \in Underway /\ HandleError(1, n, status, events) /\ cand' = cand
    BY <1>4, <1>7 DEF BodyThrows, SignalTimesOut
  <2>2. QED
    BY <1>1, <1>2, <1>3, <2>1, StraightError DEF PlainGraph
<1>8. CASE BackoffEnds(1, n)
  <2>1. GoesBack(n) /\ \A m \in Nodes \ {n} : status'[m] = status[m]
    BY <1>4, <1>8 DEF BackoffEnds, GoesBack, TypeOK
  <2>2. QED
    BY <1>2, <1>3, <2>1
<1>9. CASE Notified(1, n)
  <2>1. Leaves(n) /\ \A m \in Nodes \ {n} : status'[m] = status[m]
    BY <1>4, <1>9 DEF Notified, Leaves, nodeVars
  <2>2. QED
    BY <1>2, <1>3, <2>1
<1>10. CASE StartHookThrows(1, n) \/ CompleteHookThrows(1, n) \/ RouterDecides(1, n)
  BY <1>1, <1>10 DEF StartHookThrows, CompleteHookThrows, RouterDecides, PlainGraph, NoRouters
<1>11. QED
  BY <1>5, <1>6, <1>7, <1>8, <1>9, <1>10 DEF NodeStep

LEMMA CauseMoves ==
  ASSUME MaxLoops = 1, StraightGraph, PlainInv, CauseInv, NEW n \in Nodes, NodeStep(1, n)
  PROVE  CauseInv'
<1>1. TypeOK /\ StatusTracks /\ Undecided /\ BarrierInv /\ Loops = {1}
  BY DEF PlainInv, BarrierInv, Loops
<1>2. loop[1] = "batch" /\ loop'[1] = "batch"
  BY <1>1, OnlyInBatch
<1>3. Busy /\ Whole /\ Caused /\ NeverSkipped
  BY <1>1, <1>2 DEF CauseInv, Finished
<1>4. /\ RunsOn(n) \/ GivesResult(n) \/ GivesUp(n) \/ GoesBack(n) \/ Leaves(n)
      /\ \A m \in Nodes \ {n} : status'[m] = status[m] /\ exec'[1][m] = exec[1][m]
      /\ aborted' = aborted
  BY <1>1, StraightMove
<1>5. NeverSkipped'
  BY <1>3, <1>4 DEF NeverSkipped, RunsOn, GivesResult, GivesUp, GoesBack, Leaves, Underway
<1>6. Busy'
  BY <1>3, <1>4 DEF Busy, RunsOn, GivesResult, GivesUp, GoesBack, Leaves, Underway
<1>7. Caused'
  BY <1>3, <1>4 DEF Caused, RunsOn, GivesResult, GivesUp, GoesBack, Leaves, Underway
<1>8. Whole'
  <2>1. SUFFICES ASSUME NEW m \in Nodes,
                        status'[m] \in Underway \cup {"pending", "ready"},
                        Preds(m) = {} \/ \E p \in Preds(m) : status'[p] = "completed"
                 PROVE  m \in cand'
    BY DEF Whole, HasCompletedPred, Preds, Succs, Edges, Underway
  <2>2. status[m] \in Underway \cup {"pending", "ready"}
    BY <1>4, <2>1 DEF RunsOn, GivesResult, GivesUp, GoesBack, Leaves, Underway
  <2>3. cand \subseteq cand'
    BY <1>4 DEF RunsOn, GivesResult, GivesUp, GoesBack, Leaves
  <2>4. CASE Preds(m) = {} \/ HasCompletedPred(m)
    BY <1>2, <1>3, <2>2, <2>3, <2>4 DEF Whole
  <2>5. CASE ~(Preds(m) = {} \/ HasCompletedPred(m))
    <3>1. n \in Preds(m) /\ status'[n] = "completed" /\ status[n] # "completed"
      BY <1>4, <2>1, <2>5 DEF HasCompletedPred, Preds
    <3>2. GivesResult(n)
      BY <1>4, <3>1 DEF RunsOn, GivesUp, GoesBack, Leaves, Underway
    <3>3. QED
      BY <3>1, <3>2 DEF GivesResult, Preds
  <2>6. QED
    BY <2>4, <2>5
<1>9. QED
  BY <1>5, <1>6, <1>7, <1>8 DEF CauseInv

(* Between batches nothing is under way.                                   *)
LEMMA RestsBetween ==
  ASSUME MaxLoops = 1, PlainInv, Busy, loop[1] # "batch"
  PROVE  \A n \in Nodes : status[n] \notin Underway /\ exec[1][n] = "none"
<1>1. TypeOK /\ StatusTracks /\ AtRest /\ 1 \in Loops
  BY DEF PlainInv, BarrierInv, Loops
<1>2. \A n \in Nodes : exec[1][n] \in {"none", "stuck"}
  BY <1>1 DEF AtRest, Executing
<1>3. QED
  BY <1>1, <1>2 DEF StatusTracks, Busy

(* When a run loop finds nothing to start, everything is done or a node    *)
(* has failed.                                                             *)
LEMMA NothingLeft ==
  ASSUME MaxLoops = 1, StraightGraph, PlainInv, NeverSkipped, Busy, Whole,
         loop[1] = "top", ReadyNodes = {}, ~AllDone
  PROVE  \E n \in Nodes : status[n] = "failed"
<1>1. SUFFICES ASSUME \A n \in Nodes : status[n] # "failed" PROVE FALSE
  OBVIOUS
<1>2. TypeOK
  BY DEF PlainInv, BarrierInv
<1>3. \A n \in Nodes : status[n] \in {"pending", "ready", "completed"}
  <2>1. \A n \in Nodes : status[n] \in NodeStatus /\ status[n] \notin Underway
    BY <1>2, RestsBetween DEF TypeOK
  <2>2. QED
    BY <1>1, <2>1 DEF NodeStatus, Underway, NeverSkipped
<1> DEFINE S == {n \in Nodes : status[n] \in {"pending", "ready"}}
<1>4. S # {}
  BY <1>3 DEF AllDone
<1>5. PICK n \in S : Preds(n) \cap S = {}
  BY <1>4 DEF StraightGraph, Acyclic
<1>6. \A p \in Preds(n) : status[p] = "completed"
  BY <1>3, <1>5 DEF Preds
<1>7. Preds(n) = {} \/ (HasCompletedPred(n) /\ AllPredsSettled(n))
  BY <1>6 DEF HasCompletedPred, AllPredsSettled
<1>8. n \in cand
  BY <1>7 DEF Whole
<1>9. n \in ReadyNodes
  BY <1>7, <1>8 DEF ReadyNodes, Open
<1>10. QED
  BY <1>9

LEMMA CauseLoops ==
  ASSUME MaxLoops = 1, StraightGraph, PlainInv, CauseInv,
         Execute(1) \/ Resume(1) \/ LoopStep(1)
  PROVE  CauseInv'
<1>1. TypeOK /\ StatusTracks /\ Loops = {1}
  BY DEF PlainInv, BarrierInv, Loops
<1>2. loop[1] # "done"
  BY DEF Execute, Resume, BeginLoop, LoopStep, LoopReturns, LoopWaits, LoopStarts,
     BatchSettles
<1>3. Busy /\ Whole /\ Caused /\ NeverSkipped
  BY <1>1, <1>2 DEF CauseInv, Finished
<1>4. ASSUME UNCHANGED <<status, exec>>, Whole', Caused' PROVE CauseInv'
  BY <1>3, <1>4 DEF CauseInv, NeverSkipped, Busy
<1>5. CASE BeginLoop(1)
  <2>1. UNCHANGED <<status, exec, aborted>> /\ cand' = SeedCandidates /\ xstatus' = "running"
        /\ loop[1] = "idle"
    BY <1>5 DEF BeginLoop, nodeVars, execVars
  <2>2. \A n \in Nodes : status[n] \notin Underway
    BY <1>3, <2>1, RestsBetween
  <2>3. Whole'
    BY <2>1, <2>2 DEF Whole, SeedCandidates, Open, HasCompletedPred, Preds, Succs, Edges, Underway
  <2>4. QED
    BY <1>4, <2>1, <2>3 DEF Caused
<1>6. ASSUME UNCHANGED status, loop[1] = "top", cand \cap Open(status) \subseteq cand'
      PROVE  Whole'
  <2>1. \A n \in Nodes : status[n] \notin Underway
    BY <1>3, <1>6, RestsBetween
  <2>2. QED
    BY <1>3, <1>6, <2>1 DEF Whole, Open, HasCompletedPred, Preds, Succs, Edges, Underway
<1>7. CASE LoopReturns(1)
  <2>1. /\ UNCHANGED <<status, exec, aborted>> /\ loop[1] = "top"
        /\ cand \cap Open(status) \subseteq cand' /\ xstatus' = FinalStatus
        /\ Halted \/ xstatus = "failed" \/ ReadyNodes = {}
    BY <1>7 DEF LoopReturns, nodeVars, execVars
  <2>2. Caused'
    <3>1. SUFFICES ASSUME FinalStatus = "failed", ~aborted
                   PROVE  \E n \in Nodes : status[n] = "failed"
      BY <2>1 DEF Caused
    <3>2. ~AllDone /\ ~Halted
      BY <3>1 DEF FinalStatus, Halted
    <3>3. CASE xstatus = "failed"
      BY <1>3, <3>1, <3>3 DEF Caused
    <3>4. CASE ReadyNodes = {}
      BY <1>3, <2>1, <3>2, <3>4, NothingLeft
    <3>5. QED
      BY <2>1, <3>2, <3>3, <3>4
  <2>3. QED
    BY <1>4, <1>6, <2>1, <2>2
<1>8. CASE LoopWaits(1)
  <2>1. UNCHANGED <<status, exec, aborted, xstatus>> /\ loop[1] = "top"
        /\ cand \cap Open(status) \subseteq cand'
    BY <1>8 DEF LoopWaits, nodeVars, execVars
  <2>2. QED
    BY <1>3, <1>4, <1>6, <2>1 DEF Caused
<1>9. CASE LoopStarts(1)
  <2>1. PICK batch \in SUBSET ReadyNodes :
          /\ status' = [n \in Nodes |-> IF n \in batch THEN "running" ELSE status[n]]
          /\ exec' = [exec EXCEPT ![1] =
               [n \in Nodes |-> IF n \in batch THEN "start" ELSE exec[1][n]]]
    BY <1>9 DEF LoopStarts
  <2>2. UNCHANGED <<aborted, xstatus>> /\ cand' = cand \cap Open(status) /\ loop[1] = "top"
    BY <1>9 DEF LoopStarts
  <2>3. batch \subseteq Open(status) /\ batch \subseteq cand /\ batch \subseteq Nodes
    BY DEF ReadyNodes, Open
  <2>4. \A n \in Nodes : status[n] \notin Underway
    BY <1>3, <2>2, RestsBetween
  <2>5. \A n \in Nodes : exec'[1][n] = IF n \in batch THEN "start" ELSE exec[1][n]
    BY <1>1, <2>1 DEF TypeOK
  <2>6. Busy' /\ NeverSkipped'
    BY <1>3, <2>1, <2>4, <2>5 DEF Busy, NeverSkipped
  <2>7. \A n \in Nodes : status'[n] = "completed" <=> status[n] = "completed"
    BY <2>1, <2>3 DEF Open
  <2>8. \A n \in Nodes : HasCompletedPred(n)' <=> HasCompletedPred(n)
    BY <2>7 DEF HasCompletedPred, Preds, Succs, Edges
  <2>9. \A n \in Nodes : status'[n] \in Underway \cup {"pending", "ready"} => n \in Open(status)
    BY <2>1, <2>3, <2>4 DEF Open
  <2>10. Whole'
    BY <1>3, <2>2, <2>8, <2>9 DEF Whole, Open, Preds, Succs, Edges, Underway
  <2>11. Caused'
    BY <1>3, <2>1, <2>2, <2>3 DEF Caused, Open
  <2>12. QED
    BY <2>6, <2>10, <2>11 DEF CauseInv
<1>10. CASE BatchSettles(1)
  <2>1. UNCHANGED <<status, exec, aborted, xstatus, cand>> /\ loop[1] = "batch"
    BY <1>10 DEF BatchSettles, nodeVars, execVars
  <2>2. Whole'
    BY <1>3, <2>1 DEF Whole, HasCompletedPred, Preds, Succs, Edges, Underway
  <2>3. QED
    BY <1>3, <1>4, <2>1, <2>2 DEF Caused
<1>11. QED
  BY <1>5, <1>7, <1>8, <1>9, <1>10 DEF Execute, Resume, LoopStep

LEMMA CauseStep ==
  ASSUME MaxLoops = 1, StraightGraph, PlainInv, CauseInv, [Next]_vars
  PROVE  CauseInv'
<1>1. TypeOK /\ SignalsWait /\ Loops = {1}
  BY DEF PlainInv, BarrierInv, Loops
<1>2. ASSUME UNCHANGED <<status, cand, loop>>,
             \A n \in Nodes : exec[1][n] = "none" <=> exec'[1][n] = "none",
             xstatus' \in {xstatus, "paused", "cancelled"}, aborted => aborted'
      PROVE  CauseInv'
  <2>1. NeverSkipped => NeverSkipped'
    BY <1>2 DEF NeverSkipped
  <2>2. Busy => Busy'
    BY <1>2 DEF Busy
  <2>3. Whole => Whole'
    BY <1>2 DEF Whole, HasCompletedPred, Preds, Succs, Edges, Underway
  <2>4. Caused => Caused'
    BY <1>2 DEF Caused
  <2>5. Finished => Finished'
    BY <1>1, <1>2 DEF Finished, Loops
  <2>6. QED
    BY <2>1, <2>2, <2>3, <2>4, <2>5 DEF CauseInv
<1>3. CASE DeliverSignal
  <2>1. PICK s \in signals : Goto(s[1], s[2], "body")
    BY <1>3 DEF DeliverSignal
  <2>2. s[1] = 1 /\ s[2] \in Nodes /\ exec[1][s[2]] = "wait"
    BY <1>1, <2>1 DEF TypeOK, SignalsWait
  <2>3. \A m \in Nodes : exec'[1][m] = IF m = s[2] THEN "body" ELSE exec[1][m]
    BY <1>1, <2>1, <2>2, GotoMoves
  <2>4. QED
    BY <1>2, <1>3, <2>2, <2>3 DEF DeliverSignal, nodeVars
<1>4. CASE Pause \/ Cancel \/ Abort \/ UNCHANGED vars
  BY <1>2, <1>4 DEF Pause, Cancel, Abort, Control, nodeVars, execVars, vars
<1>5. QED
  BY <1>1, <1>3, <1>4, CauseMoves, CauseLoops DEF Next

LEMMA CauseInit == Init => CauseInv
<1> SUFFICES ASSUME Init PROVE CauseInv
  OBVIOUS
<1>1. 1 \in Loops
  BY OptionAssumption DEF Loops
<1>2. /\ \A n \in Nodes : status[n] = "pending" /\ exec[1][n] = "none"
      /\ loop[1] = "idle" /\ xstatus = "created"
  BY <1>1 DEF Init
<1>3. NeverSkipped /\ Busy
  BY <1>2 DEF NeverSkipped, Busy, Underway
<1>4. Whole /\ Caused
  BY <1>2 DEF Whole, Caused
<1>5. QED
  BY <1>3, <1>4 DEF CauseInv

(* In an acyclic plain graph without conditional edges, executed once, an  *)
(* execution that ends FAILED without being aborted has a failed node,     *)
(* whatever is retried, awaited, paused or cancelled.                      *)
THEOREM OneLoopFailsForCause ==
  MaxLoops = 1 /\ StraightGraph => (Spec => []FailureHasCause)
<1> SUFFICES ASSUME MaxLoops = 1, StraightGraph PROVE Spec => []FailureHasCause
  OBVIOUS
<1>1. PlainInv /\ [Next]_vars => PlainInv'
  BY PlainStep DEF StraightGraph
<1>2. PlainInv /\ CauseInv /\ [Next]_vars => CauseInv'
  BY CauseStep
<1>3. CauseInv => FailureHasCause
  BY DEF CauseInv, Finished, Caused, FailureHasCause
<1>4. QED
  BY <1>1, <1>2, <1>3, PlainInit, CauseInit, PTL DEF Spec
==============================================================================
