----------------------------- MODULE DagEngine -----------------------------
(***************************************************************************)
(* The graph runtime of src/graph/engine.ts: one DAGEngine object running  *)
(* one GraphDef.  JavaScript is single threaded, so an action is the code  *)
(* between two awaits; several calls of execute() and resume() on the same *)
(* engine, and the node executions each of them started, interleave at the *)
(* awaits.  A run loop is one activation of _runLoop.                      *)
(*                                                                         *)
(* Abstractions.  An output is the label a conditional edge would read.    *)
(* Time, backoff lengths, variables, inputs and edge transforms are left   *)
(* out; so are checkpoints, which the scheduler never reads, and the hooks *)
(* around a whole execution.  Ready nodes are sliced in any order, not in  *)
(* insertion order.  Only the events that replayState interprets are       *)
(* recorded; a router that sweeps a node twice is recorded to skip it      *)
(* once.                                                                   *)
(***************************************************************************)
EXTENDS Integers, FiniteSets, SequencesExt

CONSTANTS
  Nodes,           \* graph.nodes
  Kind,            \* node -> "task", "router", "timer", "signal" or "human"
  Out,             \* node -> its outgoing edges [to, label, cond, guard], a
                   \* sequence; cond: from addConditionalEdges' map; guard:
                   \* what edge.condition says, which the engine never asks
  RaceJoins,       \* nodes whose joinStrategy is race, any or settled
  Returns,         \* node -> labels its body may return
  Labels,          \* every output label
  Default,         \* the label "__default__"
  MaxRetries,      \* node -> retry.maxRetries, 0 without a policy
  Selective,       \* nodes whose policy has a retryOn predicate
  SignalName,      \* node -> the name its signal wait is registered under
  TimedSignals,    \* signal waits with a timeoutMs
  MaxConcurrency,  \* options.maxConcurrency
  MaxLoops,        \* bound on run loops: one execute() and the resume()s
  Calls,           \* the control calls made: among "pause", "cancel", "abort"
  MaxCalls,        \* bound on the number of control calls
  PluginFaults     \* may a plugin hook throw?

NoResult == "no result"
Loops == 1 .. MaxLoops
Kinds == {"task", "router", "timer", "signal", "human"}

ASSUME GraphAssumption ==
  /\ IsFiniteSet(Nodes)
  /\ Kind \in [Nodes -> Kinds]
  /\ \A n \in Nodes :
       /\ Out[n] \in Seq([to : Nodes, label : Labels, cond : BOOLEAN, guard : BOOLEAN])
       /\ Returns[n] \subseteq Labels
  /\ RaceJoins \subseteq Nodes /\ Selective \subseteq Nodes
  /\ TimedSignals \subseteq Nodes
  /\ Default \in Labels /\ NoResult \notin Labels
ASSUME OptionAssumption ==
  /\ MaxRetries \in [Nodes -> Nat]
  /\ MaxConcurrency \in Nat \ {0}
  /\ MaxLoops \in Nat \ {0}
  /\ Calls \subseteq {"pause", "cancel", "abort"}
  /\ MaxCalls \in Nat
  /\ PluginFaults \in BOOLEAN

VARIABLES
  status,    \* state.nodes[n].status
  attempts,  \* state.nodes[n].attempts
  results,   \* state.results, by node
  xstatus,   \* state.status
  active,    \* _activeNodeSet (and state.activeNodes)
  cand,      \* _readyCandidates
  signals,   \* pendingSignals: the executions <<l, n>> registered, under
             \* the names SignalName[n]
  aborted,   \* abortController.signal.aborted
  loop,      \* where each run loop is
  exec,      \* where loop l's _executeNode(n) is
  attempt,   \* its local variable attempt
  events,    \* events, in sequence order
  calls      \* control calls made so far

nodeVars == <<status, attempts, results>>
execVars == <<exec, attempt, signals>>
vars == <<status, attempts, results, xstatus, active, cand, signals, aborted,
          loop, exec, attempt, events, calls>>

NodeStatus == {"pending", "ready", "running", "waiting", "retrying",
               "completed", "failed", "skipped"}
ExecutionStatus == {"created", "running", "paused", "suspended", "completed",
                    "failed", "cancelled"}
LoopPC == {"idle", "top", "batch", "wait", "done"}
ExecPC == {"none", "start", "body", "wait", "notify", "backoff", "stuck"}
EventType == {"executionStarted", "executionCompleted", "executionPaused",
              "executionCancelled", "nodeStarted", "nodeCompleted",
              "nodeFailed", "nodeSkipped"}
Events == [type : EventType, nodes : SUBSET Nodes, out : Labels \cup {NoResult}]

-----------------------------------------------------------------------------
(* The graph. *)

Edges(n) == {Out[n][i] : i \in DOMAIN Out[n]}
Succs(n) == {e.to : e \in Edges(n)}
Preds(n) == {m \in Nodes : n \in Succs(m)}

(* Nodes that have not started. *)
Open(st) == {n \in Nodes : st[n] \in {"pending", "ready"}}

(* _markSubtreeSkipped(s): the open nodes reached from s through open      *)
(* nodes, that is the least set of open nodes closed under successors.     *)
SubtreeAll(st, s) == Open(st)
Subtree(st, s) ==
  {n \in Open(st) :
     /\ s \in Open(st)
     /\ \A X \in SUBSET Open(st) :
          s \in X /\ (\A m \in X : Succs(m) \cap Open(st) \subseteq X) => n \in X}

Event(type, nodes, out) == [type |-> type, nodes |-> nodes, out |-> out]
Lifecycle(type) == Event(type, {}, NoResult)

(* One event for each of the nodes in q.                                   *)
Told(type, q) == [i \in DOMAIN q |-> Event(type, {q[i]}, NoResult)]

(* The NODE_STARTED of a batch.                                            *)
StartEvents(batch) == {Told("nodeStarted", q) : q \in SetToSeqs(batch)}

(* The NODE_SKIPPED of the nodes S swept from n, each behind n itself or   *)
(* behind a node swept before it.                                          *)
SweepOrders(n, S) ==
  {q \in SetToSeqs(S) :
     \A i \in DOMAIN q : q[i] \in Succs(n) \/ \E j \in 1 .. (i - 1) : q[i] \in Succs(q[j])}
SkipEvents(n, S) == {Told("nodeSkipped", q) : q \in SweepOrders(n, S)}

-----------------------------------------------------------------------------
(* What the run loop computes. *)

HasCompletedPred(n) == \E p \in Preds(n) : status[p] = "completed"
AllPredsSettled(n) == \A p \in Preds(n) : status[p] \in {"completed", "skipped"}

SeedCandidates ==
  {n \in Open(status) : Preds(n) = {} \/ HasCompletedPred(n)}

ReadyOnAny == {n \in cand \cap Open(status) : Preds(n) = {} \/ HasCompletedPred(n)}
ReadyUnfiltered == {n \in cand : Preds(n) = {} \/ (HasCompletedPred(n) /\ AllPredsSettled(n))}
ReadyNodes ==
  {n \in cand \cap Open(status) :
     \/ Preds(n) = {}
     \/ HasCompletedPred(n) /\ (n \in RaceJoins \/ AllPredsSettled(n))}

(* The successors a completed node adds to the candidates. *)
ActivatedAll(n, out) == Succs(n)
ActivatedMapped(n, out) == {e.to : e \in {f \in Edges(n) : f.cond /\ f.label = out}}
Activated(n, out) ==
  LET mapped == \E e \in Edges(n) : e.cond
  IN  {e.to : e \in {f \in Edges(n) :
         IF f.cond THEN f.label \in {out, Default}
                   ELSE f.label = Default => ~mapped}}

BatchSize ==
  LET ready == Cardinality(ReadyNodes)
      room  == MaxConcurrency - Cardinality(active)
      width == IF room < 1 THEN 1 ELSE room
  IN  IF ready < width THEN ready ELSE width

(* The edges of router r, taken in order under the route label: each       *)
(* matching edge makes its target READY, each other one skips a subtree.   *)
RouteStatus(mark) ==
  [n \in Nodes |-> CASE n \in mark.ready   -> "ready"
                     [] n \in mark.skipped -> "skipped"
                     [] OTHER              -> status[n]]

NotChosen(e, label) == e.label # label
Chosen(e, label) == e.label = label
Matches(r, label) == {e \in Edges(r) : e.label = label}

Route(r, label) ==
  LET pass[i \in 0 .. Len(Out[r])] ==
        IF i = 0 THEN [ready |-> {}, skipped |-> {}, swept |-> {}]
        ELSE LET mark == pass[i - 1]
                 e    == Out[r][i]
                 sub  == Subtree(RouteStatus(mark), e.to)
             IN  IF Chosen(e, label)
                 THEN [mark EXCEPT !.ready = @ \cup {e.to}, !.skipped = @ \ {e.to}]
                 ELSE [ready   |-> mark.ready \ sub,
                       skipped |-> mark.skipped \cup sub,
                       swept   |-> mark.swept \cup sub]
  IN  pass[Len(Out[r])]

Swept(r, label) == {m \in Nodes : m \in Route(r, label).swept}

-----------------------------------------------------------------------------
(* execute(), resume() and the run loop.                                   *)

Init ==
  /\ status = [n \in Nodes |-> "pending"]
  /\ attempts = [n \in Nodes |-> 0]
  /\ results = [n \in Nodes |-> NoResult]
  /\ xstatus = "created"
  /\ active = {} /\ cand = {} /\ signals = {}
  /\ aborted = FALSE
  /\ loop = [l \in Loops |-> "idle"]
  /\ exec = [l \in Loops |-> [n \in Nodes |-> "none"]]
  /\ attempt = [l \in Loops |-> [n \in Nodes |-> 0]]
  /\ events = <<>>
  /\ calls = 0

(* The part of execute() before its first await: RUNNING, a fresh run loop *)
(* and candidates seeded from the node states.                             *)
BeginLoop(l) ==
  /\ loop[l] = "idle" /\ \A k \in Loops : k < l => loop[k] # "idle"
  /\ xstatus' = "running"
  /\ cand' = SeedCandidates
  /\ loop' = [loop EXCEPT ![l] = "top"]
  /\ events' = Append(events, Lifecycle("executionStarted"))
  /\ UNCHANGED <<nodeVars, execVars, active, aborted, calls>>

Execute(l) == (\A k \in Loops : loop[k] = "idle") /\ BeginLoop(l)

(* resume() runs execute() again on the live engine, whether or not the    *)
(* run loop of an earlier call has returned.                               *)
Resume(l) == xstatus \in {"paused", "suspended"} /\ BeginLoop(l)

Halted == aborted \/ xstatus \in {"paused", "suspended"}

MayStartFailed == ~Halted
MayStart == ~Halted /\ xstatus # "failed"

(* The final status: an aborted run loop has set CANCELLED, which is       *)
(* neither PAUSED nor SUSPENDED and so becomes FAILED.                     *)
AllDone == \A n \in Nodes : status[n] \in {"completed", "skipped"}
FinalStatus == IF AllDone THEN "completed"
               ELSE IF ~aborted /\ xstatus \in {"paused", "suspended"} THEN xstatus
               ELSE "failed"

(* _runLoop returns and execute() settles the final status.                *)
LoopReturns(l) ==
  /\ loop[l] = "top"
  /\ Halted \/ (active = {} /\ (xstatus = "failed" \/ ReadyNodes = {}))
  /\ loop' = [loop EXCEPT ![l] = "done"]
  /\ xstatus' = FinalStatus
  /\ events' = IF AllDone THEN Append(events, Lifecycle("executionCompleted"))
                ELSE events
  /\ cand' = IF Halted \/ xstatus = "failed" THEN cand ELSE cand \cap Open(status)
  /\ UNCHANGED <<nodeVars, execVars, active, aborted, calls>>

(* Nothing to start while something runs: _waitForAnyCompletion.           *)
LoopWaits(l) ==
  /\ loop[l] = "top"
  /\ ~Halted /\ active # {}
  /\ xstatus = "failed" \/ ReadyNodes = {}
  /\ loop' = [loop EXCEPT ![l] = "wait"]
  /\ cand' = IF xstatus = "failed" THEN cand ELSE cand \cap Open(status)
  /\ UNCHANGED <<nodeVars, execVars, xstatus, active, aborted, events, calls>>

(* A batch of ready nodes starts: every _executeNode runs to its first     *)
(* await, the onNodeStart hooks.                                           *)
LoopStarts(l) ==
  /\ loop[l] = "top"
  /\ MayStart
  /\ \E batch \in SUBSET ReadyNodes :
       /\ batch # {} /\ Cardinality(batch) = BatchSize
       /\ status' = [n \in Nodes |-> IF n \in batch THEN "running" ELSE status[n]]
       /\ attempts' = [n \in Nodes |-> IF n \in batch THEN attempts[n] + 1 ELSE attempts[n]]
       /\ attempt' = [attempt EXCEPT ![l] =
            [n \in Nodes |-> IF n \in batch THEN attempts[n] + 1 ELSE attempt[l][n]]]
       /\ exec' = [exec EXCEPT ![l] =
            [n \in Nodes |-> IF n \in batch THEN "start" ELSE exec[l][n]]]
       /\ active' = active \cup batch
       /\ \E started \in StartEvents(batch) : events' = events \o started
  /\ cand' = cand \cap Open(status)
  /\ loop' = [loop EXCEPT ![l] = "batch"]
  /\ UNCHANGED <<results, xstatus, signals, aborted, calls>>

BatchStarted(l) == \A n \in Nodes : exec[l][n] # "start"
BatchSettled(l) == \A n \in Nodes : exec[l][n] \in {"none", "stuck"}

(* Promise.allSettled(batch) resolves.                                     *)
BatchSettles(l) ==
  /\ loop[l] = "batch"
  /\ BatchSettled(l)
  /\ loop' = [loop EXCEPT ![l] = "top"]
  /\ UNCHANGED <<nodeVars, execVars, xstatus, active, cand, aborted, events, calls>>

-----------------------------------------------------------------------------
(* One node execution.                                                     *)

Goto(l, n, pc) == exec' = [exec EXCEPT ![l][n] = pc]

FinallyKeeps(l, n) ==
  /\ Goto(l, n, "none")
  /\ active' = active
  /\ loop' = [k \in Loops |-> IF loop[k] = "wait" THEN "top" ELSE loop[k]]
FinallySilent(l, n) ==
  /\ Goto(l, n, "none")
  /\ active' = active \ {n}
  /\ loop' = loop

(* The finally block: the node leaves the active set, waiting loops wake.  *)
Finally(l, n) ==
  /\ Goto(l, n, "none")
  /\ active' = active \ {n}
  /\ loop' = [k \in Loops |-> IF loop[k] = "wait" THEN "top" ELSE loop[k]]

(* The registrations under other names.                                    *)
Unnamed(name) == {s \in signals : SignalName[s[2]] # name}

(* The onNodeStart hooks are done; the body of the node is called.  A wait *)
(* marks itself WAITING, a human or webhook wait suspends the execution.   *)
(* A signal wait takes over its name from a wait that still has it.        *)
BodyStarts(l, n) ==
  /\ exec[l][n] = "start"
  /\ Goto(l, n, IF Kind[n] = "signal" THEN "wait" ELSE "body")
  /\ status' = IF Kind[n] \in {"timer", "signal", "human"}
               THEN [status EXCEPT ![n] = "waiting"] ELSE status
  /\ xstatus' = IF Kind[n] = "human" THEN "suspended" ELSE xstatus
  /\ signals' = IF Kind[n] = "signal"
                THEN Unnamed(SignalName[n]) \cup {<<l, n>>} ELSE signals
  /\ UNCHANGED <<attempts, results, attempt, active, cand, aborted, loop, events, calls>>

(* A hook that throws before the try block leaves the node RUNNING and     *)
(* active for good: neither the catch nor the finally block sees it.       *)
StartHookThrows(l, n) ==
  /\ PluginFaults /\ exec[l][n] = "start"
  /\ Goto(l, n, "stuck")
  /\ UNCHANGED <<nodeVars, attempt, signals, xstatus, active, cand, aborted, loop,
                 events, calls>>

(* The node is COMPLETED on top of the statuses st, its successors become  *)
(* candidates, and the onNodeComplete hooks are awaited.                   *)
Completes(l, n, out, st, added, emitted) ==
  /\ status' = [st EXCEPT ![n] = "completed"]
  /\ results' = [results EXCEPT ![n] = out]
  /\ cand' = cand \cup added
  /\ events' = emitted \o <<Event("nodeCompleted", {n}, out)>>
  /\ Goto(l, n, "notify")

(* _handleNodeError on top of the statuses st: an onNodeError hook throws, *)
(* and only the finally block runs; or back off; or fail the node, skip    *)
(* its subtree and fail the execution.                                     *)
HandleError(l, n, st, emitted) ==
  \/ /\ PluginFaults
     /\ status' = st
     /\ events' = emitted
     /\ Finally(l, n)
     /\ UNCHANGED xstatus
  \/ /\ attempt[l][n] < MaxRetries[n]
     /\ status' = [st EXCEPT ![n] = "retrying"]
     /\ events' = emitted
     /\ Goto(l, n, "backoff")
     /\ UNCHANGED <<xstatus, active, loop>>
  \/ LET failed == [st EXCEPT ![n] = "failed"]
         sub    == Subtree(failed, n)
     IN  /\ attempt[l][n] >= MaxRetries[n] \/ n \in Selective
         /\ status' = [m \in Nodes |-> IF m \in sub THEN "skipped" ELSE failed[m]]
         /\ \E skipped \in SkipEvents(n, sub) :
              events' = emitted \o <<Event("nodeFailed", {n}, NoResult)>> \o skipped
         /\ xstatus' = "failed"
         /\ Finally(l, n)

(* A task, a timer or a human wait returns.                                *)
BodyReturns(l, n) ==
  /\ exec[l][n] = "body" /\ Kind[n] # "router"
  /\ \E out \in Returns[n] : Completes(l, n, out, status, Activated(n, out), events)
  /\ UNCHANGED <<attempts, attempt, signals, xstatus, active, aborted, loop, calls>>

(* A router decides.  The sweep of the other routes precedes the check     *)
(* that some edge carries the label, whose failure is an ordinary error.   *)
RouterDecides(l, n) ==
  /\ exec[l][n] = "body" /\ Kind[n] = "router"
  /\ \E label \in Returns[n] : \E skipped \in SkipEvents(n, Swept(n, label)) :
       LET st    == RouteStatus(Route(n, label))
           taken == {e.to : e \in Matches(n, label)}
       IN  /\ attempts' = [m \in Nodes |-> IF m \in taken THEN 0 ELSE attempts[m]]
           /\ IF taken # {}
              THEN /\ Completes(l, n, label, st, taken \cup Activated(n, label),
                               events \o skipped)
                   /\ UNCHANGED <<xstatus, active, loop>>
              ELSE /\ HandleError(l, n, st, events \o skipped)
                   /\ UNCHANGED <<results, cand>>
  /\ UNCHANGED <<attempt, signals, aborted, calls>>

(* The body throws or its timeout wins the race.                           *)
BodyThrows(l, n) ==
  /\ exec[l][n] = "body" /\ Kind[n] \in {"task", "router"}
  /\ HandleError(l, n, status, events)
  /\ UNCHANGED <<attempts, results, cand, attempt, signals, aborted, calls>>

(* The backoff is over: PENDING again, to be found by the run loop.        *)
BackoffEnds(l, n) ==
  /\ exec[l][n] = "backoff"
  /\ status' = [status EXCEPT ![n] = "pending"]
  /\ Finally(l, n)
  /\ UNCHANGED <<attempts, results, attempt, signals, xstatus, cand, aborted, events, calls>>

(* The onNodeComplete hooks are done.                                      *)
Notified(l, n) ==
  /\ exec[l][n] = "notify"
  /\ Finally(l, n)
  /\ UNCHANGED <<nodeVars, attempt, signals, xstatus, cand, aborted, events, calls>>

(* An onNodeComplete hook throws inside the try block: the completed node  *)
(* goes through the error path.                                            *)
CompleteHookThrows(l, n) ==
  /\ PluginFaults /\ exec[l][n] = "notify"
  /\ HandleError(l, n, status, events)
  /\ UNCHANGED <<attempts, results, cand, attempt, signals, aborted, calls>>

(* The timer of a signal wait fires: whatever wait is registered under its *)
(* name is removed, and the wait itself fails.  If none is, nothing        *)
(* happens, and the wait goes on.                                          *)
SignalTimesOut(l, n) ==
  /\ exec[l][n] = "wait" /\ n \in TimedSignals
  /\ Unnamed(SignalName[n]) # signals
  /\ signals' = Unnamed(SignalName[n])
  /\ HandleError(l, n, status, events)
  /\ UNCHANGED <<attempts, results, cand, attempt, aborted, calls>>

-----------------------------------------------------------------------------
(* Control calls from outside.                                             *)

Control(name) ==
  /\ name \in Calls /\ calls < MaxCalls
  /\ calls' = calls + 1
  /\ UNCHANGED <<nodeVars, execVars, active, cand, loop>>

Pause ==
  /\ Control("pause")
  /\ xstatus' = "paused"
  /\ events' = Append(events, Lifecycle("executionPaused"))
  /\ UNCHANGED aborted

Cancel ==
  /\ Control("cancel")
  /\ aborted' = TRUE
  /\ xstatus' = "cancelled"
  /\ events' = Append(events, Lifecycle("executionCancelled"))

(* The caller's AbortSignal fires.                                         *)
Abort ==
  /\ Control("abort")
  /\ aborted' = TRUE
  /\ UNCHANGED <<xstatus, events>>

(* signal(name): the execution registered under it gets its value; a       *)
(* signal nobody waits for is dropped and changes nothing.                 *)
DeliverSignal ==
  \E s \in signals :
    /\ signals' = signals \ {s}
    /\ Goto(s[1], s[2], "body")
    /\ UNCHANGED <<nodeVars, attempt, xstatus, active, cand, aborted, loop, events, calls>>

-----------------------------------------------------------------------------

LoopStep(l) ==
  LoopReturns(l) \/ LoopWaits(l) \/ LoopStarts(l) \/ BatchSettles(l)

NodeStep(l, n) ==
  \/ BodyStarts(l, n) \/ StartHookThrows(l, n)
  \/ BodyReturns(l, n) \/ RouterDecides(l, n)
  \/ BodyThrows(l, n) \/ BackoffEnds(l, n) \/ SignalTimesOut(l, n)
  \/ Notified(l, n) \/ CompleteHookThrows(l, n)

Next ==
  \/ \E l \in Loops :
       \/ Execute(l) \/ Resume(l) \/ LoopStep(l)
       \/ \E n \in Nodes : NodeStep(l, n)
  \/ Pause \/ Cancel \/ Abort \/ DeliverSignal

Spec == Init /\ [][Next]_vars

(* execute() is called, the event loop runs every run loop and every node  *)
(* execution on, bodies settle and timers fire.  Nobody has to pause,      *)
(* resume, cancel or signal.                                               *)
Fairness ==
  /\ WF_vars(\E l \in Loops : Execute(l))
  /\ \A l \in Loops : WF_vars(LoopStep(l))
  /\ \A l \in Loops, n \in Nodes : WF_vars(NodeStep(l, n))

FairSpec == Spec /\ Fairness

-----------------------------------------------------------------------------
(* Properties.                                                             *)

TypeOK ==
  /\ status \in [Nodes -> NodeStatus]
  /\ attempts \in [Nodes -> Nat]
  /\ results \in [Nodes -> Labels \cup {NoResult}]
  /\ xstatus \in ExecutionStatus
  /\ active \subseteq Nodes /\ cand \subseteq Nodes
  /\ signals \subseteq Loops \X Nodes
  /\ aborted \in BOOLEAN
  /\ loop \in [Loops -> LoopPC]
  /\ exec \in [Loops -> [Nodes -> ExecPC]]
  /\ attempt \in [Loops -> [Nodes -> Nat]]
  /\ events \in Seq(Events)
  /\ calls \in 0 .. MaxCalls

Executing(l) == {n \in Nodes : exec[l][n] \notin {"none", "stuck"}}
Started == {"running", "waiting", "retrying", "completed", "failed"}
Ended == \A l \in Loops : loop[l] \in {"idle", "done"}

(* No run loop has more node executions in flight than maxConcurrency,     *)
(* although it starts at least one whenever something is ready, even with  *)
(* no room left by nodes that other loops or failed hooks keep active.     *)
LoopBound == \A l \in Loops : Cardinality(Executing(l)) <= MaxConcurrency

(* The bound the option promises, over all run loops of the engine.        *)
ConcurrencyBound ==
  Cardinality(UNION {Executing(l) : l \in Loops}) <= MaxConcurrency

(* A node that was started has a completed predecessor, and unless it is a *)
(* race join all its predecessors are completed or skipped, through every  *)
(* retry, sweep and resume since its start.                                *)
DependencyOrder ==
  \A n \in Nodes : status[n] \in Started /\ Preds(n) # {} =>
    HasCompletedPred(n) /\ (n \in RaceJoins \/ AllPredsSettled(n))

(* Two run loops never execute the same node at the same time.             *)
NoDoubleRun ==
  \A k, l \in Loops : k # l =>
    {n \in Nodes : exec[k][n] # "none"} \cap {n \in Nodes : exec[l][n] # "none"} = {}

(* The active set is what the run loops are executing.  A node missing     *)
(* from it would let a loop return too early; a node left in it hangs one. *)
ActiveTracksExecution ==
  active = {n \in Nodes : \E l \in Loops : exec[l][n] # "none"}

(* No node completes twice in the life of one engine.                      *)
CompletesOnce ==
  \A n \in Nodes :
    Cardinality({i \in DOMAIN events :
      events[i].type = "nodeCompleted" /\ n \in events[i].nodes}) <= 1

(* execute() never returns while a node execution it started is under way, *)
(* whether it returns by pausing, failing, cancelling or finishing.        *)
ReturnsAtRest == \A l \in Loops : loop[l] = "done" => Executing(l) = {}

(* Whatever hooks throw, a run loop stays within maxConcurrency and rests  *)
(* when it has returned.                                                   *)
LoopsRest == LoopBound /\ ReturnsAtRest

(* However often run loops overlap on the shared state, none exceeds       *)
(* maxConcurrency, no node is run by two, and the active set is exact.     *)
LoopsSound == TypeOK /\ LoopBound /\ NoDoubleRun /\ ActiveTracksExecution

(* An execution that ends FAILED without being aborted has a failed node.  *)
FailureHasCause ==
  Ended /\ xstatus = "failed" /\ ~aborted => \E n \in Nodes : status[n] = "failed"

(* In an execution that completed, a node whose predecessors all settled,  *)
(* one of them by completing, was executed and not skipped, unless that    *)
(* predecessor is a router, which may have decided against the node.       *)
MergesRun ==
  Ended /\ xstatus = "completed" =>
    \A n \in Nodes :
      (\E p \in Preds(n) : status[p] = "completed" /\ Kind[p] # "router")
        => status[n] = "completed"

(* The target a router decided for runs in an execution that completed.    *)
RouteTaken ==
  Ended /\ xstatus = "completed" =>
    \A r \in Nodes : Kind[r] = "router" /\ status[r] = "completed" =>
      \A e \in Matches(r, results[r]) : status[e.to] = "completed"

(* An execution that completed has run all it should have: the targets its *)
(* routers decided for and what lies behind completed nodes.               *)
CompletedRan == RouteTaken /\ MergesRun

(* A node reached by conditional edges of one node only is not started     *)
(* unless the output of that node selects one of these edges.              *)
Conditional(n, m) == \A e \in Edges(n) : e.to = m => e.cond
OnlyMatchingStart ==
  \A n, m \in Nodes :
    status[m] \in Started /\ Preds(m) = {n} /\ Conditional(n, m)
      => \E e \in Edges(n) : e.to = m /\ e.label \in {results[n], Default}

(* When the output of a completed node selects none of its conditional     *)
(* edges, the default target of the mapping runs.                          *)
DefaultRuns ==
  Ended /\ ~aborted /\ (\A n \in Nodes : status[n] # "failed") =>
    \A n \in Nodes : \A e \in Edges(n) :
      /\ e.label = Default /\ status[n] = "completed"
      /\ ~\E f \in Edges(n) : f.cond /\ f.label = results[n]
      => status[e.to] = "completed"

(* A node all of whose incoming edges have a condition that does not hold  *)
(* is not started.                                                         *)
GuardsRespected ==
  \A n \in Nodes :
    /\ Preds(n) # {}
    /\ \A p \in Preds(n) : \A e \in Edges(p) : e.to = n => ~e.guard
    => status[n] \notin Started

(* A node that was put back to PENDING for a retry is picked up again, so  *)
(* none is left over when an execution ends that was neither aborted nor   *)
(* failed by a node.                                                       *)
RetriesPickedUp ==
  Ended /\ xstatus = "failed" /\ ~aborted /\ (\A n \in Nodes : status[n] # "failed") =>
    \A n \in Nodes : attempts[n] > 0 => status[n] # "pending"

(* A node that fails takes the nodes right behind it along: none of them   *)
(* is left to be started.                                                  *)
FailureSkipsDownstream ==
  \A n \in Nodes : status[n] = "failed" => Succs(n) \cap Open(status) = {}

Starts(n) == status[n] # "running" /\ status'[n] = "running"

(* Fail-fast: after a node has failed no other node is started.            *)
FailFast ==
  [][(\E m \in Nodes : status[m] = "failed") => ~\E n \in Nodes : Starts(n)]_vars

(* A completed, failed or skipped node keeps that status.                  *)
SettledForGood ==
  [][\A n \in Nodes : status[n] \in {"completed", "failed", "skipped"}
       => status'[n] = status[n]]_vars

(* Every run loop returns.                                                 *)
Terminates == \A l \in Loops : loop[l] = "top" ~> loop[l] = "done"

(* A cancelled execution ends.                                             *)
CancelEnds == aborted ~> Ended
=============================================================================
