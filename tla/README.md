# Verification of personaforge

TLA+ models of the runtime of personaforge, a TypeScript framework for LLM
agents, the TLC runs that check them on small instances, and proofs of their
main properties for every instance. The code is `src/src`; the modules say which
file they model, and `PROJECT.json` maps every definition to its lines.

    tlc -workers 2 -config DagBranch.cfg MCDagEngine   # one run
    tlapm DagProofs.tla                                # one proof module

## 1. The system

personaforge runs in one JavaScript process. Nothing is preemptive: two pieces of
code interleave only at an `await`, in a timer or in a promise continuation. The
hard behaviour is what happens to shared objects between two awaits, and what a
crash leaves in an event store.

| component | state | operations | interacts with |
|---|---|---|---|
| `graph/engine.ts` DAGEngine | node states, results, execution status, active set, ready candidates, pending signals, abort controller, event list, completion resolvers | `execute`, `pause`, `resume`, `cancel`, `signal`, the run loop, one `_executeNode` per node | node bodies, plugin hooks, event store |
| `graph/engine.ts` DurableExecutor, `replayState` | none of its own; the stored events | `run`, `resume` | DAGEngine, event store |
| `graph/batching-store.ts` | buffer, timer, batches in flight | `append`, `flush`, `load`, `loadAfter`, `getCheckpoint`, `saveCheckpoint`, `purge`, `close` | inner event store |
| `graph/event-store.ts` | events and their ids, checkpoints | `append`, `load`, `purge`, checkpoints | the two above |
| `graph/scheduler.ts` BackpressureController | free slots, waiters | `acquire`, `release` | callers |
| `graph/scheduler.ts` task queues, GraphWorker, DistributedEngine | queue, keys in processing, current task, graph state | `enqueue`, `consume`, `ack`, `nack`, dispatch, `execute` | workers, node bodies |
| `graph/builder.ts`, `orchestrator.ts` | a graph under construction | `addNode`, `addEdge`, `addConditionalEdges`, `build` | produces the engine's input |
| `graph/plugins.ts`, `memory.ts`, `run-recorder.ts`, `audit.ts`, `replay.ts` | spans, statistics, records | hooks | called by the engine; observe it |
| `production/concurrency.ts` | permits, waiters, admitted count | `acquire`, `release`, `withLock`, `run` | callers |
| `production/circuit-breaker.ts`, `resilient-agent.ts`, `guard/retry.ts` | circuit state, failure buckets, success count; the attempt of a call | `execute`, `reset`; `run` with retries and timeouts | callers, the agent, the rate limiter |
| `production/idempotency.ts` | cached and pending entries with expiry | `reserve`, `get`, `set`, `release`, `prune` | the chat route |
| `production/approval-store.ts` | requests with a status and a deadline | `create`, `decide`, `expireStale`, `waitForApproval` | the tool that asks, reviewers |
| `runtime/server.ts` | requests in flight | the chat route, the approval routes | agents, both stores above |
| `production/rate-limiter.ts` and its Redis form | tokens | `tryAcquire`, refill | the resilient agent |
| `production/resumable-stream.ts` | chunks, checkpoints | producer, resume, eviction | clients |
| `production/budget.ts`, `tenant.ts` | spend per user and month | check, charge | agent runs |
| `production/graceful-shutdown.ts` | in-flight count, handlers | `shutdown` | the process |
| `scheduler/` ScheduleManager | schedules with `nextRunAt`, runs | tick, trigger, update | the agents it starts |
| `durable/` with `approval/store.ts` | run handles, suspended records, promises of continuations | `stream`, `approveToolCall`, `declineToolCall`, `resumeStream`, `recoverActiveRuns`, `observe`, `cleanup` | agent loop, answering users, observers |
| `agentic/runner.ts` | step, messages, retries, approved calls, checkpoint | the loop, tool batches, suspension | models, tools, checkpoint store |
| `background/` | job queues over several backends | enqueue, process, retry | workers |
| `orchestration/`, `workflow/`, `execution/`, `goals/`, `guard/` | step state | what is built from the agent loop | agents |
| `providers/`, `models/`, `tools/`, `memory/`, `knowledge/`, `learning/`, `db/`, `storage/` | external services | I/O and conversion | outside |
| `serve/`, `gateway/`, `cli/`, `sdk/`, `playground/`, `observability/`, media, evaluation | requests, displays, telemetry | plumbing | users |

What makes each of the first parts correct:

* **DAG engine.** A node starts only when its dependencies are satisfied, at most
  once at a time, within the concurrency option; a failure stops further starts;
  routers and conditional edges start exactly what they decide; every run loop
  returns, and only when its node executions are over; pausing, resuming and
  cancelling at any moment disturb none of this.
* **Durable executor.** Work whose completion was stored is never repeated, events
  keep unique numbers, replay reconstructs the state, a crashed run can be
  finished and a finished one is left alone.
* **Batching store.** Every event is stored once, or dropped, or purged, and never
  silently lost; reads see what was appended; purged events do not come back.
* **Backpressure and semaphore.** Never more holders than slots, never a free slot
  while somebody waits, first come first served, no lost wake-up.
* **Task queue and workers.** No two tasks of a node side by side, a key freed on
  every path, a closed queue quiet, an open one moving.
* **Circuit breaker and resilient agent.** The window counts exactly, the circuit
  changes on evidence although results arrive late, every call settles, a healthy
  agent gets its circuit closed again.
* **Chat service.** One key, one successful run and one reply, whatever fails,
  expires or crashes; an action only after an approval; no request and no key stuck.
* **Durable agents.** One step budget over all drives of a run, gated tools only
  behind an answer about that call, a suspension that can be answered as soon as it
  is known, complete streams, settled promises.

The hazards that tests would hardly reach are listed in `PROJECT.json`, each at its
line with the properties that watch it, or with the reason why none does.

## 2. Modules

| module | models | role |
|---|---|---|
| `DagEngine` | `graph/engine.ts`, class DAGEngine | the engine, run loops and node executions interleaving |
| `MCDagEngine` | | the graphs of the engine's runs |
| `DurableExecutor` | `graph/engine.ts`, DurableExecutor and `replayState` | `DagEngine` composed with a store, crashes and `resume` |
| `MCDurableExecutor` | | the graphs of its runs |
| `BatchingEventStore` | `graph/batching-store.ts` over `InMemoryEventStore` | buffer, flushes in flight, reads, purge, close |
| `BoundedPool` | | abstract specification: first-come first-served pool |
| `Backpressure` | `graph/scheduler.ts`, BackpressureController | implements `BoundedPool` |
| `Semaphore` | `production/concurrency.ts` | semaphore under the concurrency limiter |
| `GraphWork` | `graph/scheduler.ts`, InMemoryTaskQueue and GraphWorker | queue, keys, tasks at work, `stop` and `close` |
| `CircuitBreaker` | `production/circuit-breaker.ts` | the breaker as operators on a record |
| `ResilientAgent` | `production/resilient-agent.ts`, `rate-limiter.ts`, `guard/retry.ts` | overlapping calls through limiter, breaker, retries and timeouts |
| `IdempotentRequests` | `production/idempotency.ts` and the chat route of `runtime/server.ts` | the requests of one key and its record |
| `Approvals` | `production/approval-store.ts` and the approval routes | requests for approval, reviewers, the waiting tool |
| `ChatService` | `runtime/server.ts` | composes the two: the agent that a request runs asks for an approval |
| `AgentLoop` | `agentic/runner.ts` | the loop of an agent, its drives sharing a checkpoint |
| `DurableRun` | `durable/` | composes `AgentLoop` with handle, suspensions, answers, recovery, observers |
| `DagProofs` | | theorems about `DagEngine` |
| `DurableProofs` | | theorems about `DurableExecutor`, from those of `DagProofs` |
| `BatchingProofs`, `ResilientProofs`, `ChatServiceProofs`, `DurableRunProofs` | | theorems about the module of that name |
| `QueueProofs` | | theorems about `Backpressure`, `Semaphore` and `GraphWork` |
| `InductionLemmas` | | finite sets, sequences and sums: the lemmas that need an induction |

A definition that the mutants of `PROJECT.json` put in place of another one stands just
before it: `BlockedNever` before `Blocked`, `BeginAfresh` before `Begin`. No other
definition uses them; they show that the properties are about the code.

### DagEngine

An action is the code between two awaits. `loop[l]` is where activation `l` of
`_runLoop` is: at the `top` of its `while`, awaiting its `batch`
(`Promise.allSettled`), in `_waitForAnyCompletion` (`wait`), or `done`, the
execution having settled its final status. Activation 1 is `execute()`, the later
ones are calls of `resume()`, which do not wait for the earlier ones. `exec[l][n]`
is where `_executeNode(n)` of activation `l` is: in the `onNodeStart` hooks
(`start`), in the body, in a signal `wait`, in the `onNodeComplete` hooks
(`notify`), in the retry `backoff`, or `stuck` after a hook threw outside the `try`.

| code | action |
|---|---|
| `execute`, `resume` up to the first await | `Execute`, `Resume` |
| one turn of `_runLoop` | `LoopStarts`, `LoopWaits`, `LoopReturns` (with the final status of `execute`), `BatchSettles` |
| `_executeNode` | `BodyStarts`, `BodyReturns`, `BodyThrows`, `Notified`, with `Finally` |
| `_executeRouterNode` | `RouterDecides`, with `Route` for its pass over the edges |
| `_executeWaitNode`, `signal` | `BodyStarts`, `DeliverSignal`, `SignalTimesOut` |
| `_handleNodeError`, `_failNode`, `_markSubtreeSkipped` | `HandleError`, `BackoffEnds`, `Subtree` |
| hooks that throw | `StartHookThrows`, `CompleteHookThrows`, and a disjunct of `HandleError` wherever an error is handled |
| `pause`, `cancel`, an outer AbortSignal | `Pause`, `Cancel`, `Abort` |

Abstractions. A node's output is the label that a conditional edge would compare.
Parallel, join, agent and subgraph nodes are tasks: what differs is their body, and
a race join is a member of `RaceJoins`. A webhook wait is a human wait. Time is left
out, so a timer may fire whenever it is set. Ready nodes are sliced in any order,
the code slices them in insertion order. Checkpoints during a run are written and
never read back by the engine. An edge condition is what it would say; the engine
does not ask it. A run that was cancelled ends `FAILED` unless all its nodes are
completed or skipped, because `execute` has no case for `CANCELLED`; `FinalStatus`
says so. The least set of `Subtree` stands for the breadth-first sweep, and
`SkipEvents` for the order in which it reports the nodes, one event each: any order
in which a node comes behind one that leads to it. Signal waits are registered under
their names, so a wait may take the entry of another one and its timer may delete it
(`Unnamed`).

### DurableExecutor

Extends the engine with `log`, the stored events with their sequence numbers.
Appends are never awaited, so `AppendSettles` may lag behind the engine by any
number of events, and up to `MaxLost` of them fail. Every event is an append of its own,
also those of one batch or one sweep, so a crash may fall between any two of them.
`Crash` drops everything but the log; `ResumeAfterCrash` and `ResumeReturned` are
`resume()` in a new and in the same process. Nothing in `resume()` waits for the appends
of the run before it: with `LateLoads` its load may overtake them. The passing runs and
the theorems assume that it does not (`~LateLoads`); `DurableWaitsV` shows what happens
otherwise. `ReplayNode`, `ReplayResult` and `ReplayExecution` are `replayState`.

### BatchingEventStore

`buffer`, the batches in flight, the inner store with its idempotent append, one reader,
the timer, which `flushIntervalMs = 0` leaves out. An append to the inner store may be
applied before it is reported as failed. Overlapping flushes, from the timer and from
appends, settle in any order. The code multiplies `maxBatch` by 16 for its cap; the factor
is the constant `CapFactor`, so that few events reach the cap.

### Backpressure, Semaphore, BoundedPool

Both count permits and queue promise resolvers. They differ in one point: the
controller hands a slot over inside `release`, while the semaphore gives it back and
lets the woken waiter take one later (`Wakes`). That is why the first implements
`BoundedPool` and the second does not.

### GraphWork

`work[t]` is where `_processTask` of task `t` is: in the `onNodeStart` hooks
(`starting`), in the body, in `onNodeComplete` and `onResult` of a success
(`completing`) or of a failure (`failing`), or over. `ProcessNext` is `_processNext` up
to the call of the handler, which nobody awaits: it runs inside `enqueue`, `consume` and
the poll interval, so the tasks of one worker overlap although a worker has one
`currentTask`. `consume` of a second worker replaces the handler and sets another
interval; `close` clears one. The tasks of a node are its attempts, enqueued in order.
The body of a node with a timeout (`Timed`) is raced and not stopped: `bodies` holds it
until `BodyEnds`, while its task has failed and given its key back.

### CircuitBreaker and ResilientAgent

The breaker has no awaits of its own, so `CircuitBreaker` has no variables: its operators
map a breaker record to the next (`Checked`, `Succeeded`, `Failed`), and the actions of
`ResilientAgent` apply them where `run` reaches them. Time is counted in ticks, and the
ages of bucket and opening take the place of the clock. The refill of the bucket is lazy
in the code; adding the same tokens at every tick gives the same count at every call. The
windows `failures` and `admitted` and the count `probes` are history: the properties
compare the code's ring and counters with them.

### IdempotentRequests, Approvals, ChatService

A request is `idle`, in `createSession`, in the `run` of the agent, or on the way out
through `set` or `release`. The actions keep the order of the route: the reservation,
then `createSession` outside the `try`, then the run, then the store calls whose errors
are swallowed. `store` and `desk` choose between the map and SQLite, which differ where
it matters: a crash loses the map; SQLite reserves only where there is no row; it decides
in two steps and its `expireStale` finds nothing. `ChatService` adds the tool that asks
inside the run, and one crash for both. `Outlives` allows a handler to take longer than
the reservation; `RequestExpiryV` turns it on. Two things are left to others.
`requireApprovalTool` returns `{ approved: true }` or throws, the runner makes a message
to the model of what it throws and goes on (`runner.ts:1689-1708`), and the action may be
another tool: the guard of `Acts` assumes an agent that acts only when the wait was granted,
and what `ActsApproved` shows is that a wait is granted only by an approval. And a stream
may send chunks of a run that fails afterwards; it then ends with an error event, so `served`
counts the results of runs that succeeded and not these chunks.

### AgentLoop and DurableRun

A drive is one execution of `_runCore`; a run has several, one per answer, resume or
recovery, all writing the checkpoint under the run id. `pc` is where the drive is: at the
head of the `loop`, waiting for its `tools`, at a `suspend`, in `finish`, and then in the
consumer of its chunks (`finished` to `closing`, with the order in which `_consume`
writes status, record, result and topic). A model answers with any set of calls, also
with ids used before. Tools of a batch run side by side; a call that needs approval, or a
tool that suspends, ends the wait for the others and not the others, which go on while
the run is suspended. `queue` counts the chunks not published yet. `answer[a]` is where
`_answerApproval` or `resumeStream` is between its awaits; both read the record from
memory or from the store, so an answer may reach a record that has been resolved.
`begunBy` and `lost` are history: the call whose answer began a drive, and the steps whose
checkpoint could not be saved at a suspension. `OneByOne` restricts the callers, not the
code: they answer a suspension once it was reported, and answer or recover a run only when
no drive and no other answer of it is under way.

## 3. Runs

Bounds are constants of the modules: `MaxLoops` run loops, `MaxCalls` control calls,
`MaxCrashes`, `MaxResumes`, `MaxLost`, `MaxEvents`, `MaxChunk`, `MaxFailures`,
`MaxPurges`, `MaxLoads`, `MaxAttempts`, `MaxRuns`, `MaxDrives`, and times in ticks. Three
to five nodes suffice for what the properties tell apart: a fan-in with two predecessors
and a node beside it, or a router with two branches, a decision behind one of them and a
node outside both. Two run loops make an overlap, one control call an interruption, two
make a pause followed by a cancel. `MaxRetries` is 2 where retries matter: one failed
attempt, one retry. Three calls make a result that arrives in a later state of a circuit
which opens at three failures and closes at two successes. Two requests make a conflict,
two runs a repetition, two reviewers a race, and one tick more of patience than of
deadline a wait that outlasts its request. Two attempts of two nodes make a duplicate key
beside another key. Two steps and three drives make a suspension, an answer that suspends
again and an answer to that, and one lost checkpoint a budget granted twice. Deadlock is
not checked where the system ends; it is checked for the two pools and the resilient
agent, whose callers come back for ever.

| run | system | shows |
|---|---|---|
| `DurableJoin` | a fan-in, 2 at a time, retries and `retryOn` of one task, an outer abort, two crashes, one append that fails | dependencies hold unless an event was lost (`OrderKept`), a node completes once, a `FAILED` execution has a cause, numbers in the log stay unique with one completion per node (`LogSound`), stored work is not repeated although the log has gaps |
| `DagWaits` | a task, a timed signal wait and a human approval joined as a race, 1 at a time, two run loops, pause and cancel | each loop keeps its bound, no node runs twice at a time and the active set is what is executing (`LoopsSound`), settled nodes stay settled, every loop returns |
| `DagBranch` | a router, a branch that goes on with a conditional edge, a lone node, throwing hooks, an outer abort | the decided branch runs and what follows it (`CompletedRan`), only selected targets start, a loop returns at rest, nothing starts after a failure |
| `Durable` | a router whose branch meets a task, two crashes at any point, a resume of a returned run | replay of the log agrees with the engine it replaces, a decision survives a crash, a crashed run is finished |
| `Batching` | three events in batches of two, overlapping and failing flushes, purge, close, one reader | `BufferSound`: every event is stored, pending, dropped or purged, stored once, read when buffered, not dropped while no batch has failed; and stored in the end unless no timer is set |
| `Backpressure` | 4 callers, 2 slots | exact count and no idle slot (`SlotsSound`), service, refinement of `BoundedPool` |
| `Semaphore` | 5 tasks, 2 permits, 4 admitted, so that two can wait | exact permits and admission, no lost wake-up (`PermitsSound`), service |
| `AgentRun` | a run of two steps over a gated and a suspending tool, three drives, one answerer, an observer, stores that may fail | the budget holds over all drives but for lost checkpoints, a reported suspension can be answered, streams are complete, a gated tool starts only in the drive of its answer, promises settle |
| `Resilient` | three calls of two attempts, a window of three ticks, two requests per interval of two | the window counts exactly, the limiter admits at most twice its rate in an interval, the circuit changes on evidence, calls settle, the circuit recovers |
| `Service` | two requests with one key, two runs, two reviewers, both kinds of store, crashes, failing writes | one success per record, one reply, approved actions, conflicts that end, requests that end |
| `Work` | two attempts of two nodes, one with a timeout, one worker, throwing hooks, `stop`, `close` | keys are held exactly as long as their task is processed, `close` leaves nothing running, an open queue moves |

`Batching` appends one event at a time, as the engine does, and caps the buffer at one
batch instead of the code's sixteen: a cap that three events can reach. The configurations
`BatchingV` and `BatchingDropV` use two batches. `Resilient` uses three buckets for the
code's sixty. `DurableJoin` stops from outside by an abort, which emits no event; logs
with a stored cancel are covered by the theorems only. `ClosedIsQuiet` and the theorem
about it are for one worker; `WorkCloseV` shows why.

One more run expects a violation: `AgentPendingV` finds a drive, begun by an answer, that
asks the model before it has executed the call it was answered about, because the factory
drops `resumePendingTool`. The quotations are under `findings` in `PROJECT.json`. A refused
call is put among the approved ones as well, since answers differ in `resumePendingTool`
only. The model therefore does not tell the two answers apart, and `GatedNeedsAnswer` asks
for an answer, not for an approval: ids are unique with most providers, and then the loop
never meets the refused call again.

The following configurations are kept for running by hand, each with the module in which
its property stands; TLC finds the violation described. They are the places where the code
does something else than a comment or a document says, and they mark the limits of what
the passing runs show. A configuration that lists several properties finds each of them
violated: leave one in it to see its counterexample, or run TLC with `-continue`.

| configuration | module | property | what happens |
|---|---|---|---|
| `DagSwitchV` | `MCDagEngine` | `FailureHasCause` | targets that `addConditionalEdges` did not select stay `PENDING`, so an execution in which nothing failed ends `FAILED` |
| `DagMergeV`, `DagOptionalV` | `MCDagEngine` | `MergesRun`, `RouteTaken` | the sweep of a route not taken skips a shared descendant, or the taken target itself |
| `DagDefaultV` | `MCDagEngine` | `DefaultRuns` | the default target of `addConditionalEdges` never runs |
| `DagGuardV` | `MCDagEngine` | `GuardsRespected` | edge conditions are never evaluated |
| `DagPauseV` | `MCDagEngine` | `ConcurrencyBound` | two run loops together exceed `maxConcurrency` |
| `DagPauseV` | `MCDagEngine` | `RetriesPickedUp` | a retry that ends after a resume is never picked up |
| `DagPauseV` | `MCDagEngine` | `FailFast` | a pause after a failure lets a resume start new nodes |
| `DagPauseV` | `MCDagEngine` | `FailureSkipsDownstream` | the successors of a failed node are not skipped |
| `DagCancelV` | `MCDagEngine` | `CancelEnds` | a cancelled execution waits for ever for a signal |
| `DurableFailedV` | `MCDurableExecutor` | `TerminalIsFinal` | a run that failed executes again when it is resumed |
| `DurableSweptV` | `MCDurableExecutor` | `ReplayAgrees` | replay keeps a node skipped that the live engine has made ready |
| `DurableSwitchV` | `MCDurableExecutor` | `OnlyMatchingStart` | after a crash a target starts that the output did not select |
| `DurableRerouteV` | `MCDurableExecutor` | `MergesRun` | a router that decides again after a crash finds its new branch skipped |
| `DurableWaitsV` | `MCDurableExecutor` | `SequenceUnique` | a `resume()` whose load overtakes the last appends of the run gives out their numbers again |
| `DurableWaitsV` | `MCDurableExecutor` | `Terminates` | of two signal waits of one name the first one loses its entry and is never ended, by a signal or by its timer |
| `BatchingV` | `BatchingEventStore` | `ConsistentRead` | a read misses a batch in flight |
| `BatchingV` | `BatchingEventStore` | `ErasedForGood` | a batch in flight stores events of an execution after `purge` returned |
| `BatchingDropV` | `BatchingEventStore` | `OldestDropped` | newer events are dropped as the oldest |
| `SemaphoreV` | `Semaphore` | `AtMostLimit` | between a release and the continuation of the waiter it woke, a newcomer takes the permit, and then both run |
| `SemaphoreV` | `Semaphore` | `ShedsOnlyWhenFull` | calls are refused while the queue has room, because running tasks count as queued |
| `WorkV` | `GraphWork` | `ReportedOnce` | a hook that throws behind `onResult` makes a success be reported as a failure too |
| `WorkV` | `GraphWork` | `StopDrains` | `stop` returns while another task of the worker runs |
| `WorkStopHangsV` | `GraphWork` | `StopEnds` | a start hook that throws leaves `currentTask` set, and `stop` never returns |
| `WorkV` | `GraphWork` | `NotLost` | `nack` forgets the task |
| `WorkV` | `GraphWork` | `BodiesAlone` | the body of an attempt that timed out runs on beside the next attempt |
| `WorkCloseV` | `GraphWork` | `ClosedIsQuiet` | the poll interval of a second worker goes on after `close` |
| `ResilientCeilingV` | `ResilientAgent` | `HardCeiling` | a full bucket and its refill let in more than `maxRpm` in a minute |
| `ServiceV` | `ChatService` | `PendingMeansInFlight` | a streamed reply that succeeds leaves its key pending |
| `RequestPruneV` | `ChatService` | `ConflictEndsUnpruned` | in SQLite an expired reservation blocks its key until somebody prunes |
| `RequestExpiryV` | `ChatService` | `ReservationHonoured` | two requests run when a handler outlives its reservation |
| `ServiceV` | `ChatService` | `ActsOnce` | a run that acted and then failed, or crashed, is repeated with its action |
| `ServiceV` | `ChatService` | `DeadlineKept` | a request is approved after its deadline |
| `ServiceV` | `ChatService` | `DecisionStands` | two reviewers decide one request both ways in SQLite |

The passing runs of the router therefore hold for the shapes they use: `DagBranch` and
`Durable` have branches that share no descendant with a branch not taken, which is
what `RouteTaken`, `MergesRun` and `ReplayAgrees` need. Section 4 says for which graphs this is
proved.
`Service` holds its reservations longer than its handlers take (`Outlives = FALSE`), and
in `AgentRun` nobody answers or recovers a run while something else is under way
(`OneByOne`): with two answers that race, both replay the run and the budget is spent twice.

### Fairness

Weak fairness only, and only on what the event loop does by itself: a run loop and a
node execution that can go on do (a body settles, a timer fires, a continuation
runs), a task ends, an append settles, the flush timer ticks, clocks go on, an attempt ends
by its timeout, a poll of the approval store comes round, a drive and its consumer go on,
tools end and an answer once given is carried out. Nobody is obliged to pause, resume,
cancel, signal, acquire, call, decide, answer, observe, prune or clean up. A signal wait
with a timeout ends by its timer, so `DagWaits` uses one; a human wait suspends the
execution and returns at once. Without a timeout a wait may last for ever, which is what
`DagCancelV` turns on. `CrashRecovered` assumes that somebody calls `resume` after a crash,
as the documentation of the durable executor tells its users to. `RecoversWhenUp` states
its own assumptions: calls keep coming and attempts are no longer lost. That a run of the
agent ends at all (`RequestsSettle`) is the timeout of the route; that tools end
(`AnswersSettle`) is the timeout of `runToolWithTimeout`.

## 4. Proofs

The theorems hold for any number of nodes, callers, slots, loops, calls, requests,
reviewers, keys, workers, steps, drives, crashes and lost appends, and, unless their
statement restricts the graph, for any graph. The assumptions are the typing of the
constants, named in the modules (`GraphAssumption`, `OptionAssumption`,
`DurableAssumption`, `BatchingAssumption`, `BackpressureAssumption`,
`SemaphoreAssumption`, `WorkAssumption`, `BreakerAssumption`, `ResilientAssumption`,
`RequestsAssumption`, `ApprovalsAssumption`, `ServiceAssumption`, `AgentLoopAssumption`),
and where a theorem needs more, its statement says so. Every invariant that a passing run
checks is stated by a theorem.

### DagProofs: the engine

`TypeCorrect` goes by one lemma per group of actions. `LoopBounded`, `ReturnsResting` and
`LoopsResting`, for every graph, come from `BarrierInv`: a loop that is not awaiting its
batch executes nothing (`AtRest`), and a registered signal belongs to an execution that
waits for it (`SignalsWait`). The barrier is what makes the bound inductive: a batch is
sliced only when the loop executes nothing, so its size alone bounds the loop, although
the code computes the room from an active set that other loops and stuck nodes enlarge and
then takes at least one.

The other theorems need restrictions, each because a configuration of section 3 shows a
violation without it.

| hypothesis | says | because of |
|---|---|---|
| `MaxLoops = 1` | nobody calls `resume()` on the engine | `DagPauseV`: two loops exceed `maxConcurrency`, and a pause after a failure lets a resume start nodes; `DurableSwitchV` |
| `PlainGraph` | no hook throws, and every router is a `PlainRouter`: each label that it may return is on one of its edges, a target has one label, and the other predecessors of a target neither route nor stand behind a router, the target then waiting for all of them | `DagOptionalV`: the sweep of a route takes the target of another one along |
| `DecisionTree` | a plain graph in which a node behind a router has one predecessor | `DagMergeV`: a sweep skips a node that two routes share |
| `StraightGraph` | a plain graph without routers, without cycles and without conditional edges | `DagSwitchV`: targets that were not selected stay `PENDING` and the execution ends `FAILED`; the builder refuses cycles (`_validateNoCycles` of `graph/builder.ts`) |

For a plain graph, `PlainInv` adds to the barrier that an executing node has the status of
its stage (`StatusTracks`), that no two loops execute one node and that the nodes behind a
router which has not decided are untouched (`Undecided`); `DependencyOrder` itself is
inductive next to it. None of these is inductive alone: a node leaves the settled statuses
only by a step of an execution, which its status excludes, and a decision may reset its
targets only because nobody has touched them. From it follow `PlainLoops`,
`PlainDependencyOrder` and `PlainSettledForGood`, over any number of overlapping loops.

`RouteInv` says what becomes of a decision: an execution that completed has completed or
skipped every node (`EndsDone`), the targets chosen are not skipped (`ChosenKept`), and
what is skipped lies behind a router that decided against it (`SkippedBehind`). The sweep,
a least set, is handled by giving the set that it cannot leave. `PlainRoutesTaken` needs the
first two, `TreesRunComplete` all of them. `OneLoopFailsFast` is for every graph; its
invariant is that a failure leaves the status of the execution such that the loop starts
nothing. `OneLoopMatches` carries the selecting output from the step that makes a target a
candidate. `OneLoopFailsForCause` shows that a loop which finds nothing ready in a straight
graph has nothing left to run: otherwise the open nodes would each have an open
predecessor, and a finite graph without cycles has a minimal one.

### DurableProofs: the durable executor

All theorems about the durable executor assume `~LateLoads`: the load of a resume sees
every append of the run before it. `DurableTypes` and `NumbersAreUnique` hold for every
graph, any crashes and lost appends. `NumberInv` speaks of `Heard`, the stored events
together with all that the live engine emitted: no two of them share a number, and a
stored event is of an earlier engine or at its place in this one (`Placed`). Uniqueness in
the log alone is not inductive, since the engine's next append could carry a number the
log has.

The rest is about a `PlainGraph` that is `Repeatable`, together `PromptGraph`: a router
decides alike whenever it is asked, and where there are routers no append is lost. A
router that decides again after a crash finds its new branch skipped (`DurableRerouteV`).
A graph of tasks alone is repeatable, so the theorems cover the graphs of both runs,
`DurableJoin` with its lost append and `Durable` with its router; the number of run loops
is free.

`HeardInv` carries over a crash what the engine knew, as statements about `Heard`: that a node
is settled is the last thing said of it (`FinalIn`), the settled nodes are those said to be,
with the results they were said to have (`Known`, `Reported`, `ResultsHeard`), and, while no
append was lost, a node was started only after what it depends on was settled (`OrderedIn`)
and an execution was completed only after all nodes were (`DoneIn`). The step of a resume
evaluates `replayState` over exactly this set. One part is there for a crash in the middle of
an append: the store may hold the skips of a decision without its completion, so the resumed
router decides again, among targets that are partly skipped. `SweptIn` says that a
node which a router may choose is skipped only after that router itself was, so the target
of the decision is not among them.
From `HeardInv` follow `LogStaysSound`, `NodesCompleteOnce`, `OrderIsKept`,
`StoredIsNotRerun`, `ReplayIsTrue` and `DecisionIsKept`. `DurableFailsForCause` is the theorem
of the engine again, with `MaxLoops = 1` and a `StraightGraph`, across crashes and resumes.

### BatchingProofs, ResilientProofs

`EInv` of the batching store accounts for every event that was appended: it is in the
buffer, in a batch in flight, stored, dropped or purged (`Accounted`), batches in flight
are disjoint (`Batches`), the inner store holds each once (`InnerStore`), and what the
reader found buffered is owed to it (`ReaderOwed`). `BufferIsSound` follows without
further hypotheses except for the part `NoNeedlessDrop`, nothing dropped while no batch
has failed, which assumes that a batch and an append fit the cap together: a larger append
must drop something even from an empty buffer. The engine appends one event at a time and
the code's cap is sixteen batches.

`EvidenceOnly` needs `Probing`, what the breaker's success count says of the history of
probes, for closing, and the window's invariant for opening. `WindowIsCounted` needs
`Mirrors`: each bucket of the ring holds the failures of its tick, so that the sum over
the ring is the count over the window. `AdmissionIsBounded` rests on `RateInv`, which
bounds the tokens left together with the admissions of the last ticks. Both count by sums
over a function and use the lemmas of `InductionLemmas`.

### ChatServiceProofs

`IInv` of the idempotency protocol says which request may be in flight with which record:
only the one that reserved it, as long as the record is pending; a success is known to the
request that is about to store it, or to the record. Time must not pass under a handler
(`~Outlives`), which `RequestExpiryV` shows to be needed. `ServiceKeepsRequests` is the
refinement: every step of the service is a step of the protocol or leaves it alone, so its
invariants carry over. `PInv` relates waits, statuses and decisions: a granted wait has
seen a status that a decision wrote.

### DurableRunProofs

`GatedWaits` follows from `ApprovalInv`: a drive approves at most the call whose answer
began it, and an earlier drive stopped at that call (`Approves`). It needs `Questions`, that
whatever is read for an answer is a call at which some drive stopped, and `InOrder`, that
drives begin one after the other, so that the one which stopped came before.
`BudgetHolds`, for `OneByOne`, rests on `BudgetInv`: either everything is at rest with the
checkpoint and the lost steps together equal to the questions asked, or exactly one drive is
live and its step counts them. The suspension must be in the checkpoint, or counted as lost,
before the consumer hears of it, which `Counts` carries from place to place.
`SuspensionsCanBeAnswered` needs `AnswerableInv`: a
question that was asked is in the record (`Asked`), the record is in the store before the
status says so (`Held`), and a drive that runs has a handle (`Started`). `StreamInv`
says that what was published and what is still queued make up the run, and only the last
consumer closes the stream, which needs `OneByOne` again.

### QueueProofs

`BInv` of the backpressure controller adds to the exact count that the queue lists exactly
the waiting callers, each once. `ImplementsPool` is the refinement of `BoundedPool` under
that invariant. `SInv` states permits, admission, queue and `WorkConserving` of the
semaphore together; the last needs the count of woken and running tasks. `GInv` of the
task queue says that a task of the queue is one that nobody has taken, which makes
`KeysExact` inductive. `CloseQuiets` adds, for one worker, that a queue which is not open
has no interval left and that keys are exact: no step can take a task then, and `close`
returns when no key is held.

### Induction

`InductionLemmas` are facts about finite sets, sequences and sums that need an induction.
They are proved by least counterexample, from the well-foundedness of the naturals and of
inclusion between finite sets; the library's induction theorems take an operator as their
parameter, which the provers cannot instantiate.

### Only model-checked

Everything temporal under fairness, for which the prover has no rules here: `Terminates`,
`CrashRecovered`, `EventuallyStored`, `EventuallyServed`, `EventuallyRuns`, `QueueMoves`,
`ConflictEnds`, `RequestsSettle`, `AnswersSettle`, `RunsSettle` and `RecoversWhenUp`. Every
other property of a passing run is the statement of a theorem, under the hypotheses named
here. What happens in graphs outside these hypotheses is known only from the configurations
that show their violations and, for throwing hooks, from `DagBranch`.

## 5. Not modelled

Each component that is left out stands in `PROJECT.json` with its reason. In short:

* Adapters to external services, storage back ends, prompts, telemetry and command lines
  convert data and keep no protocol. They are most of the repository's lines.
* Orchestration, workflows and pipelines call agents one after the other or all at once;
  what they decide is the output of a model.
* The distributed engine dispatches tasks and never applies their results, so its loop
  has no step that a property could be about. The schedule manager prevents neither
  overlapping ticks nor a stale save, and the in-memory background queue may start a
  parked task with a placeholder or drop it: the hazards are listed, and a model would
  only restate them.
* Budgets, tenants, the gateway's spend, graceful shutdown and resumable streams are a few
  additions, one race and one filter.
* Two processes that resume one execution at the same time: nothing leases it, and no
  document promises that anything does.

Inside the modelled parts, the header of each module and the `note` of its component say
what is abstracted. Worth adding next: an abstract execution of a dependency graph (start
what is enabled, complete, fail) with `DagEngine` on plain graphs shown to implement it.
