----------------------------- MODULE GraphWork -----------------------------
(***************************************************************************)
(* InMemoryTaskQueue and GraphWorker of src/graph/scheduler.ts.  A task is *)
(* the key of its execution and node, and the attempt.  The queue has one  *)
(* handler, that of the last worker started; it is called for a task       *)
(* without waiting for the one before, so the tasks of a worker overlap.   *)
(* A body that times out is not stopped: its task ends and gives its key   *)
(* back, while the body runs on.                                           *)
(***************************************************************************)
EXTENDS Naturals, Sequences, Functions

CONSTANTS
  Keys,         \* executionId:nodeId
  Timed,        \* those whose node has a timeout
  MaxAttempts,  \* attempts of a node that are enqueued
  Workers,      \* the workers
  None          \* no worker, no task

ASSUME WorkAssumption ==
  MaxAttempts \in Nat \ {0} /\ None \notin Workers /\ Timed \subseteq Keys

Tasks == Keys \X (1 .. MaxAttempts)
KeyOf(t) == t[1]

VARIABLES
  queue,       \* the queue behind its head pointer
  handler,     \* the worker whose handler the queue calls
  timers,      \* poll intervals that are running
  started,     \* the workers that were started
  late,        \* history: the queue was closed before one of them
  closed,      \* "open", "closing" while close() waits, "closed" when it returned
  processing,  \* the keys being processed
  work,        \* where a task is, and the worker that has it
  bodies,      \* the tasks whose body is running, timed out or not
  current,     \* currentTask of the workers
  stop,        \* stop() of the workers: "no", "waits" or "returned"
  reports      \* history: how many results of a task onResult was given

gvars == <<queue, handler, timers, started, late, closed, processing, work, bodies,
           current, stop, reports>>

Waiting == Range(queue)
ActivePcs == {"starting", "body", "completing", "failing"}
Active == {t \in Tasks : work[t].pc \in ActivePcs}

GInit ==
  /\ queue = <<>> /\ handler = None /\ timers = 0 /\ started = {} /\ late = FALSE
  /\ closed = "open" /\ processing = {}
  /\ work = [t \in Tasks |-> [pc |-> "new", by |-> None]]
  /\ bodies = {}
  /\ current = [w \in Workers |-> None]
  /\ stop = [w \in Workers |-> "no"]
  /\ reports = [t \in Tasks |-> 0]

(* _processNext on queue q with handler w: the head is taken off, and      *)
(* dropped when its key is being processed.                                *)
BusyNever(t) == FALSE
Busy(t) == KeyOf(t) \in processing
ProcessNext(q, w) ==
  \/ /\ w = None \/ q = <<>>
     /\ queue' = q
     /\ UNCHANGED <<processing, work, current>>
  \/ /\ w # None /\ q # <<>> /\ queue' = Tail(q)
     /\ LET t == Head(q) IN
        \/ /\ Busy(t)
           /\ work' = [work EXCEPT ![t].pc = "dropped"]
           /\ UNCHANGED <<processing, current>>
        \/ /\ ~Busy(t)
           /\ processing' = processing \cup {KeyOf(t)}
           /\ work' = [work EXCEPT ![t] = [pc |-> "starting", by |-> w]]
           /\ current' = [current EXCEPT ![w] = t]

(* enqueue(): the attempts of a node one after the other.                  *)
Enqueued(t) == work[t].pc # "new" \/ t \in Waiting
Enqueue(t) ==
  /\ closed = "open" /\ ~Enqueued(t)
  /\ t[2] > 1 => Enqueued(<<t[1], t[2] - 1>>)
  /\ ProcessNext(Append(queue, t), handler)
  /\ UNCHANGED <<handler, timers, started, late, closed, bodies, stop, reports>>
Poll ==
  /\ timers > 0 /\ queue # <<>>
  /\ ProcessNext(queue, handler)
  /\ UNCHANGED <<handler, timers, started, late, closed, bodies, stop, reports>>

(* start(): consume() replaces the handler and sets another poll interval. *)
Start(w) ==
  /\ w \notin started
  /\ handler' = w /\ timers' = timers + 1 /\ started' = started \cup {w}
  /\ late' = (late \/ closed # "open")
  /\ ProcessNext(queue, w)
  /\ UNCHANGED <<closed, bodies, stop, reports>>

-----------------------------------------------------------------------------
(* _processTask.  ack() and nack() both forget the key, and nothing else.  *)
Forgets(t, pc) ==
  /\ work' = [work EXCEPT ![t].pc = pc]
  /\ processing' = processing \ {KeyOf(t)}
Leaves(t, pc) ==
  /\ work' = [work EXCEPT ![t].pc = pc]
  /\ current' = [current EXCEPT ![work[t].by] = None]

(* onNodeStart stands before the try: when it throws, the handler does.    *)
BodyBegins(t) == work' = [work EXCEPT ![t].pc = "body"] /\ bodies' = bodies \cup {t}
StartHookKeepsKey(t) ==
  /\ work[t].pc = "starting"
  /\ \/ BodyBegins(t)
     \/ work' = [work EXCEPT ![t].pc = "lost"] /\ UNCHANGED bodies
  /\ UNCHANGED <<queue, handler, timers, started, late, closed, processing, current, stop, reports>>
StartHook(t) ==
  /\ work[t].pc = "starting"
  /\ \/ BodyBegins(t) /\ UNCHANGED processing
     \/ Forgets(t, "lost") /\ UNCHANGED bodies
  /\ UNCHANGED <<queue, handler, timers, started, late, closed, current, stop, reports>>

(* The body ends or fails; or it times out, and nothing stops it.          *)
Body(t) ==
  /\ work[t].pc = "body"
  /\ \/ \E pc \in {"completing", "failing"} : Leaves(t, pc) /\ bodies' = bodies \ {t}
     \/ KeyOf(t) \in Timed /\ Leaves(t, "failing") /\ UNCHANGED bodies
  /\ UNCHANGED <<queue, handler, timers, started, late, closed, processing, stop, reports>>

(* A body that has timed out ends after all.                               *)
BodyEnds(t) ==
  /\ t \in bodies /\ work[t].pc # "body"
  /\ bodies' = bodies \ {t}
  /\ UNCHANGED <<queue, handler, timers, started, late, closed, processing, work, current, stop,
                 reports>>

(* onNodeComplete and onResult of a success: when one throws, the task is  *)
(* handled as a failure, also when the success has been reported.          *)
Completes(t) ==
  /\ work[t].pc = "completing"
  /\ \/ /\ reports' = [reports EXCEPT ![t] = @ + 1]
        /\ Forgets(t, "acked") /\ UNCHANGED current
     \/ /\ reports' = [reports EXCEPT ![t] = @ + 1]
        /\ Leaves(t, "failing") /\ UNCHANGED processing
     \/ /\ Leaves(t, "failing") /\ UNCHANGED <<processing, reports>>
  /\ UNCHANGED <<queue, handler, timers, started, late, closed, bodies, stop>>
Fails(t) ==
  /\ work[t].pc = "failing"
  /\ \/ /\ reports' = [reports EXCEPT ![t] = @ + 1]
        /\ Forgets(t, "acked") \/ Forgets(t, "lost")
     \/ Forgets(t, "lost") /\ UNCHANGED reports
  /\ UNCHANGED <<queue, handler, timers, started, late, closed, bodies, current, stop>>

TaskStep(t) == StartHook(t) \/ Body(t) \/ Completes(t) \/ Fails(t)

-----------------------------------------------------------------------------
(* stop() waits for currentTask; the handler stays with the queue.         *)
Stop(w) ==
  /\ w \in started /\ stop[w] = "no"
  /\ stop' = [stop EXCEPT ![w] = "waits"]
  /\ UNCHANGED <<queue, handler, timers, started, late, closed, processing, work, bodies, current,
                 reports>>
StopReturns(w) ==
  /\ stop[w] = "waits" /\ current[w] = None
  /\ stop' = [stop EXCEPT ![w] = "returned"]
  /\ UNCHANGED <<queue, handler, timers, started, late, closed, processing, work, bodies, current,
                 reports>>

(* close() clears the last of the intervals and waits for the keys.        *)
CloseKeepsPolling ==
  /\ closed = "open"
  /\ closed' = "closing"
  /\ UNCHANGED <<queue, handler, timers, started, late, processing, work, bodies, current,
                 stop, reports>>
Close ==
  /\ closed = "open"
  /\ closed' = "closing"
  /\ timers' = IF timers > 0 THEN timers - 1 ELSE 0
  /\ UNCHANGED <<queue, handler, started, late, processing, work, bodies, current,
                 stop, reports>>
CloseReturns ==
  /\ closed = "closing" /\ processing = {}
  /\ closed' = "closed"
  /\ UNCHANGED <<queue, handler, timers, started, late, processing, work, bodies, current,
                 stop, reports>>

GNext ==
  \/ Poll \/ Close \/ CloseReturns
  \/ \E t \in Tasks : Enqueue(t) \/ TaskStep(t) \/ BodyEnds(t)
  \/ \E w \in Workers : Start(w) \/ Stop(w) \/ StopReturns(w)
GSpec == GInit /\ [][GNext]_gvars

(* The intervals fire, and bodies and hooks settle.                        *)
GFairSpec ==
  GSpec /\ WF_gvars(Poll) /\ \A t \in Tasks : WF_gvars(TaskStep(t))

-----------------------------------------------------------------------------
(* Properties.                                                             *)

(* No two tasks of one node are processed at a time, and a key is held     *)
(* exactly as long as its task is, whichever way that ends.                *)
KeysExact ==
  /\ processing = {KeyOf(t) : t \in Active}
  /\ \A t, u \in Active : KeyOf(t) = KeyOf(u) => t = u

(* After close() has returned no task is processed any more, unless a      *)
(* worker is started after it was called.                                  *)
ClosedIsQuiet == closed = "closed" /\ ~late => Active = {}

(* As long as the queue is open, every task of a queue with a handler is   *)
(* taken, and every key that is being processed is freed.                  *)
QueueMoves ==
  /\ \A t \in Tasks : t \in Waiting /\ handler # None ~> t \notin Waiting \/ closed # "open"
  /\ \A k \in Keys : k \in processing ~> k \notin processing

(* No two attempts of a node run at a time, although the key of one that   *)
(* has timed out is free.                                                  *)
BodiesAlone == \A t, u \in bodies : KeyOf(t) = KeyOf(u) => t = u

(* "reports results": every task is reported once.                         *)
ReportedOnce == \A t \in Tasks : reports[t] <= 1

(* stop(): "Wait for current task to complete".                            *)
StopDrains ==
  \A w \in Workers : stop[w] = "returned" => \A t \in Active : work[t].by # w

(* stop() returns.                                                         *)
StopEnds == \A w \in Workers : stop[w] = "waits" ~> stop[w] = "returned"

(* nack(): "Re-enqueue with delay if specified".                           *)
NotLost == \A t \in Tasks : work[t].pc # "lost"
=============================================================================
