----------------------------- MODULE QueueProofs -----------------------------
(***************************************************************************)
(* Proofs about what callers, calls and tasks wait in: the controller and  *)
(* the semaphore for any number of callers and any limit, the task queue   *)
(* and its workers for any keys, attempts and workers.                     *)
(***************************************************************************)
EXTENDS Backpressure, Semaphore, GraphWork, SequenceTheorems, FiniteSetTheorems, TLAPS


-----------------------------------------------------------------------------
(* Queues of waiting callers, as BackpressureController and Semaphore keep *)
(* them: arrays of promise resolvers that callers join at the end and      *)
(* leave at the front, each caller at most once.                           *)

(* The queue q holds the members of S, each once.                          *)
Lists(q, S) ==
  /\ \A i, j \in DOMAIN q : q[i] = q[j] => i = j
  /\ \A c : c \in S <=> \E i \in DOMAIN q : q[i] = c

LEMMA ListsEmpty == Lists(<<>>, {})
  BY DEF Lists

(* The first of a queue leaves it.                                         *)
LEMMA ListsTail ==
  ASSUME NEW T, NEW q \in Seq(T), q # <<>>, NEW S, Lists(q, S)
  PROVE  /\ Head(q) \in T /\ Head(q) \in S
         /\ Tail(q) \in Seq(T)
         /\ Lists(Tail(q), S \ {Head(q)})
<1> DEFINE rest == Tail(q)
<1>1. Len(q) \in Nat /\ Len(q) > 0 /\ DOMAIN q = 1 .. Len(q) /\ Head(q) = q[1]
  OBVIOUS
<1>2. /\ Head(q) \in T
      /\ rest \in Seq(T)
      /\ Len(rest) = Len(q) - 1
      /\ \A i \in 1 .. Len(rest) : rest[i] = q[i + 1]
  BY HeadTailProperties
<1>3. DOMAIN rest = 1 .. Len(q) - 1 BY <1>2
<1>4. Head(q) \in S BY <1>1 DEF Lists
<1>5. ASSUME NEW i \in DOMAIN rest, NEW j \in DOMAIN rest, rest[i] = rest[j]
      PROVE  i = j
  <2>1. i + 1 \in DOMAIN q /\ j + 1 \in DOMAIN q BY <1>1, <1>3
  <2>2. q[i + 1] = q[j + 1] BY <1>2, <1>3, <1>5
  <2> QED BY <2>1, <2>2, <1>3 DEF Lists
<1>6. ASSUME NEW c
      PROVE  c \in S \ {Head(q)} <=> \E i \in DOMAIN rest : rest[i] = c
  <2>1. ASSUME NEW i \in DOMAIN rest, rest[i] = c
        PROVE  c \in S \ {Head(q)}
    <3>1. i + 1 \in DOMAIN q /\ 1 \in DOMAIN q /\ i + 1 # 1 BY <1>1, <1>3
    <3>2. q[i + 1] = c BY <1>2, <1>3, <2>1
    <3> QED BY <3>1, <3>2, <1>1 DEF Lists
  <2>2. ASSUME c \in S \ {Head(q)}
        PROVE  \E j \in DOMAIN rest : rest[j] = c
    <3>1. PICK i \in DOMAIN q : q[i] = c BY <2>2 DEF Lists
    <3>2. i # 1 BY <2>2, <3>1, <1>1
    <3>3. i - 1 \in DOMAIN rest BY <3>2, <1>1, <1>3
    <3>4. rest[i - 1] = q[(i - 1) + 1] BY <3>3, <1>2, <1>3
    <3>5. (i - 1) + 1 = i BY <1>1
    <3> QED BY <3>1, <3>3, <3>4, <3>5
  <2> QED BY <2>1, <2>2
<1> HIDE DEF rest
<1> QED BY <1>2, <1>4, <1>5, <1>6 DEF Lists, rest

(* A caller outside a queue joins it at the end.                           *)
LEMMA ListsAppend ==
  ASSUME NEW T, NEW q \in Seq(T), NEW S, Lists(q, S), NEW c \in T, c \notin S
  PROVE  Append(q, c) \in Seq(T) /\ Lists(Append(q, c), S \cup {c})
<1> DEFINE longer == Append(q, c)
<1>1. Len(q) \in Nat /\ DOMAIN q = 1 .. Len(q) OBVIOUS
<1>2. /\ longer \in Seq(T)
      /\ Len(longer) = Len(q) + 1
      /\ \A i \in 1 .. Len(q) : longer[i] = q[i]
      /\ longer[Len(q) + 1] = c
  BY AppendProperties
<1>3. DOMAIN longer = 1 .. Len(q) + 1 BY <1>2
<1>4. \A i \in DOMAIN q : q[i] # c BY DEF Lists
<1> HIDE DEF longer
<1>5. ASSUME NEW i \in DOMAIN longer, NEW j \in DOMAIN longer, longer[i] = longer[j]
      PROVE  i = j
  <2>1. \A k \in DOMAIN longer : k \in DOMAIN q \/ k = Len(q) + 1 BY <1>1, <1>3
  <2>2. CASE i \in DOMAIN q /\ j \in DOMAIN q
    BY <2>2, <1>1, <1>2, <1>5 DEF Lists
  <2>3. CASE i = Len(q) + 1 \/ j = Len(q) + 1
    BY <2>1, <2>3, <1>1, <1>2, <1>4, <1>5
  <2> QED BY <2>1, <2>2, <2>3
<1>6. \A d : (\E i \in DOMAIN longer : longer[i] = d) <=>
             d = c \/ \E i \in DOMAIN q : q[i] = d
  BY <1>1, <1>2, <1>3
<1> QED BY <1>2, <1>5, <1>6 DEF Lists, longer

-----------------------------------------------------------------------------
(* The task queue and its workers.                                         *)

PCs == {"new", "dropped", "lost", "acked"} \cup ActivePcs

GTypeOK ==
  /\ queue \in Seq(Tasks)
  /\ handler \in Workers \cup {None}
  /\ work \in [Tasks -> [pc : PCs, by : Workers \cup {None}]]

(* A task waits in the queue once, and not when it was taken before.       *)
WaitsOnce ==
  Lists(queue, Waiting) /\ \A t \in Waiting : work[t].pc = "new"

GInv == GTypeOK /\ WaitsOnce /\ KeysExact

LEMMA InitGInv == GInit => GInv
<1> SUFFICES ASSUME GInit PROVE GInv OBVIOUS
<1>1. GTypeOK BY DEF GInit, GTypeOK, PCs, ActivePcs
<1>2. Waiting = {} BY DEF GInit, Waiting, Range
<1>3. WaitsOnce BY <1>2, ListsEmpty DEF WaitsOnce, GInit
<1>4. Active = {} BY DEF GInit, Active, ActivePcs
<1> QED BY <1>1, <1>3, <1>4 DEF GInv, KeysExact, GInit

LEMMA ListedRange ==
  ASSUME NEW q, NEW S, Lists(q, S) PROVE S = Range(q)
BY DEF Lists, Range

(* _processNext takes the head off a queue q that holds the tasks of S.    *)
LEMMA ProcessNextKeeps ==
  ASSUME GInv, NEW q \in Seq(Tasks), NEW S \in SUBSET Tasks, Lists(q, S),
         \A t \in S : work[t].pc = "new",
         NEW w \in Workers \cup {None}, handler' \in Workers \cup {None}, ProcessNext(q, w)
  PROVE  GInv'
<1> USE DEF GInv
<1>1. CASE (w = None \/ q = <<>>) /\ UNCHANGED <<processing, work, current>> /\ queue' = q
  <2>1. Waiting' = S BY <1>1, ListedRange DEF Waiting
  <2> QED BY <1>1, <2>1 DEF GTypeOK, WaitsOnce, KeysExact, Active
<1>2. CASE w # None /\ q # <<>> /\ queue' = Tail(q)
  <2> DEFINE t == Head(q)
  <2>1. /\ t \in Tasks /\ t \in S /\ queue' \in Seq(Tasks)
        /\ Lists(queue', S \ {t})
    BY <1>2, ListsTail
  <2>2. Waiting' = S \ {t} BY <2>1, ListedRange DEF Waiting
  <2>3. t \notin Active BY <2>1 DEF Active, ActivePcs
  <2> HIDE DEF t
  <2>4. CASE Busy(t) /\ work' = [work EXCEPT ![t].pc = "dropped"] /\ UNCHANGED processing
    <3>1. GTypeOK' BY <2>1, <2>4 DEF GTypeOK, PCs
    <3>2. /\ work'[t].pc = "dropped"
          /\ \A u \in Tasks \ {t} : work'[u] = work[u]
      BY <2>1, <2>4 DEF GTypeOK
    <3>3. Active' = Active BY <2>3, <3>2 DEF Active, ActivePcs
    <3>4. KeysExact' BY <3>3, <2>4 DEF KeysExact
    <3> QED BY <2>1, <2>2, <3>1, <3>2, <3>4 DEF WaitsOnce
  <2>5. CASE /\ ~Busy(t) /\ processing' = processing \cup {KeyOf(t)}
             /\ work' = [work EXCEPT ![t] = [pc |-> "starting", by |-> w]]
    <3>1. GTypeOK' BY <2>1, <2>5 DEF GTypeOK, PCs, ActivePcs
    <3>2. /\ work'[t].pc = "starting"
          /\ \A u \in Tasks \ {t} : work'[u] = work[u]
      BY <2>1, <2>5 DEF GTypeOK
    <3>3. Active' = Active \cup {t} BY <2>1, <3>2 DEF Active, ActivePcs
    <3>4. \A u \in Active : KeyOf(u) # KeyOf(t) BY <2>5 DEF Busy, KeysExact
    <3>5. KeysExact' BY <2>5, <3>3, <3>4 DEF KeysExact
    <3> QED BY <2>1, <2>2, <3>1, <3>2, <3>5 DEF WaitsOnce
  <2> QED BY <1>2, <2>4, <2>5 DEF ProcessNext, t
<1> QED BY <1>1, <1>2 DEF ProcessNext

LEMMA QueueKeeps ==
  ASSUME GInv, \/ Poll
               \/ \E t \in Tasks : Enqueue(t)
               \/ \E w \in Workers : Start(w)
  PROVE  GInv'
<1> USE DEF GInv
<1>1. Waiting \subseteq Tasks BY DEF GTypeOK, Waiting, Range
<1>2. CASE Poll
  BY <1>1, <1>2, ProcessNextKeeps DEF Poll, GTypeOK, WaitsOnce
<1>3. ASSUME NEW t \in Tasks, Enqueue(t) PROVE GInv'
  <2>1. t \notin Waiting /\ work[t].pc = "new" BY <1>3 DEF Enqueue, Enqueued
  <2>2. Append(queue, t) \in Seq(Tasks) /\ Lists(Append(queue, t), Waiting \cup {t})
    BY <2>1, ListsAppend DEF GTypeOK, WaitsOnce
  <2>3. \A u \in Waiting \cup {t} : work[u].pc = "new" BY <2>1 DEF WaitsOnce
  <2>4. Waiting \cup {t} \in SUBSET Tasks BY <1>1
  <2>5. handler \in Workers \cup {None} /\ handler' = handler
        /\ ProcessNext(Append(queue, t), handler)
    BY <1>3 DEF Enqueue, GTypeOK
  <2> QED BY <2>2, <2>3, <2>4, <2>5, ProcessNextKeeps
<1>4. ASSUME NEW w \in Workers, Start(w) PROVE GInv'
  BY <1>1, <1>4, ProcessNextKeeps DEF Start, GTypeOK, WaitsOnce
<1> QED BY <1>2, <1>3, <1>4

(* A task that ends gives its key back; one that goes on keeps it.         *)
LEMMA TaskKeeps == ASSUME GInv, NEW t \in Tasks, TaskStep(t) PROVE GInv'
<1> USE DEF GInv
<1>1. t \in Active
  BY DEF TaskStep, StartHook, Body, Completes, Fails, Active, ActivePcs
<1> DEFINE Goes(to) ==
      /\ work' = [work EXCEPT ![t].pc = to]
      /\ processing' = IF to \in ActivePcs THEN processing ELSE processing \ {KeyOf(t)}
<1>2. PICK to \in PCs \ {"new"} : Goes(to)
  <2>1. ASSUME NEW to \in ActivePcs, work' = [work EXCEPT ![t].pc = to], UNCHANGED processing
        PROVE  Goes(to) /\ to \in PCs \ {"new"}
    BY <2>1 DEF PCs, ActivePcs
  <2>2. ASSUME NEW to \in {"lost", "acked"}, Forgets(t, to)
        PROVE  Goes(to) /\ to \in PCs \ {"new"}
    <3>1. to \notin ActivePcs BY DEF ActivePcs
    <3> QED BY <2>2, <3>1 DEF Forgets, PCs
  <2>3. {"body", "completing", "failing"} \subseteq ActivePcs BY DEF ActivePcs
  <2> HIDE DEF Goes
  <2>4. CASE StartHook(t) BY <2>1, <2>2, <2>3, <2>4 DEF StartHook, BodyBegins
  <2>5. CASE Body(t) BY <2>1, <2>3, <2>5 DEF Body, Leaves
  <2>6. CASE Completes(t) BY <2>1, <2>2, <2>3, <2>6 DEF Completes, Leaves
  <2>7. CASE Fails(t) BY <2>2, <2>7 DEF Fails
  <2> QED BY <2>4, <2>5, <2>6, <2>7 DEF TaskStep
<1>3. UNCHANGED <<queue, handler>>
  BY DEF TaskStep, StartHook, Body, Completes, Fails
<1>4. GTypeOK' BY <1>2, <1>3 DEF GTypeOK
<1>5. work'[t].pc = to /\ \A u \in Tasks \ {t} : work'[u] = work[u]
  BY <1>2 DEF GTypeOK
<1>6. t \notin Waiting BY <1>1 DEF WaitsOnce, Active, ActivePcs
<1>7. WaitsOnce' BY <1>3, <1>5, <1>6 DEF WaitsOnce, Waiting, GTypeOK, Range
<1>8. Active' = IF to \in ActivePcs THEN Active ELSE Active \ {t}
  BY <1>1, <1>5 DEF Active
<1>9. KeysExact' BY <1>1, <1>2, <1>8 DEF KeysExact
<1> QED BY <1>4, <1>7, <1>9

LEMMA StepGInv == ASSUME GInv, [GNext]_gvars PROVE GInv'
<1>1. CASE \/ UNCHANGED gvars \/ Close \/ CloseReturns
           \/ \E t \in Tasks : BodyEnds(t)
           \/ \E w \in Workers : Stop(w) \/ StopReturns(w)
  <2>1. UNCHANGED <<queue, handler, work, processing>>
    BY <1>1 DEF gvars, BodyEnds, Close, CloseReturns, Stop, StopReturns
  <2> QED BY <2>1 DEF GInv, GTypeOK, WaitsOnce, Waiting, KeysExact, Active
<1> QED BY <1>1, QueueKeeps, TaskKeeps DEF GNext

LEMMA AlwaysGInv == GSpec => []GInv
<1>1. GInv /\ [GNext]_gvars => GInv' BY StepGInv
<1> QED BY <1>1, InitGInv, PTL DEF GSpec

(* _processNext never lets two tasks of one node be processed at a time,   *)
(* and a key is given back whichever way its task ends.                    *)
THEOREM KeysAreExact == GSpec => []KeysExact
<1>1. GInv => KeysExact BY DEF GInv
<1> QED BY <1>1, AlwaysGInv, PTL

-----------------------------------------------------------------------------
(* close(), with one worker: its interval is the one that is cleared, so   *)
(* that nothing takes a task any more.                                     *)
NoTimerLeft ==
  /\ timers \in 0 .. 1 /\ started \subseteq Workers /\ late \in BOOLEAN
  /\ timers = 1 => started # {}
  /\ closed # "open" /\ ~late => timers = 0

QuietInv == NoTimerLeft /\ ClosedIsQuiet

(* With one worker, no task is processed any more when close() has         *)
(* returned.                                                               *)
THEOREM CloseQuiets ==
  (\A v, w \in Workers : v = w) => (GSpec => []ClosedIsQuiet)
<1> SUFFICES ASSUME \A v, w \in Workers : v = w PROVE GSpec => []ClosedIsQuiet
  OBVIOUS
<1>1. GInit => QuietInv
  <2> SUFFICES ASSUME GInit PROVE QuietInv OBVIOUS
  <2>1. timers = 0 /\ started = {} /\ late = FALSE /\ closed = "open" BY DEF GInit
  <2>2. timers \in 0 .. 1 /\ started \subseteq Workers /\ timers # 1 BY <2>1
  <2>3. late \in BOOLEAN /\ closed = "open" BY <2>1, Zenon
  <2> QED BY <2>2, <2>3 DEF QuietInv, NoTimerLeft, ClosedIsQuiet
<1>2. ASSUME GInv, QuietInv, [GNext]_gvars PROVE QuietInv'
  <2> USE DEF QuietInv
  <2>1. CASE UNCHANGED gvars
    BY <1>2, <2>1 DEF gvars, NoTimerLeft, ClosedIsQuiet, Active
  <2>2. CASE Poll
    BY <1>2, <2>2 DEF Poll, NoTimerLeft, ClosedIsQuiet
  <2>3. CASE \E t \in Tasks : Enqueue(t)
    BY <1>2, <2>3 DEF Enqueue, NoTimerLeft, ClosedIsQuiet
  <2>4. ASSUME NEW w \in Workers, Start(w) PROVE QuietInv'
    <3>1. started = {} /\ timers = 0 BY <1>2, <2>4 DEF Start, NoTimerLeft
    <3>2. timers' = 1 /\ started' = {w} BY <2>4, <3>1 DEF Start
    <3>3. closed' = closed /\ late' \in BOOLEAN /\ (closed # "open" => late')
      BY <1>2, <2>4 DEF Start, NoTimerLeft
    <3> QED BY <3>2, <3>3 DEF NoTimerLeft, ClosedIsQuiet
  <2>5. ASSUME NEW t \in Tasks, TaskStep(t) PROVE QuietInv'
    <3>1. UNCHANGED <<timers, started, late, closed>>
      BY <2>5 DEF TaskStep, StartHook, Body, Completes, Fails
    <3>2. t \in Active
      BY <2>5 DEF TaskStep, StartHook, Body, Completes, Fails, Active, ActivePcs
    <3> QED BY <1>2, <3>1, <3>2 DEF NoTimerLeft, ClosedIsQuiet
  <2>6. CASE Close BY <1>2, <2>6 DEF Close, NoTimerLeft, ClosedIsQuiet
  <2>7. CASE CloseReturns
    BY <1>2, <2>7 DEF CloseReturns, NoTimerLeft, ClosedIsQuiet, GInv, KeysExact, Active
  <2>8. CASE \E w \in Workers : Stop(w) \/ StopReturns(w)
    BY <1>2, <2>8 DEF Stop, StopReturns, NoTimerLeft, ClosedIsQuiet, Active
  <2>9. CASE \E t \in Tasks : BodyEnds(t)
    BY <1>2, <2>9 DEF BodyEnds, NoTimerLeft, ClosedIsQuiet, Active
  <2> QED BY <1>2, <2>1, <2>2, <2>3, <2>4, <2>5, <2>6, <2>7, <2>8, <2>9 DEF GNext
<1>3. QuietInv => ClosedIsQuiet BY DEF QuietInv
<1> QED BY <1>1, <1>2, <1>3, AlwaysGInv, PTL DEF GSpec

-----------------------------------------------------------------------------
(* BackpressureController: the getter inflight is exact, no slot idles     *)
(* while a caller waits, and the controller implements BoundedPool.        *)

USE BackpressureAssumption

Parked == {c \in Callers : pc[c] = "waiting"}

(* The queue holds exactly the waiting callers, each once.  Without it a   *)
(* release could hand the slot to a caller that already has one.           *)
QueueExact == Lists(waiters, Parked)

BInv == BTypeOK /\ InflightExact /\ NoIdleSlot /\ QueueExact

(* The pool counts as the controller does.                                 *)
LEMMA SameCount == ASSUME NEW S PROVE Pool!Cardinality(S) = Cardinality(S)
  BY DEF Pool!Cardinality, Cardinality

LEMMA HoldingFinite == IsFiniteSet(Holding) /\ Cardinality(Holding) \in Nat
  BY FS_Subset, FS_CardinalityType DEF Holding

-----------------------------------------------------------------------------
LEMMA InitBInv == BInit => BInv
<1> SUFFICES ASSUME BInit PROVE BInv OBVIOUS
<1>1. BTypeOK BY DEF BInit, BTypeOK
<1>2. Holding = {} BY DEF BInit, Holding
<1>3. InflightExact BY <1>2, FS_EmptySet DEF InflightExact, BInit
<1>4. NoIdleSlot BY DEF BInit, NoIdleSlot
<1>5. Parked = {} BY DEF BInit, Parked
<1>6. QueueExact BY <1>5, ListsEmpty DEF BInit, QueueExact
<1> QED BY <1>1, <1>3, <1>4, <1>6 DEF BInv

(* What each operation does to the set of slot holders and to the queue.   *)
LEMMA AcquireEffect ==
  ASSUME BInv, NEW c \in Callers, Acquire(c)
  PROVE  BInv' /\ Pool!PoolNext
<1> USE DEF BInv
<1>1. pc \in [Callers -> {"idle", "waiting", "granted", "running"}] /\ pc[c] = "idle"
  BY DEF BTypeOK, Acquire
<1>2. c \notin Holding BY <1>1 DEF Holding
<1>3. c \notin Parked /\ ~\E i \in DOMAIN waiters : waiters[i] = c
  BY <1>1 DEF QueueExact, Parked, Lists
<1>4. c \notin Pool!Waiting BY <1>3 DEF Pool!Waiting
<1>5. CASE /\ available > 0
           /\ available' = available - 1
           /\ pc' = [pc EXCEPT ![c] = "granted"]
           /\ UNCHANGED waiters
  <2>1. Holding' = Holding \cup {c} BY <1>1, <1>5 DEF Holding
  <2>2. Cardinality(Holding') = Cardinality(Holding) + 1
    BY <2>1, <1>2, HoldingFinite, FS_AddElement
  <2>3. BTypeOK' BY <1>1, <1>5 DEF BTypeOK
  <2>4. InflightExact' BY <2>2, <1>5, HoldingFinite DEF InflightExact, BTypeOK
  <2>5. NoIdleSlot' BY <1>5 DEF NoIdleSlot, BTypeOK
  <2>6. Parked' = Parked BY <1>1, <1>5 DEF Parked
  <2>7. Cardinality(Holding) < MaxConcurrency
    BY <1>5, HoldingFinite DEF InflightExact, BTypeOK
  <2>8. Pool!Enter(c) BY <2>1, <2>7, <1>2, <1>4, <1>5, SameCount DEF Pool!Enter
  <2> QED BY <2>3, <2>4, <2>5, <2>6, <2>8, <1>5 DEF Pool!PoolNext, QueueExact
<1>6. CASE /\ available = 0
           /\ waiters' = Append(waiters, c)
           /\ pc' = [pc EXCEPT ![c] = "waiting"]
           /\ UNCHANGED available
  <2>1. Holding' = Holding BY <1>1, <1>6 DEF Holding
  <2>2. /\ waiters' \in Seq(Callers)
        /\ Lists(waiters', Parked \cup {c})
    BY <1>3, <1>6, ListsAppend DEF QueueExact, BTypeOK
  <2>3. InflightExact' BY <2>1, <1>6 DEF InflightExact
  <2>4. NoIdleSlot' BY <1>6 DEF NoIdleSlot
  <2>5. Parked' = Parked \cup {c} BY <1>1, <1>6 DEF Parked
  <2>6. Cardinality(Holding) = MaxConcurrency BY <1>6 DEF InflightExact
  <2>7. Pool!Queue(c) BY <2>1, <2>6, <1>2, <1>4, <1>6, SameCount DEF Pool!Queue
  <2>8. BTypeOK' BY <1>1, <1>6, <2>2 DEF BTypeOK
  <2> QED BY <2>2, <2>3, <2>4, <2>5, <2>7, <2>8 DEF Pool!PoolNext, QueueExact
<1> QED BY <1>5, <1>6 DEF Acquire

LEMMA ContinueEffect ==
  ASSUME BInv, NEW c \in Callers, Continue(c)
  PROVE  BInv' /\ UNCHANGED <<Holding, waiters>>
<1> USE DEF BInv
<1>1. Holding' = Holding /\ UNCHANGED <<available, waiters>>
  BY DEF Continue, Holding, BTypeOK
<1>2. BTypeOK' BY DEF Continue, BTypeOK
<1>3. InflightExact' /\ NoIdleSlot' BY <1>1 DEF InflightExact, NoIdleSlot
<1>4. Parked' = Parked BY DEF Continue, Parked, BTypeOK
<1> QED BY <1>1, <1>2, <1>3, <1>4 DEF QueueExact

LEMMA ReleaseEffect ==
  ASSUME BInv, NEW c \in Callers, Release(c)
  PROVE  BInv' /\ Pool!PoolNext
<1> USE DEF BInv
<1>1. pc \in [Callers -> {"idle", "waiting", "granted", "running"}] /\ pc[c] = "running"
  BY DEF BTypeOK, Release
<1>2. c \in Holding BY <1>1 DEF Holding
<1>3. IsFiniteSet(Holding \ {c}) /\ Cardinality(Holding \ {c}) = Cardinality(Holding) - 1
  BY <1>2, HoldingFinite, FS_RemoveElement
<1>4. CASE /\ waiters # <<>>
           /\ pc' = [pc EXCEPT ![c] = "idle", ![Head(waiters)] = "granted"]
           /\ waiters' = Tail(waiters)
           /\ UNCHANGED available
  <2> DEFINE w == Head(waiters)
  <2>0. /\ w \in Callers /\ w \in Parked
        /\ waiters' \in Seq(Callers)
        /\ Lists(waiters', Parked \ {w})
    BY <1>4, ListsTail DEF QueueExact, BTypeOK
  <2>1. pc[w] = "waiting" /\ w # c BY <1>1, <2>0 DEF Parked
  <2>2. \A d \in Callers :
          pc'[d] = IF d = w THEN "granted" ELSE IF d = c THEN "idle" ELSE pc[d]
    BY <1>1, <1>4, <2>0, <2>1
  <2>3. w \notin Holding BY <2>1 DEF Holding
  <2>4. Holding' = (Holding \ {c}) \cup {w} BY <2>0, <2>1, <2>2 DEF Holding
  <2>5. Cardinality(Holding') = Cardinality(Holding)
    <3> HIDE DEF w
    <3>1. w \notin Holding \ {c} BY <2>3
    <3>2. Cardinality((Holding \ {c}) \cup {w}) = Cardinality(Holding \ {c}) + 1
      BY <3>1, <1>3, FS_AddElement
    <3> QED BY <3>2, <2>4, <1>3, HoldingFinite
  <2>6. BTypeOK' BY <1>1, <1>4, <2>0 DEF BTypeOK
  <2>7. InflightExact' BY <2>5, <1>4 DEF InflightExact
  <2>8. NoIdleSlot' BY <1>4 DEF NoIdleSlot
  <2>9. Parked' = Parked \ {w}
    <3> HIDE DEF w
    <3> QED BY <1>1, <2>1, <2>2 DEF Parked
  <2>10. Pool!Leave(c) BY <2>4, <1>2, <1>4 DEF Pool!Leave
  <2> QED BY <2>0, <2>6, <2>7, <2>8, <2>9, <2>10 DEF Pool!PoolNext, QueueExact
<1>5. CASE /\ waiters = <<>>
           /\ available' = IF available < MaxConcurrency THEN available + 1
                                                         ELSE MaxConcurrency
           /\ pc' = [pc EXCEPT ![c] = "idle"]
           /\ UNCHANGED waiters
  <2>1. Holding' = Holding \ {c} BY <1>1, <1>5 DEF Holding
  <2>2. available < MaxConcurrency
    BY <1>3, <1>2, HoldingFinite, FS_CardinalityType DEF InflightExact, BTypeOK
  <2>3. BTypeOK' BY <1>1, <1>5, <2>2 DEF BTypeOK
  <2>4. InflightExact' BY <2>1, <2>2, <1>3, <1>5, HoldingFinite DEF InflightExact, BTypeOK
  <2>5. NoIdleSlot' BY <1>5 DEF NoIdleSlot
  <2>6. Parked' = Parked BY <1>1, <1>5 DEF Parked
  <2>7. Pool!Leave(c) BY <2>1, <1>2, <1>5 DEF Pool!Leave
  <2> QED BY <2>3, <2>4, <2>5, <2>6, <2>7, <1>5 DEF Pool!PoolNext, QueueExact
<1> QED BY <1>4, <1>5 DEF Release

LEMMA StepBInv == BInv /\ [BNext]_bvars => BInv' /\ [Pool!PoolNext]_<<Holding, waiters>>
<1> SUFFICES ASSUME BInv, [BNext]_bvars
             PROVE  BInv' /\ [Pool!PoolNext]_<<Holding, waiters>>
  OBVIOUS
<1>1. ASSUME NEW c \in Callers, Acquire(c)
      PROVE  BInv' /\ [Pool!PoolNext]_<<Holding, waiters>>
  BY <1>1, AcquireEffect
<1>2. ASSUME NEW c \in Callers, Continue(c)
      PROVE  BInv' /\ [Pool!PoolNext]_<<Holding, waiters>>
  BY <1>2, ContinueEffect
<1>3. ASSUME NEW c \in Callers, Release(c)
      PROVE  BInv' /\ [Pool!PoolNext]_<<Holding, waiters>>
  BY <1>3, ReleaseEffect
<1>4. CASE UNCHANGED bvars
  BY <1>4 DEF bvars, BInv, BTypeOK, InflightExact, NoIdleSlot, QueueExact, Parked, Holding
<1> QED BY <1>1, <1>2, <1>3, <1>4 DEF BNext

-----------------------------------------------------------------------------
LEMMA AlwaysBInv == BSpec => []BInv
<1> QED BY InitBInv, StepBInv, PTL DEF BSpec

(* The getter inflight of BackpressureController counts exactly the        *)
(* callers that hold a slot.                                               *)
THEOREM InflightIsExact == BSpec => []InflightExact
<1>1. BInv => InflightExact BY DEF BInv
<1> QED BY <1>1, AlwaysBInv, PTL

(* release() never leaves a slot free while a caller of acquire() waits.   *)
THEOREM SlotsNeverIdle == BSpec => []NoIdleSlot
<1>1. BInv => NoIdleSlot BY DEF BInv
<1> QED BY <1>1, AlwaysBInv, PTL

(* BackpressureController implements the bounded pool: at most             *)
(* maxConcurrency holders, queueing only when full, first come first       *)
(* served.                                                                 *)
THEOREM ImplementsPool == BSpec => PoolSpec
<1>1. BInit => Pool!PoolInit BY DEF BInit, Pool!PoolInit, Holding
<1>2. BInv /\ [BNext]_bvars => [Pool!PoolNext]_Pool!pvars
  BY StepBInv DEF Pool!pvars
<1> QED BY <1>1, <1>2, AlwaysBInv, PTL DEF BSpec, PoolSpec, Pool!PoolSpec

(* At most maxConcurrency callers of acquire() hold a slot.                *)
THEOREM WithinLimit == BSpec => []Pool!WithinCapacity
<1>1. BInv => Pool!WithinCapacity
  BY HoldingFinite, SameCount DEF BInv, BTypeOK, InflightExact, Pool!WithinCapacity
<1> QED BY <1>1, AlwaysBInv, PTL

(* The three facts together, as the runs check them.                       *)
THEOREM SlotsAreSound == BSpec => []SlotsSound
<1>1. BInv => SlotsSound BY DEF BInv, SlotsSound
<1> QED BY <1>1, AlwaysBInv, PTL

-----------------------------------------------------------------------------
(* Semaphore and ConcurrencyLimiter.                                       *)

USE SemaphoreAssumption

(* The semaphore's array holds exactly the waiting tasks, each once.       *)
ArrayExact == Lists(waiting, At({"waiting"}))

SInv == STypeOK /\ PermitsExact /\ WorkConserving /\ AdmissionExact /\ ArrayExact

Admitted == {"waiting", "woken", "running", "leaving"}

LEMMA AtFinite ==
  ASSUME NEW S PROVE IsFiniteSet(At(S)) /\ Cardinality(At(S)) \in Nat
  BY FS_Subset, FS_CardinalityType DEF At

(* A task that enters or leaves a set of places changes its count by one,  *)
(* and one that stays in or out of it leaves the set as it is.             *)
LEMMA Enters ==
  ASSUME NEW S, NEW t \in Runs, NEW to \in S, runPc[t] \notin S,
         runPc \in [Runs -> TaskPC], runPc' = [runPc EXCEPT ![t] = to]
  PROVE  Cardinality(At(S)') = Cardinality(At(S)) + 1
<1>1. \A u \in Runs : runPc'[u] = IF u = t THEN to ELSE runPc[u] OBVIOUS
<1>2. At(S)' = At(S) \cup {t} BY <1>1 DEF At
<1>3. t \notin At(S) BY DEF At
<1>4. IsFiniteSet(At(S)) BY AtFinite
<1>5. Cardinality(At(S) \cup {t}) = Cardinality(At(S)) + 1 BY <1>3, <1>4, FS_AddElement
<1> QED BY <1>2, <1>5

LEMMA Exits ==
  ASSUME NEW S, NEW t \in Runs, NEW to, to \notin S, runPc[t] \in S,
         runPc \in [Runs -> TaskPC], runPc' = [runPc EXCEPT ![t] = to]
  PROVE  Cardinality(At(S)') = Cardinality(At(S)) - 1
<1>1. \A u \in Runs : runPc'[u] = IF u = t THEN to ELSE runPc[u] OBVIOUS
<1>2. At(S)' = At(S) \ {t} BY <1>1 DEF At
<1>3. t \in At(S) BY DEF At
<1>4. IsFiniteSet(At(S)) BY AtFinite
<1>5. Cardinality(At(S) \ {t}) = Cardinality(At(S)) - 1 BY <1>3, <1>4, FS_RemoveElement
<1> QED BY <1>2, <1>5

LEMMA Stays ==
  ASSUME NEW S, NEW t \in Runs, NEW to, runPc[t] \in S <=> to \in S,
         runPc \in [Runs -> TaskPC], runPc' = [runPc EXCEPT ![t] = to]
  PROVE  At(S)' = At(S)
  BY DEF At

LEMMA InitSInv == SInit => SInv
<1> SUFFICES ASSUME SInit PROVE SInv OBVIOUS
<1>1. STypeOK BY DEF SInit, STypeOK, TaskPC
<1>2. At({"running"}) = {} /\ At({"waiting"}) = {} /\ At(Admitted) = {}
  BY DEF SInit, At, Admitted
<1>3. PermitsExact /\ AdmissionExact
  <2>1. Cardinality(At({"running"})) = 0 /\ Cardinality(At(Admitted)) = 0
    BY <1>2, FS_EmptySet
  <2> QED BY <2>1 DEF SInit, PermitsExact, AdmissionExact, Admitted
<1>4. WorkConserving BY DEF SInit, WorkConserving
<1>5. ArrayExact BY <1>2, ListsEmpty DEF SInit, ArrayExact
<1> QED BY <1>1, <1>3, <1>4, <1>5 DEF SInv

LEMMA RunKeeps == ASSUME SInv, NEW t \in Runs, Run(t) PROVE SInv'
<1> USE DEF SInv
<1>1. runPc \in [Runs -> TaskPC] /\ runPc[t] = "idle" /\ queued' = queued + 1
      /\ queued < QueueLimit /\ queued \in Nat /\ active \in Nat
      /\ waiting \in Seq(Runs)
  BY DEF STypeOK, Run
<1>2. CASE active < Limit /\ active' = active + 1
           /\ runPc' = [runPc EXCEPT ![t] = "running"] /\ UNCHANGED waiting
  <2>1. STypeOK' BY <1>1, <1>2 DEF STypeOK, TaskPC
  <2>2. Cardinality(At({"running"})') = Cardinality(At({"running"})) + 1
    BY <1>1, <1>2, Enters
  <2>3. PermitsExact' BY <2>2, <1>2 DEF PermitsExact
  <2>4. Cardinality(At({"woken", "running"})') = Cardinality(At({"woken", "running"})) + 1
    BY <1>1, <1>2, Enters
  <2>5. WorkConserving' BY <2>4, <1>2, AtFinite DEF WorkConserving
  <2>6. Cardinality(At(Admitted)') = Cardinality(At(Admitted)) + 1
    BY <1>1, <1>2, Enters DEF Admitted
  <2>7. AdmissionExact' BY <2>6, <1>1 DEF AdmissionExact, Admitted
  <2>8. At({"waiting"})' = At({"waiting"}) BY <1>1, <1>2, Stays
  <2> QED BY <2>1, <2>3, <2>5, <2>7, <2>8, <1>2 DEF ArrayExact
<1>3. CASE active >= Limit /\ waiting' = Append(waiting, t)
           /\ runPc' = [runPc EXCEPT ![t] = "waiting"] /\ UNCHANGED active
  <2>1. t \notin At({"waiting"}) BY <1>1 DEF At
  <2>2. waiting' \in Seq(Runs) /\ Lists(waiting', At({"waiting"}) \cup {t})
    BY <2>1, <1>1, <1>3, ListsAppend DEF ArrayExact
  <2>3. At({"waiting"})' = At({"waiting"}) \cup {t} BY <1>1, <1>3 DEF At
  <2>4. STypeOK' BY <2>2, <1>1, <1>3 DEF STypeOK, TaskPC
  <2>5. At({"running"})' = At({"running"}) BY <1>1, <1>3, Stays
  <2>6. PermitsExact' BY <2>5, <1>3 DEF PermitsExact
  <2>7. At({"woken", "running"})' = At({"woken", "running"}) BY <1>1, <1>3, Stays
  <2>8. Cardinality(At({"woken", "running"})) >= Limit
    <3>1. At({"running"}) \subseteq At({"woken", "running"}) BY DEF At
    <3>2. Cardinality(At({"running"})) <= Cardinality(At({"woken", "running"}))
      BY <3>1, AtFinite, FS_Subset
    <3> QED BY <3>2, <1>3, AtFinite DEF PermitsExact
  <2>9. WorkConserving' BY <2>7, <2>8 DEF WorkConserving
  <2>10. Cardinality(At(Admitted)') = Cardinality(At(Admitted)) + 1
    BY <1>1, <1>3, Enters DEF Admitted
  <2>11. AdmissionExact' BY <2>10, <1>1 DEF AdmissionExact, Admitted
  <2> QED BY <2>2, <2>3, <2>4, <2>6, <2>9, <2>11 DEF ArrayExact
<1> QED BY <1>2, <1>3 DEF Run

LEMMA WakesKeeps == ASSUME SInv, NEW t \in Runs, Wakes(t) PROVE SInv'
<1> USE DEF SInv
<1>1. runPc \in [Runs -> TaskPC] /\ runPc[t] = "woken" /\ runPc' = [runPc EXCEPT ![t] = "running"]
      /\ active \in Nat /\ active' = active + 1 /\ UNCHANGED <<waiting, queued>>
  BY DEF STypeOK, Wakes
<1>2. STypeOK' BY <1>1 DEF STypeOK, TaskPC
<1>3. Cardinality(At({"running"})') = Cardinality(At({"running"})) + 1 BY <1>1, Enters
<1>4. PermitsExact' BY <1>1, <1>3 DEF PermitsExact
<1>5. At({"woken", "running"})' = At({"woken", "running"}) BY <1>1, Stays
<1>6. WorkConserving' BY <1>1, <1>5 DEF WorkConserving
<1>7. At(Admitted)' = At(Admitted) BY <1>1, Stays DEF Admitted
<1>8. AdmissionExact' BY <1>1, <1>7 DEF AdmissionExact, Admitted
<1>9. At({"waiting"})' = At({"waiting"}) BY <1>1, Stays
<1> QED BY <1>1, <1>2, <1>4, <1>6, <1>8, <1>9 DEF ArrayExact

LEMMA SettlesKeeps == ASSUME SInv, NEW t \in Runs, Settles(t) PROVE SInv'
<1> USE DEF SInv
<1> DEFINE busy == {"woken", "running"}
<1>1. runPc \in [Runs -> TaskPC] /\ runPc[t] = "running" /\ active \in Nat
      /\ active' = Minus1(active) /\ UNCHANGED queued /\ waiting \in Seq(Runs)
      /\ queued \in Nat
  BY DEF STypeOK, Settles
<1>2. active > 0 /\ active' = active - 1
  <2>1. At({"running"}) # {} BY <1>1 DEF At
  <2>2. Cardinality(At({"running"})) # 0 BY <2>1, AtFinite, FS_EmptySet
  <2> QED BY <2>2, <1>1, AtFinite DEF PermitsExact, Minus1
<1>3. CASE waiting = <<>> /\ runPc' = [runPc EXCEPT ![t] = "leaving"] /\ UNCHANGED waiting
  <2>1. STypeOK' BY <1>1, <1>2, <1>3 DEF STypeOK, TaskPC
  <2>2. Cardinality(At({"running"})') = Cardinality(At({"running"})) - 1
    BY <1>1, <1>3, Exits
  <2>3. PermitsExact' BY <2>2, <1>2 DEF PermitsExact
  <2>4. WorkConserving' BY <1>3 DEF WorkConserving
  <2>5. At(Admitted)' = At(Admitted) BY <1>1, <1>3, Stays DEF Admitted
  <2>6. AdmissionExact' BY <1>1, <2>5 DEF AdmissionExact, Admitted
  <2>7. At({"waiting"})' = At({"waiting"}) BY <1>1, <1>3, Stays
  <2> QED BY <2>1, <2>3, <2>4, <2>6, <2>7, <1>3 DEF ArrayExact
<1>4. CASE /\ waiting # <<>>
           /\ runPc' = [runPc EXCEPT ![t] = "leaving", ![Head(waiting)] = "woken"]
           /\ waiting' = Tail(waiting)
  <2> DEFINE w == Head(waiting)
  <2>1. /\ w \in Runs /\ w \in At({"waiting"})
        /\ waiting' \in Seq(Runs)
        /\ Lists(waiting', At({"waiting"}) \ {w})
    BY <1>1, <1>4, ListsTail DEF ArrayExact
  <2>2. runPc[w] = "waiting" /\ w # t BY <2>1, <1>1 DEF At
  <2>3. \A u \in Runs :
          runPc'[u] = IF u = w THEN "woken" ELSE IF u = t THEN "leaving" ELSE runPc[u]
    BY <1>1, <1>4, <2>1, <2>2
  <2>4. STypeOK' BY <1>1, <1>2, <1>4, <2>1 DEF STypeOK, TaskPC
  <2> HIDE DEF w
  <2>5. At({"waiting"})' = At({"waiting"}) \ {w} BY <1>1, <2>2, <2>3 DEF At
  <2>6. At({"running"})' = At({"running"}) \ {t} BY <1>1, <2>2, <2>3 DEF At
  <2>7. t \in At({"running"}) BY <1>1 DEF At
  <2>8. Cardinality(At({"running"})') = Cardinality(At({"running"})) - 1
    BY <2>6, <2>7, AtFinite, FS_RemoveElement
  <2>9. PermitsExact' BY <2>8, <1>2 DEF PermitsExact
  <2>10. Cardinality(At(busy)') = Cardinality(At(busy))
    <3>1. At(busy)' = (At(busy) \ {t}) \cup {w} BY <1>1, <2>1, <2>2, <2>3 DEF At
    <3>2. t \in At(busy) /\ w \notin At(busy) BY <1>1, <2>2 DEF At
    <3> HIDE DEF busy
    <3>3. IsFiniteSet(At(busy) \ {t})
          /\ Cardinality(At(busy) \ {t}) = Cardinality(At(busy)) - 1
      BY <3>2, AtFinite, FS_RemoveElement
    <3>4. Cardinality((At(busy) \ {t}) \cup {w}) = Cardinality(At(busy) \ {t}) + 1
      BY <3>2, <3>3, FS_AddElement
    <3> QED BY <3>1, <3>3, <3>4, AtFinite
  <2>11. WorkConserving' BY <1>4, <2>10 DEF WorkConserving
  <2>12. At(Admitted)' = At(Admitted) BY <1>1, <2>2, <2>3 DEF At, Admitted
  <2>13. AdmissionExact' BY <1>1, <2>12 DEF AdmissionExact, Admitted
  <2> QED BY <2>1, <2>4, <2>5, <2>9, <2>11, <2>13 DEF ArrayExact
<1> QED BY <1>3, <1>4 DEF Settles

LEMMA RunEndsKeeps == ASSUME SInv, NEW t \in Runs, RunEnds(t) PROVE SInv'
<1> USE DEF SInv
<1>1. runPc \in [Runs -> TaskPC] /\ runPc[t] = "leaving" /\ runPc' = [runPc EXCEPT ![t] = "idle"]
      /\ queued \in Nat /\ queued' = queued - 1 /\ UNCHANGED <<active, waiting>>
  BY DEF STypeOK, RunEnds
<1>2. Cardinality(At(Admitted)') = Cardinality(At(Admitted)) - 1
  BY <1>1, Exits DEF Admitted
<1>3. AdmissionExact' /\ queued' \in Nat
  <2>1. queued' = Cardinality(At(Admitted)') BY <1>1, <1>2 DEF AdmissionExact, Admitted
  <2>2. IsFiniteSet(At(Admitted)') BY FS_Subset DEF At
  <2>3. queued' \in Nat BY <2>1, <2>2, FS_CardinalityType
  <2> QED BY <1>1, <2>1, <2>3 DEF AdmissionExact, Admitted
<1>4. STypeOK' BY <1>1, <1>3 DEF STypeOK, TaskPC
<1>5. /\ At({"running"})' = At({"running"}) /\ At({"waiting"})' = At({"waiting"})
      /\ At({"woken", "running"})' = At({"woken", "running"})
  BY <1>1, Stays
<1> QED BY <1>1, <1>3, <1>4, <1>5 DEF PermitsExact, WorkConserving, ArrayExact

LEMMA RefusalKeeps ==
  ASSUME SInv, NEW t \in Runs, RunRefused(t) \/ Retries(t) PROVE SInv'
<1> USE DEF SInv
<1>1. /\ runPc \in [Runs -> TaskPC] /\ UNCHANGED <<active, waiting, queued>>
      /\ \/ runPc[t] = "idle" /\ runPc' = [runPc EXCEPT ![t] = "rejected"]
         \/ runPc[t] = "rejected" /\ runPc' = [runPc EXCEPT ![t] = "idle"]
  BY DEF STypeOK, RunRefused, Retries
<1>2. STypeOK' BY <1>1 DEF STypeOK, TaskPC
<1>3. /\ At({"running"})' = At({"running"}) /\ At({"waiting"})' = At({"waiting"})
      /\ At({"woken", "running"})' = At({"woken", "running"})
      /\ At(Admitted)' = At(Admitted)
  BY <1>1, Stays DEF Admitted
<1> QED BY <1>1, <1>2, <1>3
        DEF PermitsExact, WorkConserving, AdmissionExact, ArrayExact, Admitted

LEMMA AlwaysSInv == SSpec => []SInv
<1>1. SInv /\ [SNext]_svars => SInv'
  <2> SUFFICES ASSUME SInv, [SNext]_svars PROVE SInv' OBVIOUS
  <2>1. CASE UNCHANGED svars
    BY <2>1 DEF svars, SInv, STypeOK, PermitsExact, WorkConserving, AdmissionExact,
                ArrayExact, At
  <2> QED BY <2>1, RunKeeps, WakesKeeps, SettlesKeeps, RunEndsKeeps, RefusalKeeps DEF SNext
<1> QED BY <1>1, InitSInv, PTL DEF SSpec

-----------------------------------------------------------------------------
(* Semaphore.active counts the running tasks exactly: Math.max(0, ...) in  *)
(* release() never hides a permit that was given back twice.               *)
THEOREM PermitsAreExact == SSpec => []PermitsExact
<1>1. SInv => PermitsExact BY DEF SInv
<1> QED BY <1>1, AlwaysSInv, PTL

(* Semaphore.release() never loses a wake-up: while a task waits, at least *)
(* Limit tasks run or have been woken.                                     *)
THEOREM NoLostWakeup == SSpec => []WorkConserving
<1>1. SInv => WorkConserving BY DEF SInv
<1> QED BY <1>1, AlwaysSInv, PTL

(* ConcurrencyLimiter.queued is exact and never exceeds queueLimit.        *)
THEOREM AdmissionIsExact == SSpec => []AdmissionExact
<1>1. SInv => AdmissionExact BY DEF SInv
<1> QED BY <1>1, AlwaysSInv, PTL

(* Permits, admission and wake-ups together, as the runs check them.       *)
THEOREM PermitsAreSound == SSpec => []PermitsSound
<1>1. SInv => PermitsSound BY DEF SInv, PermitsSound
<1> QED BY <1>1, AlwaysSInv, PTL
==============================================================================
