--------------------------- MODULE DurableProofs ---------------------------
(***************************************************************************)
(* Theorems about DurableExecutor for any number of crashes, resumes, lost *)
(* appends and overlapping run loops: the numbering of the stored events   *)
(* for every graph; and for graphs with plain routers that decide alike    *)
(* whenever they are asked, run without failing hooks, what the store says *)
(* of the nodes.  All of them assume that the load of a resume in the same *)
(* process sees the appends of the run before it (~LateLoads).             *)
(***************************************************************************)
EXTENDS DurableExecutor, DagProofs, InductionLemmas

StoredEvents == [seq : Nat \ {0}, type : EventType, nodes : SUBSET Nodes,
                 out : Labels \cup {NoResult}]

(* What this engine or an earlier one has told the store, or still will:   *)
(* the stored events and all of the live engine's, lost ones included.     *)
Heard == log \cup {Stored(base + i, events[i]) : i \in DOMAIN events}

(* A set of stored events with a bound on its numbers has a last one.      *)
LEMMA LastExists ==
  ASSUME NEW S, S # {}, \A e \in S : e.seq \in Nat,
         NEW b \in Nat, \A e \in S : e.seq <= b
  PROVE  Latest(S) \in S /\ \A f \in S : f.seq <= Latest(S).seq
<1> DEFINE Bounds == {k \in Nat : \A e \in S : e.seq <= k}
<1>1. PICK k \in Bounds : \A m \in Bounds : k <= m
  BY LeastNatural
<1>2. \E e \in S : e.seq = k
  <2>1. SUFFICES ASSUME \A e \in S : e.seq # k PROVE FALSE
    OBVIOUS
  <2>2. \A e \in S : e.seq < k
    BY <1>1, <2>1
  <2>3. k - 1 \in Bounds
    BY <1>1, <2>2
  <2>4. QED
    BY <1>1, <2>3
<1>3. QED
  BY <1>1, <1>2 DEF Latest

-----------------------------------------------------------------------------
(* The events of an engine only grow.                                      *)

Extends(es) == \E tail \in Seq(Events) : es = events \o tail

LEMMA ExtendsFurther ==
  ASSUME TypeOK, NEW es, Extends(es), NEW more \in Seq(Events)
  PROVE  Extends(es \o more)
<1>1. PICK tail \in Seq(Events) : es = events \o tail
  BY DEF Extends
<1>2. events \in Seq(Events)
  BY DEF TypeOK
<1>3. tail \o more \in Seq(Events)
  BY ConcatProperties
<1>4. (events \o tail) \o more = events \o (tail \o more)
  BY <1>2, ConcatAssociative
<1>5. QED
  BY <1>1, <1>3, <1>4, Zenon DEF Extends

LEMMA Unextended == TypeOK => Extends(events)
<1>1. SUFFICES ASSUME TypeOK PROVE \E tail \in Seq(Events) : events = events \o tail
  BY DEF Extends
<1>2. events \in Seq(Events)
  BY <1>1 DEF TypeOK
<1>3. events = events \o <<>> /\ <<>> \in Seq(Events)
  BY <1>2, ConcatEmptySeq
<1>4. QED
  BY <1>3, Zenon

LEMMA ExtendsByOne ==
  ASSUME TypeOK, NEW es, Extends(es), NEW ev \in Events
  PROVE  Extends(es \o <<ev>>)
<1>1. <<ev>> \in Seq(Events)
  OBVIOUS
<1>2. QED
  BY <1>1, ExtendsFurther

LEMMA Appended ==
  ASSUME TypeOK, NEW ev \in Events PROVE Extends(Append(events, ev))
<1>1. events \in Seq(Events)
  BY DEF TypeOK
<1>2. Append(events, ev) = events \o <<ev>>
  BY <1>1, AppendIsConcat
<1>3. Extends(events \o <<ev>>)
  BY Unextended, ExtendsByOne
<1>4. QED
  BY <1>2, <1>3

LEMMA HandleErrorAppends ==
  ASSUME TypeOK, NEW l \in Loops, NEW n \in Nodes, NEW st, NEW es, Extends(es),
         HandleError(l, n, st, es)
  PROVE  Extends(events')
<1> DEFINE sub == Subtree([st EXCEPT ![n] = "failed"], n)
<1>1. CASE events' = es
  BY <1>1
<1>2. ASSUME NEW skipped \in SkipEvents(n, sub),
             events' = (es \o <<Event("nodeFailed", {n}, NoResult)>>) \o skipped
      PROVE  Extends(events')
  <2>1. Event("nodeFailed", {n}, NoResult) \in Events
    BY EventTypes DEF EventType
  <2>2. skipped \in Seq(Events)
    <3>1. sub \in SUBSET Nodes
      BY DEF Subtree, Open
    <3>2. QED
      BY <3>1, EventTypes
  <2>3. Extends(es \o <<Event("nodeFailed", {n}, NoResult)>>)
    BY <2>1, ExtendsByOne
  <2>4. Extends((es \o <<Event("nodeFailed", {n}, NoResult)>>) \o skipped)
    BY <2>2, <2>3, ExtendsFurther
  <2>5. QED
    BY <1>2, <2>4
<1>3. QED
  BY <1>1, <1>2 DEF HandleError

LEMMA NodeStepAppends ==
  ASSUME TypeOK, NEW l \in Loops, NEW n \in Nodes, NodeStep(l, n)
  PROVE  Extends(events')
<1>1. Extends(events)
  BY Unextended
<1>2. ASSUME NEW es, Extends(es), NEW out \in Returns[n],
             events' = es \o <<Event("nodeCompleted", {n}, out)>>
      PROVE  Extends(events')
  <2>1. out \in Labels
    BY GraphAssumption
  <2>2. Event("nodeCompleted", {n}, out) \in Events
    BY <2>1, EventTypes DEF EventType
  <2>3. QED
    BY <1>2, <2>2, ExtendsByOne
<1>3. CASE BodyReturns(l, n)
  BY <1>1, <1>2, <1>3 DEF BodyReturns, Completes
<1>4. CASE RouterDecides(l, n)
  <2>1. PICK label, skipped :
          /\ label \in Returns[n] /\ skipped \in SkipEvents(n, Swept(n, label))
          /\ \/ Completes(l, n, label, RouteStatus(Route(n, label)),
                   {e.to : e \in Matches(n, label)} \cup Activated(n, label),
                   events \o skipped)
             \/ HandleError(l, n, RouteStatus(Route(n, label)), events \o skipped)
    BY <1>4 DEF RouterDecides
  <2> DEFINE es == events \o skipped
  <2>2. skipped \in Seq(Events)
    BY <2>1, EventTypes DEF Swept
  <2>3. Extends(es)
    BY <1>1, <2>2, ExtendsFurther
  <2>4. \/ events' = es \o <<Event("nodeCompleted", {n}, label)>>
        \/ HandleError(l, n, RouteStatus(Route(n, label)), es)
    BY <2>1 DEF Completes
  <2> HIDE DEF es
  <2>5. QED
    BY <1>2, <2>1, <2>3, <2>4, HandleErrorAppends
<1>5. CASE BodyThrows(l, n) \/ SignalTimesOut(l, n) \/ CompleteHookThrows(l, n)
  BY <1>1, <1>5, HandleErrorAppends DEF BodyThrows, SignalTimesOut, CompleteHookThrows
<1>6. CASE \/ BodyStarts(l, n) \/ StartHookThrows(l, n)
           \/ BackoffEnds(l, n) \/ Notified(l, n)
  <2>1. events' = events
    BY <1>6 DEF BodyStarts, StartHookThrows, BackoffEnds, Notified
  <2>2. QED
    BY <1>1, <2>1
<1>7. QED
  BY <1>3, <1>4, <1>5, <1>6 DEF NodeStep

(* Whatever the engine does, the events it has emitted stay as they are.   *)
LEMMA EngineAppends ==
  ASSUME TypeOK, [Next]_vars
  PROVE  Extends(events')
<1>1. \A type \in EventType : Lifecycle(type) \in Events
  BY EventTypes
<1>2. ASSUME events' = events PROVE Extends(events')
  BY <1>2, Unextended
<1>3. ASSUME NEW l \in Loops, Execute(l) \/ Resume(l) PROVE Extends(events')
  <2>1. events' = Append(events, Lifecycle("executionStarted"))
    BY <1>3 DEF Execute, Resume, BeginLoop
  <2>2. QED
    BY <1>1, <2>1, Appended DEF EventType
<1>4. ASSUME NEW l \in Loops, LoopStep(l) PROVE Extends(events')
  <2>1. CASE LoopReturns(l)
    <3>1. events' = Append(events, Lifecycle("executionCompleted")) \/ events' = events
      BY <2>1 DEF LoopReturns
    <3>2. QED
      BY <1>1, <1>2, <3>1, Appended DEF EventType
  <2>2. CASE LoopStarts(l)
    <3>1. PICK batch, started :
            /\ batch \in SUBSET ReadyNodes /\ started \in StartEvents(batch)
            /\ events' = events \o started
      BY <2>2 DEF LoopStarts
    <3>2. batch \in SUBSET Nodes
      BY <3>1 DEF ReadyNodes, Open
    <3>3. started \in Seq(Events)
      BY <3>1, <3>2, EventTypes
    <3>4. QED
      BY <3>1, <3>3, Unextended, ExtendsFurther
  <2>3. CASE LoopWaits(l) \/ BatchSettles(l)
    BY <1>2, <2>3 DEF LoopWaits, BatchSettles
  <2>4. QED
    BY <1>4, <2>1, <2>2, <2>3 DEF LoopStep
<1>5. CASE Pause \/ Cancel
  <2>1. \/ events' = Append(events, Lifecycle("executionPaused"))
        \/ events' = Append(events, Lifecycle("executionCancelled"))
    BY <1>5 DEF Pause, Cancel
  <2>2. QED
    BY <1>1, <2>1, Appended DEF EventType
<1>6. CASE Abort \/ DeliverSignal \/ UNCHANGED vars
  <2>1. events' = events
    BY <1>6 DEF Abort, DeliverSignal, vars
  <2>2. QED
    BY <1>2, <2>1
<1>7. QED
  BY <1>3, <1>4, <1>5, <1>6, NodeStepAppends DEF Next

-----------------------------------------------------------------------------
(* The numbers of the events.                                              *)

Distinct(S) == \A e, f \in S : e.seq = f.seq => e = f
Bounded(S) == \E b \in Nat : \A e \in S : e.seq <= b

(* A stored event is of an earlier engine or at its place among the events *)
(* of this one.                                                            *)
Placed ==
  \A e \in log : \/ e.seq <= base
                 \/ \E i \in 1 .. flushed : e = Stored(base + i, events[i])

NumberInv ==
  /\ DTypeOK
  /\ Bounded(log)
  /\ Distinct(Heard)
  /\ up => Placed
  /\ ~up => events = <<>>

LEMMA StoredTypes ==
  /\ \A k \in Nat \ {0}, ev \in Events :
       Stored(k, ev) \in StoredEvents /\ Stored(k, ev).seq = k
  /\ DTypeOK => Heard \subseteq StoredEvents
<1>1. \A k \in Nat \ {0}, ev \in Events :
        Stored(k, ev) \in StoredEvents /\ Stored(k, ev).seq = k
  BY DEF Stored, StoredEvents, Events
<1>2. ASSUME DTypeOK PROVE Heard \subseteq StoredEvents
  <2>1. log \subseteq StoredEvents /\ base \in Nat /\ events \in Seq(Events)
    BY <1>2 DEF DTypeOK, TypeOK, StoredEvents
  <2>2. \A i \in DOMAIN events : base + i \in Nat \ {0} /\ events[i] \in Events
    BY <2>1
  <2>3. QED
    BY <1>1, <2>1, <2>2 DEF Heard
<1>3. QED
  BY <1>1, <1>2

(* What an engine that has emitted more has said: the new events have the  *)
(* numbers after those of its old ones.                                    *)
LEMMA HeardGrows ==
  ASSUME DTypeOK, NEW tail \in Seq(Events), events' = events \o tail,
         UNCHANGED <<log, base>>
  PROVE  Heard' = Heard \cup {Stored(base + Len(events) + i, tail[i]) : i \in DOMAIN tail}
<1>1. events \in Seq(Events) /\ base \in Nat
  BY DEF DTypeOK, TypeOK
<1>2. DOMAIN events = 1 .. Len(events) /\ DOMAIN tail = 1 .. Len(tail)
  BY <1>1
<1>3. DOMAIN events' = 1 .. Len(events) + Len(tail)
  BY <1>1
<1>4. \A i \in 1 .. Len(events) + Len(tail) :
        events'[i] = IF i <= Len(events) THEN events[i] ELSE tail[i - Len(events)]
  BY <1>1, ConcatProperties
<1> DEFINE old == {Stored(base + i, events[i]) : i \in DOMAIN events}
           new == {Stored(base + Len(events) + i, tail[i]) : i \in DOMAIN tail}
           all == {Stored(base + i, events'[i]) : i \in DOMAIN events'}
<1>5. all \subseteq old \cup new
  <2>1. SUFFICES ASSUME NEW i \in 1 .. Len(events) + Len(tail)
                 PROVE  Stored(base + i, events'[i]) \in old \cup new
    BY <1>3
  <2>2. CASE i <= Len(events)
    BY <1>1, <1>2, <1>4, <2>2
  <2>3. CASE i > Len(events)
    <3>1. i - Len(events) \in DOMAIN tail
      BY <1>1, <1>2, <2>3
    <3>2. base + Len(events) + (i - Len(events)) = base + i
      BY <1>1
    <3>3. events'[i] = tail[i - Len(events)]
      BY <1>1, <1>4, <2>3
    <3>4. QED
      BY <3>1, <3>2, <3>3
  <2>4. QED
    BY <1>1, <2>2, <2>3
<1>6. old \subseteq all
  BY <1>1, <1>2, <1>3, <1>4
<1>7. new \subseteq all
  <2>1. SUFFICES ASSUME NEW i \in DOMAIN tail
                 PROVE  Stored(base + Len(events) + i, tail[i]) \in all
    OBVIOUS
  <2>2. Len(events) + i \in 1 .. Len(events) + Len(tail) /\ Len(events) + i > Len(events)
    BY <1>1, <1>2
  <2>3. events'[Len(events) + i] = tail[i]
    BY <1>1, <1>2, <1>4, <2>2
  <2>4. base + (Len(events) + i) = base + Len(events) + i
    BY <1>1, <1>2
  <2>5. QED
    BY <1>3, <2>2, <2>3, <2>4
<1>8. Heard = log \cup old /\ Heard' = log \cup all
  BY DEF Heard
<1> HIDE DEF old, new, all
<1>9. Heard' = Heard \cup new
  BY <1>5, <1>6, <1>7, <1>8
<1>10. QED
  BY <1>9 DEF new

(* Nothing said so far has a number beyond those of the engine's events.   *)
LEMMA HeardBelow ==
  ASSUME NumberInv, up
  PROVE  \A e \in Heard : e.seq \in Nat \ {0} /\ e.seq <= base + Len(events)
<1>1. /\ events \in Seq(Events) /\ base \in Nat /\ flushed \in 0 .. Len(events)
      /\ Heard \subseteq StoredEvents /\ log \subseteq StoredEvents
  BY StoredTypes DEF NumberInv, DTypeOK, TypeOK, Heard
<1>2. \A i \in 1 .. Len(events) : Stored(base + i, events[i]).seq = base + i
  BY <1>1, StoredTypes
<1>3. ASSUME NEW e \in log PROVE e.seq <= base + Len(events)
  <2>1. e.seq \in Nat
    BY <1>1 DEF StoredEvents
  <2>2. QED
    BY <1>1, <1>2, <2>1 DEF NumberInv, Placed
<1>4. ASSUME NEW i \in DOMAIN events
      PROVE  Stored(base + i, events[i]).seq <= base + Len(events)
  <2>1. i \in 1 .. Len(events)
    BY <1>1
  <2>2. Stored(base + i, events[i]).seq = base + i
    BY <1>2, <2>1
  <2>3. QED
    BY <1>1, <2>1, <2>2
<1>5. \A e \in Heard : e.seq <= base + Len(events)
  BY <1>3, <1>4 DEF Heard
<1>6. \A e \in Heard : e.seq \in Nat \ {0}
  BY <1>1 DEF StoredEvents
<1>7. QED
  BY <1>5, <1>6

LEMMA NewNumbers ==
  ASSUME NumberInv, up, NEW tail \in Seq(Events), NEW i \in DOMAIN tail
  PROVE  /\ Stored(base + Len(events) + i, tail[i]) \in StoredEvents
         /\ Stored(base + Len(events) + i, tail[i]).seq = base + Len(events) + i
         /\ base + Len(events) + i > base + Len(events)
<1>1. base + Len(events) \in Nat /\ i \in Nat \ {0} /\ tail[i] \in Events
  BY DEF NumberInv, DTypeOK, TypeOK
<1>2. QED
  BY <1>1, StoredTypes

LEMMA EngineNumbers ==
  ASSUME NumberInv, up, [Next]_vars, UNCHANGED storeVars
  PROVE  NumberInv'
<1>1. DTypeOK /\ TypeOK
  BY DEF NumberInv, DTypeOK
<1>2. TypeOK'
  BY <1>1, TypeKept
<1>3. PICK tail \in Seq(Events) : events' = events \o tail
  BY <1>1, EngineAppends DEF Extends
<1>4. /\ events \in Seq(Events) /\ base \in Nat /\ flushed \in 0 .. Len(events)
  BY <1>1 DEF DTypeOK, TypeOK
<1>5. Len(events) <= Len(events')
  BY <1>3, <1>4
<1>6. \A i \in 1 .. Len(events) : events'[i] = events[i]
  BY <1>3, <1>4, ConcatProperties
<1>7. DTypeOK'
  BY <1>1, <1>2, <1>4, <1>5 DEF DTypeOK, storeVars
<1>8. Bounded(log)'
  BY DEF NumberInv, Bounded, storeVars
<1>9. Placed'
  <2>1. \A i \in 1 .. flushed : events'[i] = events[i]
    BY <1>4, <1>6
  <2>2. QED
    BY <2>1 DEF NumberInv, Placed, storeVars
<1>10. Distinct(Heard)'
  <2> DEFINE new == {Stored(base + Len(events) + i, tail[i]) : i \in DOMAIN tail}
  <2>1. Heard' = Heard \cup new
    BY <1>1, <1>3, HeardGrows DEF storeVars
  <2>2. Distinct(Heard)
    BY DEF NumberInv
  <2>3. \A e \in Heard : e.seq \in Nat /\ e.seq <= base + Len(events)
    BY HeardBelow
  <2>4. \A i \in DOMAIN tail :
          /\ Stored(base + Len(events) + i, tail[i]).seq = base + Len(events) + i
          /\ base + Len(events) + i > base + Len(events)
          /\ i \in Nat
    BY NewNumbers
  <2>5. \A e \in new : e.seq \in Nat /\ e.seq > base + Len(events)
    BY <1>4, <2>4
  <2>6. \A e, f \in new : e.seq = f.seq => e = f
    BY <1>4, <2>4
  <2> HIDE DEF new
  <2>7. \A e \in Heard, f \in new : e.seq # f.seq
    BY <1>4, <2>3, <2>5
  <2>8. QED
    BY <2>1, <2>2, <2>6, <2>7 DEF Distinct
<1>11. QED
  BY <1>7, <1>8, <1>9, <1>10 DEF NumberInv, storeVars

LEMMA HeardAlone == events = <<>> => Heard = log
BY DEF Heard

(* Storing what was said says nothing new.                                 *)
LEMMA SettledHeard ==
  ASSUME DTypeOK, AppendSettles
  PROVE  /\ Heard' = Heard
         /\ flushed + 1 \in DOMAIN events /\ flushed' = flushed + 1
         /\ \/ log' = log \cup {Stored(base + (flushed + 1), events[flushed + 1])}
            \/ log' = log /\ lost' > lost
         /\ UNCHANGED <<vars, base, up>>
<1>1. events \in Seq(Events) /\ base \in Nat /\ flushed \in 0 .. Len(events)
      /\ lost \in Nat
  BY DurableAssumption DEF DTypeOK, TypeOK
<1>2. flushed + 1 \in DOMAIN events /\ base + (flushed + 1) = base + flushed + 1
  BY <1>1 DEF AppendSettles
<1>3. \/ log' = log \cup {Stored(base + (flushed + 1), events[flushed + 1])}
      \/ log' = log /\ lost' > lost
  BY <1>1, <1>2 DEF AppendSettles
<1>4. UNCHANGED <<vars, base, up>> /\ flushed' = flushed + 1 /\ events' = events
  BY DEF AppendSettles, vars
<1>5. Stored(base + (flushed + 1), events[flushed + 1])
        \in {Stored(base + i, events[i]) : i \in DOMAIN events}
  BY <1>2
<1>6. Heard' = Heard
  BY <1>3, <1>4, <1>5, Zenon DEF Heard
<1>7. QED
  BY <1>2, <1>3, <1>4, <1>6

LEMMA SettlesNumbers ==
  ASSUME NumberInv, AppendSettles PROVE NumberInv'
<1>1. DTypeOK
  BY DEF NumberInv
<1>2. /\ Heard' = Heard
      /\ flushed + 1 \in DOMAIN events /\ flushed' = flushed + 1
      /\ \/ log' = log \cup {Stored(base + (flushed + 1), events[flushed + 1])}
         \/ log' = log
      /\ UNCHANGED <<vars, base, up>>
  BY <1>1, SettledHeard, Zenon
<1> DEFINE more == lost < MaxLost /\ lost' = lost + 1
<1>3. up /\ UNCHANGED <<crashes, resumes>> /\ (lost' = lost \/ more)
  BY DEF AppendSettles
<1>4. events \in Seq(Events) /\ base \in Nat /\ flushed \in 0 .. Len(events)
  BY <1>1 DEF DTypeOK, TypeOK
<1>5. TypeOK'
  BY <1>1, <1>2, TypeKept DEF DTypeOK
<1>6. Stored(base + (flushed + 1), events[flushed + 1]) \in StoredEvents
      /\ Stored(base + (flushed + 1), events[flushed + 1]).seq = base + (flushed + 1)
  <2>1. base + (flushed + 1) \in Nat \ {0} /\ events[flushed + 1] \in Events
    BY <1>2, <1>4
  <2>2. QED
    BY <2>1, StoredTypes
<1>7. flushed' \in 0 .. Len(events)
  BY <1>2, <1>4
<1>8. lost' \in 0 .. MaxLost
  BY <1>1, <1>3, DurableAssumption DEF DTypeOK
<1>9. events' = events
  BY <1>2 DEF vars
<1>10. DTypeOK'
  BY <1>1, <1>2, <1>5, <1>6, <1>7, <1>8, <1>9, <1>3 DEF DTypeOK, StoredEvents
<1>11. \A e \in log' : e.seq \in Nat /\ e.seq <= base + Len(events)
  <2>1. log' \subseteq Heard'
    BY DEF Heard
  <2>2. QED
    BY <1>2, <1>3, <2>1, HeardBelow
<1>12. Bounded(log)'
  BY <1>4, <1>11 DEF Bounded
<1>13. Distinct(Heard)'
  BY <1>2 DEF NumberInv, Distinct
<1>14. Placed'
  <2>1. SUFFICES ASSUME NEW e \in log'
                 PROVE  \/ e.seq <= base
                        \/ \E i \in 1 .. flushed + 1 : e = Stored(base + i, events[i])
    BY <1>2, <1>9 DEF Placed
  <2>2. CASE e \in log
    BY <1>2, <1>4, <1>3, <2>2 DEF NumberInv, Placed
  <2>3. CASE e = Stored(base + (flushed + 1), events[flushed + 1])
    BY <1>4, <2>3
  <2>4. QED
    BY <1>2, <2>2, <2>3
<1>15. QED
  BY <1>2, <1>10, <1>12, <1>13, <1>14, <1>3 DEF NumberInv

LEMMA CrashNumbers == ASSUME NumberInv, Crash PROVE NumberInv'
<1>1. DTypeOK /\ TypeOK
  BY DEF NumberInv, DTypeOK
<1>2. events' = <<>> /\ log' = log /\ ~up' /\ flushed' = 0
  BY DEF Crash
<1>3. TypeOK'
  <2>1. events' \in Seq(Events)
    BY <1>2
  <2>2. QED
    BY <1>1, <2>1 DEF Crash, TypeOK, NodeStatus, ExecutionStatus, LoopPC, ExecPC
<1>4. DTypeOK'
  <2>1. flushed' \in 0 .. Len(events')
    BY <1>2
  <2>2. crashes' \in 0 .. MaxCrashes
    BY <1>1, DurableAssumption DEF DTypeOK, Crash
  <2>3. base' \in Nat /\ up' \in BOOLEAN /\ UNCHANGED <<resumes, lost>>
    BY <1>1 DEF DTypeOK, Crash
  <2>4. QED
    BY <1>1, <1>2, <1>3, <2>1, <2>2, <2>3 DEF DTypeOK
<1>5. Heard' = log /\ log \subseteq Heard
  BY <1>2 DEF Heard
<1>6. QED
  BY <1>2, <1>4, <1>5 DEF NumberInv, Bounded, Distinct

(* Any stored events have a last one.                                      *)
LEMMA LastStored ==
  ASSUME DTypeOK, Bounded(log), NEW S \in SUBSET log, S # {}
  PROVE  Latest(S) \in S /\ \A f \in S : f.seq <= Latest(S).seq
<1>1. log \subseteq StoredEvents
  BY DEF DTypeOK, StoredEvents
<1>2. PICK b \in Nat : \A e \in log : e.seq <= b
  BY DEF Bounded
<1>3. \A e \in S : e.seq \in Nat /\ e.seq <= b
  BY <1>1, <1>2 DEF StoredEvents
<1>4. QED
  BY <1>2, <1>3, LastExists

(* The replay of a node and of its result is well typed.                   *)
LEMMA ReplayTypes ==
  ASSUME DTypeOK, Bounded(log), NEW n \in Nodes
  PROVE  /\ ReplayNode(log, n) \in NodeStatus
         /\ ResumeNode(log, n) \in NodeStatus
         /\ ReplayResult(log, n) \in Labels \cup {NoResult}
<1>1. ReplayNode(log, n) \in NodeStatus
  <2> DEFINE evs == {e \in log : e.type \in DOMAIN NodeTypes /\ n \in e.nodes}
  <2>1. CASE evs = {}
    BY <2>1 DEF ReplayNode, NodeStatus
  <2>2. CASE evs # {}
    <3>1. Latest(evs) \in evs
      BY <2>2, LastStored
    <3>2. NodeTypes[Latest(evs).type] \in NodeStatus
      BY <3>1 DEF NodeTypes, NodeStatus
    <3>3. QED
      BY <2>2, <3>2 DEF ReplayNode
  <2>3. QED
    BY <2>1, <2>2
<1>2. ReplayResult(log, n) \in Labels \cup {NoResult}
  <2>1. CASE Completions(log, n) = {}
    BY <2>1 DEF ReplayResult
  <2>2. CASE Completions(log, n) # {}
    <3>1. Completions(log, n) \subseteq log
      BY DEF Completions
    <3>2. Latest(Completions(log, n)) \in log
      BY <2>2, <3>1, LastStored
    <3>3. QED
      BY <2>2, <3>2 DEF ReplayResult, DTypeOK
  <2>3. QED
    BY <2>1, <2>2
<1>3. QED
  BY <1>1, <1>2 DEF ResumeNode, NodeStatus

LEMMA ReplayExecutionTypes ==
  ASSUME DTypeOK, Bounded(log)
  PROVE  ReplayExecution(log) \in ExecutionStatus
<1> DEFINE evs == {e \in log : e.type \in DOMAIN ExecutionTypes}
<1>1. CASE evs = {}
  BY <1>1 DEF ReplayExecution, ExecutionStatus
<1>2. CASE evs # {}
  <2>1. Latest(evs) \in evs
    BY <1>2, LastStored
  <2>2. ExecutionTypes[Latest(evs).type] \in ExecutionStatus
    BY <2>1 DEF ExecutionTypes, ExecutionStatus
  <2>3. QED
    BY <1>2, <2>2 DEF ReplayExecution
<1>3. QED
  BY <1>1, <1>2

(* A new engine numbers its events from the last stored one on.            *)
LEMMA LogNumbers ==
  ASSUME DTypeOK, Bounded(log)
  PROVE  /\ LastSeq(log) \in Nat
         /\ \A e \in log : e.seq \in Nat \ {0} /\ e.seq <= LastSeq(log)
<1>1. log \subseteq StoredEvents
  BY DEF DTypeOK, StoredEvents
<1>2. CASE log = {}
  BY <1>2 DEF LastSeq
<1>3. CASE log # {}
  <2>1. Latest(log) \in log /\ \A f \in log : f.seq <= Latest(log).seq
    BY <1>3, LastStored
  <2>2. QED
    BY <1>1, <1>3, <2>1 DEF LastSeq, StoredEvents
<1>4. QED
  BY <1>2, <1>3

(* A load that sees every append sees all that was emitted.                *)
LEMMA AllStored ==
  ASSUME TypeOK, flushed = Len(events) PROVE Emitted = log
<1>1. Len(events) \in Nat
  BY DEF TypeOK
<1>2. (flushed + 1) .. Len(events) = {}
  BY <1>1
<1>3. QED
  BY <1>2 DEF Emitted

LEMMA ResumeKeeps ==
  ASSUME NumberInv, ~LateLoads, ResumeAfterCrash \/ ResumeReturned
  PROVE  ResumeRun /\ up' /\ log' = log
<1>1. CASE ResumeAfterCrash
  BY <1>1 DEF ResumeAfterCrash
<1>2. CASE ResumeReturned
  BY <1>2, AllStored DEF ResumeReturned, NumberInv, DTypeOK
<1>3. QED
  BY <1>1, <1>2

LEMMA ResumeNumbers ==
  ASSUME NumberInv, ResumeRun, up', log' = log,
         \/ UNCHANGED resumes
         \/ resumes < MaxResumes /\ resumes' = resumes + 1
  PROVE  NumberInv'
<1>1. DTypeOK /\ TypeOK /\ Bounded(log)
  BY DEF NumberInv, DTypeOK
<1> DEFINE final == ReplayExecution(log) \in {"completed", "failed", "cancelled"}
<1>2. /\ base' = LastSeq(log) /\ flushed' = 0
      /\ events' = IF final THEN <<>> ELSE <<Lifecycle("executionStarted")>>
  BY DEF ResumeRun
<1>3. /\ base' \in Nat
      /\ \A e \in log : e.seq \in Nat \ {0} /\ e.seq <= base'
  <2>1. SUFFICES /\ LastSeq(log) \in Nat
                 /\ \A e \in log : e.seq \in Nat \ {0} /\ e.seq <= LastSeq(log)
    BY <1>2
  <2>2. QED
    BY <1>1, LogNumbers
<1>4. Lifecycle("executionStarted") \in Events
  BY EventTypes DEF EventType
<1>5. events' \in Seq(Events)
  BY <1>2, <1>4
<1>6. TypeOK'
  <2>1. status' \in [Nodes -> NodeStatus]
    BY <1>1, ReplayTypes DEF ResumeRun
  <2>2. results' \in [Nodes -> Labels \cup {NoResult}]
    BY <1>1, ReplayTypes DEF ResumeRun
  <2>3. xstatus' \in ExecutionStatus
    BY <1>1, ReplayExecutionTypes DEF ResumeRun, ExecutionStatus
  <2>4. cand' \subseteq Nodes
    BY DEF ResumeRun, Open
  <2>5. /\ attempts' \in [Nodes -> Nat] /\ active' \subseteq Nodes
        /\ signals' \subseteq Loops \X Nodes /\ aborted' \in BOOLEAN
        /\ loop' \in [Loops -> LoopPC]
    BY DEF ResumeRun, ResumeActive, LoopPC
  <2>6. exec' \in [Loops -> [Nodes -> ExecPC]] /\ attempt' \in [Loops -> [Nodes -> Nat]]
    BY DEF ResumeRun, ExecPC
  <2>7. calls' \in 0 .. MaxCalls
    BY <1>1 DEF ResumeRun, TypeOK
  <2>8. QED
    BY <1>5, <2>1, <2>2, <2>3, <2>4, <2>5, <2>6, <2>7 DEF TypeOK
<1>7. DTypeOK'
  <2>1. crashes' = crashes /\ lost' = lost
    BY DEF ResumeRun
  <2>2. resumes' \in 0 .. MaxResumes
    BY <1>1, DurableAssumption DEF DTypeOK
  <2>3. flushed' \in 0 .. Len(events')
    BY <1>2, <1>5
  <2>4. QED
    BY <1>1, <1>2, <1>3, <1>6, <2>1, <2>2, <2>3 DEF DTypeOK
<1>8. Distinct(Heard)'
  <2>1. Distinct(log)
    BY DEF NumberInv, Distinct, Heard
  <2>2. CASE final
    <3>1. Heard' = log
      BY <1>2, <2>2 DEF Heard
    <3>2. QED
      BY <2>1, <3>1 DEF Distinct
  <2>3. CASE ~final
    <3> DEFINE new == Stored(base' + 1, Lifecycle("executionStarted"))
    <3>1. Heard' = log \cup {new}
      BY <1>2, <2>3 DEF Heard
    <3>2. new.seq = base' + 1
      BY DEF Stored
    <3>3. \A e \in log : e.seq # new.seq
      BY <1>3, <3>2
    <3>4. QED
      BY <2>1, <3>1, <3>3 DEF Distinct
  <2>4. QED
    BY <2>2, <2>3
<1>9. Placed' /\ Bounded(log)'
  BY <1>2, <1>3 DEF Placed, Bounded
<1>10. QED
  BY <1>7, <1>8, <1>9 DEF NumberInv

LEMMA NumberStep == ~LateLoads /\ NumberInv /\ [DNext]_dvars => NumberInv'
<1>1. ASSUME NumberInv, EngineStep PROVE NumberInv'
  BY <1>1, EngineNumbers DEF EngineStep
<1>2. ASSUME ~LateLoads, NumberInv, ResumeAfterCrash PROVE NumberInv'
  BY <1>2, ResumeKeeps, ResumeNumbers DEF ResumeAfterCrash
<1>3. ASSUME ~LateLoads, NumberInv, ResumeReturned PROVE NumberInv'
  BY <1>3, ResumeKeeps, ResumeNumbers DEF ResumeReturned
<1>4. ASSUME NumberInv, UNCHANGED dvars PROVE NumberInv'
  BY <1>4 DEF dvars, vars, storeVars, NumberInv, DTypeOK, TypeOK, Bounded, Distinct, Heard,
     Placed
<1>5. QED
  BY <1>1, <1>2, <1>3, <1>4, SettlesNumbers, CrashNumbers DEF DNext

LEMMA NumberInit == DInit => NumberInv
<1>1. SUFFICES ASSUME DInit PROVE NumberInv
  OBVIOUS
<1>2. TypeOK /\ events = <<>> /\ log = {}
  BY <1>1, InitTypes DEF DInit, Init
<1>3. DTypeOK
  BY <1>1, <1>2, DurableAssumption DEF DInit, DTypeOK
<1>4. Heard = {}
  BY <1>2, HeardAlone
<1>5. QED
  BY <1>2, <1>3, <1>4 DEF NumberInv, Bounded, Distinct, Placed

(* Every reachable state of the executor is well typed, for every graph.   *)
THEOREM DurableTypes == ~LateLoads => (DSpec => []DTypeOK)
<1> SUFFICES ASSUME ~LateLoads PROVE DSpec => []DTypeOK
  OBVIOUS
<1>1. NumberInv => DTypeOK
  BY DEF NumberInv
<1>2. NumberInv /\ [DNext]_dvars => NumberInv'
  BY NumberStep
<1>3. QED
  BY <1>1, <1>2, NumberInit, PTL DEF DSpec

(* However often the process crashes and whatever appends fail, no two     *)
(* stored events of an execution have the same number, although an engine  *)
(* after a crash numbers its events from the last one that was stored.     *)
THEOREM NumbersAreUnique == ~LateLoads => (DSpec => []SequenceUnique)
<1> SUFFICES ASSUME ~LateLoads PROVE DSpec => []SequenceUnique
  OBVIOUS
<1>1. NumberInv => SequenceUnique
  BY DEF NumberInv, Distinct, Heard, SequenceUnique
<1>2. NumberInv /\ [DNext]_dvars => NumberInv'
  BY NumberStep
<1>3. QED
  BY <1>1, <1>2, NumberInit, PTL DEF DSpec

-----------------------------------------------------------------------------
(* What a step of an engine with a plain graph tells of the nodes: at most *)
(* one of its events is about a node, and it agrees with the new status    *)
(* and result of the node, which was not settled before.  A node that a    *)
(* router chooses is skipped only behind the router itself.                *)

Tells(ev, n) == ev.type \in DOMAIN NodeTypes /\ n \in ev.nodes

Telling(ev, n) ==
  /\ status[n] \notin Settled
  /\ status'[n] = NodeTypes[ev.type]
  /\ ev.type # "nodeSkipped" => n \in ReadyNodes \/ status[n] \in Started
  /\ results'[n] = IF ev.type = "nodeCompleted" THEN ev.out ELSE results[n]

Untold(n) ==
  results'[n] = results[n] /\ (status'[n] = status[n] \/ status'[n] \notin Settled)
Still(n) ==
  /\ results'[n] = results[n]
  /\ status'[n] = status[n] \/ (status[n] \notin Settled /\ status'[n] \notin Settled)

(* An event fits the graph: a node completes with an output it may return. *)
Fits(ev) == ev.type = "nodeCompleted" => \A n \in ev.nodes : ev.out \in Returns[n]

(* Router r may decide for n.                                              *)
ChosenBy(r, n) ==
  Kind[r] = "router" /\ \E e \in Edges(r) : e.to = n /\ e.label \in Returns[r]

(* In a tail of events such a node is skipped only behind the router.      *)
SweptRight(tail) ==
  \A i \in DOMAIN tail : tail[i].type = "nodeSkipped" =>
    \A n \in tail[i].nodes, r \in Nodes : ChosenBy(r, n) =>
      \E j \in DOMAIN tail : j < i /\ tail[j].type = "nodeSkipped" /\ r \in tail[j].nodes

(* A router decides alike whenever it is asked, and where there are        *)
(* routers no append is lost.  A router that decides again after a crash   *)
(* would otherwise find its new branch skipped.                            *)
Repeatable ==
  \A r \in Nodes : Kind[r] = "router" => MaxLost = 0 /\ \E label \in Labels : Returns[r] = {label}

(* A plain graph run on a store whose loads see all appends.               *)
PromptGraph == PlainGraph /\ Repeatable /\ ~LateLoads

LEMMA RepeatableTasks == NoRouters => Repeatable
BY DEF NoRouters, Repeatable

TellsRight(tail) ==
  /\ tail \in Seq(Events) /\ events' = events \o tail /\ SweptRight(tail)
  /\ \A i \in DOMAIN tail :
       Fits(tail[i]) /\ (tail[i].type = "executionCompleted" => AllDone)
  /\ \A n \in Nodes :
       /\ status[n] \in Settled => status'[n] = status[n] /\ results'[n] = results[n]
       /\ \A i, j \in DOMAIN tail : Tells(tail[i], n) /\ Tells(tail[j], n) => i = j
       /\ \A i \in DOMAIN tail : Tells(tail[i], n) => Telling(tail[i], n)
       /\ (\A i \in DOMAIN tail : ~Tells(tail[i], n)) => Untold(n)

LEMMA NodeTypesAre ==
  /\ DOMAIN NodeTypes = {"nodeStarted", "nodeCompleted", "nodeFailed", "nodeSkipped"}
  /\ NodeTypes["nodeStarted"] = "running" /\ NodeTypes["nodeCompleted"] = "completed"
  /\ NodeTypes["nodeFailed"] = "failed" /\ NodeTypes["nodeSkipped"] = "skipped"
BY DEF NodeTypes

(* A step that tells nothing of the nodes settles none.                    *)
LEMMA QuietTells ==
  ASSUME TypeOK, \A n \in Nodes : Still(n),
         \/ events' = events
         \/ \E type \in EventType \ DOMAIN NodeTypes :
              /\ events' = Append(events, Lifecycle(type))
              /\ type = "executionCompleted" => AllDone
  PROVE  \E tail : TellsRight(tail)
<1>1. events \in Seq(Events) /\ \A type \in EventType : Lifecycle(type) \in Events
  BY EventTypes DEF TypeOK
<1>2. CASE events' = events
  <2>1. <<>> \in Seq(Events) /\ events' = events \o <<>> /\ DOMAIN <<>> = {}
    BY <1>1, <1>2, ConcatEmptySeq
  <2>2. TellsRight(<<>>)
    BY <2>1 DEF TellsRight, Untold, Still, SweptRight
  <2>3. QED
    BY <2>2
<1>3. ASSUME NEW type \in EventType \ DOMAIN NodeTypes,
             events' = Append(events, Lifecycle(type)),
             type = "executionCompleted" => AllDone
      PROVE  \E tail : TellsRight(tail)
  <2> DEFINE ev == Lifecycle(type)
  <2>1. ev \in Events /\ ev.type = type
    BY <1>1 DEF Lifecycle, Event
  <2> HIDE DEF ev
  <2>2. events' = events \o <<ev>> /\ <<ev>> \in Seq(Events)
    BY <1>1, <1>3, <2>1, AppendIsConcat DEF ev
  <2>3. \A i \in DOMAIN <<ev>> : <<ev>>[i] = ev
    OBVIOUS
  <2>4. Fits(ev) /\ \A n \in Nodes : ~Tells(ev, n)
    BY <2>1, NodeTypesAre DEF Fits, Tells
  <2>5. SweptRight(<<ev>>)
    BY <2>1, <2>3, NodeTypesAre DEF SweptRight
  <2>6. TellsRight(<<ev>>)
    BY <1>3, <2>1, <2>2, <2>3, <2>4, <2>5 DEF TellsRight, Untold, Still
  <2>7. QED
    BY <2>6
<1>4. QED
  BY <1>2, <1>3

(* A step with events about different nodes.                               *)
LEMMA TailTells ==
  ASSUME TypeOK, NEW tail \in Seq(Events), events' = events \o tail,
         \A i \in DOMAIN tail : tail[i].type \in DOMAIN NodeTypes /\ Fits(tail[i]),
         \A i, j \in DOMAIN tail : \A n \in Nodes :
           n \in tail[i].nodes /\ n \in tail[j].nodes => i = j,
         SweptRight(tail),
         \A n \in Nodes :
           /\ \A i \in DOMAIN tail : n \in tail[i].nodes => Telling(tail[i], n)
           /\ (\A i \in DOMAIN tail : n \notin tail[i].nodes) => Still(n)
  PROVE  \E told : TellsRight(told)
<1>1. \A i \in DOMAIN tail : \A n : Tells(tail[i], n) <=> n \in tail[i].nodes
  BY DEF Tells
<1>2. \A i \in DOMAIN tail : Fits(tail[i]) /\ tail[i].type # "executionCompleted"
  BY NodeTypesAre
<1>3. ASSUME NEW n \in Nodes
      PROVE  /\ status[n] \in Settled => status'[n] = status[n] /\ results'[n] = results[n]
             /\ \A i, j \in DOMAIN tail : Tells(tail[i], n) /\ Tells(tail[j], n) => i = j
             /\ \A i \in DOMAIN tail : Tells(tail[i], n) => Telling(tail[i], n)
             /\ (\A i \in DOMAIN tail : ~Tells(tail[i], n)) => Untold(n)
  <2>1. status[n] \in Settled => status'[n] = status[n] /\ results'[n] = results[n]
    <3>1. CASE \E i \in DOMAIN tail : n \in tail[i].nodes
      BY <3>1 DEF Telling
    <3>2. CASE \A i \in DOMAIN tail : n \notin tail[i].nodes
      BY <3>2 DEF Still
    <3>3. QED
      BY <3>1, <3>2
  <2>2. (\A i \in DOMAIN tail : ~Tells(tail[i], n)) => Untold(n)
    BY <1>1 DEF Untold, Still
  <2>3. QED
    BY <1>1, <2>1, <2>2
<1>4. TellsRight(tail)
  BY <1>2, <1>3 DEF TellsRight
<1>5. QED
  BY <1>4

(* A step with one event about one node that is not skipped.               *)
LEMMA OneTells ==
  ASSUME TypeOK, NEW ev \in Events, events' = events \o <<ev>>,
         ev.type \in DOMAIN NodeTypes, ev.type # "nodeSkipped", Fits(ev),
         \A n \in Nodes : IF n \in ev.nodes THEN Telling(ev, n) ELSE Still(n)
  PROVE  \E tail : TellsRight(tail)
<1>1. <<ev>> \in Seq(Events)
  OBVIOUS
<1>2. \A i \in DOMAIN <<ev>> : i = 1 /\ <<ev>>[i] = ev
  OBVIOUS
<1>3. 1 \in DOMAIN <<ev>>
  OBVIOUS
<1>4. SweptRight(<<ev>>)
  BY <1>2 DEF SweptRight
<1> DEFINE tail == <<ev>>
<1>5. tail \in Seq(Events) /\ events' = events \o tail /\ SweptRight(tail)
      /\ 1 \in DOMAIN tail /\ \A i \in DOMAIN tail : i = 1 /\ tail[i] = ev
  BY <1>1, <1>2, <1>3, <1>4
<1> HIDE DEF tail
<1>6. QED
  BY <1>5, TailTells

(* The error path of a node under way.                                     *)
LEMMA ErrorTells ==
  ASSUME TypeOK, ~PluginFaults, NEW l \in Loops, NEW n \in Nodes, status[n] \in Underway,
         HandleError(l, n, status, events), results' = results
  PROVE  \E tail : TellsRight(tail)
<1>1. \A m \in Nodes \ {n} : status'[m] = status[m]
  BY PlainError
<1>2. CASE status' = [status EXCEPT ![n] = "retrying"] /\ events' = events
  <2>1. \A m \in Nodes : Still(m)
    BY <1>2 DEF TypeOK, Underway, Settled, Still
  <2>2. QED
    BY <1>2, <2>1, QuietTells
<1>3. CASE /\ status' = [status EXCEPT ![n] = "failed"]
           /\ events' = events \o <<Event("nodeFailed", {n}, NoResult)>>
  <2> DEFINE ev == Event("nodeFailed", {n}, NoResult)
  <2>1. ev \in Events /\ ev.type = "nodeFailed" /\ ev.nodes = {n}
    BY EventTypes DEF Event, EventType
  <2>2. events' = events \o <<ev>>
    BY <1>3
  <2> HIDE DEF ev
  <2>3. status'[n] = "failed"
    BY <1>3 DEF TypeOK
  <2>4. Telling(ev, n)
    BY <2>1, <2>3, NodeTypesAre DEF Telling, Underway, Settled, Started
  <2>5. Fits(ev) /\ \A m \in Nodes : IF m \in ev.nodes THEN Telling(ev, m) ELSE Still(m)
    BY <1>1, <2>1, <2>4 DEF Fits, Still
  <2>6. QED
    BY <2>1, <2>2, <2>5, OneTells, NodeTypesAre
<1>4. QED
  BY <1>2, <1>3, PlainError

(* Events followed by one more.                                            *)
LEMMA WithLast ==
  ASSUME NEW es \in Seq(Events), NEW told \in Seq(Events), NEW ev \in Events
  PROVE  /\ told \o <<ev>> \in Seq(Events) /\ Len(told \o <<ev>>) = Len(told) + 1
         /\ (es \o told) \o <<ev>> = es \o (told \o <<ev>>)
         /\ \A i \in 1 .. Len(told) : (told \o <<ev>>)[i] = told[i]
         /\ (told \o <<ev>>)[Len(told) + 1] = ev
<1>1. <<ev>> \in Seq(Events) /\ Len(<<ev>>) = 1 /\ <<ev>>[1] = ev
  OBVIOUS
<1>2. (es \o told) \o <<ev>> = es \o (told \o <<ev>>)
  BY <1>1, ConcatAssociative
<1>3. QED
  BY <1>1, <1>2, ConcatProperties

(* A router decides: what it skips is told first, one event for each node, *)
(* and its completion after that.  The targets it chose are not told of.   *)
(* A skipped node that another router may choose is not right behind this  *)
(* one, and so was swept behind that other router.                         *)
LEMMA DecisionTells ==
  ASSUME PlainGraph, Repeatable, TypeOK, StatusTracks, Undecided,
         NEW l \in Loops, NEW n \in Nodes, RouterDecides(l, n)
  PROVE  \E tail : TellsRight(tail)
<1>1. PICK label, mark, skipped :
        /\ skipped \in SkipEvents(n, mark.swept)
        /\ Decides(n, label, mark)
        /\ Completes(l, n, label, RouteStatus(mark),
                     Targets(n, label) \cup Activated(n, label), events \o skipped)
  BY RouterMoves
<1> DEFINE sub    == mark.skipped
           c      == Cardinality(sub)
           second == Event("nodeCompleted", {n}, label)
           tail   == skipped \o <<second>>
<1>2. Kind[n] = "router" /\ PlainRouter(n) /\ Returns[n] = {label} /\ label \in Labels
  <2>1. Kind[n] = "router" /\ label \in Returns[n]
    BY <1>1 DEF RouterDecides, Decides
  <2>2. QED
    BY <2>1, GraphAssumption DEF PlainGraph, Repeatable
<1>3. /\ mark.swept = sub /\ sub \subseteq Open(status) /\ sub \subseteq Routed
      /\ sub \cap Targets(n, label) = {}
      /\ mark.ready = Targets(n, label)
  BY <1>1 DEF Decides, MarkedRight
<1>4. sub \in SUBSET Nodes /\ n \notin sub /\ status[n] \in Underway
      /\ status'[n] = "completed"
  BY <1>1, <1>3 DEF Decides, Open, Underway
<1>5. /\ second \in Events /\ second.type = "nodeCompleted" /\ second.nodes = {n}
      /\ second.out = label
  BY <1>2, EventTypes DEF Event, EventType
<1>6. PICK q \in SweepOrders(n, sub) : skipped = Told("nodeSkipped", q)
  BY <1>1, <1>3 DEF SkipEvents
<1>7. /\ c \in Nat /\ DOMAIN q = 1 .. c
      /\ \A i \in DOMAIN q : q[i] \in sub
      /\ \A i, j \in DOMAIN q : i # j => q[i] # q[j]
      /\ \A m \in sub : \E i \in DOMAIN q : q[i] = m
      /\ skipped \in Seq(Events) /\ Len(skipped) = c
      /\ \A i \in DOMAIN q : skipped[i] = Event("nodeSkipped", {q[i]}, NoResult)
  <2>1. q \in SetToSeqs(sub) /\ "nodeSkipped" \in EventType
    BY DEF SweepOrders, EventType
  <2>2. QED
    BY <1>4, <1>6, <2>1, ToldOnce
<1>8. \A i \in 1 .. c :
        q[i] \in Succs(n) \/ \E j \in 1 .. (i - 1) : q[i] \in Succs(q[j])
  BY <1>7 DEF SweepOrders
<1>9. /\ tail \in Seq(Events) /\ Len(tail) = c + 1 /\ events' = events \o tail
      /\ \A i \in 1 .. c : tail[i] = skipped[i]
      /\ tail[c + 1] = second
  <2>1. events' = (events \o skipped) \o <<second>>
    BY <1>1 DEF Completes
  <2>2. events \in Seq(Events)
    BY DEF TypeOK
  <2> HIDE DEF second, c
  <2>3. /\ tail \in Seq(Events) /\ Len(tail) = Len(skipped) + 1
        /\ (events \o skipped) \o <<second>> = events \o tail
        /\ \A i \in 1 .. Len(skipped) : tail[i] = skipped[i]
        /\ tail[Len(skipped) + 1] = second
    BY <1>5, <1>7, <2>2, WithLast
  <2> HIDE DEF tail
  <2>4. Len(skipped) = c
    BY <1>7
  <2>5. QED
    BY <2>1, <2>3, <2>4
<1> HIDE DEF tail, c
<1>10. /\ DOMAIN tail = 1 .. (c + 1)
       /\ \A i \in 1 .. c : tail[i].type = "nodeSkipped" /\ tail[i].nodes = {q[i]}
  <2>1. ASSUME NEW i \in 1 .. c
        PROVE  tail[i].type = "nodeSkipped" /\ tail[i].nodes = {q[i]}
    <3>1. skipped[i] = Event("nodeSkipped", {q[i]}, NoResult)
      BY <1>7
    <3>2. tail[i] = skipped[i]
      BY <1>9
    <3>3. QED
      BY <3>1, <3>2 DEF Event
  <2>2. DOMAIN tail = 1 .. (c + 1)
    BY <1>9
  <2>3. QED
    BY <2>1, <2>2
<1>11. results'[n] = label /\ \A m \in Nodes \ {n} : results'[m] = results[m]
  BY <1>1 DEF Completes, TypeOK
<1>12. \A m \in Nodes \ {n} :
         status'[m] = IF m \in Targets(n, label) THEN "ready"
                      ELSE IF m \in sub THEN "skipped" ELSE status[m]
  BY <1>1, <1>3 DEF Decides
<1>13. \A m \in Targets(n, label) : status[m] = "pending"
  BY <1>2, <1>4 DEF Targets, Matches, Undecided, Underway
<1> HIDE DEF sub, second
<1>14. \A m \in Nodes \ {n} : m \notin sub => Still(m)
  BY <1>11, <1>12, <1>13 DEF Still, Settled
<1>15. Telling(second, n)
  BY <1>4, <1>5, <1>11, NodeTypesAre DEF Telling, Underway, Settled, Started
<1>16. \A i \in 1 .. c : Telling(tail[i], q[i])
  <2>1. SUFFICES ASSUME NEW i \in 1 .. c PROVE Telling(tail[i], q[i])
    OBVIOUS
  <2>2. q[i] \in sub /\ q[i] \in Nodes \ {n}
    BY <1>4, <1>7
  <2>3. status'[q[i]] = "skipped" /\ status[q[i]] \in {"pending", "ready"}
    BY <1>3, <1>12, <2>2 DEF Open
  <2>4. QED
    BY <1>10, <1>11, <2>2, <2>3, NodeTypesAre DEF Telling, Settled
<1>17. SweptRight(tail)
  <2>1. SUFFICES ASSUME NEW i \in DOMAIN tail, tail[i].type = "nodeSkipped",
                        NEW m \in tail[i].nodes, NEW r \in Nodes, ChosenBy(r, m)
                 PROVE  \E j \in DOMAIN tail :
                          j < i /\ tail[j].type = "nodeSkipped" /\ r \in tail[j].nodes
    BY DEF SweptRight
  <2>2. i \in 1 .. c /\ m = q[i] /\ m \in sub
    <3>1. i \in 1 .. c
      BY <1>5, <1>7, <1>9, <1>10, <2>1
    <3>2. QED
      BY <1>7, <1>10, <2>1, <3>1
  <2>3. PICK e \in Edges(r) : e.to = m /\ e.label \in Returns[r]
    BY <2>1 DEF ChosenBy
  <2>4. Kind[r] = "router" /\ PlainRouter(r)
    BY <2>1 DEF ChosenBy, PlainGraph
  <2>5. r # n
    BY <1>2, <1>3, <2>2, <2>3 DEF Targets, Matches
  <2>6. \A p \in Preds(m) \ {r} : Kind[p] # "router" /\ p \notin Routed
    BY <2>3, <2>4 DEF PlainRouter
  <2>7. m \notin Succs(n)
    BY <1>2, <2>5, <2>6 DEF Preds
  <2>8. PICK j \in 1 .. (i - 1) : m \in Succs(q[j])
    BY <1>8, <2>2, <2>7
  <2>9. j \in 1 .. c /\ j < i
    BY <1>7, <2>2
  <2>10. q[j] \in sub /\ q[j] \in Nodes /\ q[j] \in Routed
    BY <1>3, <1>4, <1>7, <2>9
  <2>11. q[j] = r
    BY <2>6, <2>8, <2>10 DEF Preds
  <2>12. j \in DOMAIN tail
    BY <1>7, <1>10, <2>9
  <2>13. QED
    BY <1>10, <2>9, <2>11, <2>12
<1>18. \A i \in DOMAIN tail : tail[i].type \in DOMAIN NodeTypes /\ Fits(tail[i])
  <2>1. SUFFICES ASSUME NEW i \in DOMAIN tail
                 PROVE  tail[i].type \in DOMAIN NodeTypes /\ Fits(tail[i])
    OBVIOUS
  <2>2. i \in 1 .. c \/ i = c + 1
    BY <1>7, <1>10
  <2>3. QED
    BY <1>2, <1>5, <1>9, <1>10, <2>2, NodeTypesAre DEF Fits
<1>19. \A i \in DOMAIN tail : tail[i].nodes = {IF i = c + 1 THEN n ELSE q[i]}
  BY <1>5, <1>7, <1>9, <1>10
<1>20. \A i, j \in DOMAIN tail : \A m \in Nodes :
         m \in tail[i].nodes /\ m \in tail[j].nodes => i = j
  <2>1. \A i \in DOMAIN tail : i = c + 1 \/ (i \in DOMAIN q /\ q[i] # n)
    BY <1>4, <1>7, <1>10
  <2>2. QED
    BY <1>7, <1>19, <2>1
<1>21. ASSUME NEW m \in Nodes
       PROVE  /\ \A i \in DOMAIN tail : m \in tail[i].nodes => Telling(tail[i], m)
              /\ (\A i \in DOMAIN tail : m \notin tail[i].nodes) => Still(m)
  <2>1. ASSUME NEW i \in DOMAIN tail, m \in tail[i].nodes PROVE Telling(tail[i], m)
    <3>1. CASE i = c + 1
      BY <1>9, <1>15, <1>19, <2>1, <3>1
    <3>2. CASE i # c + 1
      <4>1. i \in 1 .. c /\ m = q[i]
        BY <1>7, <1>10, <1>19, <2>1, <3>2
      <4>2. QED
        BY <1>16, <4>1
    <3>3. QED
      BY <3>1, <3>2
  <2>2. ASSUME \A i \in DOMAIN tail : m \notin tail[i].nodes PROVE Still(m)
    <3>1. c + 1 \in DOMAIN tail /\ \A i \in 1 .. c : i \in DOMAIN tail
      BY <1>7, <1>10
    <3>2. m # n
      BY <1>5, <1>9, <2>2, <3>1
    <3>3. m \notin sub
      BY <1>7, <1>10, <2>2, <3>1
    <3>4. QED
      BY <1>14, <3>2, <3>3
  <2>3. QED
    BY <2>1, <2>2
<1>22. QED
  BY <1>9, <1>17, <1>18, <1>20, <1>21, TailTells

LEMMA NodeStepTells ==
  ASSUME PlainGraph, Repeatable, TypeOK, StatusTracks, Undecided,
         NEW l \in Loops, NEW n \in Nodes, NodeStep(l, n)
  PROVE  \E tail : TellsRight(tail)
<1>1. exec[l][n] \in {"start", "body", "wait", "backoff"} => status[n] \in Underway
  BY DEF StatusTracks
<1>2. ASSUME \A m \in Nodes \ {n} : status'[m] = status[m],
             status[n] \in Underway, status'[n] \in Underway \cup {"pending"},
             UNCHANGED <<events, results>>
      PROVE  \E tail : TellsRight(tail)
  <2>1. \A m \in Nodes : Still(m)
    BY <1>2 DEF Underway, Settled, Still
  <2>2. QED
    BY <1>2, <2>1, QuietTells
<1>3. ASSUME UNCHANGED <<status, events, results>> PROVE \E tail : TellsRight(tail)
  BY <1>3, QuietTells DEF Still
<1>4. CASE BodyStarts(l, n)
  <2>1. status[n] \in Underway /\ UNCHANGED <<events, results>>
    BY <1>1, <1>4 DEF BodyStarts
  <2>2. status'[n] \in Underway /\ \A m \in Nodes \ {n} : status'[m] = status[m]
    BY <1>4, <2>1 DEF BodyStarts, TypeOK, Underway
  <2>3. QED
    BY <1>2, <2>1, <2>2
<1>5. CASE BodyReturns(l, n)
  <2>1. PICK out \in Returns[n] :
          /\ status' = [status EXCEPT ![n] = "completed"]
          /\ results' = [results EXCEPT ![n] = out]
          /\ events' = events \o <<Event("nodeCompleted", {n}, out)>>
    BY <1>5 DEF BodyReturns, Completes
  <2> DEFINE ev == Event("nodeCompleted", {n}, out)
  <2>2. out \in Labels /\ status[n] \in Underway
    BY <1>1, <1>5, GraphAssumption DEF BodyReturns
  <2>3. ev \in Events /\ ev.type = "nodeCompleted" /\ ev.nodes = {n} /\ ev.out = out
    BY <2>2, EventTypes DEF Event, EventType
  <2>4. events' = events \o <<ev>>
    BY <2>1
  <2> HIDE DEF ev
  <2>5. /\ status'[n] = "completed" /\ results'[n] = out
        /\ \A m \in Nodes \ {n} : status'[m] = status[m] /\ results'[m] = results[m]
    BY <2>1 DEF TypeOK
  <2>6. Telling(ev, n)
    BY <2>2, <2>3, <2>5, NodeTypesAre DEF Telling, Underway, Settled, Started
  <2>7. Fits(ev) /\ \A m \in Nodes : IF m \in ev.nodes THEN Telling(ev, m) ELSE Still(m)
    BY <2>3, <2>5, <2>6 DEF Fits, Still
  <2>8. QED
    BY <2>3, <2>4, <2>7, OneTells, NodeTypesAre
<1>6. CASE BodyThrows(l, n) \/ SignalTimesOut(l, n)
  <2>1. status[n] \in Underway /\ HandleError(l, n, status, events) /\ results' = results
    BY <1>1, <1>6 DEF BodyThrows, SignalTimesOut
  <2>2. QED
    BY <2>1, ErrorTells DEF PlainGraph
<1>7. CASE BackoffEnds(l, n)
  <2>1. status[n] \in Underway /\ UNCHANGED <<events, results>>
    BY <1>1, <1>7 DEF BackoffEnds
  <2>2. status'[n] = "pending" /\ \A m \in Nodes \ {n} : status'[m] = status[m]
    BY <1>7 DEF BackoffEnds, TypeOK
  <2>3. QED
    BY <1>2, <2>1, <2>2
<1>8. CASE Notified(l, n)
  BY <1>3, <1>8 DEF Notified, nodeVars
<1>9. CASE StartHookThrows(l, n) \/ CompleteHookThrows(l, n)
  BY <1>9 DEF StartHookThrows, CompleteHookThrows, PlainGraph
<1>10. QED
  BY <1>4, <1>5, <1>6, <1>7, <1>8, <1>9, DecisionTells DEF NodeStep

LEMMA LoopTells ==
  ASSUME TypeOK, NEW l \in Loops, Execute(l) \/ Resume(l) \/ LoopStep(l)
  PROVE  \E tail : TellsRight(tail)
<1>1. {"executionStarted", "executionCompleted"} \subseteq EventType \ DOMAIN NodeTypes
  BY NodeTypesAre DEF EventType
<1>2. CASE BeginLoop(l) \/ LoopReturns(l) \/ LoopWaits(l) \/ BatchSettles(l)
  <2>1. \A n \in Nodes : Still(n)
    BY <1>2 DEF BeginLoop, LoopReturns, LoopWaits, BatchSettles, nodeVars, Still
  <2>2. \/ events' = events
        \/ events' = Append(events, Lifecycle("executionStarted"))
        \/ AllDone /\ events' = Append(events, Lifecycle("executionCompleted"))
    BY <1>2 DEF BeginLoop, LoopReturns, LoopWaits, BatchSettles
  <2>3. \/ events' = events
        \/ \E type \in EventType \ DOMAIN NodeTypes :
             /\ events' = Append(events, Lifecycle(type))
             /\ type = "executionCompleted" => AllDone
    BY <1>1, <2>2
  <2>4. QED
    BY <2>1, <2>3, QuietTells
<1>3. CASE LoopStarts(l)
  <2>1. PICK batch, started :
          /\ batch \in SUBSET ReadyNodes /\ started \in StartEvents(batch)
          /\ status' = [n \in Nodes |-> IF n \in batch THEN "running" ELSE status[n]]
          /\ events' = events \o started
          /\ results' = results
    BY <1>3 DEF LoopStarts
  <2>2. batch \in SUBSET Nodes /\ \A n \in batch : status[n] \in {"pending", "ready"}
    BY <2>1 DEF ReadyNodes, Open
  <2>3. PICK q \in SetToSeqs(batch) : started = Told("nodeStarted", q)
    BY <2>1 DEF StartEvents
  <2>4. /\ DOMAIN started = DOMAIN q
        /\ \A i \in DOMAIN q : q[i] \in batch
        /\ \A i, j \in DOMAIN q : i # j => q[i] # q[j]
        /\ \A m \in batch : \E i \in DOMAIN q : q[i] = m
        /\ started \in Seq(Events)
        /\ \A i \in DOMAIN q : started[i].type = "nodeStarted" /\ started[i].nodes = {q[i]}
    <3>1. "nodeStarted" \in EventType
      BY DEF EventType
    <3>2. DOMAIN started = DOMAIN q
      BY <2>3 DEF Told
    <3>3. /\ \A i \in DOMAIN q : q[i] \in batch
          /\ \A i, j \in DOMAIN q : i # j => q[i] # q[j]
          /\ \A m \in batch : \E i \in DOMAIN q : q[i] = m
          /\ started \in Seq(Events)
      BY <2>2, <2>3, <3>1, ToldOnce
    <3>4. \A i \in DOMAIN q : started[i] = Event("nodeStarted", {q[i]}, NoResult)
      BY <2>2, <2>3, <3>1, ToldOnce
    <3>5. ASSUME NEW i \in DOMAIN q
          PROVE  started[i].type = "nodeStarted" /\ started[i].nodes = {q[i]}
      <4>1. started[i] = Event("nodeStarted", {q[i]}, NoResult)
        BY <3>4
      <4>2. QED
        BY <4>1 DEF Event
    <3>6. QED
      BY <3>2, <3>3, <3>5
  <2>5. \A i \in DOMAIN started : started[i].type \in DOMAIN NodeTypes /\ Fits(started[i])
    BY <2>4, NodeTypesAre DEF Fits
  <2>6. SweptRight(started)
    BY <2>4 DEF SweptRight
  <2>7. \A n \in Nodes :
          /\ \A i \in DOMAIN started : n \in started[i].nodes => Telling(started[i], n)
          /\ (\A i \in DOMAIN started : n \notin started[i].nodes) => Still(n)
    <3>1. \A n \in Nodes :
            status'[n] = (IF n \in batch THEN "running" ELSE status[n])
            /\ results'[n] = results[n]
      BY <2>1
    <3>2. ASSUME NEW i \in DOMAIN started, NEW n \in started[i].nodes
          PROVE  Telling(started[i], n)
      <4>1. n \in batch /\ n \in Nodes /\ n \in ReadyNodes /\ started[i].type = "nodeStarted"
        BY <2>1, <2>2, <2>4, <3>2
      <4>2. QED
        BY <2>2, <3>1, <4>1, NodeTypesAre DEF Telling, Settled
    <3>3. ASSUME NEW n \in Nodes, \A i \in DOMAIN started : n \notin started[i].nodes
          PROVE  Still(n)
      <4>1. n \notin batch
        BY <2>4, <3>3
      <4>2. QED
        BY <3>1, <4>1 DEF Still
    <3>4. QED
      BY <3>2, <3>3
  <2>8. \A i, j \in DOMAIN started : \A n \in Nodes :
          n \in started[i].nodes /\ n \in started[j].nodes => i = j
    BY <2>4
  <2>9. QED
    BY <2>1, <2>4, <2>5, <2>6, <2>7, <2>8, TailTells
<1>4. QED
  BY <1>2, <1>3 DEF Execute, Resume, LoopStep

LEMMA PlainTells ==
  ASSUME PlainGraph, Repeatable, PlainInv, [Next]_vars
  PROVE  \E tail : TellsRight(tail)
<1>1. TypeOK /\ StatusTracks /\ Undecided
  BY DEF PlainInv, BarrierInv
<1>2. {"executionPaused", "executionCancelled"} \subseteq EventType \ DOMAIN NodeTypes
  BY NodeTypesAre DEF EventType
<1>3. CASE \/ Pause \/ Cancel \/ Abort \/ UNCHANGED vars
           \/ DeliverSignal
  <2>1. \A n \in Nodes : Still(n)
    BY <1>3 DEF Pause, Cancel, Abort, Control, DeliverSignal, nodeVars, vars, Still
  <2>2. \/ events' = events
        \/ events' = Append(events, Lifecycle("executionPaused"))
        \/ events' = Append(events, Lifecycle("executionCancelled"))
    BY <1>3 DEF Pause, Cancel, Abort, DeliverSignal, vars
  <2>3. \/ events' = events
        \/ \E type \in EventType \ DOMAIN NodeTypes :
             /\ events' = Append(events, Lifecycle(type))
             /\ type = "executionCompleted" => AllDone
    BY <1>2, <2>2
  <2>4. QED
    BY <1>1, <2>1, <2>3, QuietTells
<1>4. QED
  BY <1>1, <1>3, NodeStepTells, LoopTells DEF Next

-----------------------------------------------------------------------------
(* What has been said of the nodes.                                        *)

About(S, n) == {e \in S : Tells(e, n)}

(* That a node is settled is the last thing said of it.                    *)
FinalIn(S) ==
  \A n \in Nodes : \A e, f \in About(S, n) :
    NodeTypes[e.type] \in Settled => f.seq <= e.seq

(* A node was started only after what it depends on was settled.           *)
Before(S, p, types, k) == \E f \in About(S, p) : f.type \in types /\ f.seq < k
OrderedIn(S) ==
  \A n \in Nodes : \A e \in About(S, n) :
    e.type # "nodeSkipped" /\ Preds(n) # {} =>
      /\ \E p \in Preds(n) : Before(S, p, {"nodeCompleted"}, e.seq)
      /\ \/ n \in RaceJoins
         \/ \A p \in Preds(n) : Before(S, p, {"nodeCompleted", "nodeSkipped"}, e.seq)

(* A node that a router may choose was skipped only after that router.     *)
SweptIn(S) ==
  \A n, r \in Nodes : ChosenBy(r, n) =>
    \A f \in About(S, n) :
      f.type = "nodeSkipped" => Before(S, r, {"nodeSkipped"}, f.seq)

(* An execution was completed only after all nodes were.                   *)
DoneIn(S) ==
  \A e \in S : e.type = "executionCompleted" =>
    \A n \in Nodes : Before(S, n, {"nodeCompleted", "nodeSkipped"}, e.seq)

(* The settled nodes are those said to be, with the results they were said *)
(* to have.                                                                *)
Known ==
  \A n \in Nodes : \A e \in About(Heard, n) :
    NodeTypes[e.type] \in Settled => status[n] = NodeTypes[e.type]
Reported ==
  \A n \in Nodes : status[n] \in Settled =>
    \E e \in About(Heard, n) : NodeTypes[e.type] = status[n]
ResultsHeard ==
  \A n \in Nodes :
    /\ \A e \in Completions(Heard, n) : results[n] = e.out
    /\ Completions(Heard, n) = {} => results[n] = NoResult

Kept == \A i \in 1 .. flushed : Stored(base + i, events[i]) \in log

HeardInv ==
  /\ NumberInv /\ PlainInv /\ FinalIn(Heard) /\ \A e \in Heard : Fits(e)
  /\ up => Known /\ Reported /\ ResultsHeard
  /\ ~up => xstatus = "created"
  /\ lost = 0 => /\ OrderedIn(Heard) /\ SweptIn(Heard) /\ DoneIn(Heard)
                 /\ DependencyOrder /\ EndsDone
  /\ lost = 0 /\ up => Kept

LEMMA Settling ==
  \A type \in DOMAIN NodeTypes :
    /\ NodeTypes[type] \in Settled <=> type # "nodeStarted"
    /\ NodeTypes[type] = "completed" <=> type = "nodeCompleted"
    /\ NodeTypes[type] = "failed" <=> type = "nodeFailed"
    /\ NodeTypes[type] = "skipped" <=> type = "nodeSkipped"
BY NodeTypesAre DEF Settled

LEMMA CompletionsAre ==
  \A S, n : Completions(S, n) = {e \in About(S, n) : e.type = "nodeCompleted"}
BY NodeTypesAre DEF Completions, About, Tells

(* The new events N of a step that tells right.                            *)
SaysRight(N) ==
  /\ Heard' = Heard \cup N
  /\ \A e \in Heard, f \in N : e.seq < f.seq
  /\ \A f \in N : f.seq \in Nat
  /\ \A f \in N : Fits(f) /\ (f.type = "executionCompleted" => AllDone)
  /\ SweptIn(N)
  /\ \A n \in Nodes :
       /\ status[n] \in Settled => status'[n] = status[n] /\ results'[n] = results[n]
       /\ \A f, g \in About(N, n) : f = g
       /\ \A f \in About(N, n) : Telling(f, n)
       /\ About(N, n) = {} => Untold(n)

LEMMA EngineSays ==
  ASSUME PlainGraph, Repeatable, NumberInv, PlainInv, up, [Next]_vars, UNCHANGED storeVars
  PROVE  \E N : SaysRight(N)
<1>1. PICK tail : TellsRight(tail)
  BY PlainTells
<1>2. tail \in Seq(Events) /\ events' = events \o tail
  BY <1>1 DEF TellsRight
<1> DEFINE k == base + Len(events)
           N == {Stored(k + i, tail[i]) : i \in DOMAIN tail}
<1>3. k \in Nat
  BY DEF NumberInv, DTypeOK, TypeOK
<1>4. Heard' = Heard \cup N
  BY <1>2, HeardGrows DEF NumberInv, storeVars
<1>5. \A e \in Heard : e.seq \in Nat /\ e.seq <= k
  BY HeardBelow
<1>6. ASSUME NEW i \in DOMAIN tail
      PROVE  /\ Stored(k + i, tail[i]).seq \in Nat /\ k < Stored(k + i, tail[i]).seq
             /\ \A n : Tells(Stored(k + i, tail[i]), n) <=> Tells(tail[i], n)
             /\ \A n : Telling(Stored(k + i, tail[i]), n) <=> Telling(tail[i], n)
             /\ Fits(Stored(k + i, tail[i]))
             /\ Stored(k + i, tail[i]).type = "executionCompleted" => AllDone
  <2>1. i \in Nat \ {0}
    BY <1>2
  <2> DEFINE e == Stored(k + i, tail[i])
  <2>2. /\ e.seq = k + i /\ e.type = tail[i].type /\ e.nodes = tail[i].nodes
        /\ e.out = tail[i].out
    BY DEF Stored
  <2> HIDE DEF e, k
  <2>3. e.seq \in Nat /\ k < e.seq
    BY <1>3, <2>1, <2>2
  <2>4. \A n : (Tells(e, n) <=> Tells(tail[i], n)) /\ (Telling(e, n) <=> Telling(tail[i], n))
    BY <2>2 DEF Tells, Telling
  <2>5. Fits(e) /\ (e.type = "executionCompleted" => AllDone)
    <3>1. Fits(tail[i]) /\ (tail[i].type = "executionCompleted" => AllDone)
      BY <1>1 DEF TellsRight
    <3>2. QED
      BY <2>2, <3>1 DEF Fits
  <2>6. QED
    BY <2>3, <2>4, <2>5 DEF e
<1> HIDE DEF k
<1>7. \A e \in Heard, f \in N : e.seq < f.seq
  BY <1>3, <1>5, <1>6
<1>8. \A f \in N : f.seq \in Nat
  BY <1>6
<1>9. ASSUME NEW n \in Nodes
      PROVE  /\ \A f, g \in About(N, n) : f = g
             /\ \A f \in About(N, n) : Telling(f, n)
             /\ About(N, n) = {} => Untold(n)
  <2>1. \A f \in About(N, n) :
          \E i \in DOMAIN tail : f = Stored(k + i, tail[i]) /\ Tells(tail[i], n)
    BY <1>6 DEF About
  <2>2. \A i \in DOMAIN tail : Tells(tail[i], n) => Stored(k + i, tail[i]) \in About(N, n)
    BY <1>6 DEF About
  <2> HIDE DEF N
  <2>3. \A f, g \in About(N, n) : f = g
    BY <1>1, <2>1 DEF TellsRight
  <2>4. \A f \in About(N, n) : Telling(f, n)
    BY <1>1, <1>6, <2>1 DEF TellsRight
  <2>5. About(N, n) = {} => Untold(n)
    BY <1>1, <2>2 DEF TellsRight
  <2>6. QED
    BY <2>3, <2>4, <2>5
<1>10. \A n \in Nodes :
         status[n] \in Settled => status'[n] = status[n] /\ results'[n] = results[n]
  BY <1>1 DEF TellsRight
<1>11. \A f \in N : Fits(f) /\ (f.type = "executionCompleted" => AllDone)
  BY <1>6
<1>12. SweptIn(N)
  <2>1. SUFFICES ASSUME NEW n \in Nodes, NEW r \in Nodes, ChosenBy(r, n),
                        NEW f \in About(N, n), f.type = "nodeSkipped"
                 PROVE  Before(N, r, {"nodeSkipped"}, f.seq)
    BY DEF SweptIn
  <2>2. PICK i \in DOMAIN tail : f = Stored(k + i, tail[i])
    BY DEF About
  <2>3. tail[i].type = "nodeSkipped" /\ n \in tail[i].nodes /\ f.seq = k + i
    BY <2>1, <2>2 DEF About, Tells, Stored
  <2>4. PICK j \in DOMAIN tail : j < i /\ tail[j].type = "nodeSkipped" /\ r \in tail[j].nodes
    BY <1>1, <2>1, <2>3 DEF TellsRight, SweptRight
  <2> DEFINE g == Stored(k + j, tail[j])
  <2>5. g \in N /\ g.seq = k + j /\ g.type = "nodeSkipped" /\ r \in g.nodes
    BY <2>4 DEF Stored
  <2> HIDE DEF g, N
  <2>6. g \in About(N, r)
    BY <2>5, NodeTypesAre DEF About, Tells
  <2>7. g.seq < f.seq
    BY <1>2, <1>3, <2>3, <2>4, <2>5
  <2>8. QED
    BY <2>5, <2>6, <2>7 DEF Before
<1> HIDE DEF N
<1>13. SaysRight(N)
  BY <1>4, <1>7, <1>8, <1>9, <1>10, <1>11, <1>12 DEF SaysRight
<1>14. QED
  BY <1>13

(* Saying right keeps what has been said true.                             *)
LEMMA SaysKeeps ==
  ASSUME NumberInv, up, FinalIn(Heard), Known, Reported, ResultsHeard,
         NEW N, SaysRight(N)
  PROVE  FinalIn(Heard)' /\ Known' /\ Reported' /\ ResultsHeard'
<1>1. \A n : About(Heard', n) = About(Heard, n) \cup About(N, n)
  BY DEF SaysRight, About
<1>2. \A n : \A f \in About(Heard, n) \cup About(N, n) :
        f.type \in DOMAIN NodeTypes
  BY DEF About, Tells
<1>3. \A n \in Nodes : \A f \in About(N, n) :
        Telling(f, n) /\ f.seq \in Nat /\ \A e \in About(Heard, n) : e.seq < f.seq
  BY DEF SaysRight, About
<1>4. \A n \in Nodes : \A f, g \in About(N, n) : f = g
  BY DEF SaysRight
<1>5. \A e \in Heard : e.seq \in Nat
  BY HeardBelow
<1>6. FinalIn(Heard)'
  <2>1. SUFFICES ASSUME NEW n \in Nodes, NEW e \in About(Heard', n), NEW f \in About(Heard', n),
                        NodeTypes[e.type] \in Settled
                 PROVE  f.seq <= e.seq
    BY DEF FinalIn
  <2>2. e.seq \in Nat /\ f.seq \in Nat
    BY <1>1, <1>3, <1>5 DEF About
  <2>3. CASE e \in About(Heard, n) /\ f \in About(Heard, n)
    BY <2>1, <2>3 DEF FinalIn
  <2>4. CASE e \in About(Heard, n) /\ f \in About(N, n)
    <3>1. status[n] \in Settled
      BY <2>1, <2>4 DEF Known
    <3>2. QED
      BY <1>3, <2>4, <3>1 DEF Telling
  <2>5. CASE e \in About(N, n) /\ f \in About(Heard, n)
    BY <1>3, <2>2, <2>5
  <2>6. CASE e \in About(N, n) /\ f \in About(N, n)
    BY <1>4, <2>2, <2>6
  <2>7. QED
    BY <1>1, <2>3, <2>4, <2>5, <2>6
<1>7. Known'
  <2>1. SUFFICES ASSUME NEW n \in Nodes, NEW e \in About(Heard', n),
                        NodeTypes[e.type] \in Settled
                 PROVE  status'[n] = NodeTypes[e.type]
    BY DEF Known
  <2>2. CASE e \in About(Heard, n)
    BY <2>1, <2>2 DEF Known, SaysRight
  <2>3. CASE e \in About(N, n)
    BY <1>3, <2>3 DEF Telling
  <2>4. QED
    BY <1>1, <2>2, <2>3
<1>8. Reported'
  <2>1. SUFFICES ASSUME NEW n \in Nodes, status'[n] \in Settled
                 PROVE  \E e \in About(Heard', n) : NodeTypes[e.type] = status'[n]
    BY DEF Reported
  <2>2. CASE About(N, n) = {}
    <3>1. status'[n] = status[n]
      BY <2>1, <2>2 DEF SaysRight, Untold
    <3>2. QED
      BY <1>1, <2>1, <3>1 DEF Reported
  <2>3. CASE About(N, n) # {}
    BY <1>1, <1>3, <2>3 DEF Telling
  <2>4. QED
    BY <2>2, <2>3
<1>9. ResultsHeard'
  <2>1. SUFFICES ASSUME NEW n \in Nodes
                 PROVE  /\ \A e \in Completions(Heard', n) : results'[n] = e.out
                        /\ Completions(Heard', n) = {} => results'[n] = NoResult
    BY DEF ResultsHeard
  <2>2. Completions(Heard', n) =
          Completions(Heard, n) \cup {e \in About(N, n) : e.type = "nodeCompleted"}
    BY <1>1, CompletionsAre
  <2>3. ASSUME NEW e \in Completions(Heard, n) PROVE results'[n] = e.out
    <3>1. e \in About(Heard, n) /\ e.type = "nodeCompleted"
      BY CompletionsAre
    <3>2. status[n] \in Settled
      BY <3>1, NodeTypesAre DEF Known, Settled
    <3>3. QED
      BY <3>2 DEF ResultsHeard, SaysRight
  <2>4. ASSUME NEW e \in About(N, n), e.type = "nodeCompleted" PROVE results'[n] = e.out
    BY <1>3, <2>4 DEF Telling
  <2>5. ASSUME Completions(Heard', n) = {} PROVE results'[n] = NoResult
    <3>1. results[n] = NoResult
      BY <2>2, <2>5 DEF ResultsHeard
    <3>2. CASE About(N, n) = {}
      BY <3>1, <3>2 DEF SaysRight, Untold
    <3>3. CASE About(N, n) # {}
      BY <1>3, <2>2, <2>5, <3>1, <3>3 DEF Telling
    <3>4. QED
      BY <3>2, <3>3
  <2>6. QED
    BY <2>2, <2>3, <2>4, <2>5
<1>10. QED
  BY <1>6, <1>7, <1>8, <1>9

(* What is said of a node that starts or runs on follows what was said of  *)
(* the nodes it depends on.                                                *)
LEMMA SaysInOrder ==
  ASSUME NumberInv, up, Reported, OrderedIn(Heard), DependencyOrder, NEW N, SaysRight(N)
  PROVE  OrderedIn(Heard)'
<1>1. SUFFICES ASSUME NEW n \in Nodes, NEW e \in About(Heard', n),
                      e.type # "nodeSkipped", Preds(n) # {}
               PROVE  /\ \E p \in Preds(n) : Before(Heard', p, {"nodeCompleted"}, e.seq)
                      /\ \/ n \in RaceJoins
                         \/ \A p \in Preds(n) :
                              Before(Heard', p, {"nodeCompleted", "nodeSkipped"}, e.seq)
  BY DEF OrderedIn, Before, Preds, Succs, Edges
<1>2. \A m : About(Heard', m) = About(Heard, m) \cup About(N, m)
  BY DEF SaysRight, About
<1>3. CASE e \in About(Heard, n)
  BY <1>1, <1>2, <1>3 DEF OrderedIn, Before
<1>4. CASE e \in About(N, n)
  <2>1. HasCompletedPred(n) /\ (n \in RaceJoins \/ AllPredsSettled(n))
    <3>1. Telling(e, n)
      BY <1>4 DEF SaysRight
    <3>2. QED
      BY <1>1, <3>1 DEF Telling, DependencyOrder, ReadyNodes
  <2>2. ASSUME NEW p \in Preds(n), NEW type \in DOMAIN NodeTypes,
               status[p] = NodeTypes[type], NodeTypes[type] \in Settled
        PROVE  Before(Heard', p, {type}, e.seq)
    <3>1. p \in Nodes
      BY DEF Preds
    <3>2. PICK f \in About(Heard, p) : NodeTypes[f.type] = NodeTypes[type]
      BY <2>2, <3>1 DEF Reported
    <3>3. f.type = type
      BY <2>2, <3>2, NodeTypesAre DEF About, Tells
    <3>4. f.seq < e.seq
      BY <1>4 DEF About, SaysRight
    <3>5. QED
      BY <1>2, <3>3, <3>4 DEF Before
  <2>3. \E p \in Preds(n) : Before(Heard', p, {"nodeCompleted"}, e.seq)
    BY <2>1, <2>2, NodeTypesAre DEF HasCompletedPred, Settled
  <2>4. ASSUME AllPredsSettled(n), NEW p \in Preds(n)
        PROVE  Before(Heard', p, {"nodeCompleted", "nodeSkipped"}, e.seq)
    <3>1. status[p] \in {"completed", "skipped"}
      BY <2>4 DEF AllPredsSettled
    <3>2. Before(Heard', p, {"nodeCompleted"}, e.seq) \/ Before(Heard', p, {"nodeSkipped"}, e.seq)
      BY <2>2, <3>1, NodeTypesAre DEF Settled
    <3>3. QED
      BY <3>2 DEF Before
  <2>5. QED
    BY <2>1, <2>3, <2>4
<1>5. QED
  BY <1>2, <1>3, <1>4

(* What is said of a sweep is said in its order.                           *)
LEMMA SaysSwept ==
  ASSUME SweptIn(Heard), NEW N, SaysRight(N)
  PROVE  SweptIn(Heard)'
<1>1. \A m : About(Heard', m) = About(Heard, m) \cup About(N, m)
  BY DEF SaysRight, About
<1>2. SUFFICES ASSUME NEW n \in Nodes, NEW r \in Nodes, ChosenBy(r, n),
                      NEW f \in About(Heard', n), f.type = "nodeSkipped"
               PROVE  Before(Heard', r, {"nodeSkipped"}, f.seq)
  BY DEF SweptIn, Before, ChosenBy, Edges
<1>3. CASE f \in About(Heard, n)
  BY <1>1, <1>2, <1>3 DEF SweptIn, Before
<1>4. CASE f \in About(N, n)
  <2>1. SweptIn(N)
    BY DEF SaysRight
  <2>2. QED
    BY <1>1, <1>2, <1>4, <2>1 DEF SweptIn, Before
<1>5. QED
  BY <1>1, <1>2, <1>3, <1>4

(* That an execution is completed follows what was said of all nodes.      *)
LEMMA SaysDone ==
  ASSUME Reported, DoneIn(Heard), NEW N, SaysRight(N)
  PROVE  DoneIn(Heard)'
<1>1. SUFFICES ASSUME NEW e \in Heard', e.type = "executionCompleted", NEW n \in Nodes
               PROVE  Before(Heard', n, {"nodeCompleted", "nodeSkipped"}, e.seq)
  BY DEF DoneIn, Before
<1>2. Heard' = Heard \cup N /\ About(Heard, n) \subseteq About(Heard', n)
  BY DEF SaysRight, About
<1>3. CASE e \in Heard
  BY <1>1, <1>2, <1>3 DEF DoneIn, Before
<1>4. CASE e \in N
  <2>1. status[n] \in {"completed", "skipped"}
    BY <1>1, <1>4 DEF SaysRight, AllDone
  <2>2. PICK f \in About(Heard, n) : NodeTypes[f.type] = status[n]
    BY <2>1 DEF Reported, Settled
  <2>3. f.type \in {"nodeCompleted", "nodeSkipped"}
    BY <2>1, <2>2, NodeTypesAre DEF About, Tells
  <2>4. f.seq < e.seq
    BY <1>4 DEF About, SaysRight
  <2>5. QED
    BY <1>2, <2>3, <2>4 DEF Before
<1>5. QED
  BY <1>2, <1>3, <1>4

-----------------------------------------------------------------------------
(* Replaying a set of events in which nodes are settled for good.          *)

Recorded(S) ==
  /\ Bounded(S) /\ Distinct(S) /\ FinalIn(S)
  /\ \A e \in S : e.seq \in Nat

LEMMA RecordedPart ==
  ASSUME NEW S, Recorded(S), NEW T \in SUBSET S
  PROVE  Recorded(T)
<1>1. FinalIn(T)
  BY DEF Recorded, FinalIn, About
<1>2. QED
  BY <1>1 DEF Recorded, Bounded, Distinct

LEMMA RecordedLast ==
  ASSUME NEW S, Recorded(S), NEW T \in SUBSET S, T # {}
  PROVE  Latest(T) \in T /\ \A f \in T : f.seq <= Latest(T).seq
<1>1. PICK b \in Nat : \A e \in S : e.seq <= b
  BY DEF Recorded, Bounded
<1>2. \A e \in T : e.seq \in Nat /\ e.seq <= b
  BY <1>1 DEF Recorded
<1>3. QED
  BY <1>2, LastExists

LEMMA ReplaySettles ==
  ASSUME NEW S, Recorded(S), NEW n \in Nodes, NEW e \in About(S, n),
         NodeTypes[e.type] \in Settled
  PROVE  ReplayNode(S, n) = NodeTypes[e.type]
<1>1. About(S, n) \in SUBSET S /\ About(S, n) # {}
  BY DEF About
<1>2. /\ Latest(About(S, n)) \in About(S, n)
      /\ \A f \in About(S, n) : f.seq <= Latest(About(S, n)).seq
  BY <1>1, RecordedLast
<1>3. Latest(About(S, n)).seq <= e.seq /\ e.seq <= Latest(About(S, n)).seq
  BY <1>2 DEF Recorded, FinalIn
<1>4. e.seq \in Nat /\ Latest(About(S, n)).seq \in Nat
  BY <1>1, <1>2 DEF Recorded
<1>5. Latest(About(S, n)) = e
  BY <1>1, <1>2, <1>3, <1>4 DEF Recorded, Distinct
<1>6. ReplayNode(S, n) =
        IF About(S, n) = {} THEN "pending" ELSE NodeTypes[Latest(About(S, n)).type]
  BY DEF ReplayNode, About, Tells
<1>7. QED
  BY <1>1, <1>5, <1>6

LEMMA ReplaySays ==
  ASSUME NEW S, Recorded(S), NEW n \in Nodes
  PROVE  \/ ReplayNode(S, n) = "pending"
         \/ \E e \in About(S, n) : ReplayNode(S, n) = NodeTypes[e.type]
<1>1. About(S, n) \in SUBSET S
  BY DEF About
<1>2. About(S, n) # {} => Latest(About(S, n)) \in About(S, n)
  BY <1>1, RecordedLast
<1>3. ReplayNode(S, n) =
        IF About(S, n) = {} THEN "pending" ELSE NodeTypes[Latest(About(S, n)).type]
  BY DEF ReplayNode, About, Tells
<1>4. QED
  BY <1>2, <1>3

LEMMA ReplayDone ==
  ASSUME NEW S, Recorded(S), ReplayExecution(S) = "completed"
  PROVE  \E e \in S : e.type = "executionCompleted"
<1> DEFINE evs == {e \in S : e.type \in DOMAIN ExecutionTypes}
<1>1. evs # {} /\ ExecutionTypes[Latest(evs).type] = "completed"
  BY DEF ReplayExecution
<1>2. evs \in SUBSET S
  OBVIOUS
<1> HIDE DEF evs
<1>3. Latest(evs) \in evs
  BY <1>1, <1>2, RecordedLast
<1>4. \A type \in DOMAIN ExecutionTypes :
        ExecutionTypes[type] = "completed" => type = "executionCompleted"
  BY DEF ExecutionTypes
<1>5. QED
  BY <1>1, <1>3, <1>4 DEF evs

(* Settled nodes are resumed as they were, the others to be run.           *)
LEMMA ResumeSays ==
  ASSUME NEW S, Recorded(S), NEW n \in Nodes
  PROVE  /\ ReplayNode(S, n) \in Settled => ResumeNode(S, n) = ReplayNode(S, n)
         /\ ReplayNode(S, n) \notin Settled => ResumeNode(S, n) = "pending"
<1>1. ReplayNode(S, n) \in Settled \cup {"pending", "running"}
  BY ReplaySays, NodeTypesAre DEF About, Tells, Settled
<1>2. ASSUME ReplayNode(S, n) = "running" PROVE Completions(S, n) = {}
  <2>1. \A e \in Completions(S, n) : e \in About(S, n) /\ NodeTypes[e.type] = "completed"
    BY CompletionsAre, NodeTypesAre
  <2>2. \A e \in Completions(S, n) : ReplayNode(S, n) = "completed"
    BY <2>1, ReplaySettles DEF Settled
  <2>3. QED
    BY <1>2, <2>2
<1>3. QED
  BY <1>1, <1>2 DEF ResumeNode, Settled

LEMMA CompletedAlone ==
  ASSUME NEW S, Recorded(S), NEW n \in Nodes,
         NEW e \in Completions(S, n), NEW f \in Completions(S, n)
  PROVE  e = f
<1>1. e \in About(S, n) /\ f \in About(S, n)
  BY CompletionsAre
<1>2. NodeTypes[e.type] \in Settled /\ NodeTypes[f.type] \in Settled
  BY CompletionsAre, NodeTypesAre DEF Settled
<1>3. e.seq <= f.seq /\ f.seq <= e.seq
  BY <1>1, <1>2 DEF Recorded, FinalIn
<1>4. e \in S /\ f \in S /\ e.seq \in Nat /\ f.seq \in Nat
  BY <1>1 DEF About, Recorded
<1>5. QED
  BY <1>3, <1>4 DEF Recorded, Distinct

LEMMA ReplayResults ==
  ASSUME NEW S, Recorded(S), NEW n \in Nodes
  PROVE  /\ \A e \in Completions(S, n) : ReplayResult(S, n) = e.out
         /\ Completions(S, n) = {} => ReplayResult(S, n) = NoResult
<1>1. ASSUME NEW e \in Completions(S, n) PROVE ReplayResult(S, n) = e.out
  <2>1. Completions(S, n) \in SUBSET S /\ Completions(S, n) # {}
    BY DEF Completions
  <2>2. Latest(Completions(S, n)) \in Completions(S, n)
    BY <2>1, RecordedLast
  <2>3. Latest(Completions(S, n)) = e
    BY <2>2, CompletedAlone
  <2>4. QED
    BY <2>1, <2>3 DEF ReplayResult
<1>2. QED
  BY <1>1 DEF ReplayResult

(* What has been said, and what of it is stored, can be replayed.          *)
LEMMA HeardRecorded ==
  ASSUME HeardInv PROVE Recorded(Heard) /\ Recorded(log)
<1>1. NumberInv /\ DTypeOK /\ FinalIn(Heard) /\ Distinct(Heard)
  BY DEF HeardInv, NumberInv
<1>2. \A e \in Heard : e.seq \in Nat
  BY <1>1, StoredTypes DEF StoredEvents
<1>3. Bounded(Heard)
  <2>1. CASE up
    <3>1. base + Len(events) \in Nat
      BY <1>1 DEF DTypeOK, TypeOK
    <3>2. QED
      BY <1>1, <2>1, <3>1, HeardBelow DEF Bounded
  <2>2. CASE ~up
    <3>1. Heard = log
      BY <1>1, <2>2, HeardAlone DEF NumberInv
    <3>2. QED
      BY <1>1, <3>1 DEF NumberInv
  <2>3. QED
    BY <2>1, <2>2
<1>4. Recorded(Heard)
  BY <1>1, <1>2, <1>3 DEF Recorded
<1>5. log \in SUBSET Heard
  BY DEF Heard
<1>6. QED
  BY <1>4, <1>5, RecordedPart

(* Unless an append was lost, what the store holds is in order too: it     *)
(* holds the first events of the engine.                                   *)
LEMMA LogOrdered ==
  ASSUME HeardInv, lost = 0 PROVE OrderedIn(log) /\ SweptIn(log) /\ DoneIn(log)
<1>1. NumberInv /\ DTypeOK /\ OrderedIn(Heard) /\ SweptIn(Heard) /\ DoneIn(Heard)
  BY DEF HeardInv, NumberInv
<1>2. CASE ~up
  <2>1. Heard = log
    BY <1>1, <1>2, HeardAlone DEF NumberInv
  <2>2. QED
    BY <1>1, <2>1
<1>3. CASE up
  <2>1. /\ log \subseteq StoredEvents /\ events \in Seq(Events) /\ base \in Nat
        /\ flushed \in 0 .. Len(events) /\ Placed /\ Kept
    BY <1>1, <1>3 DEF DTypeOK, TypeOK, StoredEvents, NumberInv, HeardInv
  <2>2. \A i \in 1 .. Len(events) : Stored(base + i, events[i]).seq = base + i
    BY DEF Stored
  <2>3. ASSUME NEW e \in log, NEW f \in Heard, f.seq < e.seq PROVE f \in log
    <3>1. SUFFICES ASSUME NEW i \in 1 .. Len(events), f = Stored(base + i, events[i])
                   PROVE  f \in log
      BY <2>1 DEF Heard
    <3>2. f.seq = base + i
      BY <2>2, <3>1
    <3>3. ~(e.seq <= base)
      BY <2>1, <2>3, <3>2 DEF StoredEvents
    <3>4. PICK j \in 1 .. flushed : e = Stored(base + j, events[j])
      BY <2>1, <3>3 DEF Placed
    <3>5. e.seq = base + j
      BY <2>1, <2>2, <3>4
    <3>6. i \in 1 .. flushed
      BY <2>1, <2>3, <3>2, <3>5
    <3>7. QED
      BY <2>1, <3>1, <3>6 DEF Kept
  <2>4. ASSUME NEW p, NEW types, NEW e \in log, Before(Heard, p, types, e.seq)
        PROVE  Before(log, p, types, e.seq)
    BY <2>3, <2>4 DEF Before, About
  <2>5. \A n \in Nodes : \A e \in About(log, n) : e \in log /\ e \in About(Heard, n)
    BY DEF About, Heard
  <2>6. OrderedIn(log)
    BY <1>1, <2>4, <2>5 DEF OrderedIn
  <2>7. DoneIn(log)
    BY <1>1, <2>4 DEF DoneIn, Heard
  <2>8. SweptIn(log)
    BY <1>1, <2>4, <2>5 DEF SweptIn
  <2>9. QED
    BY <2>6, <2>7, <2>8
<1>4. QED
  BY <1>2, <1>3

-----------------------------------------------------------------------------
(* HeardInv is inductive for plain graphs.                                 *)

(* Engines at rest: right after a crash or a resume.                       *)
LEMMA Resting ==
  ASSUME TypeOK', Undecided', exec' = [l \in Loops |-> [n \in Nodes |-> "none"]],
         signals' = {}
  PROVE  PlainInv'
<1>1. \A l \in Loops, n \in Nodes : exec'[l][n] = "none"
  OBVIOUS
<1>2. \A l \in Loops : Executing(l)' = {}
  BY <1>1 DEF Executing
<1>3. LoopBound'
  <2>1. Cardinality({}) = 0 /\ 0 <= MaxConcurrency
    BY FS_EmptySet, OptionAssumption
  <2>2. QED
    BY <1>2, <2>1, Zenon DEF LoopBound, Loops
<1>4. AtRest' /\ SignalsWait'
  BY <1>2 DEF AtRest, SignalsWait, Loops
<1>5. StatusTracks' /\ NoDoubleRun'
  BY <1>1 DEF StatusTracks, NoDoubleRun, Loops
<1>6. QED
  BY <1>3, <1>4, <1>5 DEF PlainInv, BarrierInv

LEMMA EngineHears ==
  ASSUME PlainGraph, Repeatable, HeardInv, up, [Next]_vars, UNCHANGED storeVars
  PROVE  HeardInv' /\ Settles
<1>1. NumberInv /\ PlainInv /\ FinalIn(Heard) /\ Known /\ Reported /\ ResultsHeard
  BY DEF HeardInv
<1>2. PICK N : SaysRight(N)
  BY <1>1, EngineSays
<1>3. NumberInv'
  BY <1>1, EngineNumbers
<1>4. PlainInv' /\ Settles /\ (DependencyOrder => DependencyOrder')
  BY <1>1, PlainStep DEF PlainParts
<1>5. FinalIn(Heard)' /\ Known' /\ Reported' /\ ResultsHeard'
  BY <1>1, <1>2, SaysKeeps
<1>6. UNCHANGED <<log, flushed, base, up, lost>>
  BY DEF storeVars
<1>7. ASSUME lost = 0
      PROVE  /\ OrderedIn(Heard)' /\ SweptIn(Heard)' /\ DoneIn(Heard)'
             /\ DependencyOrder' /\ EndsDone'
  <2>1. OrderedIn(Heard) /\ SweptIn(Heard) /\ DoneIn(Heard) /\ DependencyOrder /\ EndsDone
    BY <1>7 DEF HeardInv
  <2>2. OrderedIn(Heard)' /\ SweptIn(Heard)' /\ DoneIn(Heard)' /\ DependencyOrder'
    BY <1>1, <1>2, <1>4, <2>1, SaysInOrder, SaysSwept, SaysDone
  <2>3. EndsDone'
    BY <1>4, <2>1, DoneCompletes, DoneStays
  <2>4. QED
    BY <2>2, <2>3
<1>8. ASSUME Kept PROVE Kept'
  <2>1. TypeOK /\ flushed \in 0 .. Len(events) /\ events \in Seq(Events)
    BY <1>1 DEF NumberInv, DTypeOK, TypeOK
  <2>2. PICK tail \in Seq(Events) : events' = events \o tail
    BY <2>1, EngineAppends DEF Extends
  <2>3. \A i \in 1 .. flushed : events'[i] = events[i]
    BY <2>1, <2>2, ConcatProperties
  <2>4. QED
    BY <1>6, <1>8, <2>3 DEF Kept
<1>9. \A e \in Heard' : Fits(e)
  BY <1>2 DEF HeardInv, SaysRight
<1>10. QED
  BY <1>3, <1>4, <1>5, <1>6, <1>7, <1>8, <1>9 DEF HeardInv

LEMMA SettlesHears ==
  ASSUME PlainGraph, HeardInv, AppendSettles
  PROVE  HeardInv'
<1>1. NumberInv /\ DTypeOK /\ PlainInv
  BY DEF HeardInv, NumberInv
<1>2. /\ Heard' = Heard
      /\ flushed + 1 \in DOMAIN events /\ flushed' = flushed + 1
      /\ \/ log' = log \cup {Stored(base + (flushed + 1), events[flushed + 1])}
         \/ log' = log /\ lost' > lost
      /\ UNCHANGED <<vars, base, up>>
  BY <1>1, SettledHeard, Zenon
<1>3. NumberInv'
  BY <1>1, SettlesNumbers
<1>4. PlainInv' /\ (DependencyOrder => DependencyOrder')
  BY <1>1, <1>2, PlainStep DEF PlainParts
<1>5. UNCHANGED <<status, results, events>>
  BY <1>2 DEF vars
<1>6. FinalIn(Heard)' /\ (Known => Known') /\ (Reported => Reported')
      /\ (ResultsHeard => ResultsHeard')
  BY <1>2, <1>5 DEF HeardInv, FinalIn, Known, Reported, ResultsHeard, About, Completions
<1>7. lost \in Nat /\ flushed \in Nat
  BY <1>1, DurableAssumption DEF DTypeOK
<1>8. ASSUME lost' = 0
      PROVE  /\ lost = 0
             /\ log' = log \cup {Stored(base + (flushed + 1), events[flushed + 1])}
  <2>1. lost' = lost \/ lost' = lost + 1
    BY DEF AppendSettles
  <2>2. QED
    BY <1>2, <1>7, <1>8, <2>1
<1>9. /\ OrderedIn(Heard) => OrderedIn(Heard)'
      /\ SweptIn(Heard) => SweptIn(Heard)'
      /\ DoneIn(Heard) => DoneIn(Heard)'
      /\ EndsDone => EndsDone'
  BY <1>2 DEF OrderedIn, SweptIn, DoneIn, Before, About, ChosenBy, Preds, Succs, Edges,
     EndsDone, AllDone, vars
<1>10. ASSUME lost' = 0, Kept PROVE Kept'
  <2>1. \A i \in 1 .. flushed + 1 : i \in 1 .. flushed \/ i = flushed + 1
    BY <1>7
  <2>2. \A i \in 1 .. flushed + 1 : Stored(base + i, events[i]) \in log'
    BY <1>8, <1>10, <2>1 DEF Kept
  <2>3. QED
    BY <1>2, <1>5, <2>2 DEF Kept
<1>11. up' /\ \A e \in Heard' : Fits(e)
  BY <1>2 DEF HeardInv, AppendSettles
<1>12. QED
  BY <1>2, <1>3, <1>4, <1>6, <1>8, <1>9, <1>10, <1>11 DEF HeardInv

LEMMA CrashHears ==
  ASSUME HeardInv, Crash
  PROVE  HeardInv'
<1>1. NumberInv /\ FinalIn(Heard)
  BY DEF HeardInv
<1>2. NumberInv'
  BY <1>1, CrashNumbers
<1>3. TypeOK'
  BY <1>2 DEF NumberInv, DTypeOK
<1>4. PlainInv'
  <2>1. \A n \in Nodes : status'[n] = "pending"
    BY DEF Crash
  <2>2. Undecided'
    BY <2>1, GraphTypes DEF Undecided
  <2>3. QED
    BY <1>3, <2>2, Resting DEF Crash
<1>5. Heard' = log /\ ~up' /\ lost' = lost /\ xstatus' = "created"
  BY DEF Crash, Heard
<1>6. FinalIn(Heard)'
  <2>1. FinalIn(log)
    BY HeardRecorded DEF Recorded
  <2>2. QED
    BY <1>5, <2>1 DEF FinalIn, About
<1>7. DependencyOrder' /\ EndsDone'
  BY <1>5 DEF Crash, DependencyOrder, Started, EndsDone
<1>8. ASSUME lost = 0 PROVE OrderedIn(Heard)' /\ SweptIn(Heard)' /\ DoneIn(Heard)'
  <2>1. OrderedIn(log) /\ SweptIn(log) /\ DoneIn(log)
    BY <1>8, LogOrdered
  <2>2. QED
    BY <1>5, <2>1 DEF OrderedIn, SweptIn, DoneIn, Before, About, ChosenBy, Preds, Succs, Edges
<1>9. \A e \in Heard' : Fits(e)
  BY <1>5 DEF HeardInv, Heard
<1>10. QED
  BY <1>2, <1>4, <1>5, <1>6, <1>7, <1>8, <1>9 DEF HeardInv

(* A replayed node was started after what it depends on.                   *)
LEMMA ReplayInOrder ==
  ASSUME Recorded(log), OrderedIn(log), NEW n \in Nodes, Preds(n) # {},
         ReplayNode(log, n) \in {"running", "completed", "failed"}
  PROVE  /\ \E p \in Preds(n) : ReplayNode(log, p) = "completed"
         /\ \/ n \in RaceJoins
            \/ \A p \in Preds(n) : ReplayNode(log, p) \in {"completed", "skipped"}
<1>1. PICK e \in About(log, n) : ReplayNode(log, n) = NodeTypes[e.type]
  BY ReplaySays
<1>2. e.type # "nodeSkipped"
  BY <1>1, NodeTypesAre
<1>3. /\ \E p \in Preds(n) : Before(log, p, {"nodeCompleted"}, e.seq)
      /\ \/ n \in RaceJoins
         \/ \A p \in Preds(n) : Before(log, p, {"nodeCompleted", "nodeSkipped"}, e.seq)
  BY <1>2 DEF OrderedIn
<1>4. ASSUME NEW p \in Preds(n), NEW type \in {"nodeCompleted", "nodeSkipped"},
             NEW f \in About(log, p), f.type = type
      PROVE  ReplayNode(log, p) = NodeTypes[type]
  <2>1. p \in Nodes
    BY DEF Preds
  <2>2. NodeTypes[type] \in Settled
    BY NodeTypesAre DEF Settled
  <2>3. QED
    BY <1>4, <2>1, <2>2, ReplaySettles
<1>5. ASSUME NEW p \in Preds(n), NEW types, types \subseteq {"nodeCompleted", "nodeSkipped"},
             Before(log, p, types, e.seq)
      PROVE  ReplayNode(log, p) \in {NodeTypes[type] : type \in types}
  <2>1. PICK f \in About(log, p) : f.type \in types
    BY <1>5 DEF Before
  <2>2. QED
    BY <1>4, <1>5, <2>1
<1>6. \A p \in Preds(n) : Before(log, p, {"nodeCompleted"}, e.seq)
                            => ReplayNode(log, p) = "completed"
  <2>1. SUFFICES ASSUME NEW p \in Preds(n), Before(log, p, {"nodeCompleted"}, e.seq)
                 PROVE  ReplayNode(log, p) = "completed"
    OBVIOUS
  <2>2. ReplayNode(log, p) \in {NodeTypes[type] : type \in {"nodeCompleted"}}
    BY <1>5, <2>1
  <2>3. QED
    BY <2>2, NodeTypesAre
<1>7. \A p \in Preds(n) : Before(log, p, {"nodeCompleted", "nodeSkipped"}, e.seq)
                            => ReplayNode(log, p) \in {"completed", "skipped"}
  <2>1. SUFFICES ASSUME NEW p \in Preds(n),
                        Before(log, p, {"nodeCompleted", "nodeSkipped"}, e.seq)
                 PROVE  ReplayNode(log, p) \in {"completed", "skipped"}
    OBVIOUS
  <2>2. ReplayNode(log, p) \in {NodeTypes[type] : type \in {"nodeCompleted", "nodeSkipped"}}
    BY <1>5, <2>1
  <2>3. QED
    BY <2>2, NodeTypesAre
<1>8. QED
  BY <1>3, <1>6, <1>7

(* A replayed router that has neither completed nor been skipped has left  *)
(* its targets alone, although its decision may have been partly stored.   *)
LEMMA ReplayUndecided ==
  ASSUME PlainGraph, Repeatable, HeardInv, NEW r \in Nodes, Kind[r] = "router",
         ReplayNode(log, r) \notin {"completed", "skipped"}, NEW e \in Edges(r)
  PROVE  \/ ReplayNode(log, e.to) = "pending"
         \/ ReplayNode(log, e.to) = "skipped" /\ e.label \notin Returns[r]
<1>1. e.to \in Nodes /\ r \in Preds(e.to)
  BY GraphTypes DEF Preds, Succs
<1>2. lost = 0
  BY DurableAssumption DEF HeardInv, NumberInv, DTypeOK, Repeatable
<1>3. Recorded(log) /\ OrderedIn(log) /\ SweptIn(log)
  BY <1>2, HeardRecorded, LogOrdered
<1>4. ReplayNode(log, e.to) \in {"pending", "running", "completed", "failed", "skipped"}
  BY <1>1, <1>3, ReplaySays, NodeTypesAre DEF About, Tells
<1>5. CASE ReplayNode(log, e.to) \in {"running", "completed", "failed"}
  <2>1. /\ \E p \in Preds(e.to) : ReplayNode(log, p) = "completed"
        /\ \/ e.to \in RaceJoins
           \/ \A p \in Preds(e.to) : ReplayNode(log, p) \in {"completed", "skipped"}
    BY <1>1, <1>3, <1>5, ReplayInOrder
  <2>2. \A p \in Preds(e.to) \ {r} : e.to \notin RaceJoins
    BY DEF PlainGraph, PlainRouter
  <2>3. QED
    BY <1>1, <2>1, <2>2
<1>6. CASE ReplayNode(log, e.to) = "skipped"
  <2>1. PICK f \in About(log, e.to) : NodeTypes[f.type] = "skipped"
    BY <1>1, <1>3, <1>6, ReplaySays
  <2>2. f.type = "nodeSkipped"
    BY <2>1, NodeTypesAre DEF About, Tells
  <2>3. ASSUME e.label \in Returns[r] PROVE FALSE
    <3>1. ChosenBy(r, e.to)
      BY <2>3 DEF ChosenBy
    <3>2. PICK g \in About(log, r) : g.type = "nodeSkipped"
      BY <1>1, <1>3, <2>2, <3>1 DEF SweptIn, Before
    <3>3. ReplayNode(log, r) = "skipped"
      BY <1>3, <3>2, ReplaySettles, NodeTypesAre DEF Settled
    <3>4. QED
      BY <3>3
  <2>4. QED
    BY <1>6, <2>3
<1>7. QED
  BY <1>4, <1>5, <1>6

LEMMA ResumeHears ==
  ASSUME PlainGraph, Repeatable, HeardInv, ResumeRun, up', log' = log, NumberInv'
  PROVE  HeardInv'
<1>1. Recorded(log) /\ Recorded(Heard)
  BY HeardRecorded
<1> DEFINE final == ReplayExecution(log) \in {"completed", "failed", "cancelled"}
<1>2. /\ lost' = lost /\ flushed' = 0
      /\ xstatus' = IF final THEN ReplayExecution(log) ELSE "running"
      /\ status' = [n \in Nodes |-> IF final THEN ReplayNode(log, n) ELSE ResumeNode(log, n)]
      /\ results' = [n \in Nodes |-> ReplayResult(log, n)]
      /\ events' = IF final THEN <<>> ELSE <<Lifecycle("executionStarted")>>
  BY DEF ResumeRun
<1>3. log \subseteq Heard' /\ \A e \in Heard' \ log : e.type = "executionStarted"
  BY <1>2 DEF Heard, Stored, Lifecycle, Event
<1>4. \A n \in Nodes : About(Heard', n) = About(log, n)
  BY <1>3, NodeTypesAre DEF About, Tells
<1>5. \A n \in Nodes : Completions(Heard', n) = Completions(log, n)
  BY <1>4, CompletionsAre
<1>6. FinalIn(Heard)'
  BY <1>1, <1>4 DEF Recorded, FinalIn
<1>7. \A n \in Nodes :
        /\ ReplayNode(log, n) \in Settled => status'[n] = ReplayNode(log, n)
        /\ ReplayNode(log, n) \notin Settled => status'[n] \notin Settled
        /\ status'[n] \in {ReplayNode(log, n), "pending"}
  <2>1. "pending" \notin Settled
    BY DEF Settled
  <2>2. \A n \in Nodes :
          /\ ReplayNode(log, n) \in Settled => ResumeNode(log, n) = ReplayNode(log, n)
          /\ ReplayNode(log, n) \notin Settled => ResumeNode(log, n) = "pending"
    BY <1>1, ResumeSays
  <2>3. \A n \in Nodes :
          status'[n] = IF final THEN ReplayNode(log, n) ELSE ResumeNode(log, n)
    BY <1>2, Zenon
  <2> HIDE DEF final
  <2>4. QED
    BY <2>1, <2>2, <2>3
<1>8. Known'
  BY <1>1, <1>4, <1>7, ReplaySettles DEF Known
<1>9. Reported'
  <2>1. SUFFICES ASSUME NEW n \in Nodes, status'[n] \in Settled
                 PROVE  \E e \in About(Heard', n) : NodeTypes[e.type] = status'[n]
    BY DEF Reported
  <2>2. status'[n] = ReplayNode(log, n) /\ ReplayNode(log, n) # "pending"
    BY <1>7, <2>1 DEF Settled
  <2>3. \E e \in About(log, n) : ReplayNode(log, n) = NodeTypes[e.type]
    BY <1>1, <2>2, ReplaySays
  <2>4. QED
    BY <1>4, <2>2, <2>3
<1>10. ResultsHeard'
  <2>1. \A n \in Nodes : results'[n] = ReplayResult(log, n)
    BY <1>2
  <2>2. QED
    BY <1>1, <1>5, <2>1, ReplayResults DEF ResultsHeard
<1>11. ASSUME lost = 0
       PROVE  /\ OrderedIn(Heard)' /\ SweptIn(Heard)' /\ DoneIn(Heard)'
              /\ DependencyOrder' /\ EndsDone'
  <2>1. OrderedIn(log) /\ SweptIn(log) /\ DoneIn(log)
    BY <1>11, LogOrdered
  <2>2. OrderedIn(Heard)' /\ SweptIn(Heard)' /\ DoneIn(Heard)'
    <3>1. \A n \in Nodes : Preds(n) \subseteq Nodes
      BY DEF Preds
    <3>2. OrderedIn(Heard)'
      BY <1>4, <2>1, <3>1 DEF OrderedIn, Before, Preds, Succs, Edges
    <3>3. DoneIn(Heard)'
      BY <1>3, <1>4, <2>1 DEF DoneIn, Before
    <3>4. SweptIn(Heard)'
      BY <1>4, <2>1 DEF SweptIn, Before, ChosenBy, Edges
    <3>5. QED
      BY <3>2, <3>3, <3>4
  <2>3. DependencyOrder'
    <3>1. SUFFICES ASSUME NEW n \in Nodes, status'[n] \in Started, Preds(n) # {}
                   PROVE  /\ \E p \in Preds(n) : status'[p] = "completed"
                          /\ \/ n \in RaceJoins
                             \/ \A p \in Preds(n) : status'[p] \in {"completed", "skipped"}
      BY DEF DependencyOrder, HasCompletedPred, AllPredsSettled, Preds, Succs, Edges
    <3>2. ReplayNode(log, n) \in {"running", "completed", "failed"}
      <4>1. status'[n] = ReplayNode(log, n)
        BY <1>7, <3>1 DEF Started
      <4>2. ReplayNode(log, n) \in {"pending", "running", "completed", "failed", "skipped"}
        BY <1>1, ReplaySays, NodeTypesAre DEF About, Tells
      <4>3. QED
        BY <3>1, <4>1, <4>2 DEF Started
    <3>3. \A p \in Preds(n) : ReplayNode(log, p) \in Settled
                                => status'[p] = ReplayNode(log, p)
      BY <1>7 DEF Preds
    <3>4. QED
      BY <1>1, <2>1, <3>1, <3>2, <3>3, ReplayInOrder DEF Settled
  <2>4. EndsDone'
    <3>1. SUFFICES ASSUME xstatus' = "completed", NEW n \in Nodes
                   PROVE  status'[n] \in {"completed", "skipped"}
      BY DEF EndsDone, AllDone
    <3>2. ReplayExecution(log) = "completed"
      BY <1>2, <3>1
    <3>3. PICK e \in log : e.type = "executionCompleted"
      BY <1>1, <3>2, ReplayDone
    <3>4. PICK f \in About(log, n) : f.type \in {"nodeCompleted", "nodeSkipped"}
      BY <2>1, <3>3 DEF DoneIn, Before
    <3>5. ReplayNode(log, n) \in {"completed", "skipped"}
      BY <1>1, <3>4, ReplaySettles, NodeTypesAre DEF Settled
    <3>6. QED
      BY <1>7, <3>5 DEF Settled
  <2>5. QED
    BY <2>2, <2>3, <2>4
<1>12. Kept'
  BY <1>2 DEF Kept
<1>13. \A e \in Heard' : Fits(e)
  BY <1>3 DEF HeardInv, Heard, Fits
<1>14. PlainInv'
  <2>1. TypeOK'
    BY DEF NumberInv, DTypeOK
  <2>2. Undecided'
    <3>1. SUFFICES ASSUME NEW r \in Nodes, Kind[r] = "router",
                          status'[r] \notin {"completed", "skipped"}, NEW e \in Edges(r)
                   PROVE  \/ status'[e.to] = "pending"
                          \/ status'[e.to] = "skipped" /\ e.label \notin Returns[r]
      BY DEF Undecided, Edges
    <3>2. ReplayNode(log, r) \notin {"completed", "skipped"}
      BY <1>7, <3>1 DEF Settled
    <3>3. \/ ReplayNode(log, e.to) = "pending"
          \/ ReplayNode(log, e.to) = "skipped" /\ e.label \notin Returns[r]
      BY <3>1, <3>2, ReplayUndecided
    <3>4. e.to \in Nodes
      BY GraphTypes
    <3>5. QED
      BY <1>7, <3>3, <3>4
  <2>3. QED
    BY <2>1, <2>2, Resting DEF ResumeRun
<1>15. QED
  BY <1>2, <1>6, <1>8, <1>9, <1>10, <1>11, <1>12, <1>13, <1>14 DEF HeardInv

LEMMA HeardStep ==
  PlainGraph /\ Repeatable /\ ~LateLoads /\ HeardInv /\ [DNext]_dvars => HeardInv'
<1>1. ASSUME PlainGraph, Repeatable, HeardInv, EngineStep PROVE HeardInv'
  BY <1>1, EngineHears DEF EngineStep
<1>2. ASSUME PlainGraph, Repeatable, ~LateLoads, HeardInv, ResumeAfterCrash \/ ResumeReturned
      PROVE  HeardInv'
  <2>1. NumberInv /\ [DNext]_dvars
    BY <1>2 DEF HeardInv, DNext
  <2>2. NumberInv'
    BY <1>2, <2>1, NumberStep
  <2>3. ResumeRun /\ up' /\ log' = log
    BY <1>2, <2>1, ResumeKeeps
  <2>4. QED
    BY <1>2, <2>2, <2>3, ResumeHears
<1>3. ASSUME PlainGraph, Repeatable, ~LateLoads, HeardInv, UNCHANGED dvars PROVE HeardInv'
  <2>1. [Next]_vars /\ UNCHANGED storeVars /\ up' = up
    BY <1>3 DEF dvars, storeVars
  <2>2. CASE up
    BY <1>3, <2>1, <2>2, EngineHears
  <2>3. CASE ~up
    <3>1. NumberInv'
      BY <1>3, NumberStep DEF HeardInv
    <3>2. PlainInv' /\ (DependencyOrder => DependencyOrder')
      BY <1>3, <2>1, PlainStep DEF HeardInv, PlainParts
    <3>3. Heard' = Heard /\ lost' = lost
      BY <1>3 DEF dvars, vars, storeVars, Heard
    <3>4. /\ FinalIn(Heard)' /\ (OrderedIn(Heard) => OrderedIn(Heard)')
          /\ SweptIn(Heard) => SweptIn(Heard)'
          /\ DoneIn(Heard) => DoneIn(Heard)'
      BY <1>3, <3>3 DEF HeardInv, FinalIn, OrderedIn, SweptIn, DoneIn, Before, About, ChosenBy,
         Preds, Succs, Edges
    <3>5. xstatus' = "created" /\ EndsDone'
      BY <1>3, <2>3 DEF HeardInv, EndsDone, dvars, vars
    <3>6. QED
      BY <1>3, <2>1, <2>3, <3>1, <3>2, <3>3, <3>4, <3>5 DEF HeardInv
  <2>4. QED
    BY <2>2, <2>3
<1>4. QED
  BY <1>1, <1>2, <1>3, SettlesHears, CrashHears DEF DNext

LEMMA HeardInit == DInit => HeardInv
<1>1. SUFFICES ASSUME DInit PROVE HeardInv
  OBVIOUS
<1>2. NumberInv
  BY <1>1, NumberInit
<1>3. PlainInv /\ DependencyOrder
  BY <1>1, PlainInit DEF DInit
<1>4. Heard = {}
  BY <1>1, HeardAlone DEF DInit, Init
<1>5. FinalIn(Heard) /\ Known /\ OrderedIn(Heard) /\ SweptIn(Heard) /\ DoneIn(Heard)
  BY <1>4 DEF FinalIn, Known, OrderedIn, SweptIn, DoneIn, About
<1>6. Reported /\ ResultsHeard
  BY <1>1, <1>4 DEF DInit, Init, Reported, ResultsHeard, Settled, Completions
<1>7. Kept /\ EndsDone /\ up
  BY <1>1 DEF DInit, Init, Kept, EndsDone
<1>8. QED
  BY <1>2, <1>3, <1>4, <1>5, <1>6, <1>7 DEF HeardInv

LEMMA HeardAlways == PromptGraph => (DSpec => []HeardInv)
<1> SUFFICES ASSUME PromptGraph PROVE DSpec => []HeardInv
  OBVIOUS
<1>1. HeardInv /\ [DNext]_dvars => HeardInv'
  BY HeardStep DEF PromptGraph
<1>2. QED
  BY <1>1, HeardInit, PTL DEF DSpec

-----------------------------------------------------------------------------
(* What follows for plain graphs, for any number of crashes, resumes, lost *)
(* appends and overlapping run loops.                                      *)

LEMMA AtMostOne ==
  ASSUME NEW S, \A e, f \in S : e = f
  PROVE  Cardinality(S) <= 1
<1>1. CASE S = {}
  BY <1>1, FS_EmptySet
<1>2. CASE S # {}
  <2>1. PICK e : e \in S
    BY <1>2
  <2>2. S = {e}
    BY <2>1
  <2>3. QED
    BY <2>2, FS_Singleton
<1>3. QED
  BY <1>1, <1>2

(* The store never holds two events of one number or two completions of a  *)
(* node.                                                                   *)
THEOREM LogStaysSound == PromptGraph => (DSpec => []LogSound)
<1> SUFFICES ASSUME PromptGraph PROVE DSpec => []LogSound
  OBVIOUS
<1>1. ASSUME HeardInv PROVE LogSound
  <2>1. DTypeOK
    BY <1>1 DEF HeardInv, NumberInv
  <2>2. Recorded(log)
    BY <1>1, HeardRecorded
  <2>3. SequenceUnique
    BY <2>2 DEF Recorded, Distinct, SequenceUnique
  <2>4. CompletedOnceInLog
    BY <2>2, CompletedAlone, AtMostOne DEF CompletedOnceInLog
  <2>5. QED
    BY <2>1, <2>3, <2>4 DEF LogSound
<1>2. QED
  BY <1>1, HeardAlways, PTL

(* No node completes twice in the life of one engine.                      *)
THEOREM NodesCompleteOnce == PromptGraph => (DSpec => []CompletesOnce)
<1> SUFFICES ASSUME PromptGraph PROVE DSpec => []CompletesOnce
  OBVIOUS
<1>1. ASSUME HeardInv PROVE CompletesOnce
  <2>1. Recorded(Heard) /\ base \in Nat /\ events \in Seq(Events)
    BY <1>1, HeardRecorded DEF HeardInv, NumberInv, DTypeOK, TypeOK
  <2>2. SUFFICES ASSUME NEW n \in Nodes
                 PROVE  Cardinality({i \in DOMAIN events :
                          events[i].type = "nodeCompleted" /\ n \in events[i].nodes}) <= 1
    BY DEF CompletesOnce
  <2> DEFINE S == {i \in DOMAIN events :
                     events[i].type = "nodeCompleted" /\ n \in events[i].nodes}
  <2>3. ASSUME NEW i \in S PROVE Stored(base + i, events[i]) \in Completions(Heard, n)
    <3>1. Stored(base + i, events[i]) \in Heard
      BY DEF Heard
    <3>2. QED
      BY <3>1 DEF Completions, Stored
  <2>4. ASSUME NEW i \in S, NEW j \in S PROVE i = j
    <3>1. Stored(base + i, events[i]) = Stored(base + j, events[j])
      BY <2>1, <2>3, CompletedAlone
    <3>2. base + i = base + j
      BY <3>1 DEF Stored
    <3>3. QED
      BY <2>1, <3>2
  <2> HIDE DEF S
  <2>5. Cardinality(S) <= 1
    BY <2>4, AtMostOne
  <2>6. QED
    BY <2>5 DEF S
<1>2. QED
  BY <1>1, HeardAlways, PTL

(* Unless an append was lost, a node of a resumed execution starts after   *)
(* what it depends on, on whatever engines that completed.                 *)
THEOREM OrderIsKept == PromptGraph => (DSpec => []OrderKept)
<1> SUFFICES ASSUME PromptGraph PROVE DSpec => []OrderKept
  OBVIOUS
<1>1. HeardInv => OrderKept
  BY DEF HeardInv, OrderKept
<1>2. QED
  BY <1>1, HeardAlways, PTL

(* A node with a stored NODE_COMPLETED is not executed again.              *)
THEOREM StoredIsNotRerun == PromptGraph => (DSpec => NoReexecution)
<1> SUFFICES ASSUME PromptGraph PROVE DSpec => NoReexecution
  OBVIOUS
<1>1. ASSUME HeardInv, [DNext]_dvars, NEW n \in Nodes, Starts(n), NEW e \in Completions(log, n)
      PROVE  FALSE
  <2>1. e \in About(log, n) /\ e \in About(Heard, n) /\ e.type = "nodeCompleted"
    BY CompletionsAre DEF About, Heard
  <2>2. status[n] # "running" /\ status'[n] = "running"
    BY <1>1 DEF Starts
  <2>3. CASE EngineStep
    <3>1. status[n] = "completed"
      BY <1>1, <2>1, <2>3, NodeTypesAre DEF HeardInv, Known, Settled, EngineStep
    <3>2. Settles
      BY <1>1, <2>3, EngineHears DEF EngineStep, PromptGraph
    <3>3. QED
      BY <2>2, <3>1, <3>2 DEF Settles
  <2>4. CASE AppendSettles \/ UNCHANGED dvars
    BY <2>2, <2>4 DEF AppendSettles, dvars, vars
  <2>5. CASE Crash
    BY <2>2, <2>5 DEF Crash
  <2>6. CASE ResumeRun
    <3>1. ReplayNode(log, n) = "completed"
      BY <1>1, <2>1, HeardRecorded, ReplaySettles, NodeTypesAre DEF Settled
    <3>2. ResumeNode(log, n) = "completed"
      BY <3>1 DEF ResumeNode
    <3>3. QED
      BY <2>2, <2>6, <3>1, <3>2 DEF ResumeRun
  <2>7. QED
    BY <1>1, <2>3, <2>4, <2>5, <2>6 DEF DNext, ResumeAfterCrash, ResumeReturned
<1>2. HeardInv /\ [DNext]_dvars
        => [\A n \in Nodes : Starts(n) => Completions(log, n) = {}]_dvars
  BY <1>1
<1>3. QED
  BY <1>2, HeardAlways, PTL DEF NoReexecution, DSpec

(* Replaying the events of a run gives back the state of the live engine.  *)
THEOREM ReplayIsTrue == PromptGraph => (DSpec => []ReplayAgrees)
<1> SUFFICES ASSUME PromptGraph PROVE DSpec => []ReplayAgrees
  OBVIOUS
<1>1. ASSUME HeardInv PROVE ReplayAgrees
  <2>1. SUFFICES ASSUME up, lost = 0, NEW n \in Nodes
                 PROVE  /\ status[n] \in Settled => ResumeNode(Emitted, n) = status[n]
                        /\ status[n] \notin Settled => ResumeNode(Emitted, n) = "pending"
                        /\ ReplayResult(Emitted, n) = results[n]
    BY DEF ReplayAgrees
  <2>2. /\ Recorded(Heard) /\ Known /\ Reported /\ ResultsHeard /\ Kept
        /\ events \in Seq(Events) /\ flushed \in 0 .. Len(events)
    BY <1>1, <2>1, HeardRecorded DEF HeardInv, NumberInv, DTypeOK, TypeOK
  <2>3. Emitted = Heard
    <3>1. DOMAIN events = 1 .. Len(events)
      BY <2>2
    <3>2. \A i \in DOMAIN events : i \in 1 .. flushed \/ i \in (flushed + 1) .. Len(events)
      BY <2>2, <3>1
    <3>3. \A i \in (flushed + 1) .. Len(events) : i \in DOMAIN events
      BY <2>2, <3>1
    <3>4. Heard \subseteq Emitted
      BY <2>2, <3>2 DEF Heard, Emitted, Kept
    <3>5. Emitted \subseteq Heard
      BY <3>3 DEF Heard, Emitted
    <3>6. QED
      BY <3>4, <3>5
  <2>4. ASSUME status[n] \in Settled PROVE ResumeNode(Heard, n) = status[n]
    <3>1. PICK e \in About(Heard, n) : NodeTypes[e.type] = status[n]
      BY <2>2, <2>4 DEF Reported
    <3>2. QED
      BY <2>2, <2>4, <3>1, ReplaySettles, ResumeSays
  <2>5. ASSUME status[n] \notin Settled PROVE ResumeNode(Heard, n) = "pending"
    <3>1. \A e \in About(Heard, n) : NodeTypes[e.type] \notin Settled
      BY <2>2, <2>5 DEF Known
    <3>2. ReplayNode(Heard, n) \notin Settled
      BY <2>2, <3>1, ReplaySays DEF Settled
    <3>3. QED
      BY <2>2, <3>2, ResumeSays
  <2>6. ReplayResult(Heard, n) = results[n]
    BY <2>2, ReplayResults DEF ResultsHeard
  <2>7. QED
    BY <2>3, <2>4, <2>5, <2>6
<1>2. QED
  BY <1>1, HeardAlways, PTL

(* What a router decided for has run when the execution is completed, even *)
(* if the process crashed between the decision and the end, or in the      *)
(* middle of storing it.                                                   *)
THEOREM DecisionIsKept == PromptGraph => (DSpec => []DecisionKept)
<1> SUFFICES ASSUME PromptGraph PROVE DSpec => []DecisionKept
  OBVIOUS
<1>1. ASSUME HeardInv PROVE DecisionKept
  <2>1. SUFFICES ASSUME lost = 0, xstatus = "completed", NEW r \in Nodes,
                        Kind[r] = "router", status[r] = "completed",
                        NEW e \in Matches(r, results[r])
                 PROVE  status[e.to] = "completed"
    BY DEF DecisionKept, RouteTaken
  <2>2. /\ Known /\ Reported /\ ResultsHeard /\ AllDone /\ SweptIn(Heard)
        /\ \A f \in Heard : Fits(f)
    BY <1>1, <2>1 DEF HeardInv, EndsDone
  <2>3. e \in Edges(r) /\ e.label = results[r] /\ e.to \in Nodes
    BY GraphTypes DEF Matches
  <2>4. e.label \in Returns[r]
    <3>1. PICK f \in About(Heard, r) : NodeTypes[f.type] = "completed"
      BY <2>1, <2>2 DEF Reported, Settled
    <3>2. f \in Completions(Heard, r) /\ f.type = "nodeCompleted"
      BY <3>1, CompletionsAre, NodeTypesAre DEF About, Tells
    <3>3. f.out \in Returns[r] /\ results[r] = f.out
      BY <2>2, <3>1, <3>2 DEF About, Tells, Fits, ResultsHeard
    <3>4. QED
      BY <2>3, <3>3
  <2>5. ASSUME status[e.to] = "skipped" PROVE FALSE
    <3>1. PICK f \in About(Heard, e.to) : NodeTypes[f.type] = "skipped"
      BY <2>2, <2>3, <2>5 DEF Reported, Settled
    <3>2. f.type = "nodeSkipped"
      BY <3>1, NodeTypesAre DEF About, Tells
    <3>3. ChosenBy(r, e.to)
      BY <2>1, <2>3, <2>4 DEF ChosenBy
    <3>4. PICK g \in About(Heard, r) : g.type = "nodeSkipped"
      BY <2>2, <2>3, <3>2, <3>3 DEF SweptIn, Before
    <3>5. status[r] = "skipped"
      BY <2>2, <3>4, NodeTypesAre DEF Known, Settled
    <3>6. QED
      BY <2>1, <3>5
  <2>6. QED
    BY <2>2, <2>3, <2>5 DEF AllDone
<1>2. QED
  BY <1>1, HeardAlways, PTL

-----------------------------------------------------------------------------
(* An execution of an acyclic plain graph without conditional edges that   *)
(* fails has a failed node, on the engine that ends it.                    *)

NoSkipHeard == \A n \in Nodes : \A e \in About(Heard, n) : e.type # "nodeSkipped"

(* No stored event says that an execution has failed.                      *)
LEMMA ReplayNeverFailed ==
  ASSUME NumberInv PROVE ReplayExecution(log) # "failed"
<1> DEFINE evs == {e \in log : e.type \in DOMAIN ExecutionTypes}
<1>1. ASSUME evs # {} PROVE Latest(evs) \in evs
  <2>1. PICK b \in Nat : \A e \in log : e.seq <= b
    BY DEF NumberInv, Bounded
  <2>2. \A e \in evs : e.seq \in Nat /\ e.seq <= b
    BY <2>1 DEF NumberInv, DTypeOK
  <2> HIDE DEF evs
  <2>3. QED
    BY <1>1, <2>2, LastExists
<1>2. \A type \in DOMAIN ExecutionTypes : ExecutionTypes[type] # "failed"
  BY DEF ExecutionTypes
<1>3. ReplayExecution(log) = IF evs = {} THEN "created" ELSE ExecutionTypes[Latest(evs).type]
  BY DEF ReplayExecution
<1>4. QED
  BY <1>1, <1>2, <1>3

LEMMA CauseResumes ==
  ASSUME MaxLoops = 1, HeardInv, NoSkipHeard, ResumeRun, log' = log
  PROVE  CauseInv' /\ NoSkipHeard'
<1>1. Recorded(log) /\ NumberInv /\ Loops = {1}
  BY HeardRecorded DEF HeardInv, Loops
<1> DEFINE final == ReplayExecution(log) \in {"completed", "failed", "cancelled"}
<1>2. \A n \in Nodes : \A e \in About(log, n) : e.type # "nodeSkipped"
  BY DEF NoSkipHeard, Heard, About
<1>3. \A n \in Nodes : ReplayNode(log, n) \in {"pending", "running", "completed", "failed"}
  BY <1>1, <1>2, ReplaySays, NodeTypesAre DEF About, Tells
<1>4. \A n \in Nodes : ResumeNode(log, n) \in {"pending", "completed", "failed"}
  BY <1>1, <1>3, ResumeSays DEF Settled
<1>5. \A n \in Nodes :
        status'[n] = IF final THEN ReplayNode(log, n) ELSE ResumeNode(log, n)
  BY DEF ResumeRun
<1>6. /\ xstatus' = IF final THEN ReplayExecution(log) ELSE "running"
      /\ cand' = IF final THEN {}
                 ELSE {n \in Open(status') :
                         Preds(n) = {} \/ \E p \in Preds(n) : status'[p] = "completed"}
      /\ loop' = [l \in Loops |-> IF final THEN "done"
                                  ELSE IF l = 1 THEN "top" ELSE "idle"]
      /\ exec' = [l \in Loops |-> [n \in Nodes |-> "none"]]
      /\ events' = IF final THEN <<>> ELSE <<Lifecycle("executionStarted")>>
  BY Zenon DEF ResumeRun
<1> HIDE DEF final
<1>7. NeverSkipped'
  BY <1>3, <1>4, <1>5 DEF NeverSkipped
<1>8. ASSUME final PROVE CauseInv'
  <2>1. /\ \A l \in Loops : loop'[l] = "done" /\ \A n \in Nodes : exec'[l][n] = "none"
        /\ xstatus' = ReplayExecution(log)
    BY <1>6, <1>8
  <2>2. Finished'
    BY <1>1, <2>1, ReplayNeverFailed DEF Finished, Loops
  <2>3. QED
    BY <1>7, <2>2 DEF CauseInv
<1>9. ASSUME ~final PROVE CauseInv'
  <2>1. /\ cand' = {n \in Open(status') :
                      Preds(n) = {} \/ \E p \in Preds(n) : status'[p] = "completed"}
        /\ xstatus' = "running"
    BY <1>6, <1>9, Zenon
  <2>2. \A n \in Nodes : status'[n] \notin Underway
    BY <1>4, <1>5, <1>9 DEF Underway
  <2>3. Busy' /\ Caused'
    BY <2>1, <2>2 DEF Busy, Caused
  <2>4. Whole'
    BY <2>1, <2>2 DEF Whole, Open, HasCompletedPred, Preds, Succs, Edges, Underway
  <2>5. QED
    BY <1>7, <2>3, <2>4 DEF CauseInv
<1>10. NoSkipHeard'
  <2>1. events' = <<>> \/ events' = <<Lifecycle("executionStarted")>>
    BY <1>6
  <2>2. \A i \in DOMAIN events' : events'[i].nodes = {}
    BY <2>1 DEF Lifecycle, Event
  <2>3. \A e \in Heard' : e \in log \/ e.nodes = {}
    BY <1>6, <2>2 DEF Heard, Stored
  <2>4. QED
    BY <1>2, <2>3 DEF NoSkipHeard, About, Tells
<1>11. QED
  BY <1>8, <1>9, <1>10

LEMMA CauseHeard ==
  ASSUME MaxLoops = 1, StraightGraph, ~LateLoads, HeardInv, CauseInv, NoSkipHeard,
         [DNext]_dvars
  PROVE  CauseInv' /\ NoSkipHeard'
<1>1. HeardInv' /\ PlainInv
  BY HeardStep, RepeatableTasks DEF StraightGraph, HeardInv
<1>2. CASE EngineStep
  <2>1. CauseInv' /\ up'
    BY <1>1, <1>2, CauseStep DEF EngineStep, storeVars
  <2>2. Known' /\ NeverSkipped'
    BY <1>1, <2>1 DEF HeardInv, CauseInv
  <2>3. SUFFICES ASSUME NEW n \in Nodes, NEW e \in About(Heard', n), e.type = "nodeSkipped"
                 PROVE  FALSE
    BY <2>1 DEF NoSkipHeard, About
  <2>4. NodeTypes[e.type] = "skipped"
    BY <2>3, NodeTypesAre
  <2>5. e \in About(Heard, n)'
    BY <2>3 DEF About, Tells
  <2>6. status'[n] = "skipped"
    BY <2>2, <2>4, <2>5 DEF Known, Settled
  <2>7. QED
    BY <2>2, <2>6 DEF NeverSkipped
<1>3. CASE AppendSettles \/ UNCHANGED dvars
  <2>1. UNCHANGED vars
    BY <1>3 DEF AppendSettles, dvars
  <2>2. CauseInv'
    BY <1>1, <2>1, CauseStep
  <2>3. Heard' = Heard
    <3>1. CASE AppendSettles
      BY <1>1, <3>1, SettledHeard DEF HeardInv, NumberInv
    <3>2. CASE UNCHANGED dvars
      BY <3>2 DEF dvars, vars, storeVars, Heard
    <3>3. QED
      BY <1>3, <3>1, <3>2
  <2>4. QED
    BY <2>2, <2>3 DEF NoSkipHeard, About
<1>4. CASE Crash
  <2>1. Heard' = log
    BY <1>4 DEF Crash, Heard
  <2>2. NoSkipHeard'
    BY <2>1 DEF NoSkipHeard, Heard, About
  <2>3. 1 \in Loops
    BY DEF Loops
  <2>4. /\ \A n \in Nodes : status'[n] = "pending" /\ loop'[1] = "idle"
        /\ xstatus' = "created"
    BY <1>4, <2>3 DEF Crash
  <2>5. CauseInv'
    BY <2>4 DEF CauseInv, NeverSkipped, Busy, Whole, Caused, Underway
  <2>6. QED
    BY <2>2, <2>5
<1>5. CASE ResumeAfterCrash \/ ResumeReturned
  <2>1. ResumeRun /\ log' = log
    BY <1>5, ResumeKeeps DEF HeardInv
  <2>2. QED
    BY <2>1, CauseResumes
<1>6. QED
  BY <1>2, <1>3, <1>4, <1>5 DEF DNext

(* However often it crashed and was resumed, an execution that ends FAILED *)
(* without being aborted has a failed node.                                *)
THEOREM DurableFailsForCause ==
  MaxLoops = 1 /\ StraightGraph /\ ~LateLoads => (DSpec => []FailureHasCause)
<1> SUFFICES ASSUME MaxLoops = 1, StraightGraph, ~LateLoads PROVE DSpec => []FailureHasCause
  OBVIOUS
<1>1. HeardInv /\ [DNext]_dvars => HeardInv'
  BY HeardStep, RepeatableTasks DEF StraightGraph
<1>2. HeardInv /\ CauseInv /\ NoSkipHeard /\ [DNext]_dvars => CauseInv' /\ NoSkipHeard'
  BY CauseHeard
<1>3. DInit => CauseInv /\ NoSkipHeard
  BY CauseInit, HeardAlone DEF DInit, Init, NoSkipHeard, About
<1>4. CauseInv => FailureHasCause
  BY DEF CauseInv, Finished, Caused, FailureHasCause
<1>5. QED
  BY <1>1, <1>2, <1>3, <1>4, HeardInit, PTL DEF DSpec
=============================================================================
