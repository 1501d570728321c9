------------------------- MODULE BatchingEventStore -------------------------
(***************************************************************************)
(* BatchingEventStore of src/graph/batching-store.ts around an inner       *)
(* EventStore, for one execution.  Events are numbered in the order they   *)
(* are appended.  The inner store answers later, as the remote ones the    *)
(* class is made for do: it applies a batch as a whole, skipping the ids   *)
(* it has, and may fail before or after that.                              *)
(***************************************************************************)
EXTENDS Naturals, Sequences, FiniteSets, SequencesExt

CONSTANTS
  MaxBatch,     \* opts.maxBatch
  CapFactor,    \* the buffer holds maxBatch * CapFactor events; 16 in the code
  MaxEvents,    \* bound on the events appended
  MaxChunk,     \* bound on the events of one append
  MaxFailures,  \* bound on the batches the inner store fails
  MaxPurges,    \* bound on the calls of purge()
  MaxLoads      \* bound on the calls of load()

ASSUME BatchingAssumption ==
  /\ MaxBatch \in Nat \ {0} /\ CapFactor \in Nat \ {0}
  /\ MaxEvents \in Nat /\ MaxChunk \in Nat \ {0}
  /\ MaxFailures \in Nat /\ MaxPurges \in Nat /\ MaxLoads \in Nat

VARIABLES
  appended,  \* how many events were appended
  buffer,    \* this.buffer
  flights,   \* inner.append() calls under way: [batch, applied]
  stored,    \* event -> how often the inner store holds it
  dropped,   \* events dropped for want of room
  erasing,   \* events appended before the purge() that is under way
  erased,    \* events for which purge() has resolved
  purges,
  loads,
  reader,    \* the last load(): [pc, batch, owed, known]
  failures,
  ticking    \* is the timer set?

evars == <<appended, buffer, flights, stored, dropped, erasing, erased, purges,
           loads, reader, failures, ticking>>

Stored == {e \in 1 .. MaxEvents : stored[e] > 0}
Cap == MaxBatch * CapFactor
Flight(batch) == [batch |-> batch, applied |-> FALSE]
NoReader == [pc |-> "idle", batch |-> <<>>, owed |-> {}, known |-> {}]

(* A store whose flushIntervalMs is 0 sets no timer.                       *)
EInit ==
  /\ appended = 0 /\ buffer = <<>> /\ flights = {}
  /\ stored = [e \in 1 .. MaxEvents |-> 0]
  /\ dropped = {} /\ erasing = {} /\ erased = {} /\ purges = 0
  /\ loads = 0 /\ reader = NoReader /\ failures = 0
  /\ ticking \in BOOLEAN

NewestKept(q) == IF Len(q) > Cap THEN SubSeq(q, Len(q) - Cap + 1, Len(q)) ELSE q

(* flush() up to its await, with q as the buffer.                          *)
Flush(q) ==
  /\ buffer' = <<>>
  /\ flights' = IF q = <<>> THEN flights ELSE flights \cup {Flight(q)}

(* append(): push, drop the oldest beyond the cap, flush a full batch.     *)
Add(k) ==
  /\ appended + k <= MaxEvents
  /\ appended' = appended + k
  /\ LET pushed == buffer \o [i \in 1 .. k |-> appended + i]
         kept   == NewestKept(pushed)
     IN  /\ dropped' = dropped \cup (ToSet(pushed) \ ToSet(kept))
         /\ IF Len(kept) >= MaxBatch THEN Flush(kept)
                                     ELSE buffer' = kept /\ UNCHANGED flights
  /\ UNCHANGED <<stored, erasing, erased, purges, loads, reader, failures, ticking>>

(* The interval of the timer, or a flush() from outside.                   *)
Tick ==
  /\ ticking /\ buffer # <<>>
  /\ Flush(buffer)
  /\ UNCHANGED <<appended, stored, dropped, erasing, erased, purges, loads, reader,
                 failures, ticking>>

(* close(): the timer, if any, is cleared and the buffer flushed.  Without *)
(* a timer this is a flush() from outside as well.                         *)
Close ==
  /\ ticking \/ buffer # <<>>
  /\ ticking' = FALSE
  /\ Flush(buffer)
  /\ UNCHANGED <<appended, stored, dropped, erasing, erased, purges, loads, reader, failures>>

-----------------------------------------------------------------------------
(* The inner store.                                                        *)

AppliesAll(f) ==
  /\ f \in flights /\ ~f.applied
  /\ stored' = [e \in 1 .. MaxEvents |-> stored[e] + IF e \in ToSet(f.batch) THEN 1 ELSE 0]
  /\ flights' = (flights \ {f}) \cup {[f EXCEPT !.applied = TRUE]}
  /\ UNCHANGED <<appended, buffer, dropped, erasing, erased, purges, loads, reader,
                 failures, ticking>>

(* A batch is applied; events whose id is stored already are skipped.      *)
Applies(f) ==
  /\ f \in flights /\ ~f.applied
  /\ stored' = [e \in 1 .. MaxEvents |-> IF e \in ToSet(f.batch) /\ stored[e] = 0
                                        THEN 1 ELSE stored[e]]
  /\ flights' = (flights \ {f}) \cup {[f EXCEPT !.applied = TRUE]}
  /\ UNCHANGED <<appended, buffer, dropped, erasing, erased, purges, loads, reader,
                 failures, ticking>>

(* The load() that waits for the batch goes on to read, also when its      *)
(* flush has failed; it is owed the events of the batch no longer then.    *)
ReaderGoesOn(f, owed) ==
  reader' = IF reader.pc = "flush" /\ reader.batch = f.batch
            THEN [reader EXCEPT !.pc = "read", !.owed = owed] ELSE reader

(* inner.append() resolves.                                                *)
FlushSucceeds(f) ==
  /\ f \in flights /\ f.applied
  /\ flights' = flights \ {f}
  /\ ReaderGoesOn(f, reader.owed)
  /\ UNCHANGED <<appended, buffer, stored, dropped, erasing, erased, purges, loads,
                 failures, ticking>>

FlushForgets(f) ==
  /\ f \in flights /\ failures < MaxFailures
  /\ failures' = failures + 1
  /\ flights' = flights \ {f}
  /\ buffer' = buffer
  /\ ReaderGoesOn(f, {})
  /\ UNCHANGED <<appended, stored, dropped, erasing, erased, purges, loads,
                 ticking>>

(* inner.append() rejects, whether or not it has applied the batch: the    *)
(* batch goes back to the front of the buffer.                             *)
FlushFails(f) ==
  /\ f \in flights /\ failures < MaxFailures
  /\ failures' = failures + 1
  /\ flights' = flights \ {f}
  /\ buffer' = f.batch \o buffer
  /\ ReaderGoesOn(f, {})
  /\ UNCHANGED <<appended, stored, dropped, erasing, erased, purges, loads,
                 ticking>>

-----------------------------------------------------------------------------
(* Reads and purges.                                                       *)

(* load() flushes what is buffered; a flush with nothing buffered returns  *)
(* at once, whatever is still in flight.                                   *)
Load ==
  /\ reader.pc \in {"idle", "done"} /\ loads < MaxLoads /\ loads' = loads + 1
  /\ Flush(buffer)
  /\ reader' = [pc    |-> IF buffer = <<>> THEN "read" ELSE "flush",
                batch |-> buffer, owed |-> ToSet(buffer), known |-> 1 .. appended]
  /\ UNCHANGED <<appended, stored, dropped, erasing, erased, purges, failures,
                 ticking>>

(* inner.load() answers with what is stored.                               *)
Reads ==
  /\ reader.pc = "read"
  /\ reader' = [reader EXCEPT !.pc = "done",
                  !.owed = @ \ Stored, !.known = @ \ Stored]
  /\ UNCHANGED <<appended, buffer, flights, stored, dropped, erasing, erased,
                 purges, loads, failures, ticking>>

(* purge(): the buffer is emptied, then the inner store erases.            *)
Purge ==
  /\ purges < MaxPurges /\ purges' = purges + 1
  /\ erasing = {} /\ appended > 0
  /\ erasing' = 1 .. appended
  /\ buffer' = <<>>
  /\ UNCHANGED <<appended, flights, stored, dropped, erased, loads, reader, failures, ticking>>

InnerPurges ==
  /\ erasing # {}
  /\ stored' = [e \in 1 .. MaxEvents |-> 0]
  /\ erased' = erased \cup erasing \cup Stored
  /\ erasing' = {}
  /\ UNCHANGED <<appended, buffer, flights, dropped, purges, loads, reader, failures, ticking>>

InnerStep ==
  \E f \in flights : Applies(f) \/ FlushSucceeds(f) \/ FlushFails(f)

ENext ==
  \/ \E k \in 1 .. MaxChunk : Add(k)
  \/ Tick \/ Close \/ Load \/ Reads \/ Purge \/ InnerPurges \/ InnerStep

ESpec == EInit /\ [][ENext]_evars

(* The timer ticks and the inner store answers.  It may fail MaxFailures   *)
(* times, so that it answers in the end.                                   *)
EFairSpec == ESpec /\ WF_evars(Tick) /\ WF_evars(InnerStep) /\ WF_evars(InnerPurges)

-----------------------------------------------------------------------------
(* Properties.                                                             *)

InFlight == UNION {ToSet(f.batch) : f \in flights}

ETypeOK ==
  /\ appended \in 0 .. MaxEvents
  /\ buffer \in Seq(1 .. MaxEvents) /\ stored \in [1 .. MaxEvents -> Nat]
  /\ flights \subseteq [batch : Seq(1 .. MaxEvents), applied : BOOLEAN]
  /\ dropped \cup erasing \cup erased \subseteq 1 .. appended
  /\ purges \in 0 .. MaxPurges /\ loads \in 0 .. MaxLoads /\ failures \in 0 .. MaxFailures
  /\ ticking \in BOOLEAN
  /\ reader.pc \in {"idle", "flush", "read", "done"}
  /\ reader.batch \in Seq(1 .. MaxEvents)
  /\ reader.owed \subseteq reader.known /\ reader.known \subseteq 1 .. appended

(* No event is lost in silence, however flushes fail and overlap: each one *)
(* is buffered, in flight, stored, reported as dropped or purged.          *)
Accounted ==
  1 .. appended \subseteq
    ToSet(buffer) \cup InFlight \cup Stored \cup dropped \cup erasing \cup erased

(* No event is stored twice, although a batch that was applied before its  *)
(* append failed is sent again, and none waits in two places.              *)
StoredOnce ==
  /\ (\A e \in 1 .. MaxEvents : stored[e] <= 1) /\ IsInjective(buffer)
  /\ ToSet(buffer) \cap InFlight = {}
  /\ \A f, g \in flights : f # g => ToSet(f.batch) \cap ToSet(g.batch) = {}

(* As long as the inner store drains, nothing is dropped.                  *)
NoNeedlessDrop == failures = 0 => dropped = {}

(* A load() whose flush succeeds misses none of the events that were       *)
(* buffered when it was called, unless they are dropped or purged.         *)
ReadsBuffered ==
  reader.pc = "done" => reader.owed \subseteq dropped \cup erasing \cup erased

(* The buffer loses nothing, stores nothing twice, drops nothing while no  *)
(* batch has failed and shows readers what was buffered.                   *)
BufferSound ==
  ETypeOK /\ Accounted /\ StoredOnce /\ NoNeedlessDrop /\ ReadsBuffered

(* Every appended event is stored, dropped or purged in the end, unless    *)
(* the store is closed or was given no interval.                           *)
EventuallyStored ==
  \A e \in 1 .. MaxEvents :
    e <= appended ~> ~ticking \/ e \in Stored \cup dropped \cup erased

(* A load() misses no event that was appended before it was called.        *)
ConsistentRead ==
  reader.pc = "done" /\ failures = 0 => reader.known \subseteq dropped \cup erasing \cup erased

(* An event that purge() erased stays erased.                              *)
ErasedForGood == Stored \cap erased = {}

(* What is dropped is older than everything that stays in the buffer.      *)
OldestDropped ==
  [][\A e \in dropped' \ dropped, f \in ToSet(buffer) \ dropped' : e < f]_evars
=============================================================================
