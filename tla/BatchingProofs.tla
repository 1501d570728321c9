--------------------------- MODULE BatchingProofs ---------------------------
(***************************************************************************)
(* Proofs about BatchingEventStore for any batch size, cap and number of   *)
(* events, failures, purges and reads.                                     *)
(***************************************************************************)
EXTENDS BatchingEventStore, SequenceTheorems, TLAPS

-----------------------------------------------------------------------------
(* Sequences without repetition.                                           *)

LEMMA ConcatDistinct ==
  ASSUME NEW S, NEW p \in Seq(S), NEW q \in Seq(S)
  PROVE  /\ p \o q \in Seq(S)
         /\ ToSet(p \o q) = ToSet(p) \cup ToSet(q)
         /\ IsInjective(p) /\ IsInjective(q) /\ ToSet(p) \cap ToSet(q) = {}
              => IsInjective(p \o q)
<1> DEFINE r == p \o q
<1>1. /\ Len(p) \in Nat /\ Len(q) \in Nat
      /\ DOMAIN p = 1 .. Len(p) /\ DOMAIN q = 1 .. Len(q)
  OBVIOUS
<1>2. /\ r \in Seq(S) /\ Len(r) = Len(p) + Len(q)
      /\ DOMAIN r = 1 .. Len(p) + Len(q)
      /\ \A i \in 1 .. Len(p) + Len(q) :
           r[i] = IF i <= Len(p) THEN p[i] ELSE q[i - Len(p)]
  BY ConcatProperties
<1> HIDE DEF r
<1>3. ToSet(r) \subseteq ToSet(p) \cup ToSet(q)
  <2>1. SUFFICES ASSUME NEW i \in DOMAIN r PROVE r[i] \in ToSet(p) \cup ToSet(q)
    BY DEF ToSet
  <2>2. CASE i <= Len(p) BY <2>2, <1>1, <1>2 DEF ToSet
  <2>3. CASE i > Len(p)
    <3>1. i - Len(p) \in DOMAIN q /\ r[i] = q[i - Len(p)] BY <2>3, <1>1, <1>2
    <3> QED BY <3>1 DEF ToSet
  <2> QED BY <2>2, <2>3, <1>1, <1>2
<1>4. ToSet(p) \subseteq ToSet(r)
  BY <1>1, <1>2 DEF ToSet
<1>5. ToSet(q) \subseteq ToSet(r)
  <2>1. SUFFICES ASSUME NEW i \in DOMAIN q PROVE q[i] \in ToSet(r)
    BY DEF ToSet
  <2>2. i + Len(p) \in DOMAIN r /\ r[i + Len(p)] = q[i]
    BY <1>1, <1>2
  <2> QED BY <2>2 DEF ToSet
<1>6. ASSUME IsInjective(p), IsInjective(q), ToSet(p) \cap ToSet(q) = {}
      PROVE  IsInjective(r)
  <2>1. SUFFICES ASSUME NEW i \in DOMAIN r, NEW j \in DOMAIN r, r[i] = r[j]
                 PROVE  i = j
    BY DEF IsInjective
  <2>2. \A k \in DOMAIN r : k > Len(p) => k - Len(p) \in DOMAIN q /\ r[k] \in ToSet(q)
    BY <1>1, <1>2 DEF ToSet
  <2>3. \A k \in DOMAIN r : k <= Len(p) => k \in DOMAIN p /\ r[k] \in ToSet(p)
    BY <1>1, <1>2 DEF ToSet
  <2>4. CASE i <= Len(p) /\ j <= Len(p)
    BY <2>1, <2>3, <2>4, <1>2, <1>6 DEF IsInjective
  <2>5. CASE i > Len(p) /\ j > Len(p)
    <3>1. q[i - Len(p)] = q[j - Len(p)] BY <2>1, <2>5, <1>1, <1>2
    <3>2. i - Len(p) = j - Len(p) BY <3>1, <2>2, <2>5, <1>6 DEF IsInjective
    <3> QED BY <3>2, <1>1, <1>2
  <2>6. CASE (i <= Len(p)) # (j <= Len(p))
    BY <2>1, <2>2, <2>3, <2>6, <1>1, <1>2, <1>6
  <2> QED BY <2>4, <2>5, <2>6, <1>1, <1>2
<1> QED BY <1>2, <1>3, <1>4, <1>5, <1>6 DEF r

(* What NewestKept keeps of a sequence.                                    *)
LEMMA KeepsNewest ==
  ASSUME NEW S, NEW q \in Seq(S)
  PROVE  /\ NewestKept(q) \in Seq(S)
         /\ ToSet(NewestKept(q)) \subseteq ToSet(q)
         /\ IsInjective(q) => IsInjective(NewestKept(q))
         /\ Len(q) <= Cap => NewestKept(q) = q
<1>0. Cap \in Nat /\ Cap > 0
  <2>1. \A a, b \in Nat : a > 0 /\ b > 0 => a * b \in Nat /\ a * b > 0
    OBVIOUS
  <2> QED BY <2>1, BatchingAssumption DEF Cap
<1> USE DEF NewestKept
<1>1. CASE Len(q) <= Cap BY <1>0, <1>1
<1>2. CASE Len(q) > Cap
  <2> DEFINE m == Len(q) - Cap  kept == SubSeq(q, m + 1, Len(q))
  <2>1. /\ Len(q) \in Nat /\ DOMAIN q = 1 .. Len(q) /\ m \in Nat /\ m < Len(q)
    BY <1>0, <1>2
  <2>2. /\ kept \in Seq(S) /\ Len(kept) = Len(q) - m /\ DOMAIN kept = 1 .. Len(q) - m
        /\ \A i \in 1 .. Len(q) - m : kept[i] = q[m + i]
    <3>1. m + 1 \in Int /\ Len(q) \in Int /\ \A i \in m + 1 .. Len(q) : q[i] \in S
      BY <2>1
    <3>2. /\ kept \in Seq(S)
          /\ Len(kept) = IF m + 1 <= Len(q) THEN Len(q) - (m + 1) + 1 ELSE 0
          /\ \A i \in 1 .. Len(q) - (m + 1) + 1 : kept[i] = q[m + 1 + i - 1]
      BY <3>1, SubSeqProperties
    <3> HIDE DEF m, kept
    <3>3. m + 1 <= Len(q) /\ Len(q) - (m + 1) + 1 = Len(q) - m BY <2>1
    <3>4. Len(kept) = Len(q) - m BY <3>2, <3>3
    <3> QED BY <3>2, <3>3, <3>4, <2>1
  <2>3. NewestKept(q) = kept BY <1>0, <1>2
  <2> HIDE DEF kept, m, NewestKept
  <2>4. \A i \in DOMAIN kept : m + i \in DOMAIN q /\ kept[i] = q[m + i]
    BY <2>1, <2>2
  <2>5. ToSet(kept) \subseteq ToSet(q) BY <2>4 DEF ToSet
  <2>6. IsInjective(q) => IsInjective(kept)
    BY <2>1, <2>2, <2>4 DEF IsInjective
  <2> QED BY <1>0, <1>2, <2>1, <2>2, <2>3, <2>5, <2>6
<1> QED BY <1>0, <1>1, <1>2

(* The events of one append() are numbered on from the last.               *)
LEMMA NewEvents ==
  ASSUME NEW k \in Nat, NEW n \in Nat, NEW m \in Nat, n + k <= m
  PROVE  LET fresh == [i \in 1 .. k |-> n + i]
         IN  /\ fresh \in Seq(1 .. m) /\ Len(fresh) = k /\ IsInjective(fresh)
             /\ ToSet(fresh) = n + 1 .. n + k
<1> DEFINE fresh == [i \in 1 .. k |-> n + i]
<1>1. fresh \in Seq(1 .. m) /\ Len(fresh) = k OBVIOUS
<1>2. IsInjective(fresh) BY DEF IsInjective
<1>3. ToSet(fresh) \subseteq n + 1 .. n + k BY DEF ToSet
<1>4. ASSUME NEW e \in n + 1 .. n + k PROVE e \in ToSet(fresh)
  <2>1. e - n \in DOMAIN fresh /\ fresh[e - n] = e OBVIOUS
  <2> QED BY <2>1 DEF ToSet
<1> QED BY <1>1, <1>2, <1>3, <1>4

-----------------------------------------------------------------------------
(* The inductive invariant.                                                *)

(* A batch in flight has events that were appended, each once, and shares  *)
(* them neither with the buffer nor with another batch.                    *)
Batches ==
  /\ IsInjective(buffer) /\ ToSet(buffer) \subseteq 1 .. appended
  /\ ToSet(buffer) \cap InFlight = {}
  /\ \A f \in flights : IsInjective(f.batch) /\ ToSet(f.batch) \subseteq 1 .. appended
  /\ \A f, g \in flights : f # g => ToSet(f.batch) \cap ToSet(g.batch) = {}

(* The inner store holds appended events only, each once, and what it has  *)
(* applied stays stored until a purge erases it.                           *)
InnerStore ==
  /\ \A e \in 1 .. MaxEvents : stored[e] <= 1
  /\ Stored \subseteq 1 .. appended
  /\ \A f \in flights : f.applied => ToSet(f.batch) \subseteq Stored \cup erased

(* What the reader waits for or has still to find.                         *)
ReaderOwed ==
  /\ reader.pc = "flush" => reader.owed \subseteq ToSet(reader.batch)
  /\ reader.pc = "read" => reader.owed \subseteq Stored \cup dropped \cup erasing \cup erased
  /\ ReadsBuffered

EInv == ETypeOK /\ Accounted /\ Batches /\ InnerStore /\ ReaderOwed

LEMMA EmptySequence ==
  ASSUME NEW S
  PROVE  <<>> \in Seq(S) /\ ToSet(<<>>) = {} /\ IsInjective(<<>>)
BY DEF ToSet, IsInjective

LEMMA InitInv == EInit => EInv
<1> SUFFICES ASSUME EInit PROVE EInv OBVIOUS
<1> USE EmptySequence, BatchingAssumption DEF EInit, NoReader
<1>1. ETypeOK BY DEF ETypeOK
<1>2. Accounted BY DEF Accounted
<1>3. Batches BY DEF Batches, InFlight
<1>4. InnerStore BY DEF InnerStore, Stored
<1>5. ReaderOwed BY DEF ReaderOwed, ReadsBuffered
<1> QED BY <1>1, <1>2, <1>3, <1>4, <1>5 DEF EInv

-----------------------------------------------------------------------------
(* The steps.                                                              *)

(* flush() puts the events of its buffer in flight and nothing else.       *)
LEMMA FlushMoves ==
  ASSUME ETypeOK, Batches, NEW q \in Seq(1 .. MaxEvents), Flush(q),
         IsInjective(q), ToSet(q) \cap InFlight = {}
  PROVE  /\ buffer' = <<>>
         /\ flights' \subseteq [batch : Seq(1 .. MaxEvents), applied : BOOLEAN]
         /\ InFlight' = InFlight \cup ToSet(q)
         /\ \A f \in flights' : f \in flights \/ (f.batch = q /\ ~f.applied)
         /\ \A f, g \in flights' : f # g => ToSet(f.batch) \cap ToSet(g.batch) = {}
<1>1. CASE q = <<>>
  BY <1>1, EmptySequence DEF Flush, ETypeOK, Batches, InFlight
<1>2. CASE q # <<>>
  <2>1. /\ buffer' = <<>> /\ flights' = flights \cup {Flight(q)}
        /\ Flight(q) \in [batch : Seq(1 .. MaxEvents), applied : BOOLEAN]
        /\ Flight(q).batch = q /\ ~Flight(q).applied
    BY <1>2 DEF Flush, Flight
  <2>2. \A f \in flights : ToSet(f.batch) \cap ToSet(q) = {}
    BY DEF InFlight
  <2>3. InFlight' = InFlight \cup ToSet(q)
    BY <2>1 DEF InFlight
  <2> QED BY <2>1, <2>2, <2>3 DEF ETypeOK, Batches
<1> QED BY <1>1, <1>2

LEMMA AddInv == ASSUME EInv, NEW k \in 1 .. MaxChunk, Add(k) PROVE EInv'
<1> DEFINE fresh == [i \in 1 .. k |-> appended + i]
           pushed == buffer \o fresh
           kept == NewestKept(pushed)
<1>1. /\ k \in Nat /\ appended \in Nat /\ MaxEvents \in Nat /\ appended + k <= MaxEvents
      /\ appended' = appended + k /\ appended' \in 0 .. MaxEvents
  BY BatchingAssumption DEF Add, EInv, ETypeOK
<1>2. /\ fresh \in Seq(1 .. MaxEvents) /\ IsInjective(fresh)
      /\ ToSet(fresh) = appended + 1 .. appended + k
  <2> HIDE DEF fresh
  <2> QED BY <1>1, NewEvents DEF fresh
<1>3. /\ buffer \in Seq(1 .. MaxEvents) /\ IsInjective(buffer)
      /\ ToSet(buffer) \subseteq 1 .. appended /\ ToSet(buffer) \cap InFlight = {}
      /\ InFlight \subseteq 1 .. appended
  BY DEF EInv, ETypeOK, Batches, InFlight
<1>4. /\ dropped' = dropped \cup (ToSet(pushed) \ ToSet(kept))
      /\ IF Len(kept) >= MaxBatch THEN Flush(kept)
                                  ELSE buffer' = kept /\ UNCHANGED flights
      /\ UNCHANGED <<stored, erasing, erased, purges, loads, reader, failures, ticking>>
  BY DEF Add
<1>5. /\ pushed \in Seq(1 .. MaxEvents) /\ IsInjective(pushed)
      /\ ToSet(pushed) = ToSet(buffer) \cup (appended + 1 .. appended + k)
  <2>1. ToSet(buffer) \cap ToSet(fresh) = {} BY <1>1, <1>2, <1>3
  <2> HIDE DEF fresh
  <2>2. \A s, t \in Seq(1 .. MaxEvents) :
          /\ s \o t \in Seq(1 .. MaxEvents) /\ ToSet(s \o t) = ToSet(s) \cup ToSet(t)
          /\ IsInjective(s) /\ IsInjective(t) /\ ToSet(s) \cap ToSet(t) = {}
               => IsInjective(s \o t)
    BY ConcatDistinct
  <2>3. /\ buffer \o fresh \in Seq(1 .. MaxEvents) /\ IsInjective(buffer \o fresh)
        /\ ToSet(buffer \o fresh) = ToSet(buffer) \cup ToSet(fresh)
    BY <2>1, <2>2, <1>2, <1>3
  <2> QED BY <2>3, <1>2
<1> HIDE DEF fresh, pushed
<1>6. /\ kept \in Seq(1 .. MaxEvents) /\ IsInjective(kept) /\ ToSet(kept) \subseteq ToSet(pushed)
  BY <1>5, KeepsNewest
<1> HIDE DEF kept
<1>7. /\ ToSet(kept) \cap InFlight = {} /\ ToSet(kept) \subseteq 1 .. appended'
      /\ ToSet(pushed) \subseteq 1 .. appended'
  BY <1>1, <1>3, <1>5, <1>6
<1>8. /\ buffer' \in Seq(1 .. MaxEvents) /\ IsInjective(buffer')
      /\ flights' \subseteq [batch : Seq(1 .. MaxEvents), applied : BOOLEAN]
      /\ ToSet(buffer') \cup InFlight' = InFlight \cup ToSet(kept)
      /\ ToSet(buffer') \cap InFlight' = {}
      /\ \A f \in flights' : f \in flights \/ (f.batch = kept /\ ~f.applied)
      /\ \A f, g \in flights' : f # g => ToSet(f.batch) \cap ToSet(g.batch) = {}
  <2>1. CASE Len(kept) >= MaxBatch
    <3>1. Flush(kept) BY <1>4, <2>1
    <3>2. /\ buffer' = <<>>
          /\ flights' \subseteq [batch : Seq(1 .. MaxEvents), applied : BOOLEAN]
          /\ InFlight' = InFlight \cup ToSet(kept)
          /\ \A f \in flights' : f \in flights \/ (f.batch = kept /\ ~f.applied)
          /\ \A f, g \in flights' : f # g => ToSet(f.batch) \cap ToSet(g.batch) = {}
      BY <3>1, <1>6, <1>7, FlushMoves DEF EInv
    <3>3. buffer' \in Seq(1 .. MaxEvents) /\ IsInjective(buffer') /\ ToSet(buffer') = {}
      BY <3>2, EmptySequence
    <3> QED BY <3>2, <3>3
  <2>2. CASE ~(Len(kept) >= MaxBatch)
    <3>1. buffer' = kept /\ flights' = flights BY <1>4, <2>2
    <3>2. InFlight' = InFlight BY <3>1 DEF InFlight
    <3> QED BY <3>1, <3>2, <1>6, <1>7 DEF EInv, ETypeOK, Batches
  <2> QED BY <2>1, <2>2
<1>9. ETypeOK'
  <2>1. 1 .. appended \subseteq 1 .. appended' BY <1>1
  <2>2. dropped' \cup erasing' \cup erased' \subseteq 1 .. appended'
    BY <1>4, <1>7, <2>1 DEF EInv, ETypeOK
  <2>3. reader'.known \subseteq 1 .. appended' BY <1>4, <2>1 DEF EInv, ETypeOK
  <2> QED BY <1>1, <1>4, <1>8, <2>2, <2>3 DEF EInv, ETypeOK
<1>10. Accounted'
  <2>1. 1 .. appended' = (1 .. appended) \cup (appended + 1 .. appended + k) BY <1>1
  <2>2. Stored' = Stored BY <1>4 DEF Stored
  <2>3. ToSet(pushed) \subseteq ToSet(buffer') \cup InFlight' \cup dropped'
    BY <1>4, <1>8
  <2>4. InFlight \cup dropped \subseteq ToSet(buffer') \cup InFlight' \cup dropped'
    BY <1>4, <1>8
  <2> QED BY <2>1, <2>2, <2>3, <2>4, <1>4, <1>5 DEF EInv, Accounted
<1>11. Batches'
  <2>1. 1 .. appended \subseteq 1 .. appended' BY <1>1
  <2>2. \A f \in flights' : IsInjective(f.batch) /\ ToSet(f.batch) \subseteq 1 .. appended'
    BY <2>1, <1>6, <1>7, <1>8 DEF EInv, Batches
  <2>3. ToSet(buffer') \subseteq 1 .. appended' BY <1>3, <1>7, <1>8, <2>1
  <2> QED BY <2>2, <2>3, <1>8 DEF Batches
<1>12. InnerStore' /\ ReaderOwed'
  <2>1. 1 .. appended \subseteq 1 .. appended' BY <1>1
  <2>2. Stored' = Stored BY <1>4 DEF Stored
  <2>3. InnerStore' BY <2>1, <2>2, <1>4, <1>8 DEF EInv, InnerStore
  <2>4. ReaderOwed' BY <2>2, <1>4 DEF EInv, ReaderOwed, ReadsBuffered
  <2> QED BY <2>3, <2>4
<1> QED BY <1>9, <1>10, <1>11, <1>12 DEF EInv

(* A flush of the buffer keeps the buffer's part of the invariant.         *)
LEMMA FlushInv ==
  ASSUME EInv, Flush(buffer), UNCHANGED <<appended, stored, dropped, erasing, erased>>
  PROVE  /\ Accounted' /\ Batches' /\ InnerStore' /\ buffer' \in Seq(1 .. MaxEvents)
         /\ flights' \subseteq [batch : Seq(1 .. MaxEvents), applied : BOOLEAN]
<1>1. /\ buffer \in Seq(1 .. MaxEvents) /\ IsInjective(buffer)
      /\ ToSet(buffer) \cap InFlight = {} /\ ToSet(buffer) \subseteq 1 .. appended
  BY DEF EInv, ETypeOK, Batches
<1>2. /\ buffer' = <<>>
      /\ flights' \subseteq [batch : Seq(1 .. MaxEvents), applied : BOOLEAN]
      /\ InFlight' = InFlight \cup ToSet(buffer)
      /\ \A f \in flights' : f \in flights \/ (f.batch = buffer /\ ~f.applied)
      /\ \A f, g \in flights' : f # g => ToSet(f.batch) \cap ToSet(g.batch) = {}
  BY <1>1, FlushMoves DEF EInv
<1>3. Accounted' BY <1>2 DEF EInv, Accounted, Stored
<1>4. Batches' BY <1>1, <1>2, EmptySequence DEF EInv, Batches
<1>5. InnerStore' BY <1>2 DEF EInv, InnerStore, Stored
<1> QED BY <1>2, <1>3, <1>4, <1>5, EmptySequence

LEMMA TickInv == ASSUME EInv, Tick \/ Close PROVE EInv'
<1>1. /\ Flush(buffer) /\ ticking' \in BOOLEAN
      /\ UNCHANGED <<appended, stored, dropped, erasing, erased, purges, loads, reader, failures>>
  BY DEF Tick, Close, EInv, ETypeOK
<1>2. /\ Accounted' /\ Batches' /\ InnerStore' /\ buffer' \in Seq(1 .. MaxEvents)
      /\ flights' \subseteq [batch : Seq(1 .. MaxEvents), applied : BOOLEAN]
  BY <1>1, FlushInv
<1>3. ETypeOK' BY <1>1, <1>2 DEF EInv, ETypeOK
<1>4. ReaderOwed' BY <1>1 DEF EInv, ReaderOwed, ReadsBuffered, Stored
<1> QED BY <1>2, <1>3, <1>4 DEF EInv

LEMMA LoadInv == ASSUME EInv, Load PROVE EInv'
<1>1. /\ Flush(buffer) /\ loads < MaxLoads /\ loads' = loads + 1
      /\ reader' = [pc    |-> IF buffer = <<>> THEN "read" ELSE "flush",
                    batch |-> buffer, owed |-> ToSet(buffer), known |-> 1 .. appended]
      /\ UNCHANGED <<appended, stored, dropped, erasing, erased, purges, failures, ticking>>
  BY DEF Load
<1>2. /\ Accounted' /\ Batches' /\ InnerStore' /\ buffer' \in Seq(1 .. MaxEvents)
      /\ flights' \subseteq [batch : Seq(1 .. MaxEvents), applied : BOOLEAN]
  BY <1>1, FlushInv
<1>3. ToSet(buffer) \subseteq 1 .. appended /\ buffer \in Seq(1 .. MaxEvents)
  BY DEF EInv, ETypeOK, Batches
<1>4. ETypeOK'
  <2>1. loads' \in 0 .. MaxLoads BY <1>1, BatchingAssumption DEF EInv, ETypeOK
  <2> QED BY <1>1, <1>2, <1>3, <2>1 DEF EInv, ETypeOK
<1>5. ReaderOwed' BY <1>1, EmptySequence DEF ReaderOwed, ReadsBuffered
<1> QED BY <1>2, <1>4, <1>5 DEF EInv

(* The inner store skips the events it has, so that each is stored once.   *)
LEMMA AppliesInv == ASSUME EInv, NEW f \in flights, Applies(f) PROVE EInv'
<1> DEFINE h == [f EXCEPT !.applied = TRUE]
<1>1. /\ stored' = [e \in 1 .. MaxEvents |-> IF e \in ToSet(f.batch) /\ stored[e] = 0
                                            THEN 1 ELSE stored[e]]
      /\ flights' = (flights \ {f}) \cup {h}
      /\ UNCHANGED <<appended, buffer, dropped, erasing, erased, purges, loads, reader,
                     failures, ticking>>
  BY DEF Applies
<1>2. /\ f \in [batch : Seq(1 .. MaxEvents), applied : BOOLEAN]
      /\ flights \subseteq [batch : Seq(1 .. MaxEvents), applied : BOOLEAN]
      /\ ToSet(f.batch) \subseteq 1 .. appended /\ 1 .. appended \subseteq 1 .. MaxEvents
      /\ IsInjective(f.batch) /\ stored \in [1 .. MaxEvents -> Nat]
  BY BatchingAssumption DEF EInv, ETypeOK, Batches
<1>3. h \in [batch : Seq(1 .. MaxEvents), applied : BOOLEAN] /\ h.batch = f.batch
  BY <1>2
<1> HIDE DEF h
<1>4. InFlight' = InFlight BY <1>1, <1>3 DEF InFlight
<1>5. Stored' = Stored \cup ToSet(f.batch)
  BY <1>1, <1>2 DEF Stored
<1>6. stored' \in [1 .. MaxEvents -> Nat] BY <1>1, <1>2
<1>7. ETypeOK' BY <1>1, <1>2, <1>3, <1>6 DEF EInv, ETypeOK
<1>8. Accounted' BY <1>1, <1>4, <1>5 DEF EInv, Accounted
<1>9. Batches'
  <2>1. \A g \in flights' : g = h \/ (g \in flights /\ g # f) BY <1>1
  <2>2. \A g \in flights' : IsInjective(g.batch) /\ ToSet(g.batch) \subseteq 1 .. appended
    BY <2>1, <1>2, <1>3 DEF EInv, Batches
  <2>3. \A g, g2 \in flights' : g # g2 => ToSet(g.batch) \cap ToSet(g2.batch) = {}
    BY <2>1, <1>3 DEF EInv, Batches
  <2> QED BY <2>2, <2>3, <1>1, <1>4 DEF EInv, Batches
<1>10. InnerStore'
  <2>1. \A e \in 1 .. MaxEvents : stored'[e] <= 1
    BY <1>1, <1>2 DEF EInv, InnerStore
  <2>2. Stored' \subseteq 1 .. appended' BY <1>1, <1>2, <1>5 DEF EInv, InnerStore
  <2>3. \A g \in flights' : g.applied => ToSet(g.batch) \subseteq Stored' \cup erased'
    BY <1>1, <1>3, <1>5 DEF EInv, InnerStore
  <2> QED BY <2>1, <2>2, <2>3 DEF InnerStore
<1>11. ReaderOwed' BY <1>1, <1>5 DEF EInv, ReaderOwed, ReadsBuffered
<1> QED BY <1>7, <1>8, <1>9, <1>10, <1>11 DEF EInv

(* The load() that waited for the batch may go on to read; what it is owed *)
(* is stored, or no longer owed.                                           *)
LEMMA GoesOn ==
  ASSUME EInv, NEW f \in flights, NEW o, ReaderGoesOn(f, o),
         (o = reader.owed /\ f.applied) \/ o = {},
         UNCHANGED <<appended, stored, dropped, erasing, erased>>
  PROVE  /\ ReaderOwed'
         /\ reader'.pc \in {"idle", "flush", "read", "done"}
         /\ reader'.batch \in Seq(1 .. MaxEvents)
         /\ reader'.owed \subseteq reader'.known /\ reader'.known \subseteq 1 .. appended
<1>1. CASE reader.pc = "flush" /\ reader.batch = f.batch
  <2>1. reader' = [reader EXCEPT !.pc = "read", !.owed = o] BY <1>1 DEF ReaderGoesOn
  <2>2. o \subseteq Stored \cup erased
    BY <1>1 DEF EInv, InnerStore, ReaderOwed
  <2>3. o \subseteq reader.known BY DEF EInv, ETypeOK
  <2>4. reader'.batch \in {reader.batch, reader'.batch} OBVIOUS
  <2> QED BY <2>1, <2>2, <2>3 DEF EInv, ETypeOK, ReaderOwed, ReadsBuffered, Stored
<1>2. CASE ~(reader.pc = "flush" /\ reader.batch = f.batch)
  <2>1. reader' = reader BY <1>2 DEF ReaderGoesOn
  <2> QED BY <2>1 DEF EInv, ETypeOK, ReaderOwed, ReadsBuffered, Stored
<1> QED BY <1>1, <1>2

LEMMA SucceedsInv == ASSUME EInv, NEW f \in flights, FlushSucceeds(f) PROVE EInv'
<1>1. /\ f.applied /\ flights' = flights \ {f} /\ ReaderGoesOn(f, reader.owed)
      /\ UNCHANGED <<appended, buffer, stored, dropped, erasing, erased, purges, loads,
                     failures, ticking>>
  BY DEF FlushSucceeds
<1>2. /\ ReaderOwed'
      /\ reader'.pc \in {"idle", "flush", "read", "done"}
      /\ reader'.batch \in Seq(1 .. MaxEvents)
      /\ reader'.owed \subseteq reader'.known /\ reader'.known \subseteq 1 .. appended
  BY <1>1, GoesOn
<1>3. InFlight' \subseteq InFlight /\ InFlight \subseteq InFlight' \cup ToSet(f.batch)
  BY <1>1 DEF InFlight
<1>4. ToSet(f.batch) \subseteq Stored \cup erased BY <1>1 DEF EInv, InnerStore
<1>5. Stored' = Stored BY <1>1 DEF Stored
<1>6. ETypeOK' BY <1>1, <1>2 DEF EInv, ETypeOK
<1>7. Accounted' BY <1>1, <1>3, <1>4, <1>5 DEF EInv, Accounted
<1>8. Batches' /\ InnerStore' BY <1>1, <1>3, <1>5 DEF EInv, Batches, InnerStore
<1> QED BY <1>2, <1>6, <1>7, <1>8 DEF EInv

(* A failed batch goes back in front of the buffer, with which it shares   *)
(* no event.                                                               *)
LEMMA FailsInv == ASSUME EInv, NEW f \in flights, FlushFails(f) PROVE EInv'
<1>1. /\ failures < MaxFailures /\ failures' = failures + 1
      /\ flights' = flights \ {f} /\ buffer' = f.batch \o buffer /\ ReaderGoesOn(f, {})
      /\ UNCHANGED <<appended, stored, dropped, erasing, erased, purges, loads, ticking>>
  BY DEF FlushFails
<1>2. /\ ReaderOwed'
      /\ reader'.pc \in {"idle", "flush", "read", "done"}
      /\ reader'.batch \in Seq(1 .. MaxEvents)
      /\ reader'.owed \subseteq reader'.known /\ reader'.known \subseteq 1 .. appended
  BY <1>1, GoesOn
<1>3. /\ f.batch \in Seq(1 .. MaxEvents) /\ buffer \in Seq(1 .. MaxEvents)
      /\ IsInjective(f.batch) /\ IsInjective(buffer)
      /\ ToSet(f.batch) \subseteq 1 .. appended /\ ToSet(buffer) \subseteq 1 .. appended
  BY DEF EInv, ETypeOK, Batches
<1>4. /\ InFlight = InFlight' \cup ToSet(f.batch)
      /\ InFlight' \cap ToSet(f.batch) = {}
      /\ ToSet(f.batch) \cap ToSet(buffer) = {}
  <2>1. \A g \in flights' : ToSet(g.batch) \cap ToSet(f.batch) = {}
    BY <1>1 DEF EInv, Batches
  <2>2. InFlight = InFlight' \cup ToSet(f.batch) BY <1>1 DEF InFlight
  <2>3. InFlight' \cap ToSet(f.batch) = {} BY <2>1 DEF InFlight
  <2>4. ToSet(f.batch) \subseteq InFlight BY DEF InFlight
  <2> QED BY <2>2, <2>3, <2>4 DEF EInv, Batches
<1>5. /\ buffer' \in Seq(1 .. MaxEvents) /\ IsInjective(buffer')
      /\ ToSet(buffer') = ToSet(f.batch) \cup ToSet(buffer)
  <2>1. \A s, t \in Seq(1 .. MaxEvents) :
          /\ s \o t \in Seq(1 .. MaxEvents) /\ ToSet(s \o t) = ToSet(s) \cup ToSet(t)
          /\ IsInjective(s) /\ IsInjective(t) /\ ToSet(s) \cap ToSet(t) = {}
               => IsInjective(s \o t)
    BY ConcatDistinct
  <2> QED BY <2>1, <1>1, <1>3, <1>4
<1>6. Stored' = Stored BY <1>1 DEF Stored
<1>7. failures' \in 0 .. MaxFailures BY <1>1, BatchingAssumption DEF EInv, ETypeOK
<1>8. ETypeOK' BY <1>1, <1>2, <1>5, <1>7 DEF EInv, ETypeOK
<1>9. Accounted' BY <1>1, <1>4, <1>5, <1>6 DEF EInv, Accounted
<1>10. Batches'
  <2>1. ToSet(buffer') \cap InFlight' = {} BY <1>4, <1>5 DEF EInv, Batches
  <2> QED BY <2>1, <1>1, <1>3, <1>5 DEF EInv, Batches
<1>11. InnerStore' BY <1>1, <1>6 DEF EInv, InnerStore
<1> QED BY <1>2, <1>8, <1>9, <1>10, <1>11 DEF EInv

LEMMA ReadsInv == ASSUME EInv, Reads PROVE EInv'
<1>1. /\ reader.pc = "read"
      /\ reader' = [reader EXCEPT !.pc = "done", !.owed = @ \ Stored, !.known = @ \ Stored]
      /\ UNCHANGED <<appended, buffer, flights, stored, dropped, erasing, erased,
                     purges, loads, failures, ticking>>
  BY DEF Reads
<1>2. Stored' = Stored /\ InFlight' = InFlight BY <1>1 DEF Stored, InFlight
<1>3. ETypeOK'
  <2>1. /\ reader'.pc \in {"idle", "flush", "read", "done"}
        /\ reader'.batch \in Seq(1 .. MaxEvents)
        /\ reader'.owed \subseteq reader'.known /\ reader'.known \subseteq 1 .. appended
    BY <1>1 DEF EInv, ETypeOK
  <2> QED BY <2>1, <1>1 DEF EInv, ETypeOK
<1>4. ReaderOwed' BY <1>1 DEF EInv, ReaderOwed, ReadsBuffered
<1>5. Accounted' /\ Batches' /\ InnerStore'
  BY <1>1, <1>2 DEF EInv, Accounted, Batches, InnerStore
<1> QED BY <1>3, <1>4, <1>5 DEF EInv

(* purge() empties the buffer, and owns up to all that was appended.       *)
LEMMA PurgeInv == ASSUME EInv, Purge PROVE EInv'
<1>1. /\ purges < MaxPurges /\ purges' = purges + 1 /\ erasing = {}
      /\ erasing' = 1 .. appended /\ buffer' = <<>>
      /\ UNCHANGED <<appended, flights, stored, dropped, erased, loads, reader, failures, ticking>>
  BY DEF Purge
<1>2. Stored' = Stored /\ InFlight' = InFlight BY <1>1 DEF Stored, InFlight
<1>3. purges' \in 0 .. MaxPurges BY <1>1, BatchingAssumption DEF EInv, ETypeOK
<1>4. ETypeOK'
  <2>1. dropped' \cup erasing' \cup erased' \subseteq 1 .. appended'
    BY <1>1 DEF EInv, ETypeOK
  <2>2. buffer' \in Seq(1 .. MaxEvents) BY <1>1, EmptySequence
  <2> QED BY <2>1, <2>2, <1>1, <1>3 DEF EInv, ETypeOK
<1>5. Accounted' BY <1>1 DEF Accounted
<1>6. Batches' BY <1>1, <1>2, EmptySequence DEF EInv, Batches
<1>7. InnerStore' BY <1>1, <1>2 DEF EInv, InnerStore
<1>8. ReaderOwed' BY <1>1, <1>2 DEF EInv, ReaderOwed, ReadsBuffered
<1> QED BY <1>4, <1>5, <1>6, <1>7, <1>8 DEF EInv

LEMMA InnerPurgesInv == ASSUME EInv, InnerPurges PROVE EInv'
<1>1. /\ stored' = [e \in 1 .. MaxEvents |-> 0]
      /\ erased' = erased \cup erasing \cup Stored /\ erasing' = {}
      /\ UNCHANGED <<appended, buffer, flights, dropped, purges, loads, reader, failures, ticking>>
  BY DEF InnerPurges
<1>2. Stored' = {} /\ InFlight' = InFlight BY <1>1 DEF Stored, InFlight
<1>3. Stored \subseteq 1 .. appended BY DEF EInv, InnerStore
<1>4. ETypeOK' BY <1>1, <1>3 DEF EInv, ETypeOK
<1>5. Accounted' BY <1>1, <1>2 DEF EInv, Accounted
<1>6. Batches' BY <1>1, <1>2 DEF EInv, Batches
<1>7. InnerStore' BY <1>1, <1>2 DEF EInv, InnerStore
<1>8. ReaderOwed' BY <1>1, <1>2 DEF EInv, ReaderOwed, ReadsBuffered
<1> QED BY <1>4, <1>5, <1>6, <1>7, <1>8 DEF EInv

LEMMA NextInv == ASSUME EInv, [ENext]_evars PROVE EInv'
<1>1. ASSUME NEW k \in 1 .. MaxChunk, Add(k) PROVE EInv' BY <1>1, AddInv
<1>2. CASE Tick \/ Close BY <1>2, TickInv
<1>3. CASE Load BY <1>3, LoadInv
<1>4. CASE Reads BY <1>4, ReadsInv
<1>5. CASE Purge BY <1>5, PurgeInv
<1>6. CASE InnerPurges BY <1>6, InnerPurgesInv
<1>7. ASSUME NEW f \in flights, Applies(f) PROVE EInv' BY <1>7, AppliesInv
<1>8. ASSUME NEW f \in flights, FlushSucceeds(f) PROVE EInv' BY <1>8, SucceedsInv
<1>9. ASSUME NEW f \in flights, FlushFails(f) PROVE EInv' BY <1>9, FailsInv
<1>10. CASE UNCHANGED evars
  BY <1>10 DEF evars, EInv, ETypeOK, Accounted, Batches, InnerStore, ReaderOwed,
     ReadsBuffered, InFlight, Stored
<1> QED BY <1>1, <1>2, <1>3, <1>4, <1>5, <1>6, <1>7, <1>8, <1>9, <1>10 DEF ENext, InnerStep

-----------------------------------------------------------------------------
(* The theorems.                                                           *)

(* At all times the inductive invariant holds.                             *)
THEOREM InvHolds == ESpec => []EInv
<1>1. EInit => EInv BY InitInv
<1>2. EInv /\ [ENext]_evars => EInv' BY NextInv
<1> QED BY <1>1, <1>2, PTL DEF ESpec

(* While no batch has failed the buffer is smaller than a batch, so that   *)
(* the events of an append find room.                                      *)
Roomy == failures = 0 => Len(buffer) < MaxBatch /\ dropped = {}

(* Nothing is dropped while the inner store takes its batches, provided    *)
(* one append() never brings more events than the buffer has room for.     *)
LEMMA NothingDroppedWhileDraining ==
  ASSUME MaxBatch + MaxChunk <= Cap + 1
  PROVE  ESpec => []NoNeedlessDrop
<1>0. /\ MaxBatch \in Nat /\ MaxBatch > 0 /\ MaxChunk \in Nat /\ Cap \in Nat
  <2>1. \A a, b \in Nat : a * b \in Nat OBVIOUS
  <2> QED BY <2>1, BatchingAssumption DEF Cap
<1>1. EInit => Roomy
  BY <1>0 DEF EInit, Roomy
<1>2. ASSUME EInv, Roomy, [ENext]_evars PROVE Roomy'
  <2>0. failures \in Nat /\ buffer \in Seq(1 .. MaxEvents) /\ Len(buffer) \in Nat
    BY <1>2, BatchingAssumption DEF EInv, ETypeOK
  <2>1. ASSUME NEW k \in 1 .. MaxChunk, Add(k), failures = 0 PROVE Roomy'
    <3> DEFINE fresh == [i \in 1 .. k |-> appended + i]
               pushed == buffer \o fresh
    <3>1. fresh \in Seq(1 .. MaxEvents) /\ Len(fresh) = k
      <4>1. k \in Nat /\ appended \in Nat /\ appended + k <= MaxEvents /\ MaxEvents \in Nat
        BY <1>2, <2>1, <1>0, BatchingAssumption DEF Add, EInv, ETypeOK
      <4> QED BY <4>1
    <3> HIDE DEF fresh
    <3>2. pushed \in Seq(1 .. MaxEvents) /\ Len(pushed) = Len(buffer) + k
      BY <2>0, <3>1, ConcatProperties
    <3>3. Len(pushed) <= Cap BY <1>0, <1>2, <2>0, <2>1, <3>2 DEF Roomy
    <3>4. /\ dropped' = dropped \cup (ToSet(pushed) \ ToSet(NewestKept(pushed)))
          /\ IF Len(NewestKept(pushed)) >= MaxBatch
             THEN Flush(NewestKept(pushed)) ELSE buffer' = NewestKept(pushed)
      BY <2>1 DEF Add, fresh
    <3> HIDE DEF pushed
    <3>5. NewestKept(pushed) = pushed BY <3>2, <3>3, KeepsNewest
    <3>6. dropped' = {} BY <1>2, <2>1, <3>4, <3>5 DEF Roomy
    <3>7. Len(buffer') < MaxBatch
      <4>1. CASE Len(pushed) >= MaxBatch BY <4>1, <3>4, <3>5, <1>0 DEF Flush
      <4>2. CASE ~(Len(pushed) >= MaxBatch) BY <4>2, <3>2, <3>4, <3>5, <1>0, <2>0
      <4> QED BY <4>1, <4>2
    <3> QED BY <3>6, <3>7 DEF Roomy
  <2>2. ASSUME NEW k \in 1 .. MaxChunk, Add(k), failures # 0 PROVE Roomy'
    BY <2>2 DEF Add, Roomy
  <2>3. CASE Tick \/ Close \/ Load
    BY <1>0, <1>2, <2>3 DEF Tick, Close, Load, Flush, Roomy
  <2>4. CASE Purge BY <1>0, <1>2, <2>4 DEF Purge, Roomy
  <2>5. CASE Reads \/ InnerPurges BY <1>2, <2>5 DEF Reads, InnerPurges, Roomy
  <2>6. ASSUME NEW f \in flights, Applies(f) \/ FlushSucceeds(f) PROVE Roomy'
    BY <1>2, <2>6 DEF Applies, FlushSucceeds, Roomy
  <2>7. ASSUME NEW f \in flights, FlushFails(f) PROVE Roomy'
    BY <2>0, <2>7 DEF FlushFails, Roomy
  <2>8. CASE UNCHANGED evars BY <1>2, <2>8 DEF evars, Roomy
  <2> QED BY <1>2, <2>1, <2>2, <2>3, <2>4, <2>5, <2>6, <2>7, <2>8 DEF ENext, InnerStep
<1>3. Roomy => NoNeedlessDrop BY DEF Roomy, NoNeedlessDrop
<1> QED BY <1>1, <1>2, <1>3, InvHolds, PTL DEF ESpec

(* The buffer loses no event in silence, stores none twice and shows a     *)
(* reader what was buffered, for any cap and any number of failures, and   *)
(* drops nothing as long as no batch has failed, provided that a batch and *)
(* an append() fit the cap together.                                       *)
THEOREM BufferIsSound ==
  ASSUME MaxBatch + MaxChunk <= Cap + 1
  PROVE  ESpec => []BufferSound
<1>1. EInv => ETypeOK /\ Accounted /\ StoredOnce /\ ReadsBuffered
  BY DEF EInv, Batches, InnerStore, ReaderOwed, StoredOnce
<1>2. ESpec => []NoNeedlessDrop BY NothingDroppedWhileDraining
<1>3. EInv /\ NoNeedlessDrop => BufferSound BY <1>1 DEF BufferSound
<1> QED BY <1>2, <1>3, InvHolds, PTL
=============================================================================
