-------------------------- MODULE ResilientProofs --------------------------
(***************************************************************************)
(* Proofs about ResilientAgent for any thresholds, bucket counts, rates    *)
(* and numbers of callers.                                                 *)
(***************************************************************************)
EXTENDS ResilientAgent, InductionLemmas

Breakers ==
  [state : {"CLOSED", "OPEN", "HALF_OPEN"}, ring : [Slots -> Nat], startAge : 0 .. Buckets,
   successes : Nat, openAge : 0 .. ResetTimeout]

ATypeOK ==
  /\ breaker \in Breakers
  /\ tokens \in Nat
  /\ failures \in [Slots -> Nat] /\ admitted \in [1 .. Interval -> Nat] /\ probes \in Nat

LEMMA Parameters ==
  /\ Buckets \in Nat /\ Buckets > 0 /\ ResetTimeout \in Nat /\ ResetTimeout > 0
  /\ FailureThreshold \in Nat /\ FailureThreshold > 0
  /\ SuccessThreshold \in Nat /\ SuccessThreshold > 0
  /\ MaxRequests \in Nat /\ MaxRequests > 0 /\ Interval \in Nat /\ Interval > 0
  /\ MaxTokens \in Nat /\ 1 \in Slots /\ Buckets \in Slots
<1>1. /\ Buckets \in Nat /\ Buckets > 0 /\ ResetTimeout \in Nat /\ ResetTimeout > 0
      /\ FailureThreshold \in Nat /\ FailureThreshold > 0
      /\ SuccessThreshold \in Nat /\ SuccessThreshold > 0
  BY BreakerAssumption
<1>2. MaxRequests \in Nat /\ MaxRequests > 0 /\ Interval \in Nat /\ Interval > 0
  BY ResilientAssumption
<1>3. \A a, b \in Nat : a * b \in Nat OBVIOUS
<1>4. MaxTokens \in Nat BY <1>2, <1>3 DEF MaxTokens
<1> QED BY <1>1, <1>2, <1>4 DEF Slots

-----------------------------------------------------------------------------
(* The operators of the circuit breaker.                                   *)

LEMMA ClosedType == Closed \in Breakers
BY Parameters DEF Closed, Breakers, NoFailures

LEMMA AgedType ==
  ASSUME NEW b \in Breakers
  PROVE  /\ Aged(b) \in Breakers /\ Aged(b).state = b.state /\ Aged(b).ring = b.ring
         /\ Aged(b).successes = b.successes /\ Aged(b).startAge = Older(b.startAge, Buckets)
         /\ b.state = "OPEN" => Aged(b).openAge >= b.openAge
<1>1. \A bound \in Nat : \A age \in 0 .. bound :
        Older(age, bound) \in 0 .. bound /\ Older(age, bound) >= age
  BY DEF Older
<1>2. /\ b.startAge \in 0 .. Buckets /\ b.openAge \in 0 .. ResetTimeout
      /\ 0 \in 0 .. ResetTimeout
  BY Parameters DEF Breakers
<1>3. /\ Older(b.startAge, Buckets) \in 0 .. Buckets
      /\ Older(b.openAge, ResetTimeout) \in 0 .. ResetTimeout
      /\ Older(b.openAge, ResetTimeout) >= b.openAge
  BY <1>1, <1>2, Parameters
<1> QED BY <1>2, <1>3 DEF Aged, Breakers

LEMMA AdvancedType ==
  ASSUME NEW b \in Breakers
  PROVE  /\ Advanced(b) \in Breakers /\ Advanced(b).startAge = 0
         /\ Advanced(b).state = b.state /\ Advanced(b).successes = b.successes
         /\ Advanced(b).openAge = b.openAge
         /\ \A i \in Slots : Advanced(b).ring[i] = IF i + b.startAge \in Slots
                                                   THEN b.ring[i + b.startAge] ELSE 0
<1> DEFINE r == [i \in Slots |-> IF i + b.startAge \in Slots THEN b.ring[i + b.startAge] ELSE 0]
<1>1. r \in [Slots -> Nat] BY DEF Breakers
<1>2. Advanced(b) = [b EXCEPT !.startAge = 0, !.ring = r] BY DEF Advanced
<1>3. \A i \in Slots : r[i] = IF i + b.startAge \in Slots THEN b.ring[i + b.startAge] ELSE 0
  OBVIOUS
<1>4. 0 \in 0 .. Buckets BY Parameters
<1> HIDE DEF r
<1>5. /\ Advanced(b).ring = r /\ Advanced(b).startAge = 0
      /\ Advanced(b).state = b.state /\ Advanced(b).successes = b.successes
      /\ Advanced(b).openAge = b.openAge
  BY <1>2 DEF Breakers
<1>6. Advanced(b) \in Breakers BY <1>1, <1>2, <1>4 DEF Breakers
<1> QED BY <1>3, <1>5, <1>6

LEMMA CountedType ==
  ASSUME NEW b \in Breakers
  PROVE  /\ Counted(b) \in Breakers /\ Counted(b).startAge = 0
         /\ Counted(b).state = b.state /\ Counted(b).successes = b.successes
         /\ Counted(b).openAge = b.openAge
         /\ \A i \in Slots : Counted(b).ring[i] = IF i = Buckets THEN Advanced(b).ring[i] + 1
                                                  ELSE Advanced(b).ring[i]
<1> DEFINE a == Advanced(b)
<1>1. /\ a \in Breakers /\ a.startAge = 0 /\ a.state = b.state
      /\ a.successes = b.successes /\ a.openAge = b.openAge
  BY AdvancedType
<1>2. Counted(b) = [a EXCEPT !.ring[Buckets] = @ + 1] BY DEF Counted
<1> HIDE DEF a
<1>3. a.ring \in [Slots -> Nat] BY <1>1 DEF Breakers
<1> DEFINE r == [a.ring EXCEPT ![Buckets] = @ + 1]
<1>4. r \in [Slots -> Nat] /\ \A i \in Slots : r[i] = IF i = Buckets THEN a.ring[i] + 1 ELSE a.ring[i]
  BY <1>3, Parameters
<1>5. Counted(b) = [a EXCEPT !.ring = r] BY <1>2
<1> HIDE DEF r
<1> QED BY <1>1, <1>4, <1>5 DEF Breakers, a

(* A breaker whose ring is up to date is the same when it is advanced.     *)
LEMMA AdvancedIdle ==
  ASSUME NEW b \in Breakers, b.startAge = 0
  PROVE  \A i \in Slots : Advanced(b).ring[i] = b.ring[i]
<1>1. \A i \in Slots : i + 0 = i BY DEF Slots
<1> QED BY <1>1, AdvancedType

LEMMA FailedType ==
  ASSUME NEW b \in Breakers
  PROVE  /\ Failed(b) \in Breakers /\ Failed(b).startAge = 0
         /\ Failed(b).ring = Counted(b).ring /\ Failed(b).successes = b.successes
         /\ Failed(b).state # "HALF_OPEN"
         /\ b.state = "OPEN" => Failed(b).state = "OPEN" /\ Failed(b).openAge = b.openAge
         /\ Failed(b).state = "CLOSED" =>
              /\ b.state = "CLOSED" /\ Failed(b) = Counted(b)
              /\ ~(FailureCount(Counted(b)) >= FailureThreshold)
         /\ b.state = "CLOSED" /\ Failed(b).state # "CLOSED" =>
              /\ Failed(b).state = "OPEN"
              /\ FailureCount(Failed(b)) >= FailureThreshold
<1>1. /\ Counted(b) \in Breakers /\ Counted(b).startAge = 0
      /\ Counted(b).state = b.state /\ Counted(b).successes = b.successes
      /\ Counted(b).openAge = b.openAge
  BY CountedType
<1>2. 0 \in 0 .. ResetTimeout BY Parameters
<1>3. b.state \in {"CLOSED", "OPEN", "HALF_OPEN"} BY DEF Breakers
<1>4. /\ Opened(Counted(b)) \in Breakers /\ Opened(Counted(b)).state = "OPEN"
      /\ Opened(Counted(b)).ring = Counted(b).ring
      /\ Opened(Counted(b)).startAge = 0 /\ Opened(Counted(b)).successes = b.successes
  BY <1>1, <1>2 DEF Opened, Breakers
<1>5. CASE \/ b.state = "HALF_OPEN"
           \/ b.state = "CLOSED" /\ FailureCount(Counted(b)) >= FailureThreshold
  <2>1. Failed(b) = Opened(Counted(b)) BY <1>5 DEF Failed
  <2>2. Advanced(Opened(Counted(b))).ring = Advanced(Counted(b)).ring
    BY <1>1, <1>4 DEF Advanced, Breakers
  <2>3. FailureCount(Opened(Counted(b))) = FailureCount(Counted(b)) BY <2>2 DEF FailureCount
  <2> QED BY <1>4, <1>5, <2>1, <2>3
<1>6. CASE ~(\/ b.state = "HALF_OPEN"
             \/ b.state = "CLOSED" /\ FailureCount(Counted(b)) >= FailureThreshold)
  <2>1. Failed(b) = Counted(b) BY <1>6 DEF Failed
  <2> QED BY <1>1, <1>3, <1>6, <2>1
<1> QED BY <1>5, <1>6

LEMMA SucceededType ==
  ASSUME NEW b \in Breakers
  PROVE  /\ Succeeded(b) \in Breakers
         /\ b.state # "HALF_OPEN" => Succeeded(b) = b
         /\ b.state = "HALF_OPEN" /\ b.successes + 1 < SuccessThreshold =>
              Succeeded(b) = [b EXCEPT !.successes = @ + 1]
         /\ b.state = "HALF_OPEN" /\ ~(b.successes + 1 < SuccessThreshold) =>
              /\ Succeeded(b).state = "CLOSED" /\ Succeeded(b).ring = NoFailures
              /\ Succeeded(b).startAge = 0
<1>1. 0 \in 0 .. Buckets /\ NoFailures \in [Slots -> Nat] BY Parameters DEF NoFailures
<1>2. b.successes + 1 \in Nat BY DEF Breakers
<1> QED BY <1>1, <1>2 DEF Succeeded, Breakers

LEMMA CheckedType ==
  ASSUME NEW b \in Breakers
  PROVE  /\ Checked(b) \in Breakers
         /\ Checked(b).ring = b.ring /\ Checked(b).startAge = b.startAge
         /\ Checked(b) # b => /\ b.state = "OPEN" /\ b.openAge >= ResetTimeout
                             /\ Checked(b).state = "HALF_OPEN" /\ Checked(b).successes = 0
<1> QED BY DEF Checked, Breakers

-----------------------------------------------------------------------------
LEMMA InitTypes == AInit => ATypeOK
BY ClosedType, Parameters DEF AInit, ATypeOK, NoFailures

LEMMA ShiftedType ==
  ASSUME NEW n \in Nat, NEW w \in [1 .. n -> Nat]
  PROVE  /\ Shifted(w) \in [1 .. n -> Nat]
         /\ \A i \in 1 .. n : Shifted(w)[i] = IF i = 1 THEN 0 ELSE w[i - 1]
BY DEF Shifted

LEMMA TypesKeep == ASSUME ATypeOK, [ANext]_rvars PROVE ATypeOK'
<1> USE Parameters DEF ATypeOK
<1>1. ASSUME NEW c \in Callers, Arrive(c) PROVE ATypeOK'
  <2>1. breaker' \in Breakers BY <1>1, CheckedType DEF Arrive
  <2>2. tokens' \in Nat BY <1>1 DEF Arrive
  <2>3. admitted' \in [1 .. Interval -> Nat] BY <1>1 DEF Arrive
  <2>4. probes' \in Nat /\ failures' = failures BY <1>1 DEF Arrive
  <2> QED BY <2>1, <2>2, <2>3, <2>4
<1>2. ASSUME NEW c \in Callers, Succeeds(c) PROVE ATypeOK'
  <2>1. breaker' \in Breakers BY <1>2, SucceededType DEF Succeeds
  <2>2. Older(probes, SuccessThreshold) \in Nat BY DEF Older
  <2>3. NoFailures \in [Slots -> Nat] BY DEF NoFailures
  <2> QED BY <1>2, <2>1, <2>2, <2>3 DEF Succeeds
<1>3. ASSUME NEW c \in Callers, GivesUp(c) PROVE ATypeOK'
  <2>1. breaker' \in Breakers BY <1>3, FailedType DEF GivesUp
  <2>2. failures' \in [Slots -> Nat] BY <1>3 DEF GivesUp
  <2> QED BY <1>3, <2>1, <2>2 DEF GivesUp
<1>4. CASE Reset
  <2>1. NoFailures \in [Slots -> Nat] BY DEF NoFailures
  <2> QED BY <1>4, <2>1, ClosedType DEF Reset
<1>5. CASE Tick
  <2>1. breaker' \in Breakers BY <1>5, AgedType DEF Tick
  <2>2. tokens' \in Nat BY <1>5 DEF Tick, Refilled
  <2>3. failures' \in [Slots -> Nat] BY <1>5, ShiftedType DEF Tick, Slots
  <2>4. admitted' \in [1 .. Interval -> Nat] BY <1>5, ShiftedType DEF Tick
  <2> QED BY <1>5, <2>1, <2>2, <2>3, <2>4 DEF Tick
<1>6. CASE UNCHANGED rvars BY <1>6 DEF rvars
<1>7. ASSUME NEW c \in Callers, Wakes(c) PROVE ATypeOK' BY <1>7 DEF Wakes
<1>8. ASSUME NEW c \in Callers, Lost(c) PROVE ATypeOK'
  BY <1>3, <1>8 DEF Lost, AttemptFails, AttemptTimesOut
<1> QED BY <1>1, <1>2, <1>4, <1>5, <1>6, <1>7, <1>8 DEF ANext

-----------------------------------------------------------------------------
(* The successes that a half open circuit has counted are its probes, and  *)
(* too few to close it.                                                    *)
Probing ==
  breaker.state = "HALF_OPEN" => breaker.successes = probes /\ probes < SuccessThreshold

Closes ==
  /\ breaker.state = "HALF_OPEN" /\ breaker'.state = "CLOSED" => probes' >= SuccessThreshold
  /\ breaker.state = "OPEN" /\ breaker'.state # "OPEN"
       => breaker'.state = "HALF_OPEN" /\ breaker.openAge >= ResetTimeout
  /\ breaker.state = "OPEN" /\ breaker'.state = "OPEN" => breaker'.openAge >= breaker.openAge

LEMMA ProbingStep ==
  ASSUME ATypeOK, Probing, [ANext]_rvars
  PROVE  /\ Probing'
         /\ ~Reset => Closes
<1> USE DEF Closes
<1>0. /\ breaker \in Breakers /\ probes \in Nat /\ breaker.successes \in Nat
      /\ breaker.openAge \in Int
  BY DEF ATypeOK, Breakers
<1>1. ASSUME NEW c \in Callers, Arrive(c) PROVE Probing' /\ Closes
  <2>1. /\ breaker' = Checked(breaker)
        /\ probes' = IF breaker.state # breaker'.state THEN 0 ELSE probes
    BY <1>1 DEF Arrive
  <2>2. CASE breaker' = breaker BY <1>0, <2>1, <2>2 DEF Probing
  <2>3. CASE breaker' # breaker
    <3>1. /\ breaker.state = "OPEN" /\ breaker.openAge >= ResetTimeout
          /\ breaker'.state = "HALF_OPEN" /\ breaker'.successes = 0
      BY <1>0, <2>1, <2>3, CheckedType
    <3> QED BY <2>1, <3>1, Parameters DEF Probing
  <2> QED BY <2>2, <2>3
<1>2. ASSUME NEW c \in Callers, Succeeds(c) PROVE Probing' /\ Closes
  <2>1. /\ breaker' = Succeeded(breaker)
        /\ probes' = IF breaker.state = "HALF_OPEN" THEN Older(probes, SuccessThreshold) ELSE probes
    BY <1>2 DEF Succeeds
  <2>2. CASE breaker.state # "HALF_OPEN"
    BY <1>0, <2>1, <2>2, SucceededType DEF Probing
  <2>3. CASE breaker.state = "HALF_OPEN"
    <3>1. breaker.successes = probes /\ probes' = probes + 1
      BY <2>1, <2>3 DEF Probing, Older
    <3>2. CASE breaker.successes + 1 < SuccessThreshold
      <4>1. breaker' = [breaker EXCEPT !.successes = @ + 1] BY <1>0, <2>1, <2>3, <3>2, SucceededType
      <4>2. breaker'.successes = breaker.successes + 1 /\ breaker'.state = "HALF_OPEN"
        BY <1>0, <2>3, <4>1 DEF Breakers
      <4> QED BY <2>3, <3>1, <3>2, <4>2 DEF Probing
    <3>3. CASE ~(breaker.successes + 1 < SuccessThreshold)
      <4>1. breaker'.state = "CLOSED" BY <1>0, <2>1, <2>3, <3>3, SucceededType
      <4> QED BY <1>0, <2>3, <3>1, <3>3, <4>1, Parameters DEF Probing
    <3> QED BY <3>2, <3>3
  <2> QED BY <2>2, <2>3
<1>3. ASSUME NEW c \in Callers, GivesUp(c) PROVE Probing' /\ Closes
  <2>1. breaker' = Failed(breaker) BY <1>3 DEF GivesUp
  <2>2. /\ breaker'.state # "HALF_OPEN"
        /\ breaker.state = "OPEN" => breaker'.state = "OPEN" /\ breaker'.openAge = breaker.openAge
        /\ breaker'.state = "CLOSED" => breaker.state = "CLOSED"
    BY <1>0, <2>1, FailedType
  <2> QED BY <1>0, <2>2 DEF Probing
<1>4. CASE Reset BY <1>4 DEF Reset, Closed, Probing
<1>5. CASE Tick
  <2>1. breaker' = Aged(breaker) /\ probes' = probes BY <1>5 DEF Tick
  <2>2. /\ breaker'.state = breaker.state /\ breaker'.successes = breaker.successes
        /\ breaker.state = "OPEN" => breaker'.openAge >= breaker.openAge
    BY <1>0, <2>1, AgedType
  <2> QED BY <2>1, <2>2 DEF Probing
<1>6. ASSUME breaker' = breaker, probes' = probes PROVE Probing' /\ Closes
  BY <1>0, <1>6 DEF Probing
<1>7. ASSUME NEW c \in Callers, Lost(c) PROVE Probing' /\ Closes
  BY <1>3, <1>6, <1>7 DEF Lost, AttemptFails, AttemptTimesOut
<1>8. ASSUME NEW c \in Callers, Wakes(c) PROVE Probing' /\ Closes
  BY <1>6, <1>8 DEF Wakes
<1>9. CASE UNCHANGED rvars BY <1>6, <1>9 DEF rvars
<1> QED BY <1>1, <1>2, <1>4, <1>5, <1>7, <1>8, <1>9 DEF ANext

LEMMA InitProbing == AInit => Probing
BY DEF AInit, Closed, Probing

-----------------------------------------------------------------------------
(* The ring read backwards is the window of the failures.                  *)
Mirrors(b, window) == \A i \in Slots : Advanced(b).ring[i] = window[Buckets + 1 - i]

LEMMA MirrorCounts ==
  ASSUME NEW b \in Breakers, NEW window \in [Slots -> Nat], Mirrors(b, window)
  PROVE  FailureCount(b) = SumFunction(window)
<1> DEFINE r == Advanced(b).ring
<1>1. r \in [1 .. Buckets -> Nat] /\ window \in [1 .. Buckets -> Nat]
  BY AdvancedType DEF Breakers, Slots
<1>2. \A i \in 1 .. Buckets : r[i] = window[Buckets + 1 - i] BY DEF Mirrors, Slots
<1>3. FailureCount(b) = SumFunctionOnSet(r, DOMAIN r) BY DEF FailureCount, SumFunction
<1>4. SumFunction(window) = SumFunctionOnSet(window, DOMAIN window) BY DEF SumFunction
<1> HIDE DEF r
<1>5. DOMAIN r = 1 .. Buckets /\ DOMAIN window = 1 .. Buckets BY <1>1
<1>6. SumFunctionOnSet(r, 1 .. Buckets) = SumFunctionOnSet(window, 1 .. Buckets)
  BY <1>1, <1>2, Parameters, SumReversed
<1> QED BY <1>3, <1>4, <1>5, <1>6

(* A window sums up to a number, and to no more when it moves on.          *)
LEMMA WindowSum ==
  ASSUME NEW n \in Nat, n > 0, NEW w \in [1 .. n -> Nat]
  PROVE  SumFunction(w) \in Nat /\ SumFunction(Shifted(w)) <= SumFunction(w)
<1>1. /\ SumFunction(w) = SumFunctionOnSet(w, 1 .. n)
      /\ SumFunction(Shifted(w)) = SumFunctionOnSet(Shifted(w), 1 .. n)
  BY ShiftedType DEF SumFunction
<1>2. n \in 1 .. n /\ n \in 0 .. n /\ n - 1 \in 0 .. n OBVIOUS
<1>3. SumFunctionOnSet(Shifted(w), 1 .. n) = SumFunctionOnSet(w, 1 .. n - 1)
  <2>1. \A i \in 1 .. n : w[i] \in Nat OBVIOUS
  <2>2. \A i \in 1 .. n : Shifted(w)[i] = IF i = 1 THEN 0 ELSE w[i - 1] BY ShiftedType
  <2>3. \A k \in 1 .. n : SumFunctionOnSet(Shifted(w), 1 .. k) = SumFunctionOnSet(w, 1 .. k - 1)
    BY <2>1, <2>2, SumShifted
  <2> QED BY <1>2, <2>3
<1>4. SumFunctionOnSet(w, 1 .. n) = SumFunctionOnSet(w, 1 .. n - 1) + w[n]
  BY <1>2, SumUpTo
<1>5. SumFunctionOnSet(w, 1 .. n) \in Nat /\ SumFunctionOnSet(w, 1 .. n - 1) \in Nat
  BY <1>2, SumIsNatural
<1>6. w[n] \in Nat BY <1>2
<1> QED BY <1>1, <1>3, <1>4, <1>5, <1>6

WindowInv ==
  /\ Mirrors(breaker, failures)
  /\ breaker.state = "CLOSED" => SumFunction(failures) < FailureThreshold

LEMMA NothingMirrored ==
  ASSUME NEW b \in Breakers, b.ring = NoFailures, b.startAge = 0
  PROVE  Mirrors(b, NoFailures) /\ SumFunction(NoFailures) < FailureThreshold
<1>1. \A i \in Slots : Buckets + 1 - i \in Slots BY Parameters DEF Slots
<1>2. Mirrors(b, NoFailures)
  BY <1>1, AdvancedIdle DEF Mirrors, NoFailures
<1>3. \A i \in 1 .. Buckets : NoFailures[i] \in Nat BY DEF NoFailures, Slots
<1> DEFINE P == {k \in 0 .. Buckets : SumFunctionOnSet(NoFailures, 1 .. k) = 0}
<1>4. 0 \in P
  <2>1. 1 .. 0 = {} OBVIOUS
  <2> QED BY <2>1, SumOfNone, Parameters
<1>5. ASSUME NEW k \in 1 .. Buckets, k - 1 \in P PROVE k \in P
  <2>1. SumFunctionOnSet(NoFailures, 1 .. k) = SumFunctionOnSet(NoFailures, 1 .. k - 1) + NoFailures[k]
    BY <1>3, SumUpTo, Parameters
  <2>2. NoFailures[k] = 0 BY DEF NoFailures, Slots
  <2> QED BY <1>5, <2>1, <2>2, Parameters
<1> HIDE DEF P
<1>6. 0 .. Buckets \subseteq P BY <1>4, <1>5, UpTo, Parameters
<1>7. Buckets \in P BY <1>6, Parameters
<1>8. SumFunction(NoFailures) = 0
  BY <1>7 DEF P, SumFunction, NoFailures, Slots
<1> QED BY <1>2, <1>8, Parameters

LEMMA InitWindow == AInit => WindowInv
<1> SUFFICES ASSUME AInit PROVE WindowInv OBVIOUS
<1>1. breaker = Closed /\ failures = NoFailures BY DEF AInit
<1>2. Closed.ring = NoFailures /\ Closed.startAge = 0 BY DEF Closed
<1> QED BY <1>1, <1>2, ClosedType, NothingMirrored DEF WindowInv

LEMMA WindowStep == ASSUME ATypeOK, WindowInv, [ANext]_rvars PROVE WindowInv'
<1>0. /\ breaker \in Breakers /\ failures \in [Slots -> Nat]
      /\ breaker' \in Breakers /\ failures' \in [Slots -> Nat]
  BY TypesKeep DEF ATypeOK
<1>1. ASSUME failures' = failures, breaker'.ring = breaker.ring,
             breaker'.startAge = breaker.startAge,
             breaker'.state = "CLOSED" => breaker.state = "CLOSED"
      PROVE  WindowInv'
  <2>1. \A i \in Slots : Advanced(breaker').ring[i] = Advanced(breaker).ring[i]
    BY <1>0, <1>1, AdvancedType
  <2> QED BY <1>1, <2>1 DEF WindowInv, Mirrors
<1>2. ASSUME NEW c \in Callers, Arrive(c) PROVE WindowInv'
  <2>1. breaker' = Checked(breaker) /\ failures' = failures BY <1>2 DEF Arrive
  <2>2. /\ breaker'.ring = breaker.ring /\ breaker'.startAge = breaker.startAge
        /\ breaker' # breaker => breaker'.state = "HALF_OPEN"
    BY <1>0, <2>1, CheckedType
  <2> QED BY <1>1, <2>1, <2>2
<1>3. ASSUME NEW c \in Callers, Succeeds(c) PROVE WindowInv'
  <2>1. /\ breaker' = Succeeded(breaker)
        /\ failures' = IF breaker.state = "HALF_OPEN" /\ breaker'.state = "CLOSED"
                       THEN NoFailures ELSE failures
    BY <1>3 DEF Succeeds
  <2>2. CASE breaker.state # "HALF_OPEN"
    BY <1>0, <1>1, <2>1, <2>2, SucceededType
  <2>3. CASE breaker.state = "HALF_OPEN" /\ breaker.successes + 1 < SuccessThreshold
    <3>1. breaker' = [breaker EXCEPT !.successes = @ + 1] BY <1>0, <2>1, <2>3, SucceededType
    <3>2. /\ breaker'.ring = breaker.ring /\ breaker'.startAge = breaker.startAge
          /\ breaker'.state = "HALF_OPEN"
      BY <1>0, <2>3, <3>1 DEF Breakers
    <3> QED BY <1>1, <2>1, <3>2
  <2>4. CASE breaker.state = "HALF_OPEN" /\ ~(breaker.successes + 1 < SuccessThreshold)
    <3>1. /\ breaker'.state = "CLOSED" /\ breaker'.ring = NoFailures /\ breaker'.startAge = 0
      BY <1>0, <2>1, <2>4, SucceededType
    <3>2. failures' = NoFailures BY <2>1, <2>4, <3>1
    <3> QED BY <1>0, <3>1, <3>2, NothingMirrored DEF WindowInv
  <2> QED BY <2>2, <2>3, <2>4
<1>4. ASSUME NEW c \in Callers, GivesUp(c) PROVE WindowInv'
  <2>1. breaker' = Failed(breaker) /\ failures' = [failures EXCEPT ![1] = @ + 1]
    BY <1>4 DEF GivesUp
  <2>2. /\ breaker'.startAge = 0 /\ breaker'.ring = Counted(breaker).ring
        /\ breaker'.state = "CLOSED" =>
             /\ breaker' = Counted(breaker)
             /\ ~(FailureCount(Counted(breaker)) >= FailureThreshold)
    BY <1>0, <2>1, FailedType
  <2>3. Mirrors(breaker', failures')
    <3>1. SUFFICES ASSUME NEW i \in Slots
                   PROVE  Advanced(breaker').ring[i] = failures'[Buckets + 1 - i]
      BY DEF Mirrors
    <3>2. Advanced(breaker').ring[i] = breaker'.ring[i] BY <1>0, <2>2, AdvancedIdle
    <3>3. Counted(breaker).ring[i] = IF i = Buckets THEN Advanced(breaker).ring[i] + 1
                                     ELSE Advanced(breaker).ring[i]
      BY <1>0, CountedType
    <3>4. Advanced(breaker).ring[i] = failures[Buckets + 1 - i] BY DEF WindowInv, Mirrors
    <3>5. Buckets + 1 - i \in Slots /\ (Buckets + 1 - i = 1 <=> i = Buckets)
      BY Parameters DEF Slots
    <3>6. failures'[Buckets + 1 - i] = IF i = Buckets THEN failures[Buckets + 1 - i] + 1
                                       ELSE failures[Buckets + 1 - i]
      BY <1>0, <2>1, <3>5
    <3> QED BY <2>2, <3>2, <3>3, <3>4, <3>6
  <2>4. FailureCount(breaker') = SumFunction(failures') BY <1>0, <2>3, MirrorCounts
  <2>5. SumFunction(failures') \in Nat BY <1>0, WindowSum, Parameters DEF Slots
  <2> QED BY <2>2, <2>3, <2>4, <2>5, Parameters DEF WindowInv
<1>5. CASE Reset
  <2>1. breaker' = Closed /\ failures' = NoFailures BY <1>5 DEF Reset
  <2>2. Closed.ring = NoFailures /\ Closed.startAge = 0 BY DEF Closed
  <2> QED BY <2>1, <2>2, ClosedType, NothingMirrored DEF WindowInv
<1>6. CASE Tick
  <2>1. breaker' = Aged(breaker) /\ failures' = Shifted(failures) BY <1>6 DEF Tick
  <2>2. /\ breaker'.state = breaker.state /\ breaker'.ring = breaker.ring
        /\ breaker'.startAge = Older(breaker.startAge, Buckets)
    BY <1>0, <2>1, AgedType
  <2>3. Mirrors(breaker', failures')
    <3>1. SUFFICES ASSUME NEW i \in Slots
                   PROVE  Advanced(breaker').ring[i] = failures'[Buckets + 1 - i]
      BY DEF Mirrors
    <3>2. Advanced(breaker').ring[i] = IF i + breaker'.startAge \in Slots
                                       THEN breaker.ring[i + breaker'.startAge] ELSE 0
      BY <1>0, <2>2, AdvancedType
    <3>3. \A j \in 1 .. Buckets : failures'[j] = IF j = 1 THEN 0 ELSE failures[j - 1]
      <4>1. failures \in [1 .. Buckets -> Nat] BY <1>0 DEF Slots
      <4>2. \A j \in 1 .. Buckets :
              Shifted(failures)[j] = IF j = 1 THEN 0 ELSE failures[j - 1]
        BY <4>1, ShiftedType, Parameters
      <4> QED BY <2>1, <4>2
    <3>4. breaker.startAge \in 0 .. Buckets BY <1>0 DEF Breakers
    <3>5. CASE i = Buckets
      <4>1. i + breaker'.startAge \notin Slots
        BY <2>2, <3>4, <3>5, Parameters DEF Slots, Older
      <4> QED BY <3>2, <3>3, <3>5, <4>1, Parameters
    <3>6. CASE i # Buckets
      <4>1. i + 1 \in Slots /\ Buckets + 1 - (i + 1) = Buckets + 1 - i - 1 /\ Buckets + 1 - i # 1
        BY <3>6, Parameters DEF Slots
      <4>2. Advanced(breaker).ring[i + 1] = failures[Buckets + 1 - i - 1]
        BY <4>1 DEF WindowInv, Mirrors
      <4>3. Advanced(breaker).ring[i + 1] = IF i + 1 + breaker.startAge \in Slots
                                            THEN breaker.ring[i + 1 + breaker.startAge] ELSE 0
        BY <1>0, <4>1, AdvancedType
      <4>4. failures'[Buckets + 1 - i] = failures[Buckets + 1 - i - 1]
        <5>1. Buckets + 1 - i \in 1 .. Buckets BY Parameters DEF Slots
        <5> QED BY <3>3, <4>1, <5>1, Parameters
      <4>5. CASE breaker.startAge < Buckets
        <5>1. i + breaker'.startAge = i + 1 + breaker.startAge
          BY <2>2, <3>4, <4>5, Parameters DEF Older, Slots
        <5>2. Advanced(breaker').ring[i] = Advanced(breaker).ring[i + 1]
          BY <3>2, <4>3, <5>1
        <5> QED BY <4>4, <4>2, <5>2
      <4>6. CASE ~(breaker.startAge < Buckets)
        <5>1. i + breaker'.startAge \notin Slots /\ i + 1 + breaker.startAge \notin Slots
          BY <2>2, <3>4, <4>6, Parameters DEF Older, Slots
        <5>2. Advanced(breaker').ring[i] = Advanced(breaker).ring[i + 1]
          BY <3>2, <4>3, <5>1
        <5> QED BY <4>4, <4>2, <5>2
      <4> QED BY <4>5, <4>6
    <3> QED BY <3>5, <3>6
  <2>4. /\ SumFunction(failures) \in Nat /\ SumFunction(failures') \in Nat
        /\ SumFunction(failures') <= SumFunction(failures)
    <3>1. failures \in [1 .. Buckets -> Nat] /\ failures' \in [1 .. Buckets -> Nat]
      BY <1>0 DEF Slots
    <3>2. \A w \in [1 .. Buckets -> Nat] :
            SumFunction(w) \in Nat /\ SumFunction(Shifted(w)) <= SumFunction(w)
      BY WindowSum, Parameters
    <3> QED BY <2>1, <3>1, <3>2
  <2> QED BY <2>2, <2>3, <2>4, Parameters DEF WindowInv
<1>7. ASSUME NEW c \in Callers, Lost(c) PROVE WindowInv'
  BY <1>1, <1>4, <1>7 DEF Lost, AttemptFails, AttemptTimesOut
<1>8. ASSUME NEW c \in Callers, Wakes(c) PROVE WindowInv' BY <1>1, <1>8 DEF Wakes
<1>9. CASE UNCHANGED rvars BY <1>1, <1>9 DEF rvars
<1> QED BY <1>2, <1>3, <1>5, <1>6, <1>7, <1>8, <1>9 DEF ANext

(* However late and in whatever steps the ring of the breaker is slid, it  *)
(* counts exactly the failures of its window, and a closed circuit has had *)
(* too few of them to open.                                                *)
THEOREM WindowIsCounted == ASpec => []WindowCounted
<1>1. AInit => ATypeOK /\ WindowInv BY InitTypes, InitWindow
<1>2. ATypeOK /\ WindowInv /\ [ANext]_rvars => (ATypeOK /\ WindowInv)'
  BY TypesKeep, WindowStep
<1>3. ATypeOK /\ WindowInv => WindowCounted
  BY MirrorCounts DEF ATypeOK, WindowInv, WindowCounted
<1> QED BY <1>1, <1>2, <1>3, PTL DEF ASpec

(* What opens the circuit is recorded in the window at the same time.      *)
LEMMA OpensOnFailures ==
  ASSUME ATypeOK, WindowInv, [ANext]_rvars, ~Reset
  PROVE  /\ breaker.state = "CLOSED" /\ breaker'.state # "CLOSED"
              => breaker'.state = "OPEN" /\ SumFunction(failures') >= FailureThreshold
         /\ breaker.state = "HALF_OPEN" /\ breaker'.state = "OPEN" => failures'[1] > failures[1]
<1> DEFINE Opens ==
      /\ breaker.state = "CLOSED" /\ breaker'.state # "CLOSED"
           => breaker'.state = "OPEN" /\ SumFunction(failures') >= FailureThreshold
      /\ breaker.state = "HALF_OPEN" /\ breaker'.state = "OPEN" => failures'[1] > failures[1]
<1>0. breaker \in Breakers /\ failures \in [Slots -> Nat] BY DEF ATypeOK
<1>1. ASSUME NEW c \in Callers, GivesUp(c) PROVE Opens
  <2>1. breaker' = Failed(breaker) /\ failures' = [failures EXCEPT ![1] = @ + 1]
    BY <1>1 DEF GivesUp
  <2>2. FailureCount(breaker') = SumFunction(failures')
    <3>1. ATypeOK' /\ WindowInv' BY TypesKeep, WindowStep
    <3> QED BY <3>1, MirrorCounts DEF ATypeOK, WindowInv
  <2>3. failures'[1] > failures[1] BY <1>0, <2>1, Parameters
  <2>4. breaker.state = "CLOSED" /\ breaker'.state # "CLOSED"
          => breaker'.state = "OPEN" /\ FailureCount(breaker') >= FailureThreshold
    BY <1>0, <2>1, FailedType
  <2> QED BY <2>2, <2>3, <2>4
<1>2. ASSUME breaker' = breaker PROVE Opens BY <1>2
<1>3. ASSUME NEW c \in Callers, Arrive(c) PROVE Opens
  BY <1>0, <1>2, <1>3, CheckedType DEF Arrive
<1>4. ASSUME NEW c \in Callers, Succeeds(c) PROVE Opens
  <2>1. breaker' = Succeeded(breaker) BY <1>4 DEF Succeeds
  <2> QED BY <1>0, <1>2, <2>1 DEF Succeeded, Breakers
<1>5. ASSUME NEW c \in Callers, Lost(c) PROVE Opens
  BY <1>1, <1>2, <1>5 DEF Lost, AttemptFails, AttemptTimesOut
<1>6. CASE Tick BY <1>0, <1>6, AgedType DEF Tick
<1>7. ASSUME NEW c \in Callers, Wakes(c) PROVE Opens BY <1>2, <1>7 DEF Wakes
<1>8. CASE UNCHANGED rvars BY <1>2, <1>8 DEF rvars
<1> QED BY <1>3, <1>4, <1>5, <1>6, <1>7, <1>8 DEF ANext

(* The circuit opens only when the failures of the window have reached the *)
(* threshold, or at a failure while it is half open, and closes only after *)
(* as many successes as are asked for since it became half open, whatever  *)
(* the calls that overlap report; a late result never moves the next probe.*)
THEOREM EvidenceOnly == ASpec => ChangesOnEvidence
<1> DEFINE Inv == ATypeOK /\ Probing /\ WindowInv
<1>1. AInit => Inv BY InitTypes, InitProbing, InitWindow
<1>2. Inv /\ [ANext]_rvars => Inv'
  BY TypesKeep, ProbingStep, WindowStep
<1>3. Inv /\ [ANext]_rvars => [~Reset => Evidence]_rvars
  BY ProbingStep, OpensOnFailures DEF Evidence, Closes
<1> QED BY <1>1, <1>2, <1>3, PTL DEF ASpec, ChangesOnEvidence

-----------------------------------------------------------------------------
(* Whoever is let in pays for it with tokens: in the last k ticks no more  *)
(* was spent than a full bucket and what k ticks refill.                   *)
Spent(k) == SumFunctionOnSet(admitted, 1 .. k)
RateInv == \A k \in 0 .. Interval : tokens + Interval * Spent(k) <= MaxTokens + k * MaxRequests

LEMMA SpentNatural ==
  ASSUME ATypeOK, NEW k \in 0 .. Interval
  PROVE  Spent(k) \in Nat /\ Interval * Spent(k) \in Nat /\ k * MaxRequests \in Nat
<1>1. Spent(k) \in Nat BY SumIsNatural, Parameters DEF Spent, ATypeOK
<1>2. \A a, b \in Nat : a * b \in Nat OBVIOUS
<1> QED BY <1>1, <1>2, Parameters

LEMMA InitRate == AInit => RateInv
<1> SUFFICES ASSUME AInit, NEW k \in 0 .. Interval
             PROVE  tokens + Interval * Spent(k) <= MaxTokens + k * MaxRequests
  BY DEF RateInv
<1>1. tokens = MaxTokens /\ admitted = [i \in 1 .. Interval |-> 0] BY DEF AInit
<1> DEFINE P == {m \in 0 .. Interval : Spent(m) = 0}
<1>2. 0 \in P
  <2>1. 1 .. 0 = {} OBVIOUS
  <2> QED BY <2>1, SumOfNone, Parameters DEF Spent
<1>3. ASSUME NEW m \in 1 .. Interval, m - 1 \in P PROVE m \in P
  <2>1. \A i \in 1 .. Interval : admitted[i] = 0 BY <1>1
  <2>2. Spent(m) = Spent(m - 1) + admitted[m] BY <2>1, SumUpTo, Parameters DEF Spent
  <2> QED BY <1>3, <2>1, <2>2, Parameters
<1> HIDE DEF P
<1>4. 0 .. Interval \subseteq P BY <1>2, <1>3, UpTo, Parameters
<1>5. Spent(k) = 0 BY <1>4 DEF P
<1>6. Interval * 0 = 0 BY Parameters
<1>7. k * MaxRequests \in Nat BY SpentNatural, InitTypes
<1> QED BY <1>1, <1>5, <1>6, <1>7, Parameters

LEMMA RateStep == ASSUME ATypeOK, RateInv, [ANext]_rvars PROVE RateInv'
<1>0. /\ tokens \in Nat /\ admitted \in [1 .. Interval -> Nat] /\ ATypeOK'
      /\ \A i \in 1 .. Interval : admitted[i] \in Nat
  BY TypesKeep DEF ATypeOK
<1>1. ASSUME tokens' = tokens, admitted' = admitted PROVE RateInv'
  BY <1>1 DEF RateInv, Spent
<1>2. ASSUME NEW c \in Callers, Arrive(c) PROVE RateInv'
  <2>1. /\ tokens >= Interval /\ tokens' = tokens - Interval
        /\ admitted' = [admitted EXCEPT ![1] = @ + 1]
    BY <1>2 DEF Arrive
  <2>2. \A i \in 1 .. Interval :
          admitted'[i] = IF i = 1 THEN admitted[i] + 1 ELSE admitted[i]
    BY <1>0, <2>1
  <2>3. \A k \in 1 .. Interval : Spent(k)' = Spent(k) + 1
    <3>1. \A k \in 1 .. Interval : SumFunctionOnSet(admitted', 1 .. k) = SumFunctionOnSet(admitted, 1 .. k) + 1
      BY <1>0, <2>2, Parameters, SumFirstMore
    <3> QED BY <3>1 DEF Spent
  <2>4. SUFFICES ASSUME NEW k \in 0 .. Interval
                 PROVE  tokens' + Interval * Spent(k)' <= MaxTokens + k * MaxRequests
    BY DEF RateInv
  <2>5. tokens + Interval * Spent(k) <= MaxTokens + k * MaxRequests BY DEF RateInv
  <2>6. Spent(k) \in Nat /\ Interval * Spent(k) \in Nat /\ k * MaxRequests \in Nat
    BY SpentNatural
  <2>7. CASE k = 0
    <3>1. Spent(0)' = Spent(0)
      <4>1. 1 .. 0 = {} OBVIOUS
      <4> QED BY <4>1, SumOfNone DEF Spent
    <3> QED BY <1>0, <2>1, <2>5, <2>6, <2>7, <3>1, Parameters
  <2>8. CASE k # 0
    <3>1. Spent(k)' = Spent(k) + 1 BY <2>3, <2>8
    <3>2. \A a, b \in Nat : a * (b + 1) = a * b + a OBVIOUS
    <3>3. Interval * Spent(k)' = Interval * Spent(k) + Interval
      BY <2>6, <3>1, <3>2, Parameters
    <3> QED BY <1>0, <2>1, <2>5, <2>6, <3>3, Parameters
  <2> QED BY <2>7, <2>8
<1>3. CASE Tick
  <2>1. tokens' = Refilled(tokens) /\ admitted' = Shifted(admitted) BY <1>3 DEF Tick
  <2>2. tokens' \in Nat /\ tokens' <= tokens + MaxRequests /\ tokens' <= MaxTokens
    BY <1>0, <2>1, Parameters DEF Refilled
  <2>3. \A k \in 1 .. Interval : Spent(k)' = Spent(k - 1)
    <3>1. \A i \in 1 .. Interval : admitted'[i] = IF i = 1 THEN 0 ELSE admitted[i - 1]
      BY <1>0, <2>1, ShiftedType, Parameters
    <3>2. \A k \in 1 .. Interval :
            SumFunctionOnSet(admitted', 1 .. k) = SumFunctionOnSet(admitted, 1 .. k - 1)
      BY <1>0, <3>1, Parameters, SumShifted
    <3> QED BY <3>2 DEF Spent
  <2>4. SUFFICES ASSUME NEW k \in 0 .. Interval
                 PROVE  tokens' + Interval * Spent(k)' <= MaxTokens + k * MaxRequests
    BY DEF RateInv
  <2>5. CASE k = 0
    <3>1. Spent(0)' = 0
      <4>1. 1 .. 0 = {} OBVIOUS
      <4> QED BY <4>1, SumOfNone DEF Spent
    <3>2. Interval * 0 = 0 /\ 0 * MaxRequests = 0 BY Parameters
    <3> QED BY <2>2, <2>5, <3>1, <3>2, Parameters
  <2>6. CASE k # 0
    <3> DEFINE j == k - 1
    <3>1. j \in 0 .. Interval /\ k = j + 1 /\ k \in 1 .. Interval BY <2>6, Parameters
    <3>2. Spent(k)' = Spent(j) BY <2>3, <3>1
    <3> HIDE DEF j
    <3>3. tokens + Interval * Spent(j) <= MaxTokens + j * MaxRequests BY <3>1 DEF RateInv
    <3>4. Spent(j) \in Nat /\ Interval * Spent(j) \in Nat /\ j * MaxRequests \in Nat
      BY <3>1, SpentNatural
    <3>5. \A a, b \in Nat : (a + 1) * b = a * b + b OBVIOUS
    <3>6. k * MaxRequests = j * MaxRequests + MaxRequests BY <3>1, <3>5, Parameters
    <3>7. Interval * Spent(k)' = Interval * Spent(j) BY <3>2
    <3>8. \A a, b, c, d, e, r \in Nat : a <= b + r /\ b + c <= d + e => a + c <= d + (e + r)
      OBVIOUS
    <3>9. tokens' + Interval * Spent(j) <= MaxTokens + (j * MaxRequests + MaxRequests)
      BY <1>0, <2>2, <3>3, <3>4, <3>8, Parameters
    <3> QED BY <3>6, <3>7, <3>9
  <2> QED BY <2>5, <2>6
<1>4. ASSUME NEW c \in Callers, Succeeds(c) PROVE RateInv' BY <1>1, <1>4 DEF Succeeds
<1>5. ASSUME NEW c \in Callers, Lost(c) PROVE RateInv'
  BY <1>1, <1>5 DEF Lost, AttemptFails, AttemptTimesOut, GivesUp
<1>6. ASSUME NEW c \in Callers, Wakes(c) PROVE RateInv' BY <1>1, <1>6 DEF Wakes
<1>7. CASE Reset BY <1>1, <1>7 DEF Reset
<1>8. CASE UNCHANGED rvars BY <1>1, <1>8 DEF rvars
<1> QED BY <1>2, <1>3, <1>4, <1>5, <1>6, <1>7, <1>8 DEF ANext

(* However calls arrive, the rate limiter lets in at most twice its rate   *)
(* during any interval.                                                    *)
THEOREM AdmissionIsBounded == ASpec => []AdmittedBound
<1>1. AInit => ATypeOK /\ RateInv BY InitTypes, InitRate
<1>2. ATypeOK /\ RateInv /\ [ANext]_rvars => (ATypeOK /\ RateInv)'
  BY TypesKeep, RateStep
<1>3. ASSUME ATypeOK, RateInv PROVE AdmittedBound
  <2>1. SumFunction(admitted) = Spent(Interval) BY <1>3 DEF SumFunction, Spent, ATypeOK
  <2>2. tokens + Interval * Spent(Interval) <= MaxTokens + Interval * MaxRequests
    BY <1>3, Parameters DEF RateInv
  <2>3. Spent(Interval) \in Nat /\ tokens \in Nat
    BY <1>3, SpentNatural, Parameters DEF ATypeOK
  <2>4. ASSUME NEW a \in Nat, NEW b \in Nat, NEW t \in Nat, a > 0, a * t <= b * a + a * b
        PROVE  t <= 2 * b
    <3>1. SUFFICES ASSUME t >= 2 * b + 1 PROVE FALSE BY <2>4
    <3>2. PICK r \in Nat : t = (2 * b + 1) + r
      <4>1. t - (2 * b + 1) \in Nat BY <3>1
      <4> QED BY <4>1
    <3>3. a * r \in Nat /\ a * b \in Nat /\ b * a = a * b BY <2>4, <3>2
    <3>4. a * t = 2 * (a * b) + a + a * r
      <4>1. \A x, y \in Nat : a * (x + y) = a * x + a * y OBVIOUS
      <4>2. a * t = a * (2 * b + 1) + a * r BY <3>2, <4>1
      <4>3. a * (2 * b + 1) = a * (2 * b) + a * 1 BY <4>1
      <4>4. a * (2 * b) = 2 * (a * b) /\ a * 1 = a OBVIOUS
      <4> QED BY <4>2, <4>3, <4>4
    <3> QED BY <2>4, <3>3, <3>4
  <2>5. Interval * Spent(Interval) <= MaxRequests * Interval + Interval * MaxRequests
    <3>1. \A a, b \in Nat : a * b \in Nat OBVIOUS
    <3>2. /\ Interval * Spent(Interval) \in Nat /\ MaxRequests * Interval \in Nat
          /\ Interval * MaxRequests \in Nat
      BY <2>3, <3>1, Parameters
    <3> QED BY <2>2, <2>3, <3>2 DEF MaxTokens
  <2>6. Spent(Interval) <= 2 * MaxRequests
    <3>1. Spent(Interval) \in Nat BY <2>3
    <3> QED BY <3>1, <2>4, <2>5, Parameters
  <2> QED BY <2>1, <2>6 DEF AdmittedBound
<1> QED BY <1>1, <1>2, <1>3, PTL DEF ASpec
=============================================================================
