--------------------------- MODULE CircuitBreaker ---------------------------
(***************************************************************************)
(* CircuitBreaker of src/production/circuit-breaker.ts.  Time is counted   *)
(* in the widths of its failure buckets, and every timestamp is kept as    *)
(* its age, which stops growing where the code no longer tells ages apart. *)
(* The operators take the state of the breaker to the next.                *)
(***************************************************************************)
EXTENDS Integers, Functions

CONSTANTS
  FailureThreshold,  \* failureThreshold
  SuccessThreshold,  \* halfOpenSuccessThreshold
  ResetTimeout,      \* resetTimeoutMs
  Buckets            \* FAILURE_BUCKETS

ASSUME BreakerAssumption ==
  /\ FailureThreshold \in Nat \ {0} /\ SuccessThreshold \in Nat \ {0}
  /\ ResetTimeout \in Nat \ {0} /\ Buckets \in Nat \ {0}

Slots == 1 .. Buckets
NoFailures == [i \in Slots |-> 0]

(* ring: failureBuckets, its last slot is the current one at its start;    *)
(* startAge: the age of bucketStart; openAge: that of openedAt.            *)
Closed ==
  [state |-> "CLOSED", ring |-> NoFailures, startAge |-> 0, successes |-> 0, openAge |-> 0]

Older(age, bound) == IF age < bound THEN age + 1 ELSE bound
Aged(b) ==
  [b EXCEPT !.startAge = Older(@, Buckets),
            !.openAge = IF b.state = "OPEN" THEN Older(@, ResetTimeout) ELSE 0]

(* advanceBuckets: the ring slides by the buckets that have gone by.       *)
AdvancedLate(b) ==
  [b EXCEPT !.startAge = 0,
            !.ring = [i \in Slots |-> IF b.startAge = 0 \/ i < Buckets THEN b.ring[i] ELSE 0]]
Advanced(b) ==
  [b EXCEPT !.startAge = 0,
            !.ring = [i \in Slots |-> IF i + b.startAge \in Slots
                                      THEN b.ring[i + b.startAge] ELSE 0]]
FailureCount(b) == SumFunction(Advanced(b).ring)

(* checkStateTransition, before every call.                                *)
CheckedKeeps(b) ==
  IF b.state = "OPEN" /\ b.openAge >= ResetTimeout THEN [b EXCEPT !.state = "HALF_OPEN"] ELSE b
Checked(b) ==
  IF b.state = "OPEN" /\ b.openAge >= ResetTimeout
  THEN [b EXCEPT !.state = "HALF_OPEN", !.successes = 0]
  ELSE b
Allowed(b) == Checked(b).state # "OPEN"

(* recordSuccess and recordFailure, in whatever state the breaker is when  *)
(* the call ends.                                                          *)
SucceededUncounted(b) ==
  IF b.state = "HALF_OPEN" THEN [b EXCEPT !.successes = 0] ELSE b
Succeeded(b) ==
  IF b.state # "HALF_OPEN" THEN b
  ELSE IF b.successes + 1 < SuccessThreshold THEN [b EXCEPT !.successes = @ + 1]
  ELSE [b EXCEPT !.state = "CLOSED", !.successes = @ + 1, !.ring = NoFailures, !.startAge = 0]

Opened(b) == [b EXCEPT !.state = "OPEN", !.openAge = 0]
Counted(b) == [Advanced(b) EXCEPT !.ring[Buckets] = @ + 1]
Failed(b) ==
  IF \/ b.state = "HALF_OPEN"
     \/ b.state = "CLOSED" /\ FailureCount(Counted(b)) >= FailureThreshold
  THEN Opened(Counted(b)) ELSE Counted(b)
=============================================================================
