--------------------------- MODULE ResilientAgent ---------------------------
(***************************************************************************)
(* ResilientAgent.run of src/production/resilient-agent.ts: a token of the *)
(* rate limiter, the circuit breaker around the whole of withRetry, and    *)
(* every attempt raced against its timeout.  Calls overlap, so a result is *)
(* recorded in whatever state the breaker has reached by then.  A call     *)
(* that finds no token changes nothing but the counts of health(), which   *)
(* are left out, as is the body of an attempt that lost the race: it is    *)
(* told to abort and its outcome is ignored.                               *)
(***************************************************************************)
EXTENDS CircuitBreaker, FiniteSets

CONSTANTS
  Callers,      \* calls of run() that may overlap
  MaxAttempts,  \* maxRetries + 1
  MaxRequests,  \* maxRpm
  Interval      \* intervalMs, in ticks

ASSUME ResilientAssumption ==
  IsFiniteSet(Callers) /\ {MaxAttempts, MaxRequests, Interval} \subseteq Nat \ {0}

VARIABLES
  breaker,   \* the circuit breaker
  tokens,    \* tokens of the rate limiter, in shares of 1/Interval
  call,      \* the calls: where they are, and the number of the attempt
  failures,  \* history: failures of the ticks of the window, the latest first
  admitted,  \* history: calls let in, in the ticks of the last interval
  probes     \* history: successes since the circuit became half open, as far as they count

rvars == <<breaker, tokens, call, failures, admitted, probes>>

Idle == [pc |-> "idle", attempt |-> 0]
MaxTokens == MaxRequests * Interval

AInit ==
  /\ breaker = Closed
  /\ tokens = MaxTokens
  /\ call = [c \in Callers |-> Idle]
  /\ failures = NoFailures
  /\ admitted = [i \in 1 .. Interval |-> 0]
  /\ probes = 0

(* tryAcquire, then execute(): one synchronous stretch up to the first     *)
(* attempt, or to the rejection of an open circuit.                        *)
Arrive(c) ==
  /\ call[c].pc = "idle" /\ tokens >= Interval
  /\ tokens' = tokens - Interval
  /\ admitted' = [admitted EXCEPT ![1] = @ + 1]
  /\ breaker' = Checked(breaker)
  /\ call' = IF Allowed(breaker) THEN [call EXCEPT ![c] = [pc |-> "attempt", attempt |-> 1]]
             ELSE call
  /\ probes' = IF breaker.state # breaker'.state THEN 0 ELSE probes
  /\ UNCHANGED failures

Succeeds(c) ==
  /\ call[c].pc = "attempt"
  /\ call' = [call EXCEPT ![c] = Idle]
  /\ breaker' = Succeeded(breaker)
  /\ probes' = IF breaker.state = "HALF_OPEN" THEN Older(probes, SuccessThreshold) ELSE probes
  /\ failures' = IF breaker.state = "HALF_OPEN" /\ breaker'.state = "CLOSED"
                 THEN NoFailures ELSE failures
  /\ UNCHANGED <<tokens, admitted>>

(* withRetry gives up: the error cannot be retried, or it was the last     *)
(* attempt.                                                                *)
GivesUp(c) ==
  /\ call' = [call EXCEPT ![c] = Idle]
  /\ breaker' = Failed(breaker)
  /\ failures' = [failures EXCEPT ![1] = @ + 1]
  /\ UNCHANGED <<tokens, admitted, probes>>
AttemptFails(c) == call[c].pc = "attempt" /\ GivesUp(c)

(* A transient error or the timeout of the attempt, which is one as well.  *)
AttemptTimesOutOnce(c) ==
  /\ call[c].pc = "attempt" /\ call[c].attempt < MaxAttempts
  /\ call' = [call EXCEPT ![c].pc = "sleep"]
  /\ UNCHANGED <<breaker, tokens, failures, admitted, probes>>
AttemptTimesOut(c) ==
  /\ call[c].pc = "attempt"
  /\ \/ call[c].attempt = MaxAttempts /\ GivesUp(c)
     \/ /\ call[c].attempt < MaxAttempts
        /\ call' = [call EXCEPT ![c].pc = "sleep"]
        /\ UNCHANGED <<breaker, tokens, failures, admitted, probes>>

(* The backoff is over; the circuit is not asked again.                    *)
Wakes(c) ==
  /\ call[c].pc = "sleep"
  /\ call' = [call EXCEPT ![c] = [pc |-> "attempt", attempt |-> @.attempt + 1]]
  /\ UNCHANGED <<breaker, tokens, failures, admitted, probes>>

(* reset() of the breaker by its owner.                                    *)
Reset ==
  /\ breaker' = Closed
  /\ failures' = NoFailures
  /\ UNCHANGED <<tokens, call, admitted, probes>>

(* A tick of the clock: refillTokens is lazy in the code, but adds the     *)
(* same tokens whenever it is called.                                      *)
Shifted(window) == [i \in DOMAIN window |-> IF i = 1 THEN 0 ELSE window[i - 1]]
RefilledUncapped(t) == t + MaxRequests
Refilled(t) == IF t + MaxRequests < MaxTokens THEN t + MaxRequests ELSE MaxTokens
Tick ==
  /\ breaker' = Aged(breaker)
  /\ tokens' = Refilled(tokens)
  /\ failures' = Shifted(failures)
  /\ admitted' = Shifted(admitted)
  /\ UNCHANGED <<call, probes>>

Lost(c) == AttemptFails(c) \/ AttemptTimesOut(c)
ANext ==
  \/ Tick \/ Reset
  \/ \E c \in Callers : Arrive(c) \/ Succeeds(c) \/ Lost(c) \/ Wakes(c)
ASpec == AInit /\ [][ANext]_rvars

(* The clock goes on, and with it the timers of attempts and backoffs.     *)
AFairSpec ==
  /\ ASpec
  /\ WF_rvars(Tick)
  /\ \A c \in Callers : WF_rvars(AttemptTimesOut(c)) /\ WF_rvars(Wakes(c))

-----------------------------------------------------------------------------
(* Properties.                                                             *)

(* The ring, slid late and by bounded steps, counts exactly the failures   *)
(* of the window, and a closed circuit has had too few of them to open.    *)
WindowCounted ==
  /\ FailureCount(breaker) = SumFunction(failures)
  /\ breaker.state = "CLOSED" => SumFunction(failures) < FailureThreshold

(* The rate limiter lets in at most twice its rate during any interval: a  *)
(* full bucket and what is refilled meanwhile.                             *)
AdmittedBound == SumFunction(admitted) <= 2 * MaxRequests

(* The circuit changes on evidence only.  It opens at as many failures in  *)
(* the window as the threshold, or at a failure recorded while it is half  *)
(* open, becomes half open when it has been open for the timeout, and      *)
(* closes after as many successes as are asked for since then.  Results    *)
(* of calls that began earlier count with those of the probes; one that    *)
(* comes in while it is open neither closes it nor puts off the next       *)
(* probe.  Its owner may reset it at any time.                             *)
Evidence ==
  /\ breaker.state = "CLOSED" /\ breaker'.state # "CLOSED"
       => breaker'.state = "OPEN" /\ SumFunction(failures') >= FailureThreshold
  /\ breaker.state = "HALF_OPEN" /\ breaker'.state = "OPEN" => failures'[1] > failures[1]
  /\ breaker.state = "HALF_OPEN" /\ breaker'.state = "CLOSED" => probes' >= SuccessThreshold
  /\ breaker.state = "OPEN" /\ breaker'.state # "OPEN"
       => breaker'.state = "HALF_OPEN" /\ breaker.openAge >= ResetTimeout
  /\ breaker.state = "OPEN" /\ breaker'.state = "OPEN" => breaker'.openAge >= breaker.openAge
ChangesOnEvidence == [][~Reset => Evidence]_rvars

(* Every call of run() settles, also when the agent never answers.         *)
RunsSettle == \A c \in Callers : call[c].pc # "idle" ~> call[c].pc = "idle"

(* When attempts are no longer lost and calls keep coming, an open circuit *)
(* closes again.                                                           *)
RecoversWhenUp ==
  /\ <>[][~\E c \in Callers : Lost(c)]_rvars
  /\ []<><<\E c \in Callers : Arrive(c)>>_rvars
  => <>[](breaker.state = "CLOSED")

(* "Strict RPM: no burst allowance, so `maxRpm` is a hard ceiling."        *)
HardCeiling == SumFunction(admitted) <= MaxRequests
=============================================================================
