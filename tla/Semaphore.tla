----------------------------- MODULE Semaphore -----------------------------
(***************************************************************************)
(* Semaphore and ConcurrencyLimiter of src/production/concurrency.ts:      *)
(* tasks that call ConcurrencyLimiter.run, whose every step runs under     *)
(* Semaphore.withLock.  A woken waiter takes its permit only when its      *)
(* continuation runs, so other callers come between.  With QueueLimit at   *)
(* least the number of tasks it is withLock alone, as the gateway uses it. *)
(***************************************************************************)
EXTENDS Naturals, Sequences, FiniteSets

CONSTANTS
  Runs,       \* the callers of run()
  Limit,      \* the capacity of the semaphore
  QueueLimit  \* queueLimit, 10 000 by default

ASSUME SemaphoreAssumption ==
  IsFiniteSet(Runs) /\ Limit \in Nat \ {0} /\ QueueLimit \in Nat

VARIABLES
  active,   \* Semaphore.active
  waiting,  \* Semaphore.waiting, the tasks whose promises are queued
  queued,   \* ConcurrencyLimiter.queued
  runPc     \* where each task's call of run() is

svars == <<active, waiting, queued, runPc>>

TaskPC == {"idle", "waiting", "woken", "running", "leaving", "rejected"}

SInit ==
  /\ active = 0 /\ waiting = <<>> /\ queued = 0
  /\ runPc = [t \in Runs |-> "idle"]

(* run() as far as its first await: refused, running or queued.            *)
RunRefused(t) ==
  /\ runPc[t] = "idle" /\ queued >= QueueLimit
  /\ runPc' = [runPc EXCEPT ![t] = "rejected"]
  /\ UNCHANGED <<active, waiting, queued>>
Run(t) ==
  /\ runPc[t] = "idle" /\ queued < QueueLimit
  /\ queued' = queued + 1
  /\ \/ /\ active < Limit
        /\ active' = active + 1
        /\ runPc' = [runPc EXCEPT ![t] = "running"]
        /\ UNCHANGED waiting
     \/ /\ active >= Limit
        /\ waiting' = Append(waiting, t)
        /\ runPc' = [runPc EXCEPT ![t] = "waiting"]
        /\ UNCHANGED active

(* The continuation of acquire() in a woken waiter, which asks nothing.    *)
Wakes(t) ==
  /\ runPc[t] = "woken"
  /\ active' = active + 1
  /\ runPc' = [runPc EXCEPT ![t] = "running"]
  /\ UNCHANGED <<waiting, queued>>

Minus1(n) == IF n = 0 THEN 0 ELSE n - 1

(* The task settles and withLock releases the permit.                      *)
SettlesSilent(t) ==
  /\ runPc[t] = "running"
  /\ active' = Minus1(active)
  /\ runPc' = [runPc EXCEPT ![t] = "leaving"]
  /\ UNCHANGED <<waiting, queued>>
SettlesLast(t) ==
  /\ runPc[t] = "running"
  /\ active' = Minus1(active)
  /\ IF waiting = <<>>
     THEN /\ runPc' = [runPc EXCEPT ![t] = "leaving"]
          /\ UNCHANGED waiting
     ELSE /\ runPc' = [runPc EXCEPT ![t] = "leaving", ![waiting[Len(waiting)]] = "woken"]
          /\ waiting' = SubSeq(waiting, 1, Len(waiting) - 1)
  /\ UNCHANGED queued
Settles(t) ==
  /\ runPc[t] = "running"
  /\ active' = Minus1(active)
  /\ IF waiting = <<>>
     THEN /\ runPc' = [runPc EXCEPT ![t] = "leaving"]
          /\ UNCHANGED waiting
     ELSE /\ runPc' = [runPc EXCEPT ![t] = "leaving", ![Head(waiting)] = "woken"]
          /\ waiting' = Tail(waiting)
  /\ UNCHANGED queued

(* The finally block of run(), one continuation later; the caller may come *)
(* back with its next task.                                                *)
RunEnds(t) ==
  /\ runPc[t] = "leaving"
  /\ queued' = queued - 1
  /\ runPc' = [runPc EXCEPT ![t] = "idle"]
  /\ UNCHANGED <<active, waiting>>

(* A refused caller may try again.                                         *)
Retries(t) ==
  /\ runPc[t] = "rejected"
  /\ runPc' = [runPc EXCEPT ![t] = "idle"]
  /\ UNCHANGED <<active, waiting, queued>>

SNext == \E t \in Runs :
  Run(t) \/ RunRefused(t) \/ Wakes(t) \/ Settles(t) \/ RunEnds(t) \/ Retries(t)

SSpec == SInit /\ [][SNext]_svars

(* Continuations run and tasks end; nobody has to call run().              *)
SFairSpec ==
  SSpec /\ \A t \in Runs :
    WF_svars(Wakes(t)) /\ WF_svars(Settles(t)) /\ WF_svars(RunEnds(t))

-----------------------------------------------------------------------------
(* Properties.                                                             *)

At(S) == {t \in Runs : runPc[t] \in S}

STypeOK ==
  /\ active \in Nat /\ queued \in Nat
  /\ waiting \in Seq(Runs)
  /\ runPc \in [Runs -> TaskPC]

(* The permits in use are those of the running tasks: the clamp at zero in *)
(* release() never hides a permit that was given back twice.               *)
PermitsExact == active = Cardinality(At({"running"}))

(* While a task waits, all permits are in use or about to be: no release   *)
(* is lost, although a woken waiter does not hold its permit yet.          *)
WorkConserving ==
  waiting # <<>> => Cardinality(At({"woken", "running"})) >= Limit

(* The limiter never admits more than queueLimit calls, and counts those   *)
(* it has admitted exactly.                                                *)
AdmissionExact ==
  /\ queued = Cardinality(At({"waiting", "woken", "running", "leaving"}))
  /\ queued <= QueueLimit

(* Permits and admissions are counted exactly and no wake-up is lost.      *)
PermitsSound == STypeOK /\ PermitsExact /\ WorkConserving /\ AdmissionExact

(* A queued task runs, whatever arrives after it.                          *)
EventuallyRuns == \A t \in Runs : runPc[t] = "waiting" ~> runPc[t] = "running"

(* At most limit tasks run at the same time.                               *)
AtMostLimit == Cardinality(At({"running"})) <= Limit

(* A call is refused only if the queue of waiting tasks is at its limit.   *)
ShedsOnlyWhenFull ==
  [][\A t \in Runs : runPc[t] = "idle" /\ runPc'[t] = "rejected"
       => Len(waiting) >= QueueLimit]_svars
=============================================================================
