---------------------------- MODULE Backpressure ----------------------------
(***************************************************************************)
(* BackpressureController of src/graph/scheduler.ts, used as its comment   *)
(* says: acquire, run, and release in a finally block, again and again.    *)
(* A released slot passes to the first waiter at once; the waiter itself   *)
(* continues later, when its promise continuation runs.                    *)
(***************************************************************************)
EXTENDS Naturals, Sequences, FiniteSets

CONSTANTS Callers, MaxConcurrency

ASSUME BackpressureAssumption ==
  IsFiniteSet(Callers) /\ MaxConcurrency \in Nat \ {0}

VARIABLES
  available,  \* this.available
  waiters,    \* this.waiters, the callers whose promises are queued
  pc          \* "idle", "waiting", "granted" or "running"

bvars == <<available, waiters, pc>>

BInit ==
  /\ available = MaxConcurrency
  /\ waiters = <<>>
  /\ pc = [c \in Callers |-> "idle"]

AcquireEager(c) ==
  /\ pc[c] = "idle"
  /\ available' = available - 1
  /\ pc' = [pc EXCEPT ![c] = "granted"]
  /\ UNCHANGED waiters
(* acquire(): a free slot is taken at once, otherwise the caller queues.   *)
Acquire(c) ==
  /\ pc[c] = "idle"
  /\ \/ /\ available > 0
        /\ available' = available - 1
        /\ pc' = [pc EXCEPT ![c] = "granted"]
        /\ UNCHANGED waiters
     \/ /\ available = 0
        /\ waiters' = Append(waiters, c)
        /\ pc' = [pc EXCEPT ![c] = "waiting"]
        /\ UNCHANGED available

(* The continuation of acquire() runs.                                     *)
Continue(c) ==
  /\ pc[c] = "granted"
  /\ pc' = [pc EXCEPT ![c] = "running"]
  /\ UNCHANGED <<available, waiters>>

ReleaseForgetful(c) ==
  /\ pc[c] = "running"
  /\ available' = IF available < MaxConcurrency THEN available + 1 ELSE MaxConcurrency
  /\ pc' = [pc EXCEPT ![c] = "idle"]
  /\ UNCHANGED waiters
(* release(): the slot goes to the first waiter, or back to the free ones. *)
Release(c) ==
  /\ pc[c] = "running"
  /\ \/ /\ waiters # <<>>
        /\ pc' = [pc EXCEPT ![c] = "idle", ![Head(waiters)] = "granted"]
        /\ waiters' = Tail(waiters)
        /\ UNCHANGED available
     \/ /\ waiters = <<>>
        /\ available' = IF available < MaxConcurrency THEN available + 1 ELSE MaxConcurrency
        /\ pc' = [pc EXCEPT ![c] = "idle"]
        /\ UNCHANGED waiters

BNext == \E c \in Callers : Acquire(c) \/ Continue(c) \/ Release(c)
BSpec == BInit /\ [][BNext]_bvars

(* Continuations run and the callers' work ends; nobody has to acquire.    *)
BFairSpec == BSpec /\ \A c \in Callers : WF_bvars(Continue(c)) /\ WF_bvars(Release(c))

-----------------------------------------------------------------------------
(* Properties.                                                             *)

Holding == {c \in Callers : pc[c] \in {"granted", "running"}}

BTypeOK ==
  /\ available \in 0 .. MaxConcurrency
  /\ waiters \in Seq(Callers)
  /\ pc \in [Callers -> {"idle", "waiting", "granted", "running"}]

(* The getter inflight, maxConcurrency - available, is exactly the number  *)
(* of callers that hold a slot, those about to continue included.          *)
InflightExact == Cardinality(Holding) = MaxConcurrency - available

(* Nobody waits while a slot is free.                                      *)
NoIdleSlot == waiters # <<>> => available = 0

(* A slot is counted neither twice nor never: release() hands it on, or    *)
(* gives it back, exactly once.                                            *)
SlotsSound == BTypeOK /\ InflightExact /\ NoIdleSlot

(* Every waiting caller gets its slot, whatever the others keep acquiring. *)
EventuallyServed == \A c \in Callers : pc[c] = "waiting" ~> pc[c] = "running"

(* The controller implements the bounded first-come first-served pool.     *)
Pool == INSTANCE BoundedPool WITH Capacity <- MaxConcurrency,
                                  holding <- Holding, queue <- waiters
PoolSpec == Pool!PoolSpec
=============================================================================
