---------------------------- MODULE BoundedPool ----------------------------
(***************************************************************************)
(* What BackpressureController promises in src/graph/scheduler.ts, and     *)
(* what the users of Semaphore expect of it: at most Capacity callers hold *)
(* a slot, a caller queues only while all slots are held, and a slot that  *)
(* is given back goes to the caller that has waited longest.               *)
(***************************************************************************)
EXTENDS Naturals, Sequences, FiniteSets

CONSTANTS
  Callers,   \* a finite set
  Capacity   \* at least 1

VARIABLES holding, queue
pvars == <<holding, queue>>

Waiting == {queue[i] : i \in DOMAIN queue}

PoolInit == holding = {} /\ queue = <<>>

Enter(c) ==
  /\ c \notin holding /\ c \notin Waiting
  /\ Cardinality(holding) < Capacity
  /\ holding' = holding \cup {c}
  /\ UNCHANGED queue

Queue(c) ==
  /\ c \notin holding /\ c \notin Waiting
  /\ Cardinality(holding) = Capacity
  /\ queue' = Append(queue, c)
  /\ UNCHANGED holding

Leave(c) ==
  /\ c \in holding
  /\ \/ /\ queue = <<>>
        /\ holding' = holding \ {c}
        /\ UNCHANGED queue
     \/ /\ queue # <<>>
        /\ holding' = (holding \ {c}) \cup {Head(queue)}
        /\ queue' = Tail(queue)

PoolNext == \E c \in Callers : Enter(c) \/ Queue(c) \/ Leave(c)

PoolSpec == PoolInit /\ [][PoolNext]_pvars

(* Never more holders than slots.                                          *)
WithinCapacity == Cardinality(holding) <= Capacity
=============================================================================
