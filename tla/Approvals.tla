----------------------------- MODULE Approvals -----------------------------
(***************************************************************************)
(* requireApprovalTool of src/production/approval-store.ts: a run of an    *)
(* agent asks, and polls the approval store until somebody decides or its  *)
(* deadline has passed.  decide() is one step on the map; on SQLite it     *)
(* awaits the record it reads before it writes.  A run asks once, so that  *)
(* the number of the run stands for the id of its request.                 *)
(***************************************************************************)
EXTENDS Naturals

CONSTANTS
  Asking,    \* the runs that may ask
  Humans,    \* concurrent callers of decide()
  Deadline,  \* ttlMs of a request, in ticks
  Patience   \* timeoutMs of the wait for it, in ticks

ASSUME ApprovalsAssumption == {Deadline, Patience} \subseteq Nat \ {0}

VARIABLES
  desk,    \* the kind of store: "memory" or "sqlite"
  asked,   \* the requests: their status and what is left of their time
  wait,    \* waitForApproval() of the runs, and what is left of their time
  human,   \* decide() on SQLite between its read and its write
  said     \* history: the decisions that were written for a request

pvars == <<desk, asked, wait, human, said>>

Unasked == [status |-> "none", left |-> 0]
Absent == [pc |-> "idle", id |-> 0, yes |-> FALSE]
Verdict(yes) == IF yes THEN "approved" ELSE "rejected"

PInit ==
  /\ desk \in {"memory", "sqlite"}
  /\ asked = [i \in Asking |-> Unasked]
  /\ wait = [i \in Asking |-> [pc |-> "none", left |-> 0]]
  /\ human = [h \in Humans |-> Absent]
  /\ said = [i \in Asking |-> {}]

Ask(i) ==
  /\ wait[i].pc = "none"
  /\ asked' = [asked EXCEPT ![i] = [status |-> "pending", left |-> Deadline]]
  /\ wait' = [wait EXCEPT ![i] = [pc |-> "polling", left |-> Patience]]
  /\ UNCHANGED <<desk, human, said>>

(* One round of waitForApproval; the deadline is looked at first.          *)
VerdictUnlessRejected(i) == IF asked[i].status = "rejected" THEN "refused" ELSE "granted"
Outcome(i) == IF asked[i].status = "approved" THEN "granted" ELSE "refused"
Poll(i) ==
  /\ wait[i].pc = "polling" /\ wait[i].left > 0
  /\ asked[i].status # "pending"
  /\ wait' = [wait EXCEPT ![i].pc = Outcome(i)]
  /\ UNCHANGED <<desk, asked, human, said>>
GiveUpExpired(i) ==
  /\ wait[i].pc = "polling" /\ asked[i].status = "expired"
  /\ wait' = [wait EXCEPT ![i].pc = "refused"]
  /\ UNCHANGED <<desk, asked, human, said>>
GiveUp(i) ==
  /\ wait[i].pc = "polling" /\ wait[i].left = 0
  /\ wait' = [wait EXCEPT ![i].pc = "refused"]
  /\ UNCHANGED <<desk, asked, human, said>>

(* decide(): the status is looked at, the deadline is not.                 *)
Writes(i, yes) ==
  /\ asked' = [asked EXCEPT ![i].status = Verdict(yes)]
  /\ said' = [said EXCEPT ![i] = @ \cup {yes}]
Decide(i, yes) ==
  /\ desk = "memory" /\ asked[i].status = "pending"
  /\ Writes(i, yes)
  /\ UNCHANGED <<desk, wait, human>>
DecideReads(h, i, yes) ==
  /\ desk = "sqlite" /\ human[h].pc = "idle" /\ asked[i].status = "pending"
  /\ human' = [human EXCEPT ![h] = [pc |-> "read", id |-> i, yes |-> yes]]
  /\ UNCHANGED <<desk, asked, wait, said>>
DecideWrites(h) ==
  /\ human[h].pc = "read"
  /\ Writes(human[h].id, human[h].yes)
  /\ human' = [human EXCEPT ![h] = Absent]
  /\ UNCHANGED <<desk, wait>>

(* expireStale(), if somebody calls it.  On SQLite it picks the overdue    *)
(* among the requests that listPending() returns, which leaves those out.  *)
ExpireStale ==
  /\ desk = "memory"
  /\ \E i \in Asking : asked[i].status = "pending" /\ asked[i].left = 0
  /\ asked' = [i \in Asking |->
                 IF asked[i].status = "pending" /\ asked[i].left = 0
                 THEN [asked[i] EXCEPT !.status = "expired"] ELSE asked[i]]
  /\ UNCHANGED <<desk, wait, human, said>>

Less(t) == IF t > 0 THEN t - 1 ELSE 0
DeskTick ==
  /\ \E i \in Asking : wait[i].left > 0 \/ asked[i].left > 0
  /\ asked' = [i \in Asking |-> [asked[i] EXCEPT !.left = Less(@)]]
  /\ wait' = [i \in Asking |-> [wait[i] EXCEPT !.left = Less(@)]]
  /\ UNCHANGED <<desk, human, said>>

(* The process ends: waits and calls are gone, the map is too.             *)
DeskCrash ==
  /\ wait' = [i \in Asking |->
                IF wait[i].pc = "none" THEN wait[i] ELSE [pc |-> "refused", left |-> 0]]
  /\ human' = [h \in Humans |-> Absent]
  /\ IF desk = "memory" THEN asked' = [i \in Asking |-> Unasked] ELSE UNCHANGED asked
  /\ UNCHANGED <<desk, said>>

DecisionStep ==
  \/ ExpireStale
  \/ \E i \in Asking, yes \in BOOLEAN :
       Decide(i, yes) \/ \E h \in Humans : DecideReads(h, i, yes)
  \/ \E h \in Humans : DecideWrites(h)
=============================================================================
