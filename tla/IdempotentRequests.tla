------------------------- MODULE IdempotentRequests -------------------------
(***************************************************************************)
(* Requests to /v1/chat that carry one idempotency key (src/runtime/       *)
(* server.ts) and its record in an idempotency store (src/production/      *)
(* idempotency.ts), in memory or in SQLite.  The key is scoped by session, *)
(* message and kind of reply, so all of its requests ask for a stream or   *)
(* none does; records of different keys do not meet.                       *)
(***************************************************************************)
EXTENDS Naturals

CONSTANTS
  Requests,  \* requests that may be open at a time
  TTL,       \* ttlMs, in ticks
  MaxRuns,   \* bound: runs of the agent
  Outlives   \* a handler may take longer than the TTL

ASSUME RequestsAssumption ==
  TTL \in Nat \ {0} /\ MaxRuns \in Nat /\ Outlives \in BOOLEAN

VARIABLES
  store,    \* "memory" or "sqlite"
  stream,   \* wantsStream
  entry,    \* the record: its state, the run that made its body, what is left of its time
  request,  \* where the requests are, and the reply
  runs,     \* runs of the agent that have begun
  done,     \* history: runs that succeeded since a record last expired or was lost
  served    \* history: runs whose result was sent, whole, since then

ivars == <<store, stream, entry, request, runs, done, served>>

NoEntry == [state |-> "none", body |-> 0, left |-> 0]
Pending == [state |-> "pending", body |-> 0, left |-> TTL]
Open == [pc |-> "idle", run |-> 0]
InFlight == {r \in Requests : request[r].pc # "idle"}
Expired == entry.state # "none" /\ entry.left = 0

IInit ==
  /\ store \in {"memory", "sqlite"} /\ stream \in BOOLEAN
  /\ entry = NoEntry
  /\ request = [r \in Requests |-> Open]
  /\ runs = 0 /\ done = {} /\ served = {}

To(r, pc) == request' = [request EXCEPT ![r].pc = pc]
Leaves(r) == request' = [request EXCEPT ![r] = Open]

(* reserve(): SQLite inserts if there is no row, the map also over one     *)
(* that has expired.                                                       *)
ReservableOnce == entry.state = "none"
Reservable == entry.state = "none" \/ (store = "memory" /\ Expired)

Reserve(r) ==
  /\ request[r].pc = "idle" /\ runs < MaxRuns /\ Reservable
  /\ entry' = Pending
  /\ IF Expired THEN done' = {} /\ served' = {} ELSE UNCHANGED <<done, served>>
  /\ To(r, "session")
  /\ UNCHANGED <<store, stream, runs>>

(* The key is taken: the reply is the cached response, or 409.             *)
ReplayAny(r) ==
  /\ request[r].pc = "idle" /\ entry.state # "none"
  /\ served' = served \cup {entry.body}
  /\ UNCHANGED <<store, stream, entry, request, runs, done>>
Replay(r) ==
  /\ request[r].pc = "idle" /\ entry.state = "completed" /\ ~Expired
  /\ served' = served \cup {entry.body}
  /\ UNCHANGED <<store, stream, entry, request, runs, done>>
Conflicts == ~Reservable /\ ~(entry.state = "completed" /\ ~Expired)

(* createSession() stands between the reservation and the try that would   *)
(* release it.                                                             *)
CreateSession(r) ==
  /\ request[r].pc = "session"
  /\ \/ Leaves(r) /\ UNCHANGED runs
     \/ runs < MaxRuns /\ runs' = runs + 1
        /\ request' = [request EXCEPT ![r] = [pc |-> "run", run |-> runs']]
  /\ UNCHANGED <<store, stream, entry, done, served>>

(* The agent's run succeeded: a stream has been sent by then and is over,  *)
(* anything else is stored first.  A reply is what a run that succeeds has *)
(* sent.  The chunks streamed by a run that fails, which the client has    *)
(* got together with an error event, do not count as one.                  *)
SucceedsReleasing(r) ==
  /\ request[r].pc = "run"
  /\ done' = done \cup {request[r].run}
  /\ To(r, "release") /\ UNCHANGED served
  /\ UNCHANGED <<store, stream, entry, runs>>
Succeeds(r) ==
  /\ request[r].pc = "run"
  /\ done' = done \cup {request[r].run}
  /\ IF stream THEN Leaves(r) /\ served' = served \cup {request[r].run}
     ELSE To(r, "set") /\ UNCHANGED served
  /\ UNCHANGED <<store, stream, entry, runs>>
Fails(r) ==
  /\ request[r].pc = "run"
  /\ To(r, "release")
  /\ UNCHANGED <<store, stream, entry, runs, done, served>>

(* set() and release(), whose errors are swallowed.                        *)
Set(r) ==
  /\ request[r].pc = "set"
  /\ \/ entry' = [state |-> "completed", body |-> request[r].run, left |-> TTL]
     \/ UNCHANGED entry
  /\ served' = served \cup {request[r].run}
  /\ Leaves(r)
  /\ UNCHANGED <<store, stream, runs, done>>
Release(r) ==
  /\ request[r].pc = "release"
  /\ \/ entry' = IF entry.state = "pending" THEN NoEntry ELSE entry
     \/ UNCHANGED entry
  /\ Leaves(r)
  /\ UNCHANGED <<store, stream, runs, done, served>>

(* A tick of the clock.                                                    *)
Tick ==
  /\ entry.left > 0
  /\ InFlight # {} => Outlives
  /\ entry' = [entry EXCEPT !.left = @ - 1]
  /\ UNCHANGED <<store, stream, request, runs, done, served>>

(* The map is lost with the process, the table is not.                     *)
Crash ==
  /\ request' = [r \in Requests |-> Open]
  /\ IF store = "memory" THEN entry' = NoEntry /\ done' = {} /\ served' = {}
     ELSE UNCHANGED <<entry, done, served>>
  /\ UNCHANGED <<store, stream, runs>>

(* prune(), if somebody calls it.                                          *)
Prune ==
  /\ Expired
  /\ entry' = NoEntry /\ done' = {} /\ served' = {}
  /\ UNCHANGED <<store, stream, request, runs>>

Handle(r) ==
  CreateSession(r) \/ Succeeds(r) \/ Fails(r) \/ Set(r) \/ Release(r)
INext ==
  \/ Tick \/ Crash \/ Prune
  \/ \E r \in Requests : Reserve(r) \/ Replay(r) \/ Handle(r)
ISpec == IInit /\ [][INext]_ivars

(* The clock and the handlers go on.  Nobody has to send a request or to   *)
(* call prune().                                                           *)
IFairSpec ==
  ISpec /\ WF_ivars(Tick) /\ \A r \in Requests : WF_ivars(Handle(r))

-----------------------------------------------------------------------------
(* Properties.                                                             *)

(* Requests with one key do not run the agent side by side, and it         *)
(* succeeds once until the record expires, also when set(), release() or   *)
(* createSession() fails; in SQLite, also when the process crashes between *)
(* the run and set().                                                      *)
RunsOnce ==
  /\ \A r, q \in InFlight : r = q
  /\ \A i, j \in done : i = j

(* Whatever is sent for a key until its record expires, fresh or replayed, *)
(* is the result of the run that succeeded.                                *)
OneReply == served \subseteq done

(* In memory, a key does not stay in conflict for good: a record that is   *)
(* left pending gives way when it expires.                                 *)
ConflictEnds == store = "memory" => (Conflicts ~> ~Conflicts)

(* "`pending` while the request is in-flight".                             *)
PendingMeansInFlight ==
  [][entry.state = "pending" /\ InFlight # {} /\ InFlight' = {} /\ ~Crash
       => entry'.state # "pending"]_ivars

(* prune() is "optional housekeeping": a key is freed without it.          *)
ConflictEndsUnpruned == Conflicts ~> ~Conflicts

(* "only the caller that creates the `pending` record proceeds"            *)
ReservationHonoured == \A r, q \in InFlight : r = q
=============================================================================
