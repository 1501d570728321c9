------------------------- MODULE ChatServiceProofs -------------------------
(***************************************************************************)
(* Proofs about the requests with one idempotency key, about approvals,    *)
(* and about the service that both make up, for any number of requests,    *)
(* runs and callers of decide() and any times to live.                     *)
(***************************************************************************)
EXTENDS ChatService, TLAPS

-----------------------------------------------------------------------------
(* Requests with one key.                                                  *)

RequestPC == {"idle", "session", "run", "set", "release"}

ITypeOK ==
  /\ store \in {"memory", "sqlite"} /\ stream \in BOOLEAN
  /\ entry \in [state : {"none", "pending", "completed"}, body : Nat, left : 0 .. TTL]
  /\ request \in [Requests -> [pc : RequestPC, run : Nat]]
  /\ runs \in 0 .. MaxRuns /\ done \subseteq Nat
  /\ \A r \in Requests : request[r].pc = "run" => request[r].run \in 1 .. MaxRuns

(* While a request is at work its reservation stands.                      *)
Reserved == InFlight # {} => entry.state = "pending" /\ entry.left > 0

(* What has succeeded, told by where the request is and by the record.     *)
DoneTold ==
  /\ \A r \in Requests :
       /\ request[r].pc \in {"session", "run", "release"} => done = {}
       /\ request[r].pc = "set" => done = {request[r].run}
  /\ entry.state = "completed" => done = {entry.body}
  /\ entry.state = "none" => done = {}

IInv == ITypeOK /\ RunsOnce /\ OneReply /\ Reserved /\ DoneTold

LEMMA InitIInv == IInit => IInv
  BY RequestsAssumption
     DEF IInit, IInv, ITypeOK, RunsOnce, OneReply, Reserved, DoneTold, InFlight, NoEntry,
         Open, RequestPC

LEMMA CrashTypes == ASSUME ITypeOK, Crash PROVE ITypeOK'
<1>1. request' \in [Requests -> [pc : RequestPC, run : Nat]]
      /\ \A r \in Requests : request'[r].pc # "run"
  BY DEF Crash, Open, RequestPC
<1>2. NoEntry \in [state : {"none", "pending", "completed"}, body : Nat, left : 0 .. TTL]
  BY RequestsAssumption DEF NoEntry
<1>3. /\ entry' \in [state : {"none", "pending", "completed"}, body : Nat, left : 0 .. TTL]
      /\ done' \subseteq Nat
  BY <1>2 DEF Crash, ITypeOK
<1> QED BY <1>1, <1>3 DEF Crash, ITypeOK

LEMMA TypesKeep == ASSUME ITypeOK, [INext]_ivars PROVE ITypeOK'
<1>1. CASE UNCHANGED ivars BY <1>1 DEF ivars, ITypeOK
<1>2. CASE Tick BY <1>2, RequestsAssumption DEF Tick, ITypeOK
<1>3. CASE Crash BY <1>3, CrashTypes
<1>4. CASE Prune BY <1>4, RequestsAssumption DEF Prune, ITypeOK, NoEntry
<1>5. ASSUME NEW r \in Requests, Reserve(r) \/ Replay(r) PROVE ITypeOK'
  <2>1. CASE Reserve(r)
    BY <2>1, RequestsAssumption DEF Reserve, To, ITypeOK, Pending, RequestPC
  <2>2. CASE Replay(r) BY <2>2 DEF Replay, ITypeOK
  <2> QED BY <1>5, <2>1, <2>2
<1>6. ASSUME NEW r \in Requests, CreateSession(r) PROVE ITypeOK'
  <2>1. CASE Leaves(r) /\ UNCHANGED runs
    BY <1>6, <2>1 DEF CreateSession, Leaves, Open, ITypeOK, RequestPC
  <2>2. CASE /\ runs < MaxRuns /\ runs' = runs + 1
             /\ request' = [request EXCEPT ![r] = [pc |-> "run", run |-> runs']]
    <3>1. runs' \in 1 .. MaxRuns BY <2>2, RequestsAssumption DEF ITypeOK
    <3> QED BY <1>6, <2>2, <3>1, RequestsAssumption DEF CreateSession, ITypeOK, RequestPC
  <2> QED BY <1>6, <2>1, <2>2 DEF CreateSession
<1>7. ASSUME NEW r \in Requests, Succeeds(r) \/ Fails(r) PROVE ITypeOK'
  <2>1. CASE Succeeds(r)
    BY <2>1 DEF Succeeds, To, Leaves, Open, ITypeOK, RequestPC
  <2>2. CASE Fails(r) BY <2>2 DEF Fails, To, ITypeOK, RequestPC
  <2> QED BY <1>7, <2>1, <2>2
<1>8. ASSUME NEW r \in Requests, Set(r) \/ Release(r) PROVE ITypeOK'
  <2>1. CASE Set(r) BY <2>1, RequestsAssumption DEF Set, Leaves, Open, ITypeOK, RequestPC
  <2>2. CASE Release(r)
    BY <2>2, RequestsAssumption DEF Release, Leaves, Open, NoEntry, ITypeOK, RequestPC
  <2> QED BY <1>8, <2>1, <2>2
<1> QED BY <1>1, <1>2, <1>3, <1>4, <1>5, <1>6, <1>7, <1>8 DEF INext, Handle

LEMMA RequestTypes == ISpec => []ITypeOK
<1>1. IInit => ITypeOK BY InitIInv DEF IInv
<1> QED BY <1>1, TypesKeep, PTL DEF ISpec

LEMMA ReserveKeeps == ASSUME IInv, NEW r \in Requests, Reserve(r) PROVE IInv'
<1> USE DEF IInv
<1>1. InFlight = {} BY DEF Reserve, Reservable, Reserved, Expired
<1>2. done' = {} /\ served' = {}
  BY DEF Reserve, Reservable, Expired, DoneTold, OneReply
<1>3. /\ entry' = Pending /\ runs' = runs /\ store' = store /\ stream' = stream
      /\ request' = [request EXCEPT ![r].pc = "session"]
  BY DEF Reserve, To
<1>4. ITypeOK' BY TypesKeep DEF INext
<1>5. InFlight' = {r} BY <1>1, <1>3 DEF InFlight, ITypeOK
<1>6. \A q \in Requests : q # r => request'[q].pc = "idle"
  BY <1>1, <1>3 DEF InFlight, ITypeOK
<1>7. request'[r].pc = "session" BY <1>3 DEF ITypeOK
<1> QED
  BY <1>2, <1>3, <1>4, <1>5, <1>6, <1>7, RequestsAssumption
     DEF RunsOnce, OneReply, Reserved, DoneTold, Pending

(* A request that goes from one place to another beside a record and a set *)
(* of successes that fit the place.                                        *)
LEMMA MoveKeeps ==
  ASSUME IInv, ITypeOK', NEW r \in Requests, request[r].pc # "idle",
         \A q \in Requests \ {r} : request'[q] = request[q],
         request'[r].pc # "idle" => entry'.state = "pending" /\ entry'.left > 0,
         request'[r].pc \in {"session", "run", "release"} => done' = {},
         request'[r].pc = "set" => done' = {request'[r].run},
         entry'.state = "completed" => done' = {entry'.body},
         entry'.state = "none" => done' = {},
         \A i, j \in done' : i = j, OneReply'
  PROVE  IInv'
<1> USE DEF IInv
<1>1. \A q \in Requests \ {r} : request'[q].pc = "idle"
  BY DEF RunsOnce, InFlight
<1>2. InFlight' \subseteq {r} BY <1>1 DEF InFlight
<1>3. RunsOnce' BY <1>2 DEF RunsOnce
<1>4. Reserved' BY <1>2 DEF Reserved, InFlight
<1>5. DoneTold' BY <1>1 DEF DoneTold
<1> QED BY <1>3, <1>4, <1>5

LEMMA HandleKeeps == ASSUME IInv, NEW r \in Requests, Handle(r) PROVE IInv'
<1> USE DEF IInv
<1>1. request[r].pc # "idle" BY DEF Handle, CreateSession, Succeeds, Fails, Set, Release
<1>2. entry.state = "pending" /\ entry.left > 0 BY <1>1 DEF Reserved, InFlight
<1>3. ITypeOK' BY TypesKeep DEF INext
<1>4. CASE CreateSession(r)
  <2>1. done = {} BY <1>4 DEF CreateSession, DoneTold
  <2>2. /\ UNCHANGED <<entry, done, served>>
        /\ \A q \in Requests \ {r} : request'[q] = request[q]
        /\ request'[r].pc # "set"
    BY <1>4 DEF CreateSession, Leaves, Open, ITypeOK
  <2> QED BY <1>1, <1>2, <1>3, <2>1, <2>2, MoveKeeps DEF OneReply
<1>5. CASE Succeeds(r)
  <2>1. done = {} /\ done' = {request[r].run} BY <1>5 DEF Succeeds, DoneTold
  <2>2. /\ entry' = entry /\ served' \in {served, served \cup {request[r].run}}
        /\ \A q \in Requests \ {r} : request'[q] = request[q]
        /\ request'[r].pc \in {"idle", "set"}
        /\ request'[r].pc = "set" => request'[r].run = request[r].run
    BY <1>5 DEF Succeeds, To, Leaves, Open, ITypeOK
  <2>3. OneReply' BY <2>1, <2>2 DEF OneReply
  <2> QED BY <1>1, <1>2, <1>3, <2>1, <2>2, <2>3, MoveKeeps
<1>6. CASE Fails(r)
  <2>1. done = {} BY <1>6 DEF Fails, DoneTold
  <2>2. /\ UNCHANGED <<entry, done, served>>
        /\ \A q \in Requests \ {r} : request'[q] = request[q]
        /\ request'[r].pc = "release"
    BY <1>6 DEF Fails, To, ITypeOK
  <2> QED BY <1>1, <1>2, <1>3, <2>1, <2>2, MoveKeeps DEF OneReply
<1>7. CASE Set(r)
  <2>1. done = {request[r].run} BY <1>7 DEF Set, DoneTold
  <2>2. /\ done' = done /\ served' = served \cup {request[r].run}
        /\ \A q \in Requests \ {r} : request'[q] = request[q]
        /\ request'[r].pc = "idle"
        /\ \/ entry' = entry
           \/ entry' = [state |-> "completed", body |-> request[r].run, left |-> TTL]
    BY <1>7 DEF Set, Leaves, Open, ITypeOK
  <2>3. OneReply' BY <2>1, <2>2 DEF OneReply
  <2> QED BY <1>1, <1>2, <1>3, <2>1, <2>2, <2>3, MoveKeeps
<1>8. CASE Release(r)
  <2>1. done = {} BY <1>8 DEF Release, DoneTold
  <2>2. /\ UNCHANGED <<done, served>> /\ entry' \in {entry, NoEntry}
        /\ \A q \in Requests \ {r} : request'[q] = request[q]
        /\ request'[r].pc = "idle"
    BY <1>8 DEF Release, Leaves, Open, ITypeOK
  <2> QED BY <1>1, <1>2, <1>3, <2>1, <2>2, MoveKeeps DEF OneReply, NoEntry
<1> QED BY <1>4, <1>5, <1>6, <1>7, <1>8 DEF Handle

LEMMA StoreKeeps ==
  ASSUME IInv, ~Outlives, Tick \/ Crash \/ Prune \/ \E r \in Requests : Replay(r)
  PROVE  IInv'
<1> USE DEF IInv
<1>1. ITypeOK' BY TypesKeep DEF INext
<1>2. CASE Tick
  <2>1. InFlight = {} BY <1>2 DEF Tick
  <2>2. /\ entry'.state = entry.state /\ entry'.body = entry.body
        /\ UNCHANGED <<request, done, served>>
    BY <1>2 DEF Tick, ITypeOK
  <2>3. InFlight' = {} BY <2>1, <2>2 DEF InFlight
  <2> QED BY <1>1, <2>2, <2>3 DEF RunsOnce, OneReply, Reserved, DoneTold
<1>3. CASE Crash
  <2>1. InFlight' = {} /\ \A r \in Requests : request'[r].pc = "idle"
    BY <1>3 DEF Crash, InFlight, Open
  <2> QED BY <1>1, <1>3, <2>1 DEF Crash, RunsOnce, OneReply, Reserved, DoneTold, NoEntry
<1>4. CASE Prune
  <2>1. InFlight = {} BY <1>4 DEF Prune, Expired, Reserved
  <2>2. InFlight' = {} BY <1>4, <2>1 DEF Prune, InFlight
  <2> QED
    BY <1>1, <1>4, <2>2 DEF Prune, RunsOnce, OneReply, Reserved, DoneTold, NoEntry, InFlight
<1>5. ASSUME NEW r \in Requests, Replay(r) PROVE IInv'
  <2>1. /\ served' = served \cup {entry.body} /\ entry.state = "completed"
        /\ UNCHANGED <<entry, request, done>>
    BY <1>5 DEF Replay
  <2> QED BY <1>1, <2>1 DEF RunsOnce, OneReply, Reserved, DoneTold, InFlight
<1> QED BY <1>2, <1>3, <1>4, <1>5

LEMMA StepIInv == ASSUME ~Outlives, IInv, [INext]_ivars PROVE IInv'
<1>1. CASE UNCHANGED ivars
  BY <1>1 DEF ivars, IInv, ITypeOK, RunsOnce, OneReply, Reserved, DoneTold, InFlight
<1>2. CASE INext BY <1>2, ReserveKeeps, HandleKeeps, StoreKeeps DEF INext
<1> QED BY <1>1, <1>2

(* As long as no handler outlives its reservation, requests with one key   *)
(* do not run the agent side by side and it succeeds once per record.      *)
THEOREM KeyRunsOnce == ~Outlives => (ISpec => []RunsOnce)
<1> SUFFICES ASSUME ~Outlives PROVE ISpec => []RunsOnce OBVIOUS
<1>1. IInv /\ [INext]_ivars => IInv' BY StepIInv
<1>2. IInv => RunsOnce BY DEF IInv
<1> QED BY <1>1, <1>2, InitIInv, PTL DEF ISpec

(* What is sent for a key, fresh or replayed, is what the run that         *)
(* succeeded has produced.                                                 *)
THEOREM KeyOneReply == ~Outlives => (ISpec => []OneReply)
<1> SUFFICES ASSUME ~Outlives PROVE ISpec => []OneReply OBVIOUS
<1>1. IInv /\ [INext]_ivars => IInv' BY StepIInv
<1>2. IInv => OneReply BY DEF IInv
<1> QED BY <1>1, <1>2, InitIInv, PTL DEF ISpec

-----------------------------------------------------------------------------
(* The service.                                                            *)

(* The service does to requests and to the idempotency record only what    *)
(* they do by themselves: approvals delay a run, and nothing else.         *)
THEOREM ServiceKeepsRequests == CSpec => ISpec
<1>1. CInit => IInit BY DEF CInit
<1>2. [CNext]_cvars => [INext]_ivars
  <2> SUFFICES ASSUME [CNext]_cvars PROVE [INext]_ivars OBVIOUS
  <2>1. CASE RequestStep BY <2>1 DEF RequestStep, INext, Handle
  <2>2. CASE ServiceCrash BY <2>2 DEF ServiceCrash, INext
  <2>3. CASE \/ Decides \/ \E i \in Asking : Polls(i)
             \/ \E r \in Requests : Asks(r) \/ Acts(r)
    BY <2>3 DEF Decides, Polls, Asks, Acts
  <2>4. CASE UNCHANGED cvars BY <2>4 DEF cvars
  <2> QED BY <2>1, <2>2, <2>3, <2>4 DEF CNext
<1> QED BY <1>1, <1>2, PTL DEF CSpec, ISpec

(* So requests with one key do not run the agent side by side and it       *)
(* succeeds once per record, whatever is asked and decided meanwhile.      *)
THEOREM ServiceRunsOnce == ~Outlives => (CSpec => []RunsOnce)
<1> QED BY ServiceKeepsRequests, KeyRunsOnce

(* The reply of the service is that of the run that succeeded.             *)
THEOREM ServiceOneReply == ~Outlives => (CSpec => []OneReply)
<1> QED BY ServiceKeepsRequests, KeyOneReply

-----------------------------------------------------------------------------
(* Approvals.                                                              *)

WaitPC == {"none", "polling", "granted", "refused"}
AskedStatus == {"none", "pending", "approved", "rejected", "expired"}

PTypeOK ==
  /\ desk \in {"memory", "sqlite"}
  /\ asked \in [Asking -> [status : AskedStatus, left : Nat]]
  /\ wait \in [Asking -> [pc : WaitPC, left : Nat]]
  /\ human \in [Humans -> [pc : {"idle", "read"}, id : Asking \cup {0}, yes : BOOLEAN]]
  /\ said \in [Asking -> SUBSET BOOLEAN]
  /\ acted \subseteq Asking

(* The run that a request is at may ask.                                   *)
RunsAsk == \A r \in Requests : request[r].pc = "run" => Run(r) \in Asking

(* Approval given, and on the map nothing else.                            *)
Backed(i) == TRUE \in said[i] /\ (desk = "memory" => said[i] = {TRUE})

(* What was said about a request, told by its record and by its wait; a    *)
(* caller of decide() that has read the record is at a SQLite store.       *)
SaidTold ==
  /\ \A i \in Asking :
       /\ wait[i].pc = "none" => asked[i].status = "none" /\ said[i] = {}
       /\ desk = "memory" /\ asked[i].status = "pending" => said[i] = {}
       /\ asked[i].status = "approved" \/ wait[i].pc = "granted" => Backed(i)
  /\ \A h \in Humans : human[h].pc = "read" =>
       desk = "sqlite" /\ human[h].id \in Asking /\ wait[human[h].id].pc # "none"

PInv == PTypeOK /\ SaidTold /\ ActsApproved

LEMMA InitPInv == CInit => PInv
  BY ServiceAssumption
     DEF CInit, PInit, PInv, PTypeOK, SaidTold, ActsApproved, Backed, Unasked, Absent,
         WaitPC, AskedStatus

(* Steps that say nothing.                                                 *)
LEMMA QuietKeeps ==
  ASSUME PInv, PTypeOK', UNCHANGED <<desk, said, acted>>,
         \A i \in Asking :
           /\ wait'[i].pc = "none" => wait[i].pc = "none" /\ asked'[i].status = "none"
           /\ wait'[i].pc = "granted" => wait[i].pc = "granted" \/ asked[i].status = "approved"
           /\ asked'[i].status = "approved" => asked[i].status = "approved"
           /\ asked'[i].status = "pending" => asked[i].status = "pending" \/ said[i] = {},
         \A h \in Humans : human'[h].pc = "read" => human'[h] = human[h]
  PROVE  PInv'
<1> USE DEF PInv
<1>1. ActsApproved' BY DEF ActsApproved
<1>2. \A i \in Asking : Backed(i)' = Backed(i) BY DEF Backed
<1>3. SaidTold' BY <1>2 DEF SaidTold
<1> QED BY <1>1, <1>3

(* A run that asks, and its wait.                                          *)
LEMMA WaitKeeps ==
  ASSUME PInv, NEW i \in Asking, Ask(i) \/ Poll(i) \/ GiveUp(i), acted' = acted
  PROVE  PInv'
<1> USE DEF PInv
<1>1. CASE Ask(i)
  <2>1. PTypeOK' BY <1>1, ApprovalsAssumption DEF Ask, PTypeOK, WaitPC, AskedStatus
  <2>2. said[i] = {} BY <1>1 DEF Ask, SaidTold
  <2>3. /\ asked'[i].status = "pending" /\ wait'[i].pc = "polling"
        /\ \A j \in Asking \ {i} : asked'[j] = asked[j] /\ wait'[j] = wait[j]
        /\ UNCHANGED <<desk, human, said>>
    BY <1>1 DEF Ask, PTypeOK
  <2> QED BY <2>1, <2>2, <2>3, QuietKeeps DEF SaidTold
<1>2. CASE Poll(i) \/ GiveUp(i)
  <2>1. PTypeOK' BY <1>2 DEF Poll, GiveUp, Outcome, PTypeOK, WaitPC
  <2>2. /\ UNCHANGED <<desk, asked, human, said>>
        /\ wait'[i].pc \in {"granted", "refused"}
        /\ wait'[i].pc = "granted" => asked[i].status = "approved"
        /\ \A j \in Asking \ {i} : wait'[j] = wait[j]
    BY <1>2 DEF Poll, GiveUp, Outcome, PTypeOK
  <2> QED BY <2>1, <2>2, QuietKeeps DEF SaidTold
<1> QED BY <1>1, <1>2

(* A decision is written for a request that was asked, on the map only     *)
(* while it is pending.                                                    *)
LEMMA WritesKeep ==
  ASSUME PInv, NEW i \in Asking, NEW yes \in BOOLEAN, Writes(i, yes),
         wait[i].pc # "none", desk = "memory" => asked[i].status = "pending",
         UNCHANGED <<desk, wait, acted>>,
         human' \in [Humans -> [pc : {"idle", "read"}, id : Asking \cup {0}, yes : BOOLEAN]],
         \A h \in Humans : human'[h].pc = "read" => human'[h] = human[h]
  PROVE  PInv'
<1> USE DEF PInv
<1>1. PTypeOK' BY DEF Writes, Verdict, PTypeOK, AskedStatus
<1>2. /\ said'[i] = said[i] \cup {yes} /\ asked'[i].status = Verdict(yes)
      /\ \A j \in Asking \ {i} : said'[j] = said[j] /\ asked'[j] = asked[j]
  BY DEF Writes, PTypeOK
<1>3. desk = "memory" => said[i] = {} /\ wait[i].pc # "granted" /\ i \notin acted
  BY DEF SaidTold, Backed, ActsApproved
<1>4. \A j \in Asking :
        /\ wait'[j].pc = "none" => asked'[j].status = "none" /\ said'[j] = {}
        /\ desk' = "memory" /\ asked'[j].status = "pending" => said'[j] = {}
        /\ asked'[j].status = "approved" \/ wait'[j].pc = "granted" => Backed(j)'
  <2>1. ASSUME NEW j \in Asking \ {i} PROVE Backed(j) => Backed(j)'
    BY <1>2, <2>1 DEF Backed
  <2>2. /\ asked'[i].status = "approved" => yes = TRUE
        /\ asked'[i].status # "pending"
    BY <1>2 DEF Verdict
  <2>3. asked'[i].status = "approved" \/ wait'[i].pc = "granted" => Backed(i)'
    BY <1>2, <1>3, <2>2 DEF Backed, SaidTold
  <2> QED BY <1>2, <2>1, <2>2, <2>3 DEF SaidTold
<1>5. SaidTold' BY <1>4 DEF SaidTold
<1>6. ActsApproved' BY <1>2, <1>3 DEF ActsApproved, PTypeOK
<1> QED BY <1>1, <1>5, <1>6

LEMMA DecisionKeeps == ASSUME PInv, DecisionStep, acted' = acted PROVE PInv'
<1> USE DEF PInv
<1>1. CASE ExpireStale
  <2>1. /\ \A i \in Asking :
             asked'[i] # asked[i] => asked[i].status = "pending" /\ asked'[i].status = "expired"
        /\ asked' \in [Asking -> [status : AskedStatus, left : Nat]]
    <3> DEFINE Gone(i) == [asked[i] EXCEPT !.status = "expired"]
               Due(i) == asked[i].status = "pending" /\ asked[i].left = 0
    <3>1. \A i \in Asking :
            Gone(i).status = "expired" /\ Gone(i) \in [status : AskedStatus, left : Nat]
      BY DEF PTypeOK, AskedStatus
    <3>2. asked' = [i \in Asking |-> IF Due(i) THEN Gone(i) ELSE asked[i]]
      BY <1>1 DEF ExpireStale
    <3>3. \A i \in Asking : asked[i] \in [status : AskedStatus, left : Nat] BY DEF PTypeOK
    <3>4. \A i \in Asking : Due(i) => asked[i].status = "pending" OBVIOUS
    <3> HIDE DEF Gone, Due
    <3>5. \A i \in Asking : asked'[i] = IF Due(i) THEN Gone(i) ELSE asked[i] BY ONLY <3>2
    <3> QED BY ONLY <3>1, <3>2, <3>3, <3>4, <3>5
  <2>2. UNCHANGED <<desk, wait, human, said>> BY <1>1 DEF ExpireStale
  <2>3. PTypeOK' BY <2>1, <2>2 DEF PTypeOK
  <2> QED BY <2>1, <2>2, <2>3, QuietKeeps DEF SaidTold
<1>2. ASSUME NEW i \in Asking, NEW yes \in BOOLEAN, Decide(i, yes) PROVE PInv'
  <2>1. wait[i].pc # "none" BY <1>2 DEF Decide, SaidTold
  <2> QED BY <1>2, <2>1, WritesKeep DEF Decide, PTypeOK
<1>3. ASSUME NEW i \in Asking, NEW yes \in BOOLEAN, NEW h \in Humans, DecideReads(h, i, yes)
      PROVE  PInv'
  <2>1. wait[i].pc # "none" BY <1>3 DEF DecideReads, SaidTold
  <2>2. /\ PTypeOK' /\ UNCHANGED <<desk, asked, wait, said>> /\ desk = "sqlite"
        /\ human'[h].id = i /\ \A g \in Humans \ {h} : human'[g] = human[g]
    BY <1>3 DEF DecideReads, PTypeOK
  <2> QED BY <2>1, <2>2 DEF SaidTold, ActsApproved, Backed, PTypeOK
<1>4. ASSUME NEW h \in Humans, DecideWrites(h) PROVE PInv'
  <2>1. /\ desk = "sqlite" /\ human[h].id \in Asking /\ wait[human[h].id].pc # "none"
        /\ human[h].yes \in BOOLEAN
    BY <1>4 DEF DecideWrites, SaidTold, PTypeOK
  <2>2. human' \in [Humans -> [pc : {"idle", "read"}, id : Asking \cup {0}, yes : BOOLEAN]]
    BY <1>4 DEF DecideWrites, PTypeOK, Absent
  <2>3. \A g \in Humans : human'[g].pc = "read" => human'[g] = human[g]
    BY <1>4 DEF DecideWrites, PTypeOK, Absent
  <2> QED BY <1>4, <2>1, <2>2, <2>3, WritesKeep DEF DecideWrites
<1> QED BY <1>1, <1>2, <1>3, <1>4 DEF DecisionStep

LEMMA DeskKeeps ==
  ASSUME PInv, \/ DeskTick /\ acted' = acted
               \/ DeskCrash /\ acted' = acted
  PROVE  PInv'
<1> USE DEF PInv
<1>1. CASE DeskTick /\ acted' = acted
  <2>1. \A t \in Nat : Less(t) \in Nat BY DEF Less
  <2>2. /\ PTypeOK' /\ UNCHANGED <<desk, human, said>>
        /\ \A i \in Asking : asked'[i].status = asked[i].status /\ wait'[i].pc = wait[i].pc
    BY <1>1, <2>1 DEF DeskTick, PTypeOK
  <2> QED BY <1>1, <2>2, QuietKeeps DEF SaidTold
<1>2. CASE DeskCrash /\ acted' = acted
  <2>1. PTypeOK'
    BY <1>2 DEF DeskCrash, PTypeOK, Unasked, Absent, WaitPC, AskedStatus
  <2>2. /\ UNCHANGED <<desk, said>> /\ \A h \in Humans : human'[h].pc = "idle"
        /\ \A i \in Asking : wait'[i].pc = IF wait[i].pc = "none" THEN "none" ELSE "refused"
        /\ \A i \in Asking : asked'[i] # asked[i] => asked'[i].status = "none"
    BY <1>2 DEF DeskCrash, PTypeOK, Unasked, Absent
  <2> QED BY <1>2, <2>1, <2>2, QuietKeeps DEF SaidTold
<1> QED BY <1>1, <1>2

LEMMA ActsKeeps ==
  ASSUME PInv, RunsAsk, NEW r \in Requests, Acts(r) PROVE PInv'
<1>1. /\ Run(r) \in Asking /\ wait[Run(r)].pc = "granted"
      /\ acted' = acted \cup {Run(r)} /\ UNCHANGED pvars
  BY DEF Acts, RunsAsk
<1>2. Backed(Run(r)) BY <1>1 DEF PInv, SaidTold
<1> QED BY <1>1, <1>2 DEF PInv, PTypeOK, SaidTold, ActsApproved, Backed, pvars

LEMMA StepPInv == ASSUME PInv, RunsAsk, [CNext]_cvars PROVE PInv'
<1>1. CASE UNCHANGED pvars /\ UNCHANGED acted
  BY <1>1 DEF pvars, PInv, PTypeOK, SaidTold, ActsApproved, Backed
<1>2. CASE RequestStep \/ UNCHANGED cvars BY <1>1, <1>2 DEF RequestStep, cvars
<1>3. CASE Decides BY <1>3, DecisionKeeps, DeskKeeps DEF Decides
<1>4. CASE ServiceCrash BY <1>4, DeskKeeps DEF ServiceCrash
<1>5. ASSUME NEW r \in Requests, Asks(r) PROVE PInv'
  BY <1>5, WaitKeeps DEF Asks, RunsAsk
<1>6. ASSUME NEW r \in Requests, Acts(r) PROVE PInv' BY <1>6, ActsKeeps
<1>7. ASSUME NEW i \in Asking, Polls(i) PROVE PInv'
  BY <1>7, WaitKeeps DEF Polls
<1> QED BY <1>2, <1>3, <1>4, <1>5, <1>6, <1>7 DEF CNext

(* A run takes the action it asked about only after an approval, on the    *)
(* map only when nobody has rejected it.                                   *)
THEOREM ActsOnApproval == CSpec => []ActsApproved
<1>1. ITypeOK => RunsAsk BY ServiceAssumption DEF ITypeOK, RunsAsk, Run
<1>2. PInv /\ RunsAsk /\ [CNext]_cvars => PInv' BY StepPInv
<1>3. PInv => ActsApproved BY DEF PInv
<1> QED BY <1>1, <1>2, <1>3, InitPInv, ServiceKeepsRequests, RequestTypes, PTL DEF CSpec
=============================================================================
