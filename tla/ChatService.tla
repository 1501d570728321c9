---------------------------- MODULE ChatService ----------------------------
(***************************************************************************)
(* createHttpService of src/runtime/server.ts with an idempotency store    *)
(* and an approval store: the agent that a request runs may ask for an     *)
(* approval with requireApprovalTool and wait inside the request, while    *)
(* other requests decide at /v1/approvals/:id.  The two stores meet in the *)
(* run of the agent and in a crash of the process.                         *)
(*                                                                         *)
(* The tool that asks and the action it asks about are two tools, or two   *)
(* parts of one: requireApprovalTool returns { approved: true } or throws, *)
(* and runner.ts makes a message to the model of what it throws and goes   *)
(* on with the run.  That no action follows a refusal is left to the agent *)
(* by the code; the guard of Acts assumes it.                              *)
(***************************************************************************)
EXTENDS IdempotentRequests, Approvals, FiniteSets

(* Any run may ask.                                                        *)
ASSUME ServiceAssumption == Asking = 1 .. MaxRuns

VARIABLE acted  \* history: runs that went on to the action they asked about

cvars == <<ivars, pvars, acted>>
CInit == IInit /\ PInit /\ acted = {}

Run(r) == request[r].run
Waits(r) == request[r].pc = "run" /\ wait[Run(r)].pc = "polling"

(* Steps of requests and of the idempotency store.  A run that waits goes  *)
(* on when its wait is over, but fails when the request times out.         *)
RequestStep ==
  /\ \/ Tick \/ Prune
     \/ \E r \in Requests :
          \/ Reserve(r) \/ Replay(r) \/ CreateSession(r) \/ Set(r) \/ Release(r) \/ Fails(r)
          \/ ~Waits(r) /\ Succeeds(r)
  /\ UNCHANGED <<pvars, acted>>

(* The tool of the agent, and what the agent does with its answer: by      *)
(* assumption it acts only on an approval.                                 *)
Asks(r) == request[r].pc = "run" /\ Ask(Run(r)) /\ UNCHANGED <<ivars, acted>>
Polls(i) == (Poll(i) \/ GiveUp(i)) /\ UNCHANGED <<ivars, acted>>
Acts(r) ==
  /\ request[r].pc = "run" /\ wait[Run(r)].pc = "granted" /\ Run(r) \notin acted
  /\ acted' = acted \cup {Run(r)}
  /\ UNCHANGED <<ivars, pvars>>

Decides == (DecisionStep \/ DeskTick) /\ UNCHANGED <<ivars, acted>>
ServiceCrash == Crash /\ DeskCrash /\ UNCHANGED acted

CNext ==
  \/ RequestStep \/ Decides \/ ServiceCrash
  \/ \E r \in Requests : Asks(r) \/ Acts(r)
  \/ \E i \in Asking : Polls(i)
CSpec == CInit /\ [][CNext]_cvars

(* Clocks, polls and handlers go on, and a run that does not wait ends.    *)
(* Nobody has to decide, to send a request, or to sweep.                   *)
CFairSpec ==
  /\ CSpec
  /\ WF_cvars(Tick /\ UNCHANGED <<pvars, acted>>)
  /\ WF_cvars(DeskTick /\ UNCHANGED <<ivars, acted>>)
  /\ \A i \in Asking : WF_cvars(Polls(i))
  /\ \A r \in Requests :
       /\ WF_cvars((CreateSession(r) \/ Set(r) \/ Release(r)) /\ UNCHANGED <<pvars, acted>>)
       /\ WF_cvars(~Waits(r) /\ (Succeeds(r) \/ Fails(r)) /\ UNCHANGED <<pvars, acted>>)

-----------------------------------------------------------------------------
(* Properties.                                                             *)

(* A run goes on to the action only when somebody has approved it; on the  *)
(* map, where decide() is one step, nobody has rejected it as well.        *)
ActsApproved ==
  \A i \in acted : TRUE \in said[i] /\ (desk = "memory" => said[i] = {TRUE})

(* A request settles although nobody ever decides.                         *)
RequestsSettle == \A r \in Requests : r \in InFlight ~> r \notin InFlight

(* "Approval is already ..." : a decision stands.                          *)
DecisionStands ==
  \A i \in Asking : Cardinality(said[i]) <= 1

(* "Approval TTL in ms (how long the request stays pending)": nobody       *)
(* approves a request after its time.                                      *)
DeadlineKept ==
  [][\A i \in Asking : asked[i].status = "pending" /\ asked[i].left = 0
       => asked'[i].status # "approved"]_cvars

(* "Idempotency (exactly-once runs)": with one key the action is taken     *)
(* once.                                                                   *)
ActsOnce == Cardinality(acted) <= 1
=============================================================================
