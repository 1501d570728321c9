----------------------------- MODULE AgentLoop -----------------------------
(***************************************************************************)
(* AgenticRunner._runCore of src/agentic/runner.ts: the loop that asks the *)
(* model, runs the tool calls of its answer side by side, suspends at a    *)
(* call that needs approval, and keeps a checkpoint under the run id.  A   *)
(* drive is one execution of the loop; the drives of one run share its     *)
(* checkpoint.  The model may answer with any tool calls, also with ids it *)
(* has used before: the loop never checks that an id is new.  Most         *)
(* providers pass on unique ids; where Bedrock's stream has none, the id   *)
(* is the position in the answer (bedrock-provider.ts:303).                *)
(* toolConcurrency is at least the size of a batch.  The saves and the     *)
(* delete of a checkpoint may fail.                                        *)
(***************************************************************************)
EXTENDS Integers, FiniteSets

CONSTANTS
  Calls,       \* the ids of the tool calls that the model may emit
  Gated,       \* those of tools with requireApproval
  Suspending,  \* those of tools that may call suspend()
  MaxSteps,    \* maxSteps
  MaxRetries,  \* maxProcessorRetries
  MaxDrives,   \* bound: executions of the loop
  MaxLost,     \* bound: steps of suspended drives that no checkpoint keeps
  NoCall       \* no tool call

ASSUME AgentLoopAssumption ==
  /\ IsFiniteSet(Calls) /\ NoCall \notin Calls
  /\ Gated \subseteq Calls /\ Suspending \subseteq Calls
  /\ MaxSteps \in Nat \ {0} /\ MaxRetries \in Nat /\ MaxDrives \in Nat \ {0}
  /\ MaxLost \in Nat

VARIABLES
  run,         \* the drives
  checkpoint,  \* the step kept in the checkpoint store, 0 when there is none
  modelCalls,  \* how often the model was asked, over all drives
  lost         \* history: steps of suspended drives that no checkpoint keeps

lvars == <<run, checkpoint, modelCalls, lost>>

Drives == 1 .. MaxDrives
Reasons == {"stop", "max_steps", "timeout", "error", "human_rejected",
            "aborted", "suspended", "max_runs", "loop_detected"}

Fresh(ids, step) ==
  [pc |-> "loop", steps |-> step, retries |-> 0, approved |-> ids, batch |-> {},
   last |-> {}, running |-> {}, call |-> NoCall, why |-> "stop", queue |-> 0]
Idle == [Fresh({}, 0) EXCEPT !.pc = "idle"]

LInit ==
  /\ run = [d \in Drives |-> Idle]
  /\ checkpoint = 0
  /\ modelCalls = 0 /\ lost = 0

(* _restoreCheckpoint: the loop goes on from the stored step, if any.      *)
BeginAfresh(d, ids) == [run EXCEPT ![d] = Fresh(ids, 0)]
Begin(d, ids) == [run EXCEPT ![d] = Fresh(ids, checkpoint)]

Ends(d, reason) == [run EXCEPT ![d].pc = "finish", ![d].why = reason]
Throws(d) == [run EXCEPT ![d].pc = "finished", ![d].why = "error"]
Asks(d) == run[d].pc = "loop" /\ run[d].steps < MaxSteps

(* The head of the loop: the steps are used up, or the run was aborted or  *)
(* timed out.                                                              *)
LoopHead(d) ==
  /\ run[d].pc = "loop"
  /\ \/ run[d].steps = MaxSteps /\ run' = Ends(d, run[d].why)
     \/ run[d].steps < MaxSteps /\ \E r \in {"aborted", "timeout"} : run' = Ends(d, r)
  /\ UNCHANGED <<checkpoint, modelCalls, lost>>

(* The call failed or an output processor refused the text, and a retry is *)
(* left: the next round of the loop, which is a step of its own.           *)
ModelRetried(d) ==
  /\ Asks(d) /\ run[d].retries < MaxRetries
  /\ run' = [run EXCEPT ![d].steps = @ + 1, ![d].retries = @ + 1, ![d].queue = @ + 1]
  /\ modelCalls' = modelCalls + 1
  /\ UNCHANGED <<checkpoint, lost>>

(* The call failed for good: _runCore throws.                              *)
ModelFails(d) ==
  /\ Asks(d)
  /\ run' = [run EXCEPT ![d].steps = @ + 1, ![d].pc = "finished", ![d].why = "error"]
  /\ modelCalls' = modelCalls + 1
  /\ UNCHANGED <<checkpoint, lost>>

(* An answer without tool calls: final, unless a human refuses it, a       *)
(* processor trips, or the judge of a goal sends the loop on or ends it.   *)
ModelAnswers(d) ==
  /\ Asks(d)
  /\ LET asked == [run EXCEPT ![d].steps = @ + 1, ![d].queue = @ + 1] IN
     \/ \E r \in {"stop", "human_rejected", "aborted", "max_runs"} :
          run' = [asked EXCEPT ![d].pc = "finish", ![d].why = r]
     \/ run' = asked
  /\ modelCalls' = modelCalls + 1
  /\ UNCHANGED <<checkpoint, lost>>

(* An answer with tool calls: those that need no approval, or have it, are *)
(* started; the first of the others ends the wait for the batch, not the   *)
(* calls that have begun.                                                  *)
BlockedNever(d, batch) == {}
Blocked(d, batch) == (batch \cap Gated) \ run[d].approved
ModelCallsTools(d) ==
  /\ Asks(d)
  /\ \E batch \in SUBSET Calls \ {{}} :
       LET started == [run EXCEPT ![d].steps = @ + 1, ![d].queue = @ + 1,
                                  ![d].batch = batch, ![d].last = run[d].batch,
                                  ![d].running = batch \ Blocked(d, batch)] IN
       \/ /\ Blocked(d, batch) = {}
          /\ run' = [started EXCEPT ![d].pc = "tools"]
       \/ \E c \in Blocked(d, batch) :
            run' = [started EXCEPT ![d].pc = "suspend", ![d].call = c]
  /\ modelCalls' = modelCalls + 1
  /\ UNCHANGED <<checkpoint, lost>>

ToolEnds(d) ==
  /\ \E c \in run[d].running : run' = [run EXCEPT ![d].running = @ \ {c}]
  /\ UNCHANGED <<checkpoint, modelCalls, lost>>

(* A tool suspends the run itself; the other calls go on here as well.     *)
ToolSuspends(d) ==
  /\ run[d].pc = "tools"
  /\ \E c \in run[d].running \cap Suspending :
       run' = [run EXCEPT ![d].pc = "suspend", ![d].call = c, ![d].running = @ \ {c}]
  /\ UNCHANGED <<checkpoint, modelCalls, lost>>

(* The suspension is kept as a checkpoint, so that a resume goes on here.  *)
(* When that fails, which is only logged, it goes on from an earlier one.  *)
Suspends(d) ==
  /\ run[d].pc = "suspend"
  /\ run' = Ends(d, "suspended")
  /\ \/ checkpoint' = run[d].steps /\ UNCHANGED lost
     \/ /\ lost' = lost + run[d].steps - checkpoint /\ lost' <= MaxLost
        /\ UNCHANGED checkpoint
  /\ UNCHANGED modelCalls

(* All calls of the batch have ended: the steps are used up, the same      *)
(* calls came twice (the smallest threshold), or the loop goes on behind a *)
(* checkpoint; when that cannot be saved, _runCore throws.                 *)
BatchEnds(d) ==
  /\ run[d].pc = "tools" /\ run[d].running = {}
  /\ \/ /\ run[d].steps >= MaxSteps
        /\ run' = Ends(d, "max_steps")
        /\ UNCHANGED checkpoint
     \/ /\ run[d].steps < MaxSteps /\ run[d].batch = run[d].last
        /\ run' = Ends(d, "loop_detected")
        /\ UNCHANGED checkpoint
     \/ /\ run[d].steps < MaxSteps
        /\ run' = [run EXCEPT ![d].pc = "loop"]
        /\ checkpoint' = run[d].steps
     \/ /\ run[d].steps < MaxSteps
        /\ run' = Throws(d)
        /\ UNCHANGED checkpoint
  /\ UNCHANGED <<modelCalls, lost>>

(* Behind the loop: a processor of the result may still trip; a run that   *)
(* stopped or ran out of steps gives up its checkpoint, if it can.         *)
Finishes(d) ==
  /\ run[d].pc = "finish"
  /\ \E r \in {run[d].why} \cup (IF run[d].why = "suspended" THEN {} ELSE {"aborted"}) :
       /\ run' = [run EXCEPT ![d].pc = "finished", ![d].why = r]
       /\ checkpoint' \in {checkpoint} \cup (IF r \in {"stop", "max_steps"} THEN {0} ELSE {})
  /\ UNCHANGED <<modelCalls, lost>>

LoopStep(d) ==
  \/ LoopHead(d) \/ ModelRetried(d) \/ ModelFails(d) \/ ModelAnswers(d) \/ ModelCallsTools(d)
  \/ ToolSuspends(d) \/ Suspends(d) \/ BatchEnds(d) \/ Finishes(d)
=============================================================================
