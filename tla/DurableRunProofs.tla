-------------------------- MODULE DurableRunProofs --------------------------
(***************************************************************************)
(* Proofs about the drives of a durable run, for any tool calls, number of *)
(* steps, retries, drives and answerers.                                   *)
(***************************************************************************)
EXTENDS DurableRun, TLAPS

DrivePC == {"idle", "loop", "tools", "suspend", "finish", "finished", "delivered",
            "storing", "saving", "closing", "over"}
DriveRecord ==
  [pc : DrivePC, steps : 0 .. MaxSteps, retries : Nat, approved : SUBSET Calls,
   batch : SUBSET Calls, last : SUBSET Calls, running : SUBSET Calls,
   call : Calls \cup {NoCall}, why : Reasons, queue : Nat]

RTypeOK ==
  /\ run \in [Drives -> DriveRecord]
  /\ checkpoint \in 0 .. MaxSteps /\ modelCalls \in Nat /\ lost \in Int
  /\ begunBy \in [Drives -> Calls \cup {NoCall}]
  /\ status \in {"none", "running", "suspended", "done", "error"}
  /\ pending \in Calls \cup {NoCall} /\ stored \in Stored
  /\ answer \in [Answerers -> [phase : {"idle", "read", "resolved"},
                               call : Calls \cup {NoCall}]]
  /\ \A a \in Answerers : answer[a].phase # "idle" => answer[a].call \in Calls

LEMMA FreshDrive ==
  ASSUME NEW ids \in SUBSET Calls, NEW step \in 0 .. MaxSteps
  PROVE  /\ Fresh(ids, step) \in DriveRecord
         /\ Fresh(ids, step).pc = "loop" /\ Fresh(ids, step).steps = step
         /\ Fresh(ids, step).approved = ids /\ Fresh(ids, step).running = {}
         /\ Fresh(ids, step).why = "stop"
BY DEF Fresh, DriveRecord, DrivePC, Reasons

LEMMA InitTypes == RInit => RTypeOK
<1> SUFFICES ASSUME RInit PROVE RTypeOK OBVIOUS
<1>1. 0 \in 0 .. MaxSteps BY AgentLoopAssumption
<1>2. Idle \in DriveRecord BY <1>1 DEF Idle, Fresh, DriveRecord, DrivePC, Reasons
<1> QED BY <1>1, <1>2 DEF RInit, LInit, RTypeOK, Stored, Quiet

-----------------------------------------------------------------------------
LEMMA EndTypes ==
  ASSUME run \in [Drives -> DriveRecord], NEW d \in Drives, NEW pc \in DrivePC,
         NEW why \in Reasons, run' = [run EXCEPT ![d].pc = pc, ![d].why = why]
  PROVE  /\ run' \in [Drives -> DriveRecord]
         /\ \A e \in Drives \ {d} : run'[e] = run[e]
         /\ run'[d].approved \subseteq run[d].approved
<1> DEFINE after == [run[d] EXCEPT !.pc = pc, !.why = why]
<1>1. run[d] \in DriveRecord OBVIOUS
<1>2. after \in DriveRecord /\ after.approved = run[d].approved BY <1>1 DEF DriveRecord
<1>3. run' = [run EXCEPT ![d] = after] OBVIOUS
<1> HIDE DEF after
<1> QED BY <1>2, <1>3

LEMMA ToolTypes ==
  ASSUME run \in [Drives -> DriveRecord], NEW d \in Drives, NEW c,
         run' = [run EXCEPT ![d].running = @ \ {c}]
  PROVE  /\ run' \in [Drives -> DriveRecord]
         /\ \A e \in Drives \ {d} : run'[e] = run[e]
         /\ run'[d].approved = run[d].approved
<1> DEFINE after == [run[d] EXCEPT !.running = @ \ {c}]
<1>1. run[d] \in DriveRecord OBVIOUS
<1>2. after \in DriveRecord /\ after.approved = run[d].approved BY <1>1 DEF DriveRecord
<1>3. run' = [run EXCEPT ![d] = after] OBVIOUS
<1> HIDE DEF after
<1> QED BY <1>2, <1>3

LEMMA SuspendTypes ==
  ASSUME run \in [Drives -> DriveRecord], NEW d \in Drives, NEW c \in Calls,
         run' = [run EXCEPT ![d].pc = "suspend", ![d].call = c, ![d].running = @ \ {c}]
  PROVE  /\ run' \in [Drives -> DriveRecord]
         /\ \A e \in Drives \ {d} : run'[e] = run[e]
         /\ run'[d].approved = run[d].approved
<1> DEFINE after == [run[d] EXCEPT !.pc = "suspend", !.call = c, !.running = @ \ {c}]
<1>1. "suspend" \in DrivePC BY DEF DrivePC
<1>2. run[d] \in DriveRecord OBVIOUS
<1>3. after \in DriveRecord /\ after.approved = run[d].approved BY <1>1, <1>2 DEF DriveRecord
<1>4. run' = [run EXCEPT ![d] = after] OBVIOUS
<1> HIDE DEF after
<1> QED BY <1>3, <1>4

LEMMA BatchTypes ==
  ASSUME run \in [Drives -> DriveRecord], NEW d \in Drives, ModelCallsTools(d)
  PROVE  /\ run' \in [Drives -> DriveRecord]
         /\ \A e \in Drives \ {d} : run'[e] = run[e]
         /\ run'[d].approved = run[d].approved
         /\ \E batch \in SUBSET Calls : run'[d].running = batch \ Blocked(d, batch)
         /\ run'[d].steps = run[d].steps + 1 /\ run'[d].why = run[d].why
         /\ \/ run'[d].pc = "tools" /\ run'[d].call = run[d].call
            \/ run'[d].pc = "suspend" /\ run'[d].call \in Calls
<1> DEFINE started(batch) ==
      [run EXCEPT ![d].steps = @ + 1, ![d].queue = @ + 1,
                  ![d].batch = batch, ![d].last = run[d].batch,
                  ![d].running = batch \ Blocked(d, batch)]
<1>1. PICK batch \in SUBSET Calls :
        \/ run' = [started(batch) EXCEPT ![d].pc = "tools"]
        \/ \E c \in Blocked(d, batch) :
             run' = [started(batch) EXCEPT ![d].pc = "suspend", ![d].call = c]
  BY DEF ModelCallsTools
<1> DEFINE begun == [run[d] EXCEPT !.steps = @ + 1, !.queue = @ + 1, !.batch = batch,
                                   !.last = run[d].batch,
                                   !.running = batch \ Blocked(d, batch)]
<1>2. run[d] \in DriveRecord /\ run[d].steps < MaxSteps
  BY DEF ModelCallsTools, Asks
<1>3. /\ begun \in DriveRecord /\ begun.approved = run[d].approved
      /\ begun.steps = run[d].steps + 1 /\ begun.why = run[d].why
      /\ begun.call = run[d].call
      /\ begun.running = batch \ Blocked(d, batch)
  <2>1. run[d].steps + 1 \in 0 .. MaxSteps
    BY <1>2, AgentLoopAssumption DEF DriveRecord
  <2>2. run[d].queue + 1 \in Nat
    BY <1>2 DEF DriveRecord
  <2>3. batch \ Blocked(d, batch) \in SUBSET Calls OBVIOUS
  <2> QED BY <1>2, <2>1, <2>2, <2>3 DEF DriveRecord
<1>4. started(batch) = [run EXCEPT ![d] = begun] OBVIOUS
<1>5. Blocked(d, batch) \subseteq Calls BY DEF Blocked
<1> DEFINE Extends(after) ==
             /\ after.approved = begun.approved /\ after.running = begun.running
             /\ after.steps = begun.steps /\ after.why = begun.why
             /\ \/ after.pc = "tools" /\ after.call = begun.call
                \/ after.pc = "suspend" /\ after.call \in Calls
<1>6. PICK after \in DriveRecord :
        /\ run' = [run EXCEPT ![d] = after]
        /\ Extends(after)
  <2> HIDE DEF begun, started
  <2>1. CASE run' = [started(batch) EXCEPT ![d].pc = "tools"]
    <3> DEFINE after == [begun EXCEPT !.pc = "tools"]
    <3>1. after \in DriveRecord /\ Extends(after)
      BY <1>3 DEF DriveRecord, DrivePC
    <3>2. run' = [run EXCEPT ![d] = after] BY <2>1, <1>4
    <3> HIDE DEF after
    <3> QED BY <3>1, <3>2
  <2>2. ASSUME NEW c \in Blocked(d, batch),
               run' = [started(batch) EXCEPT ![d].pc = "suspend", ![d].call = c]
        PROVE  \E after \in DriveRecord :
                 /\ run' = [run EXCEPT ![d] = after]
                 /\ Extends(after)
    <3> DEFINE after == [begun EXCEPT !.pc = "suspend", !.call = c]
    <3>1. after \in DriveRecord /\ Extends(after)
      BY <1>3, <1>5 DEF DriveRecord, DrivePC
    <3>2. run' = [run EXCEPT ![d] = after] BY <2>2, <1>4
    <3> HIDE DEF after
    <3> QED BY <3>1, <3>2
  <2> QED BY <1>1, <2>1, <2>2
<1> HIDE DEF begun, started
<1> QED BY <1>3, <1>6

LEMMA AfterDrive ==
  ASSUME RTypeOK, NEW d \in Drives
  PROVE  /\ Over(d) \in DriveRecord /\ Over(d).approved = {}
         /\ Over(d).pc = "over" /\ Over(d).running = run[d].running
         /\ Over(d).call = run[d].call
<1>1. 0 \in 0 .. MaxSteps BY AgentLoopAssumption
<1> QED BY <1>1 DEF Over, Idle, Fresh, RTypeOK, DriveRecord, DrivePC, Reasons

(* A step of a drive, its consumer included, changes no other drive.       *)
LEMMA DriveTypes ==
  ASSUME RTypeOK, NEW d \in Drives, Drive(d) \/ Consume(d)
  PROVE  /\ RTypeOK'
         /\ \A e \in Drives \ {d} : run'[e] = run[e]
         /\ run'[d].approved \subseteq run[d].approved
         /\ UNCHANGED <<answer, begunBy>>
<1> USE DEF RTypeOK, DriveRecord, DrivePC
<1> USE AgentLoopAssumption
<1>1. CASE Drive(d)
  <2>1. CASE LoopHead(d)
    <3>1. PICK r \in Reasons : run' = [run EXCEPT ![d].pc = "finish", ![d].why = r]
      BY <2>1 DEF LoopHead, Ends, Reasons
    <3>2. /\ UNCHANGED <<checkpoint, modelCalls, lost, status, pending, stored, answer, begunBy>>
          /\ "finish" \in DrivePC
      BY <1>1, <2>1 DEF Drive, LoopHead, handle, answering
    <3> QED BY <3>1, <3>2, EndTypes
  <2>2. CASE ModelRetried(d)
    BY <1>1, <2>2 DEF Drive, ModelRetried, Asks, handle, answering
  <2>3. CASE ModelFails(d)
    BY <1>1, <2>3 DEF Drive, ModelFails, Asks, handle, answering, Reasons
  <2>4. CASE ModelAnswers(d)
    BY <1>1, <2>4 DEF Drive, ModelAnswers, Asks, handle, answering, Reasons
  <2>5. CASE ModelCallsTools(d)
    <3>1. /\ modelCalls' = modelCalls + 1
          /\ UNCHANGED <<checkpoint, lost, status, pending, stored, answer, begunBy>>
      BY <1>1, <2>5 DEF Drive, ModelCallsTools, handle, answering
    <3> QED BY <2>5, <3>1, BatchTypes
  <2>6. CASE Suspends(d)
    <3>1. /\ run' = [run EXCEPT ![d].pc = "finish", ![d].why = "suspended"]
          /\ checkpoint' \in {checkpoint, run[d].steps}
          /\ lost' \in {lost, lost + run[d].steps - checkpoint}
          /\ UNCHANGED <<modelCalls, status, pending, stored, answer, begunBy>>
      BY <1>1, <2>6 DEF Drive, Suspends, Ends, handle, answering
    <3>2. /\ run[d].steps \in 0 .. MaxSteps /\ "suspended" \in Reasons
          /\ checkpoint' \in 0 .. MaxSteps /\ lost' \in Int
      BY <3>1 DEF Reasons
    <3> QED BY <3>1, <3>2, EndTypes
  <2>7. CASE BatchEnds(d)
    <3>1. /\ checkpoint' \in {checkpoint, run[d].steps}
          /\ UNCHANGED <<modelCalls, lost, status, pending, stored, answer, begunBy>>
      BY <1>1, <2>7 DEF Drive, BatchEnds, handle, answering
    <3>2. checkpoint' \in 0 .. MaxSteps BY <3>1
    <3>3. CASE \E pc \in DrivePC, r \in Reasons :
                 run' = [run EXCEPT ![d].pc = pc, ![d].why = r]
      BY <3>1, <3>2, <3>3, EndTypes
    <3>4. CASE run' = [run EXCEPT ![d].pc = "loop"]
      BY <3>1, <3>2, <3>4
    <3> QED BY <2>7, <3>3, <3>4 DEF BatchEnds, Ends, Throws, Reasons
  <2>8. CASE Finishes(d)
    <3>1. PICK r \in {run[d].why, "aborted"} :
            run' = [run EXCEPT ![d].pc = "finished", ![d].why = r]
      BY <2>8 DEF Finishes
    <3>2. r \in Reasons BY <3>1 DEF Reasons
    <3>3. /\ checkpoint' \in {0, checkpoint}
          /\ UNCHANGED <<modelCalls, lost, status, pending, stored, answer, begunBy>>
      BY <1>1, <2>8 DEF Drive, Finishes, handle, answering
    <3>4. checkpoint' \in 0 .. MaxSteps /\ "finished" \in DrivePC BY <3>3
    <3> QED BY <3>1, <3>2, <3>3, <3>4, EndTypes
  <2>9. CASE ToolEnds(d)
    <3>1. PICK c \in run[d].running : run' = [run EXCEPT ![d].running = @ \ {c}]
      BY <2>9 DEF ToolEnds
    <3>2. UNCHANGED <<checkpoint, modelCalls, lost, status, pending, stored, answer, begunBy>>
      BY <1>1, <2>9 DEF Drive, ToolEnds, handle, answering
    <3> QED BY <3>1, <3>2, ToolTypes
  <2>10. CASE ToolSuspends(d)
    <3>1. PICK c \in Calls :
            run' = [run EXCEPT ![d].pc = "suspend", ![d].call = c, ![d].running = @ \ {c}]
      BY <2>10 DEF ToolSuspends
    <3>2. UNCHANGED <<checkpoint, modelCalls, lost, status, pending, stored, answer, begunBy>>
      BY <1>1, <2>10 DEF Drive, ToolSuspends, handle, answering
    <3> QED BY <3>1, <3>2, SuspendTypes
  <2> QED BY <1>1, <2>1, <2>2, <2>3, <2>4, <2>5, <2>6, <2>7, <2>8, <2>9, <2>10 DEF Drive, LoopStep
<1>2. CASE Consume(d)
  <2>1. CASE Publish(d) BY <2>1 DEF Publish, handle, answering
  <2>2. CASE PublishFinish(d) BY <2>2 DEF PublishFinish, handle, answering
  <2>3. CASE MarkSuspended(d) BY <2>3 DEF MarkSuspended, answering
  <2>4. CASE Store(d) BY <2>4 DEF Store, handle
  <2>5. CASE Save(d)
    <3>0. Over(d) \in DriveRecord /\ Over(d).approved = {} BY AfterDrive
    <3>1. [call |-> run[d].call, resolved |-> FALSE] \in Stored BY DEF Stored
    <3>2. stored' \in Stored BY <2>5, <3>1 DEF Save
    <3> QED BY <2>5, <3>0, <3>2 DEF Save
  <2>6. CASE Finish(d) BY <2>6 DEF Finish, answering
  <2>7. CASE CloseTopic(d)
    <3>1. Over(d) \in DriveRecord /\ Over(d).approved = {} BY AfterDrive
    <3> QED BY <2>7, <3>1 DEF CloseTopic, answering
  <2> QED BY <1>2, <2>1, <2>2, <2>3, <2>4, <2>5, <2>6, <2>7 DEF Consume
<1> QED BY <1>1, <1>2

LEMMA BeginTypes ==
  ASSUME RTypeOK, NEW d \in Drives, NEW ids \in SUBSET Calls, run' = Begin(d, ids)
  PROVE  /\ run' \in [Drives -> DriveRecord]
         /\ run'[d] = Fresh(ids, checkpoint)
         /\ \A e \in Drives \ {d} : run'[e] = run[e]
<1>1. /\ run \in [Drives -> DriveRecord] /\ checkpoint \in 0..MaxSteps
  BY DEF RTypeOK
<1>2. Fresh(ids, checkpoint) \in DriveRecord BY <1>1, FreshDrive
<1>3. run' = [run EXCEPT ![d] = Fresh(ids, checkpoint)] BY DEF Begin
<1> QED BY <1>1, <1>2, <1>3

LEMMA FirstDrive == 1 \in Drives
  BY AgentLoopAssumption DEF Drives

LEMMA StreamTypes ==
  ASSUME RTypeOK, Stream
  PROVE  /\ RTypeOK' /\ run'[1] = Fresh({}, checkpoint)
         /\ \A e \in Drives \ {1} : run'[e] = run[e]
<1>1. run' = Begin(1, {}) BY DEF Stream
<1>2. /\ status' = "running"
      /\ UNCHANGED <<checkpoint, modelCalls, lost, pending, stored, answer, begunBy>>
  BY DEF Stream, answering
<1> QED BY <1>1, <1>2, FirstDrive, BeginTypes DEF RTypeOK

(* _replay begins a drive that has not been used.                          *)
LEMMA ReplayTypes ==
  ASSUME RTypeOK, NEW ids \in SUBSET Calls, NEW by \in Calls \cup {NoCall}, Replay(ids, by)
  PROVE  /\ run' \in [Drives -> DriveRecord] /\ status' = "running"
         /\ begunBy' \in [Drives -> Calls \cup {NoCall}]
         /\ \E d \in Drives : /\ run[d].pc = "idle"
                              /\ run'[d] = Fresh(ids, checkpoint) /\ begunBy'[d] = by
                              /\ \A e \in Drives \ {d} : run'[e] = run[e]
                                                        /\ begunBy'[e] = begunBy[e]
                              /\ \A e \in Drives : run[e].pc = "idle" => d <= e
<1>1. PICK d \in Drives \ Used : /\ run' = Begin(d, ids) /\ status' = "running"
                                 /\ begunBy' = [begunBy EXCEPT ![d] = by]
                                 /\ \A e \in Drives \ Used : d <= e
  BY DEF Replay
<1>2. run[d].pc = "idle" /\ \A e \in Drives : run[e].pc = "idle" => d <= e
  BY <1>1 DEF Used
<1>3. begunBy \in [Drives -> Calls \cup {NoCall}] BY DEF RTypeOK
<1> QED BY <1>1, <1>2, <1>3, BeginTypes

LEMMA AnswerTypes ==
  ASSUME RTypeOK, NEW a \in Answerers, Answer(a)
  PROVE  RTypeOK'
<1>1. CASE ReadSuspended(a)
  <2>1. PICK c \in Calls : answer' = [answer EXCEPT ![a] = [phase |-> "read", call |-> c]]
    BY <1>1 DEF ReadSuspended, RTypeOK, Stored
  <2>2. UNCHANGED <<run, checkpoint, modelCalls, lost, status, pending, stored, begunBy>>
    BY <1>1 DEF ReadSuspended, handle
  <2> QED BY <2>1, <2>2 DEF RTypeOK
<1>2. CASE MarkResolved(a)
  <2>1. stored' \in Stored BY <1>2 DEF MarkResolved, RTypeOK, Stored
  <2>2. /\ answer' = [answer EXCEPT ![a].phase = "resolved"] /\ answer[a].phase # "idle"
        /\ UNCHANGED <<run, checkpoint, modelCalls, lost, status, pending, begunBy>>
    BY <1>2 DEF MarkResolved, handle
  <2> QED BY <2>1, <2>2 DEF RTypeOK
<1>3. CASE ReplayApproved(a) \/ ReplayResumed(a)
  <2>1. answer[a].phase = "resolved" BY <1>3 DEF ReplayApproved, ReplayResumed
  <2>2. answer[a].call \in Calls BY <2>1 DEF RTypeOK
  <2>3. PICK ids \in SUBSET Calls, by \in Calls \cup {NoCall} : Replay(ids, by)
    BY <1>3, <2>2 DEF ReplayApproved, ReplayResumed
  <2>5. /\ run' \in [Drives -> DriveRecord] /\ status' = "running"
        /\ begunBy' \in [Drives -> Calls \cup {NoCall}]
    BY <2>3, ReplayTypes
  <2>4. /\ pending' = NoCall /\ answer' = [answer EXCEPT ![a] = Quiet]
        /\ UNCHANGED <<checkpoint, modelCalls, lost, stored>>
    BY <1>3 DEF ReplayApproved, ReplayResumed
  <2> QED BY <2>4, <2>5 DEF RTypeOK, Quiet
<1> QED BY <1>1, <1>2, <1>3 DEF Answer

Watches == Observe \/ ObserverReads \/ Cleanup
LEMMA WatchesRead ==
  ASSUME Watches
  PROVE  UNCHANGED <<run, checkpoint, modelCalls, lost, status, pending, stored, answer, begunBy>>
BY DEF Watches, Observe, ObserverReads, Cleanup, handle, answering

LEMMA TypesKeep == ASSUME RTypeOK, [RNext]_dvars PROVE RTypeOK'
<1>1. CASE UNCHANGED dvars \/ Watches
  <2>1. /\ run' = run /\ status' = status
        /\ UNCHANGED <<checkpoint, modelCalls, lost, pending, stored, answer, begunBy>>
    BY <1>1, WatchesRead DEF dvars
  <2> QED BY <2>1 DEF RTypeOK
<1>2. CASE Stream BY <1>2, StreamTypes
<1>3. CASE Recover
  <2>1. /\ run' \in [Drives -> DriveRecord] /\ status' = "running"
        /\ begunBy' \in [Drives -> Calls \cup {NoCall}]
        /\ UNCHANGED <<checkpoint, modelCalls, lost, pending, stored, answer>>
    BY <1>3, ReplayTypes DEF Recover
  <2> QED BY <2>1 DEF RTypeOK
<1> QED BY <1>1, <1>2, <1>3, DriveTypes, AnswerTypes DEF RNext, Watches

-----------------------------------------------------------------------------
(* The calls that a step starts in a drive.                                *)
Begun(d) == run'[d].running \ run[d].running

LEMMA BeginsNothing ==
  ASSUME RTypeOK, NEW d \in Drives, Drive(d) \/ Consume(d)
  PROVE  Begun(d) \cap Gated \subseteq run[d].approved
<1> USE DEF Begun
<1>1. CASE ModelCallsTools(d)
  <2>1. PICK batch \in SUBSET Calls : run'[d].running = batch \ Blocked(d, batch)
    BY <1>1, BatchTypes DEF RTypeOK
  <2> QED BY <2>1 DEF Blocked
<1>2. CASE LoopHead(d) \/ ModelRetried(d) \/ ModelFails(d) \/ ModelAnswers(d)
  BY SMTT(60), <1>2 DEF LoopHead, ModelRetried, ModelFails, ModelAnswers, Ends, RTypeOK, DriveRecord
<1>3. CASE Suspends(d) \/ BatchEnds(d) \/ Finishes(d)
  BY <1>3 DEF Suspends, BatchEnds, Finishes, Ends, Throws, RTypeOK, DriveRecord
<1>4. CASE ToolEnds(d) \/ ToolSuspends(d)
  <2>1. CASE ToolEnds(d)
    <3>1. PICK c \in run[d].running : run' = [run EXCEPT ![d].running = @ \ {c}]
      BY <2>1 DEF ToolEnds
    <3>2. run'[d].running = run[d].running \ {c} BY <3>1 DEF RTypeOK, DriveRecord
    <3> QED BY <3>2
  <2>2. CASE ToolSuspends(d)
    <3>1. PICK c \in run[d].running :
            run' = [run EXCEPT ![d].pc = "suspend", ![d].call = c, ![d].running = @ \ {c}]
      BY <2>2 DEF ToolSuspends
    <3>2. run'[d].running = run[d].running \ {c} BY <3>1 DEF RTypeOK, DriveRecord
    <3> QED BY <3>2
  <2> QED BY <1>4, <2>1, <2>2
<1>5. CASE Publish(d) \/ PublishFinish(d) \/ MarkSuspended(d) \/ Store(d) \/ Finish(d)
  BY <1>5 DEF Publish, PublishFinish, MarkSuspended, Store, Finish, RTypeOK, DriveRecord
<1>6. CASE Save(d) \/ CloseTopic(d)
  <2>1. run' = [run EXCEPT ![d] = Over(d)] BY <1>6 DEF Save, CloseTopic
  <2>2. run'[d].running = run[d].running BY <2>1, AfterDrive DEF RTypeOK
  <2> QED BY <2>2
<1> QED BY <1>1, <1>2, <1>3, <1>4, <1>5, <1>6 DEF Drive, LoopStep, Consume

-----------------------------------------------------------------------------
(* While every suspension is answered once, at most one drive is live, its *)
(* steps are the questions asked so far, and so is the checkpoint from the *)
(* suspension until the next drive begins.                                 *)
Quieted == \A a \in Answerers : answer[a].phase = "idle"
Counts(d) ==
  /\ run[d].steps + lost = modelCalls
  /\ run[d].pc \in {"loop", "tools", "suspend"} => run[d].why # "suspended"
  /\ run[d].pc \in {"storing", "saving"} => status = "suspended" /\ run[d].why = "suspended"
  /\ run[d].pc = "closing" => status \in {"done", "error"}
  /\ run[d].pc \in {"finish", "finished", "delivered", "storing", "saving"}
       /\ run[d].why = "suspended" => checkpoint + lost = modelCalls
Going(d) == Live = {d} /\ Quieted /\ status # "none" /\ Counts(d)
Resting ==
  /\ Live = {} /\ modelCalls <= MaxSteps + lost /\ status # "running"
  /\ status \in {"none", "suspended"} => checkpoint + lost = modelCalls
  /\ \A a \in Answerers : answer[a].phase # "idle" =>
       status = "suspended" /\ \A b \in Answerers \ {a} : answer[b].phase = "idle"
BudgetInv == Resting \/ \E d \in Drives : Going(d)

(* A live drive is the only one.                                           *)
LEMMA OnlyOne ==
  ASSUME BudgetInv, NEW d \in Drives, run[d].pc \notin {"idle", "over"}
  PROVE  Going(d)
BY DEF BudgetInv, Resting, Going, Live

LEMMA StaysLive ==
  ASSUME NEW d \in Drives, Going(d), answer' = answer, status' # "none",
         run'[d].pc \notin {"idle", "over"}, Counts(d)',
         \A e \in Drives \ {d} : run'[e] = run[e]
  PROVE  BudgetInv'
<1>1. Live' = {d} BY DEF Going, Live
<1> QED BY <1>1 DEF BudgetInv, Going, Quieted

LEMMA ComesToRest ==
  ASSUME RTypeOK, NEW d \in Drives, Going(d), answer' = answer, run'[d].pc = "over",
         UNCHANGED <<modelCalls, lost, checkpoint, status>>,
         status \in {"done", "error"} \/ (status = "suspended" /\ checkpoint + lost = modelCalls),
         \A e \in Drives \ {d} : run'[e] = run[e]
  PROVE  BudgetInv'
<1>1. Live' = {} BY DEF Going, Live
<1>2. modelCalls <= MaxSteps + lost
  BY AgentLoopAssumption DEF Going, Counts, RTypeOK, DriveRecord
<1> QED BY <1>1, <1>2 DEF BudgetInv, Going, Quieted, Resting

LEMMA LoopCounts ==
  ASSUME RTypeOK, NEW d \in Drives, Counts(d), status' = status, LoopStep(d)
  PROVE  Counts(d)' /\ run'[d].pc \notin {"idle", "over"} /\ run[d].pc \notin {"idle", "over"}
<1> USE DEF RTypeOK, DriveRecord, Counts
<1>1. CASE LoopHead(d) BY <1>1 DEF LoopHead, Ends
<1>2. CASE ModelRetried(d) BY <1>2 DEF ModelRetried, Asks
<1>3. CASE ModelFails(d) BY <1>3 DEF ModelFails, Asks
<1>4. CASE ModelAnswers(d) BY <1>4 DEF ModelAnswers, Asks
<1>5. CASE ModelCallsTools(d)
  <2>1. run[d].pc = "loop" /\ modelCalls' = modelCalls + 1 /\ lost' = lost
    BY <1>5 DEF ModelCallsTools, Asks
  <2> QED BY <1>5, <2>1, BatchTypes
<1>6. CASE Suspends(d) BY <1>6 DEF Suspends, Ends
<1>7. CASE BatchEnds(d) BY <1>7 DEF BatchEnds, Ends, Throws
<1>8. CASE Finishes(d) BY <1>8 DEF Finishes
<1>9. CASE ToolSuspends(d) BY <1>9 DEF ToolSuspends
<1> QED BY <1>1, <1>2, <1>3, <1>4, <1>5, <1>6, <1>7, <1>8, <1>9 DEF LoopStep

LEMMA DriveBudget ==
  ASSUME RTypeOK, BudgetInv, NEW d \in Drives, Drive(d) \/ Consume(d)
  PROVE  BudgetInv'
<1> USE DEF RTypeOK, DriveRecord
<1>1. answer' = answer /\ \A e \in Drives \ {d} : run'[e] = run[e] BY DriveTypes
<1>2. CASE (ToolEnds(d) /\ Drive(d)) \/ Publish(d)
  <2>1. /\ run'[d].pc = run[d].pc /\ run'[d].steps = run[d].steps /\ run'[d].why = run[d].why
        /\ UNCHANGED <<modelCalls, lost, checkpoint, status>>
    BY <1>2 DEF ToolEnds, Drive, Publish, handle
  <2>2. Live' = Live BY <1>1, <2>1 DEF Live
  <2>3. CASE Resting BY <1>1, <2>1, <2>2, <2>3 DEF BudgetInv, Resting
  <2>4. ASSUME NEW e \in Drives, Going(e) PROVE BudgetInv'
    <3>1. Counts(e)' BY <1>1, <2>1, <2>4 DEF Going, Counts
    <3> QED BY <1>1, <2>1, <2>2, <2>4, <3>1 DEF BudgetInv, Going, Quieted
  <2> QED BY <2>3, <2>4 DEF BudgetInv
<1>3. CASE LoopStep(d) /\ Drive(d)
  <2>1. status' = status BY <1>3 DEF Drive, handle
  <2>2. run[d].pc \notin {"idle", "over"}
    BY <1>3 DEF LoopStep, LoopHead, ModelRetried, ModelFails, ModelAnswers, ModelCallsTools,
                ToolSuspends, Suspends, BatchEnds, Finishes, Asks
  <2>3. Going(d) BY <2>2, OnlyOne
  <2>4. Counts(d)' /\ run'[d].pc \notin {"idle", "over"}
    BY <1>3, <2>1, <2>3, LoopCounts DEF Going
  <2> QED BY <1>1, <2>1, <2>3, <2>4, StaysLive DEF Going
<1>4. CASE PublishFinish(d) \/ MarkSuspended(d) \/ Store(d) \/ Finish(d)
  <2>1. run[d].pc \notin {"idle", "over"}
    BY <1>4 DEF PublishFinish, MarkSuspended, Store, Finish
  <2>2. Going(d) BY <2>1, OnlyOne
  <2>3. Counts(d)' /\ run'[d].pc \notin {"idle", "over"} /\ status' # "none"
    BY <1>4, <2>2 DEF Going, Counts, PublishFinish, MarkSuspended, Store, Finish, handle
  <2> QED BY <1>1, <2>2, <2>3, StaysLive
<1>5. CASE Save(d) \/ CloseTopic(d)
  <2>1. run[d].pc \notin {"idle", "over"} BY <1>5 DEF Save, CloseTopic
  <2>2. Going(d) BY <2>1, OnlyOne
  <2>3. /\ run'[d].pc = "over" /\ UNCHANGED <<modelCalls, lost, checkpoint, status>>
        /\ status \in {"done", "error"} \/ (status = "suspended" /\ checkpoint + lost = modelCalls)
    BY <1>5, <2>2, AfterDrive DEF Save, CloseTopic, Going, Counts
  <2> QED BY <1>1, <2>2, <2>3, ComesToRest
<1> QED BY <1>2, <1>3, <1>4, <1>5 DEF Drive, Consume

(* A drive that begins in a run at rest counts on from the checkpoint.     *)
LEMMA BeginsCounting ==
  ASSUME RTypeOK, Live = {}, checkpoint + lost = modelCalls, Quieted', status' = "running",
         UNCHANGED <<modelCalls, lost, checkpoint>>, NEW d \in Drives, NEW ids,
         run'[d] = Fresh(ids, checkpoint), \A e \in Drives \ {d} : run'[e] = run[e]
  PROVE  BudgetInv'
<1>1. run'[d].pc = "loop" /\ run'[d].steps = checkpoint /\ run'[d].why = "stop" BY DEF Fresh
<1>2. Live' = {d} BY <1>1 DEF Live
<1> QED BY <1>1, <1>2 DEF BudgetInv, Going, Counts

LEMMA BudgetStep ==
  ASSUME OneByOne, RTypeOK, BudgetInv, [RNext]_dvars
  PROVE  BudgetInv'
<1>1. CASE UNCHANGED dvars \/ Watches
  <2>1. UNCHANGED <<run, checkpoint, modelCalls, lost, status, answer>>
    BY <1>1, WatchesRead DEF dvars
  <2> QED BY <2>1 DEF BudgetInv, Resting, Going, Counts, Quieted, Live
<1>2. CASE Stream
  <2>1. Live = {} /\ checkpoint + lost = modelCalls /\ Quieted
    BY <1>2 DEF Stream, BudgetInv, Resting, Going, Quieted
  <2>2. status' = "running" /\ UNCHANGED <<modelCalls, lost, checkpoint, answer>>
    BY <1>2 DEF Stream, answering
  <2> QED BY <1>2, <2>1, <2>2, StreamTypes, FirstDrive, BeginsCounting DEF Quieted
<1>3. CASE Recover
  <2>1. Live = {} /\ Quieted BY <1>3 DEF Recover, Calm, Quieted
  <2>2. checkpoint + lost = modelCalls BY <1>3, <2>1 DEF Recover, BudgetInv, Resting, Going
  <2>3. UNCHANGED <<modelCalls, lost, checkpoint, answer>> BY <1>3 DEF Recover, answering
  <2>4. PICK d \in Drives : /\ run'[d] = Fresh({}, checkpoint)
                            /\ \A e \in Drives \ {d} : run'[e] = run[e]
    BY <1>3, ReplayTypes DEF Recover
  <2>5. status' = "running" BY <1>3, ReplayTypes DEF Recover
  <2> QED BY <2>1, <2>2, <2>3, <2>4, <2>5, BeginsCounting DEF Quieted
<1>4. ASSUME NEW d \in Drives, Drive(d) \/ Consume(d) PROVE BudgetInv' BY <1>4, DriveBudget
<1>5. ASSUME NEW a \in Answerers, ReadSuspended(a) PROVE BudgetInv'
  <2>1. Live = {} /\ Quieted /\ status = "suspended"
    BY <1>5 DEF ReadSuspended, Calm, Quieted
  <2>2. UNCHANGED <<run, checkpoint, modelCalls, lost, status>> BY <1>5 DEF ReadSuspended, handle
  <2>3. \A b \in Answerers \ {a} : answer'[b].phase = "idle"
    BY <1>5, <2>1 DEF ReadSuspended, Quieted, RTypeOK
  <2>4. Resting' BY <2>1, <2>2, <2>3 DEF BudgetInv, Resting, Going, Live
  <2> QED BY <2>4 DEF BudgetInv
<1>6. ASSUME NEW a \in Answerers, MarkResolved(a) PROVE BudgetInv'
  <2>1. Resting BY <1>6 DEF MarkResolved, BudgetInv, Going, Quieted
  <2>2. UNCHANGED <<run, checkpoint, modelCalls, lost, status>> BY <1>6 DEF MarkResolved, handle
  <2>3. \A b \in Answerers : (answer'[b].phase = "idle") = (answer[b].phase = "idle")
    BY <1>6 DEF MarkResolved, RTypeOK
  <2> QED BY <2>1, <2>2, <2>3 DEF BudgetInv, Resting, Live
<1>7. ASSUME NEW a \in Answerers, ReplayApproved(a) \/ ReplayResumed(a) PROVE BudgetInv'
  <2>1. Live = {} /\ checkpoint + lost = modelCalls
        /\ \A b \in Answerers \ {a} : answer[b].phase = "idle"
    BY <1>7 DEF ReplayApproved, ReplayResumed, BudgetInv, Resting, Going, Quieted
  <2>2. Quieted' BY <1>7, <2>1 DEF ReplayApproved, ReplayResumed, Quieted, Quiet, RTypeOK
  <2>3. UNCHANGED <<modelCalls, lost, checkpoint>> BY <1>7 DEF ReplayApproved, ReplayResumed
  <2>4. PICK ids \in SUBSET Calls, by \in Calls \cup {NoCall} : Replay(ids, by)
    <3>1. answer[a].phase = "resolved" BY <1>7 DEF ReplayApproved, ReplayResumed
    <3>2. answer[a].call \in Calls BY <3>1 DEF RTypeOK
    <3> QED BY <1>7, <3>2 DEF ReplayApproved, ReplayResumed
  <2>5. PICK d \in Drives : /\ run'[d] = Fresh(ids, checkpoint)
                            /\ \A e \in Drives \ {d} : run'[e] = run[e]
    BY <2>4, ReplayTypes
  <2>6. status' = "running" BY <2>4, ReplayTypes
  <2> QED BY <2>1, <2>2, <2>3, <2>5, <2>6, BeginsCounting
<1> QED BY <1>1, <1>2, <1>3, <1>4, <1>5, <1>6, <1>7 DEF RNext, Watches, Answer

LEMMA InitBudget == RInit => BudgetInv
<1> SUFFICES ASSUME RInit PROVE BudgetInv OBVIOUS
<1>1. Live = {} BY DEF RInit, LInit, Idle, Fresh, Live
<1>2. 0 + 0 = 0 /\ 0 <= MaxSteps + 0 BY AgentLoopAssumption
<1> QED BY <1>1, <1>2 DEF RInit, LInit, BudgetInv, Resting, Quiet

(* However often a run is suspended, answered and recovered, its drives    *)
(* together ask the model at most maxSteps times, and once more for every  *)
(* step whose checkpoint could not be saved at a suspension, provided that *)
(* nobody answers or recovers the run while something else is under way.   *)
THEOREM BudgetHolds == ASSUME OneByOne PROVE RSpec => []BudgetAcrossResumes
<1>1. RInit => RTypeOK /\ BudgetInv BY InitTypes, InitBudget
<1>2. RTypeOK /\ BudgetInv /\ [RNext]_dvars => (RTypeOK /\ BudgetInv)'
  BY TypesKeep, BudgetStep
<1>3. RTypeOK /\ BudgetInv => BudgetAcrossResumes
  BY AgentLoopAssumption
     DEF BudgetInv, Resting, Going, Counts, RTypeOK, DriveRecord, BudgetAcrossResumes
<1> QED BY <1>1, <1>2, <1>3, PTL DEF RSpec

-----------------------------------------------------------------------------
(* A drive that suspends carries the call it suspends at.                  *)
Asked(d) ==
  /\ run[d].pc \in {"loop", "tools", "suspend"} => run[d].why = "stop"
  /\ run[d].pc = "suspend" => run[d].call \in Calls
  /\ run[d].pc \in {"storing", "saving"} => run[d].why = "suspended"
  /\ run[d].pc \in {"finish", "finished", "delivered", "storing", "saving"}
       /\ run[d].why = "suspended" => run[d].call \in Calls

Started ==
  IF status = "none"
  THEN Used = {} /\ result = "none" /\ pending = NoCall /\ stored.call = NoCall /\ Quieted
  ELSE 1 \in Used

(* The call of a suspension is kept from before its result is settled to   *)
(* the drive that answers it.  Without an answer in between it is the      *)
(* call of the status "suspended", once it is stored.                      *)
Held ==
  /\ Used = {1} /\ (run[1].pc = "saving" \/ result = "suspended") => pending \in Calls
  /\ status = "suspended" => pending \in Calls \/ \E d \in Drives : run[d].pc = "storing"

AnswerableInv == Started /\ Held /\ \A d \in Drives : Asked(d)

LEMMA InitAnswerable == RInit => AnswerableInv
<1> SUFFICES ASSUME RInit PROVE AnswerableInv OBVIOUS
<1>1. \A d \in Drives : run[d] = Idle BY DEF RInit, LInit
<1>2. Idle.pc = "idle" BY DEF Idle, Fresh
<1>3. Used = {} BY <1>1, <1>2 DEF Used
<1> QED BY <1>1, <1>2, <1>3
        DEF RInit, AnswerableInv, Started, Held, Asked, Quieted, Quiet

LEMMA LoopAsks ==
  ASSUME RTypeOK, NEW d \in Drives, Asked(d), LoopStep(d)
  PROVE  /\ Asked(d)' /\ run[d].pc \notin {"idle", "over", "storing", "saving"}
         /\ run'[d].pc \notin {"idle", "over", "storing", "saving"}
<1> USE DEF RTypeOK, DriveRecord, Asked
<1>1. CASE LoopHead(d) BY <1>1 DEF LoopHead, Ends
<1>2. CASE ModelRetried(d) BY <1>2 DEF ModelRetried, Asks
<1>3. CASE ModelFails(d) BY <1>3 DEF ModelFails, Asks
<1>4. CASE ModelAnswers(d) BY <1>4 DEF ModelAnswers, Asks
<1>5. CASE ModelCallsTools(d)
  <2>1. run[d].pc = "loop" BY <1>5 DEF ModelCallsTools, Asks
  <2> QED BY <1>5, <2>1, BatchTypes
<1>6. CASE Suspends(d) BY <1>6 DEF Suspends, Ends
<1>7. CASE BatchEnds(d) BY <1>7 DEF BatchEnds, Ends, Throws
<1>8. CASE Finishes(d) BY <1>8 DEF Finishes
<1>9. CASE ToolSuspends(d) BY <1>9 DEF ToolSuspends
<1> QED BY <1>1, <1>2, <1>3, <1>4, <1>5, <1>6, <1>7, <1>8, <1>9 DEF LoopStep

(* A step of one drive keeps the call of the suspension when it neither    *)
(* clears it nor reports a suspension without one.                         *)
LEMMA DriveHolds ==
  ASSUME RTypeOK, AnswerableInv, NEW d \in Drives, run[d].pc # "idle", run'[d].pc # "idle",
         \A e \in Drives \ {d} : run'[e] = run[e], Asked(d)', answer' = answer,
         status' # "none", pending' = pending \/ pending' \in Calls,
         run'[d].pc = "saving" \/ result' = "suspended" =>
           pending' \in Calls \/ run[d].pc = "saving" \/ result = "suspended",
         status' = "suspended" =>
           \/ pending' \in Calls \/ run'[d].pc = "storing"
           \/ status = "suspended" /\ run[d].pc # "storing"
  PROVE  AnswerableInv'
<1>1. Used' = Used /\ d \in Used BY DEF Used
<1>2. status # "none" /\ 1 \in Used BY <1>1 DEF AnswerableInv, Started
<1>3. Started' BY <1>1, <1>2 DEF Started
<1>4. ASSUME Used' = {1}, run'[1].pc = "saving" \/ result' = "suspended"
      PROVE  pending' \in Calls
  <2>1. d = 1 BY <1>1, <1>4
  <2> QED BY <2>1, <1>1, <1>4 DEF AnswerableInv, Held
<1>5. ASSUME status' = "suspended"
      PROVE  pending' \in Calls \/ \E e \in Drives : run'[e].pc = "storing"
  <2>1. CASE pending' \in Calls \/ run'[d].pc = "storing" BY <2>1
  <2>2. CASE status = "suspended" /\ run[d].pc # "storing" /\ pending' \notin Calls
    <3>1. PICK e \in Drives : run[e].pc = "storing"
      BY <2>2 DEF AnswerableInv, Held
    <3> QED BY <2>2, <3>1
  <2> QED BY <1>5, <2>1, <2>2
<1>6. \A e \in Drives : Asked(e)'
  <2>1. \A e \in Drives \ {d} : Asked(e)' BY DEF AnswerableInv, Asked
  <2> QED BY <2>1
<1> QED BY <1>3, <1>4, <1>5, <1>6 DEF AnswerableInv, Held

LEMMA DriveAnswerable ==
  ASSUME RTypeOK, AnswerableInv, NEW d \in Drives, Drive(d) \/ Consume(d)
  PROVE  AnswerableInv'
<1>0. /\ answer' = answer /\ \A e \in Drives \ {d} : run'[e] = run[e]
      /\ RTypeOK' /\ Asked(d)
  BY DriveTypes DEF AnswerableInv
<1>00. \A e \in Drives : run[e].pc # "idle" => status # "none"
  BY DEF AnswerableInv, Started, Used
<1>1. CASE (ToolEnds(d) /\ Drive(d)) \/ Publish(d)
  <2>1. /\ run'[d].pc = run[d].pc /\ run'[d].why = run[d].why /\ run'[d].call = run[d].call
        /\ UNCHANGED <<status, result, pending, stored>>
    BY <1>1 DEF ToolEnds, Drive, Publish, handle, answering, RTypeOK, DriveRecord
  <2>2. \A e \in Drives : /\ run'[e].pc = run[e].pc /\ run'[e].why = run[e].why
                          /\ run'[e].call = run[e].call
    BY <1>0, <2>1
  <2>3. Used' = Used BY <2>2 DEF Used
  <2>4. Started' BY <1>0, <2>1, <2>3 DEF AnswerableInv, Started, Quieted
  <2>5. Held' BY <2>1, <2>2, <2>3, FirstDrive DEF AnswerableInv, Held
  <2>6. \A e \in Drives : Asked(e)' BY <2>2 DEF AnswerableInv, Asked
  <2> QED BY <2>4, <2>5, <2>6 DEF AnswerableInv
<1>2. CASE LoopStep(d) /\ Drive(d)
  <2>1. /\ Asked(d)' /\ run[d].pc \notin {"idle", "storing", "saving"}
        /\ run'[d].pc \notin {"idle", "storing", "saving"}
    BY <1>0, <1>2, LoopAsks
  <2>2. UNCHANGED <<status, result, pending>> BY <1>2 DEF Drive, handle, answering
  <2>3. status' # "none" BY <1>00, <2>1, <2>2
  <2> QED BY <1>0, <2>1, <2>2, <2>3, DriveHolds
<1>3. CASE PublishFinish(d) \/ MarkSuspended(d) \/ Finish(d)
  <2>1. /\ run[d].pc \in {"finished", "delivered"}
        /\ run'[d].pc \in {"delivered", "storing", "closing"}
        /\ run'[d].why = run[d].why /\ run'[d].call = run[d].call
        /\ run'[d].pc = "storing" => run[d].why = "suspended"
    BY <1>3 DEF PublishFinish, MarkSuspended, Finish, RTypeOK, DriveRecord
  <2>2. Asked(d)' BY <1>0, <2>1 DEF Asked
  <2>3. pending' = pending /\ (result' = "suspended" => result = "suspended")
    BY <1>3 DEF PublishFinish, MarkSuspended, Finish, handle, answering, Settled
  <2>4. status' # "none" BY <1>3, <1>00, <2>1 DEF PublishFinish, MarkSuspended, Finish, handle
  <2>5. status' = "suspended" => run'[d].pc = "storing" \/ status = "suspended"
    BY <1>3 DEF PublishFinish, MarkSuspended, Finish, handle, RTypeOK, DriveRecord
  <2>6. run'[d].pc # "saving" /\ run[d].pc \notin {"idle", "storing"} /\ run'[d].pc # "idle"
    BY <2>1
  <2> QED BY <1>0, <2>2, <2>3, <2>4, <2>5, <2>6, DriveHolds
<1>4. CASE Store(d)
  <2>1. /\ run[d].pc = "storing" /\ run'[d].pc = "saving" /\ pending' = run[d].call
        /\ run'[d].why = run[d].why /\ run'[d].call = run[d].call
        /\ UNCHANGED <<status, result>>
    BY <1>4 DEF Store, handle, RTypeOK, DriveRecord
  <2>2. pending' \in Calls BY <1>0, <2>1 DEF Asked
  <2>3. Asked(d)' BY <1>0, <2>1 DEF Asked
  <2>4. status' # "none" BY <1>00, <2>1
  <2> QED BY <1>0, <2>1, <2>2, <2>3, <2>4, DriveHolds
<1>5. CASE Save(d) \/ CloseTopic(d)
  <2>1. /\ run[d].pc \in {"saving", "closing"} /\ run'[d].pc = "over"
        /\ UNCHANGED <<status, pending>>
    BY <1>5, AfterDrive DEF Save, CloseTopic, RTypeOK, answering
  <2>4. result' = "suspended" => run[d].pc = "saving" \/ result = "suspended"
    BY <1>5 DEF Save, CloseTopic
  <2>2. Asked(d)' BY <2>1 DEF Asked
  <2>3. status' # "none" BY <1>00, <2>1
  <2> QED BY <1>0, <2>1, <2>2, <2>3, <2>4, DriveHolds
<1> QED BY <1>1, <1>2, <1>3, <1>4, <1>5 DEF Drive, Consume

(* The next drive of a run takes the call of the suspension with it.       *)
LEMMA ReplayAnswerable ==
  ASSUME RTypeOK, AnswerableInv, status # "none",
         NEW ids \in SUBSET Calls, NEW by \in Calls \cup {NoCall}, Replay(ids, by)
  PROVE  AnswerableInv'
<1>1. PICK d \in Drives : /\ run[d].pc = "idle" /\ run'[d] = Fresh(ids, checkpoint)
                          /\ \A e \in Drives \ {d} : run'[e] = run[e]
  BY ReplayTypes
<1>2. status' = "running" BY ReplayTypes
<1>3. run'[d].pc = "loop" /\ run'[d].why = "stop" BY <1>1 DEF Fresh
<1>4. 1 \in Used /\ d \notin Used BY <1>1 DEF AnswerableInv, Started, Used
<1>5. 1 \in Used' /\ d \in Used' /\ d # 1 BY <1>1, <1>3, <1>4 DEF Used
<1>6. \A e \in Drives : Asked(e)' BY <1>1, <1>3 DEF AnswerableInv, Asked
<1> QED BY <1>2, <1>5, <1>6 DEF AnswerableInv, Started, Held

LEMMA AnswerableStep ==
  ASSUME RTypeOK, AnswerableInv, [RNext]_dvars
  PROVE  AnswerableInv'
<1>1. CASE UNCHANGED dvars \/ Watches
  <2>1. UNCHANGED <<run, status, result, pending, stored, answer>>
    BY <1>1 DEF dvars, Watches, Observe, ObserverReads, Cleanup, handle, answering
  <2> QED BY <2>1 DEF AnswerableInv, Started, Held, Asked, Quieted, Used
<1>2. CASE Stream
  <2>1. /\ run'[1] = Fresh({}, checkpoint) /\ \A e \in Drives \ {1} : run'[e] = run[e]
        /\ status = "none" /\ status' = "running" /\ result' = result
    BY <1>2, StreamTypes DEF Stream
  <2>2. run'[1].pc = "loop" /\ run'[1].why = "stop" BY <2>1 DEF Fresh
  <2>3. 1 \in Used' BY <2>2, FirstDrive DEF Used
  <2>4. \A e \in Drives : Asked(e)' BY <2>1, <2>2 DEF AnswerableInv, Asked
  <2> QED BY <2>1, <2>2, <2>3, <2>4 DEF AnswerableInv, Started, Held
<1>3. CASE Recover BY <1>3, ReplayAnswerable DEF Recover
<1>4. ASSUME NEW d \in Drives, Drive(d) \/ Consume(d) PROVE AnswerableInv'
  BY <1>4, DriveAnswerable
<1>5. ASSUME NEW a \in Answerers, ReadSuspended(a) \/ MarkResolved(a) PROVE AnswerableInv'
  <2>1. UNCHANGED <<run, status, result, pending>> /\ stored'.call = stored.call
    BY <1>5 DEF ReadSuspended, MarkResolved, handle, RTypeOK, Stored
  <2>2. status # "none"
    BY <1>5 DEF ReadSuspended, MarkResolved, AnswerableInv, Started, Quieted
  <2> QED BY <2>1, <2>2 DEF AnswerableInv, Started, Held, Asked, Used
<1>6. ASSUME NEW a \in Answerers, ReplayApproved(a) \/ ReplayResumed(a) PROVE AnswerableInv'
  <2>1. answer[a].phase = "resolved" BY <1>6 DEF ReplayApproved, ReplayResumed
  <2>2. status # "none" BY <2>1 DEF AnswerableInv, Started, Quieted
  <2>3. answer[a].call \in Calls BY <2>1 DEF RTypeOK
  <2> QED BY <1>6, <2>2, <2>3, ReplayAnswerable DEF ReplayApproved, ReplayResumed
<1> QED BY <1>1, <1>2, <1>3, <1>4, <1>5, <1>6 DEF RNext, Watches, Answer

(* Whoever learns that a run is suspended, from its result or, when its    *)
(* drives are over, from its status, finds the call to answer, however     *)
(* often answers and recoveries race.                                      *)
THEOREM SuspensionsCanBeAnswered == RSpec => []SuspensionAnswerable
<1>1. RInit => RTypeOK /\ AnswerableInv BY InitTypes, InitAnswerable
<1>2. RTypeOK /\ AnswerableInv /\ [RNext]_dvars => (RTypeOK /\ AnswerableInv)'
  BY TypesKeep, AnswerableStep
<1>3. RTypeOK /\ AnswerableInv => SuspensionAnswerable
  <2>1. Live = {} => \A d \in Drives : run[d].pc # "storing" BY DEF Live
  <2> QED BY <2>1, AgentLoopAssumption DEF AnswerableInv, Held, SuspensionAnswerable
<1> QED BY <1>1, <1>2, <1>3, PTL DEF RSpec

-----------------------------------------------------------------------------
(* Drives begin in order; a drive carries a call from the moment it stops  *)
(* there; what waits for an answer, or is being answered, is a call at     *)
(* which a drive stopped; and the ids a drive takes for approved are those *)
(* of the answer that began it, about a call of an earlier drive.          *)
Stopped(c) == \E e \in Drives : run[e].call = c
InOrder == \A d, e \in Drives : e < d /\ run[d].pc # "idle" => run[e].pc # "idle"
Blank(d) == run[d].pc \in {"idle", "loop", "tools"} => run[d].call = NoCall
Questions ==
  /\ pending \in Calls => Stopped(pending)
  /\ stored.call \in Calls => Stopped(stored.call)
  /\ \A a \in Answerers : answer[a].phase # "idle" => Stopped(answer[a].call)
Approves(d) ==
  \A c \in run[d].approved :
    begunBy[d] = c /\ \E e \in Drives : e < d /\ run[e].call = c
ApprovalInv ==
  InOrder /\ Questions /\ \A d \in Drives : Blank(d) /\ Approves(d)

LEMMA InitApproval == RInit => ApprovalInv
<1> SUFFICES ASSUME RInit PROVE ApprovalInv OBVIOUS
<1>1. \A d \in Drives : run[d] = Idle BY DEF RInit, LInit
<1>2. Idle.pc = "idle" /\ Idle.call = NoCall /\ Idle.approved = {} BY DEF Idle, Fresh
<1>3. Questions BY AgentLoopAssumption DEF RInit, Questions, Quiet
<1> QED BY <1>1, <1>2, <1>3 DEF ApprovalInv, InOrder, Blank, Approves

(* A step of a drive gives it a call only when it stops there.             *)
LEMMA CallFixed ==
  ASSUME RTypeOK, NEW d \in Drives, Drive(d) \/ Consume(d), Blank(d)
  PROVE  /\ Blank(d)'
         /\ run[d].call \in Calls => run'[d].call = run[d].call
         /\ (run[d].pc = "idle") = (run'[d].pc = "idle")
<1> USE AgentLoopAssumption DEF RTypeOK, DriveRecord, Blank
<1>1. CASE LoopHead(d) BY <1>1 DEF LoopHead, Ends
<1>2. CASE ModelRetried(d) BY <1>2 DEF ModelRetried, Asks
<1>3. CASE ModelFails(d) BY <1>3 DEF ModelFails, Asks
<1>4. CASE ModelAnswers(d) BY <1>4 DEF ModelAnswers, Asks
<1>5. CASE ModelCallsTools(d)
  <2>1. run[d].pc = "loop" BY <1>5 DEF ModelCallsTools, Asks
  <2> QED BY <1>5, <2>1, BatchTypes
<1>6. CASE Suspends(d) BY <1>6 DEF Suspends, Ends
<1>7. CASE BatchEnds(d) BY <1>7 DEF BatchEnds, Ends, Throws
<1>8. CASE Finishes(d) BY <1>8 DEF Finishes
<1>9. CASE ToolSuspends(d) BY <1>9 DEF ToolSuspends
<1>10. CASE ToolEnds(d)
  <2>1. PICK c \in run[d].running : run' = [run EXCEPT ![d].running = @ \ {c}]
    BY <1>10 DEF ToolEnds
  <2>2. run'[d].pc = run[d].pc /\ run'[d].call = run[d].call BY <2>1
  <2> QED BY <2>2
<1>11. CASE Publish(d) \/ PublishFinish(d) \/ MarkSuspended(d) \/ Store(d) \/ Finish(d)
  BY <1>11 DEF Publish, PublishFinish, MarkSuspended, Store, Finish
<1>12. CASE Save(d) \/ CloseTopic(d)
  <2>1. run' = [run EXCEPT ![d] = Over(d)] /\ run[d].pc \in {"saving", "closing"}
    BY <1>12 DEF Save, CloseTopic
  <2>2. run'[d].pc = "over" /\ run'[d].call = run[d].call BY <2>1, AfterDrive
  <2> QED BY <2>1, <2>2
<1> QED BY <1>1, <1>2, <1>3, <1>4, <1>5, <1>6, <1>7, <1>8, <1>9, <1>10, <1>11, <1>12
        DEF Drive, LoopStep, Consume

(* What waits for an answer after a step of a drive waited before, or is   *)
(* the call of that drive.                                                 *)
LEMMA QuestionsOf ==
  ASSUME RTypeOK, NEW d \in Drives, Drive(d) \/ Consume(d)
  PROVE  /\ pending' \in {pending, run[d].call}
         /\ stored'.call \in {stored.call, run[d].call}
BY DEF Drive, Consume, Publish, PublishFinish, MarkSuspended, Store, Save, Finish, CloseTopic,
       handle, answering

LEMMA DriveApproval ==
  ASSUME RTypeOK, ApprovalInv, NEW d \in Drives, Drive(d) \/ Consume(d)
  PROVE  ApprovalInv'
<1>1. /\ \A e \in Drives \ {d} : run'[e] = run[e]
      /\ run'[d].approved \subseteq run[d].approved
      /\ UNCHANGED <<answer, begunBy>>
      /\ RTypeOK'
  BY DriveTypes
<1>2. /\ Blank(d)' /\ (run[d].call \in Calls => run'[d].call = run[d].call)
      /\ (run[d].pc = "idle") = (run'[d].pc = "idle")
  BY CallFixed DEF ApprovalInv
<1>3. ASSUME NEW c \in Calls, NEW e \in Drives, run[e].call = c PROVE run'[e].call = c
  BY <1>1, <1>2, <1>3
<1>4. ASSUME NEW c \in Calls, Stopped(c) PROVE Stopped(c)'
  BY <1>3, <1>4 DEF Stopped
<1>5. InOrder' BY <1>1, <1>2 DEF ApprovalInv, InOrder
<1>6. Questions'
  <2>1. /\ pending' \in {pending, run[d].call}
        /\ stored'.call \in {stored.call, run[d].call}
    BY QuestionsOf
  <2>2. run[d].call \in Calls => Stopped(run[d].call) BY DEF Stopped
  <2>3. \A a \in Answerers : answer[a].phase # "idle" => answer[a].call \in Calls
    BY DEF RTypeOK
  <2> QED BY <1>1, <1>4, <2>1, <2>2, <2>3 DEF ApprovalInv, Questions
<1>7. ASSUME NEW e \in Drives PROVE Blank(e)' /\ Approves(e)'
  <2>1. Blank(e)' BY <1>1, <1>2 DEF ApprovalInv, Blank
  <2>2. run'[e].approved \subseteq run[e].approved BY <1>1
  <2>3. run[e].approved \subseteq Calls BY DEF RTypeOK, DriveRecord
  <2>4. ASSUME NEW c \in run'[e].approved
        PROVE  begunBy'[e] = c /\ \E f \in Drives : f < e /\ run'[f].call = c
    <3>1. PICK f \in Drives : begunBy[e] = c /\ f < e /\ run[f].call = c
      BY <2>2 DEF ApprovalInv, Approves
    <3>2. run'[f].call = c BY <1>3, <2>2, <2>3, <3>1
    <3> QED BY <1>1, <3>1, <3>2
  <2> QED BY <2>1, <2>4 DEF Approves
<1> QED BY <1>5, <1>6, <1>7 DEF ApprovalInv

(* The next drive of a run approves at most what its answer was about.     *)
LEMMA ReplayApproval ==
  ASSUME RTypeOK, ApprovalInv, NEW ids \in SUBSET Calls, NEW by \in Calls \cup {NoCall},
         Replay(ids, by)
  PROVE  /\ \A c \in ids : by = c /\ Stopped(c)
         /\ pending' \in {pending, NoCall} /\ stored' = stored
         /\ \A a \in Answerers : answer'[a] = answer[a] \/ answer'[a].phase = "idle"
         => ApprovalInv'
<1>1. PICK d \in Drives : /\ run[d].pc = "idle"
                          /\ run'[d] = Fresh(ids, checkpoint) /\ begunBy'[d] = by
                          /\ \A e \in Drives \ {d} : run'[e] = run[e]
                                                    /\ begunBy'[e] = begunBy[e]
                          /\ \A e \in Drives : run[e].pc = "idle" => d <= e
  BY ReplayTypes DEF Drives
<1> HAVE /\ \A c \in ids : by = c /\ Stopped(c)
         /\ pending' \in {pending, NoCall} /\ stored' = stored
         /\ \A a \in Answerers : answer'[a] = answer[a] \/ answer'[a].phase = "idle"
<1>2. /\ run'[d].pc = "loop" /\ run'[d].call = NoCall /\ run'[d].approved = ids
  BY <1>1 DEF Fresh
<1>3. run[d].call = NoCall BY <1>1 DEF ApprovalInv, Blank
<1>4. ASSUME NEW c \in Calls, NEW e \in Drives, run[e].call = c
      PROVE  run'[e].call = c /\ e # d /\ run[e].pc # "idle"
  <2>1. e # d BY <1>3, <1>4, AgentLoopAssumption
  <2>2. run[e].pc # "idle" BY <1>4, AgentLoopAssumption DEF ApprovalInv, Blank
  <2> QED BY <1>1, <1>4, <2>1, <2>2
<1>5. ASSUME NEW c \in Calls, Stopped(c) PROVE Stopped(c)' BY <1>4, <1>5 DEF Stopped
<1>6. ASSUME NEW e \in Drives, run[e].pc # "idle" PROVE e < d
  <2>1. e # d /\ ~(d < e) BY <1>1, <1>6 DEF ApprovalInv, InOrder
  <2> QED BY <2>1 DEF Drives
<1>7. InOrder'
  <2> SUFFICES ASSUME NEW f \in Drives, NEW e \in Drives, e < f, run'[f].pc # "idle"
               PROVE  run'[e].pc # "idle"
    BY DEF InOrder
  <2>1. CASE f = d
    <3>1. run[e].pc # "idle" BY <1>1, <2>1 DEF Drives
    <3> QED BY <1>1, <1>2, <3>1
  <2>2. CASE f # d
    <3>1. run[e].pc # "idle" BY <1>1, <2>2 DEF ApprovalInv, InOrder
    <3> QED BY <1>1, <1>2, <3>1
  <2> QED BY <2>1, <2>2
<1>8. Questions'
  <2>1. ASSUME NEW a \in Answerers, answer'[a].phase # "idle" PROVE Stopped(answer[a].call)'
    <3>1. answer'[a] = answer[a] BY <2>1
    <3>2. answer[a].call \in Calls /\ Stopped(answer[a].call)
      BY <2>1, <3>1 DEF RTypeOK, ApprovalInv, Questions
    <3> QED BY <1>5, <3>1, <3>2 DEF Stopped
  <2>2. pending' \in Calls => Stopped(pending)'
    BY <1>5, AgentLoopAssumption DEF ApprovalInv, Questions, Stopped
  <2>3. stored'.call \in Calls => Stopped(stored.call)'
    BY <1>5 DEF ApprovalInv, Questions, Stopped
  <2> QED BY <2>1, <2>2, <2>3 DEF Questions
<1>9. ASSUME NEW e \in Drives PROVE Blank(e)' /\ Approves(e)'
  <2>1. CASE e = d
    <3>1. ASSUME NEW c \in ids PROVE by = c /\ \E f \in Drives : f < d /\ run'[f].call = c
      <4>1. PICK f \in Drives : run[f].call = c BY DEF Stopped
      <4> QED BY <1>4, <1>6, <4>1
    <3> QED BY <1>1, <1>2, <2>1, <3>1 DEF Blank, Approves
  <2>2. CASE e # d
    <3>1. run[e].approved \subseteq Calls BY DEF RTypeOK, DriveRecord
    <3>2. ASSUME NEW c \in run[e].approved
          PROVE  begunBy[e] = c /\ \E f \in Drives : f < e /\ run'[f].call = c
      <4>1. PICK f \in Drives : begunBy[e] = c /\ f < e /\ run[f].call = c
        BY DEF ApprovalInv, Approves
      <4> QED BY <1>4, <3>1, <4>1
    <3> QED BY <1>1, <2>2, <3>2 DEF ApprovalInv, Blank, Approves
  <2> QED BY <2>1, <2>2
<1> QED BY <1>7, <1>8, <1>9 DEF ApprovalInv

LEMMA ApprovalStep ==
  ASSUME RTypeOK, AnswerableInv, ApprovalInv, [RNext]_dvars
  PROVE  ApprovalInv'
<1> USE DEF ApprovalInv, InOrder, Questions, Blank, Approves, Stopped
<1>1. CASE UNCHANGED dvars \/ Watches
  <2>1. UNCHANGED <<run, pending, stored, answer, begunBy>> BY <1>1, WatchesRead DEF dvars
  <2> QED BY <2>1
<1>2. CASE Stream
  <2>1. /\ run'[1] = Fresh({}, checkpoint) /\ \A e \in Drives \ {1} : run'[e] = run[e]
        /\ status = "none" /\ UNCHANGED <<pending, stored, answer, begunBy>>
    BY <1>2, StreamTypes DEF Stream, answering
  <2>2. /\ run'[1].pc = "loop" /\ run'[1].call = NoCall /\ run'[1].approved = {}
    BY <2>1 DEF Fresh
  <2>3. /\ \A e \in Drives : run[e].pc = "idle" /\ run[e].call = NoCall
        /\ pending = NoCall /\ stored.call = NoCall /\ Quieted
    BY <2>1 DEF AnswerableInv, Started, Used
  <2>4. InOrder' BY <2>1, <2>2, <2>3 DEF Drives
  <2>5. Questions' BY <2>1, <2>3, AgentLoopAssumption DEF Quieted
  <2>6. ASSUME NEW e \in Drives, NEW c \in run'[e].approved PROVE FALSE
    <3>1. e # 1 /\ c \in run[e].approved BY <2>1, <2>2, <2>6
    <3>2. PICK f \in Drives : run[f].call = c BY <3>1
    <3>3. c \in Calls BY <3>1 DEF RTypeOK, DriveRecord
    <3> QED BY <2>3, <3>2, <3>3, AgentLoopAssumption
  <2>7. \A e \in Drives : Blank(e)' BY <2>1, <2>2
  <2> QED BY <2>4, <2>5, <2>6, <2>7
<1>3. CASE Recover
  <2>1. Replay({}, NoCall) /\ UNCHANGED <<pending, stored, answer>> BY <1>3 DEF Recover
  <2> QED BY <2>1, ReplayApproval
<1>4. ASSUME NEW d \in Drives, Drive(d) \/ Consume(d) PROVE ApprovalInv'
  BY <1>4, DriveApproval
<1>5. ASSUME NEW a \in Answerers, ReadSuspended(a) PROVE ApprovalInv'
  <2>1. PICK c \in Calls \cup {NoCall} :
          /\ c \in {pending, stored.call} /\ c # NoCall
          /\ answer' = [answer EXCEPT ![a] = [phase |-> "read", call |-> c]]
    BY <1>5 DEF ReadSuspended, RTypeOK, Stored
  <2>2. UNCHANGED <<run, pending, stored, begunBy>> BY <1>5 DEF ReadSuspended
  <2>3. Stopped(c) BY <2>1
  <2>4. \A b \in Answerers : answer'[b] = answer[b] \/ answer'[b].call = c
    BY <2>1 DEF RTypeOK
  <2>5. Questions' BY <2>2, <2>3, <2>4
  <2> QED BY <2>2, <2>5
<1>6. ASSUME NEW a \in Answerers, MarkResolved(a) PROVE ApprovalInv'
  <2>1. UNCHANGED <<run, pending, begunBy>> /\ stored'.call = stored.call
    BY <1>6 DEF MarkResolved, RTypeOK, Stored
  <2>2. \A b \in Answerers : answer'[b].call = answer[b].call
          /\ (answer'[b].phase # "idle" => answer[b].phase # "idle")
    BY <1>6 DEF MarkResolved, RTypeOK
  <2>3. Questions' BY <2>1, <2>2
  <2> QED BY <2>1, <2>3
<1>7. ASSUME NEW a \in Answerers, ReplayApproved(a) \/ ReplayResumed(a) PROVE ApprovalInv'
  <2>1. /\ answer[a].phase = "resolved" /\ pending' = NoCall /\ stored' = stored
        /\ answer' = [answer EXCEPT ![a] = Quiet]
        /\ \/ Replay({answer[a].call}, answer[a].call)
           \/ Replay({}, NoCall)
    BY <1>7 DEF ReplayApproved, ReplayResumed
  <2>2. answer[a].call \in Calls /\ Stopped(answer[a].call) BY <2>1 DEF RTypeOK
  <2>3. \A b \in Answerers : answer'[b] = answer[b] \/ answer'[b].phase = "idle"
    BY <2>1 DEF RTypeOK, Quiet
  <2> HIDE DEF ApprovalInv, InOrder, Questions, Blank, Approves, Stopped
  <2> QED BY <2>1, <2>2, <2>3, ReplayApproval
<1> QED BY <1>1, <1>2, <1>3, <1>4, <1>5, <1>6, <1>7 DEF RNext, Watches, Answer

(* A step that is not one of a drive begins no call.                       *)
LEMMA OnlyDrivesBegin ==
  ASSUME RTypeOK, AnswerableInv, [RNext]_dvars, NEW d \in Drives,
         NEW c \in Begun(d) \cap Gated
  PROVE  c \in run[d].approved
<1>1. CASE UNCHANGED dvars \/ Watches
  BY <1>1, WatchesRead DEF dvars, Begun
<1>2. ASSUME NEW e \in Drives, run'[e].running = {}, \A f \in Drives \ {e} : run'[f] = run[f]
      PROVE  FALSE
  BY <1>2 DEF Begun
<1>3. CASE Stream
  <2>1. run'[1].running = {} BY <1>3, StreamTypes DEF Fresh
  <2> QED BY <1>2, <1>3, <2>1, StreamTypes, FirstDrive
<1>4. ASSUME NEW ids \in SUBSET Calls, NEW by \in Calls \cup {NoCall}, Replay(ids, by)
      PROVE  FALSE
  <2>1. PICK e \in Drives : /\ run'[e] = Fresh(ids, checkpoint)
                            /\ \A f \in Drives \ {e} : run'[f] = run[f]
    BY <1>4, ReplayTypes
  <2>2. run'[e].running = {} BY <2>1 DEF Fresh
  <2> QED BY <1>2, <2>1, <2>2
<1>5. CASE Recover BY <1>4, <1>5 DEF Recover
<1>6. ASSUME NEW a \in Answerers, Answer(a) PROVE c \in run[d].approved
  <2>1. CASE ReadSuspended(a) \/ MarkResolved(a)
    BY <2>1 DEF ReadSuspended, MarkResolved, Begun
  <2>2. CASE ReplayApproved(a) \/ ReplayResumed(a)
    <3>1. answer[a].call \in Calls BY <2>2 DEF ReplayApproved, ReplayResumed, RTypeOK
    <3> QED BY <1>4, <2>2, <3>1 DEF ReplayApproved, ReplayResumed
  <2> QED BY <1>6, <2>1, <2>2 DEF Answer
<1>7. ASSUME NEW e \in Drives, Drive(e) \/ Consume(e) PROVE c \in run[d].approved
  <2>1. d = e
    <3>1. \A f \in Drives \ {e} : run'[f] = run[f] BY <1>7, DriveTypes
    <3> QED BY <3>1 DEF Begun
  <2> QED BY <1>7, <2>1, BeginsNothing
<1> QED BY <1>1, <1>3, <1>5, <1>6, <1>7 DEF RNext, Watches

(* A tool that needs approval is started only in a drive that was begun by *)
(* an answer about that very call, at which an earlier drive had stopped,  *)
(* however often answers and recoveries race.                              *)
THEOREM GatedWaits == RSpec => GatedNeedsAnswer
<1> DEFINE Inv == RTypeOK /\ AnswerableInv /\ ApprovalInv
<1>1. RInit => Inv BY InitTypes, InitAnswerable, InitApproval
<1>2. Inv /\ [RNext]_dvars => Inv' BY TypesKeep, AnswerableStep, ApprovalStep
<1>3. Inv /\ [RNext]_dvars =>
        [\A d \in Drives : \A c \in (run'[d].running \ run[d].running) \cap Gated :
           begunBy[d] = c /\ \E e \in Drives : e < d /\ run[e].call = c]_dvars
  BY OnlyDrivesBegin DEF Begun, ApprovalInv, Approves
<1> QED BY <1>1, <1>2, <1>3, PTL DEF RSpec, GatedNeedsAnswer

-----------------------------------------------------------------------------
(* The topic is closed when the last drive is over, and nothing is left to *)
(* publish.                                                                *)
StreamInv ==
  /\ closed /\ ~cleaned => Live = {} /\ status \in {"done", "error"}
  /\ observer = "ended" /\ ~cleaned => closed /\ ~unread
  /\ \A d \in Drives : run[d].pc \in {"idle", "over"} => run[d].queue = 0

LEMMA InitStreams == RInit => StreamInv
<1> SUFFICES ASSUME RInit PROVE StreamInv OBVIOUS
<1>1. \A d \in Drives : run[d] = Idle BY DEF RInit, LInit
<1>2. Idle.queue = 0 BY DEF Idle, Fresh
<1> QED BY <1>1, <1>2 DEF RInit, StreamInv

LEMMA StreamStep ==
  ASSUME OneByOne, RTypeOK, BudgetInv, StreamInv, [RNext]_dvars
  PROVE  StreamInv'
<1>1. CASE UNCHANGED dvars \/ Watches
  <2>1. run' = run /\ status' = status /\ Live' = Live
    BY <1>1, WatchesRead DEF dvars, Live
  <2> QED BY <1>1, <2>1 DEF dvars, Watches, Observe, ObserverReads, Cleanup, StreamInv,
         handle
<1>2. ASSUME NEW d \in Drives, NEW ids, closed => cleaned, UNCHANGED <<closed, cleaned, observer>>,
             run'[d] = Fresh(ids, checkpoint), \A e \in Drives \ {d} : run'[e] = run[e]
      PROVE  StreamInv'
  <2>1. run'[d].pc = "loop" BY <1>2 DEF Fresh
  <2> QED BY <1>2, <2>1 DEF StreamInv
<1>3. CASE Stream
  <2>1. closed => cleaned BY <1>3 DEF Stream, StreamInv
  <2>2. UNCHANGED <<closed, cleaned, observer>> BY <1>3 DEF Stream, reading
  <2> QED BY <1>2, <1>3, <2>1, <2>2, StreamTypes, FirstDrive
<1>4. CASE Recover
  <2>1. closed => cleaned BY <1>4 DEF Recover, StreamInv
  <2>2. UNCHANGED <<closed, cleaned, observer>> BY <1>4 DEF Recover, reading
  <2>3. PICK d \in Drives : /\ run'[d] = Fresh({}, checkpoint)
                            /\ \A e \in Drives \ {d} : run'[e] = run[e]
    BY <1>4, ReplayTypes DEF Recover
  <2> QED BY <1>2, <2>1, <2>2, <2>3
<1>5. ASSUME NEW a \in Answerers, ReadSuspended(a) \/ MarkResolved(a) PROVE StreamInv'
  <2>1. UNCHANGED <<run, status, closed, cleaned, observer, unread>>
    BY <1>5 DEF ReadSuspended, MarkResolved, handle, reading
  <2> QED BY <2>1 DEF StreamInv, Live
<1>6. ASSUME NEW a \in Answerers, ReplayApproved(a) \/ ReplayResumed(a) PROVE StreamInv'
  <2>1. answer[a].phase = "resolved" BY <1>6 DEF ReplayApproved, ReplayResumed
  <2>2. status = "suspended" BY <2>1 DEF BudgetInv, Resting, Going, Quieted
  <2>3. closed => cleaned BY <2>2 DEF StreamInv
  <2>4. UNCHANGED <<closed, cleaned, observer>>
    BY <1>6 DEF ReplayApproved, ReplayResumed, reading
  <2>5. answer[a].call \in Calls BY <2>1 DEF RTypeOK
  <2>6. PICK ids \in SUBSET Calls, by \in Calls \cup {NoCall} : Replay(ids, by)
    BY <1>6, <2>5 DEF ReplayApproved, ReplayResumed
  <2>7. PICK d \in Drives : /\ run'[d] = Fresh(ids, checkpoint)
                            /\ \A e \in Drives \ {d} : run'[e] = run[e]
    BY <2>6, ReplayTypes
  <2> QED BY <1>2, <2>3, <2>4, <2>7
<1>7. ASSUME NEW d \in Drives, ToolEnds(d), Drive(d) PROVE StreamInv'
  <2>1. run'[d].pc = run[d].pc /\ run'[d].queue = run[d].queue
    BY <1>7 DEF ToolEnds, RTypeOK, DriveRecord
  <2>2. \A e \in Drives : run'[e].pc = run[e].pc /\ run'[e].queue = run[e].queue
    BY <1>7, <2>1, DriveTypes
  <2>3. UNCHANGED <<status, closed, cleaned, observer, unread>>
    BY <1>7 DEF Drive, handle, reading
  <2> QED BY <2>2, <2>3 DEF StreamInv, Live
<1>8. ASSUME NEW d \in Drives, Drive(d) \/ Consume(d), run[d].pc \notin {"idle", "over"}
      PROVE  StreamInv'
  <2>1. closed => cleaned BY <1>8 DEF StreamInv, Live
  <2>2. observer # "ended" \/ cleaned BY <2>1 DEF StreamInv
  <2>3. UNCHANGED <<cleaned, observer>>
    BY <1>8 DEF Drive, Consume, Publish, PublishFinish, MarkSuspended, Store, Save, Finish,
       CloseTopic, reading
  <2>4. \A e \in Drives \ {d} : run'[e] = run[e] BY <1>8, DriveTypes
  <2>5. CASE CloseTopic(d)
    <3>1. run' = [run EXCEPT ![d] = Over(d)] /\ run[d].pc = "closing" /\ status' = status
      BY <2>5 DEF CloseTopic
    <3>2. run'[d].pc = "over" /\ run'[d].queue = 0
      BY <3>1 DEF Over, Idle, Fresh, RTypeOK
    <3>3. Going(d) BY <1>8, OnlyOne
    <3>4. Live' = {} /\ status' \in {"done", "error"}
      BY <2>4, <3>1, <3>2, <3>3 DEF Going, Counts, Live
    <3> QED BY <2>2, <2>3, <2>4, <3>2, <3>4 DEF StreamInv
  <2>6. CASE ~CloseTopic(d)
    <3>1. closed' = closed
      BY <1>8, <2>6 DEF Drive, Consume, Publish, PublishFinish, MarkSuspended, Store, Save,
         Finish, handle
    <3>2. run'[d].pc \in {"idle", "over"} => run'[d].queue = 0
      <4>1. CASE Save(d)
        <5>1. run' = [run EXCEPT ![d] = Over(d)] BY <4>1 DEF Save
        <5> QED BY <5>1 DEF Over, Idle, Fresh, RTypeOK
      <4>2. CASE LoopStep(d) /\ Drive(d)
        <5>1. status' = status BY <4>2 DEF Drive, handle
        <5>2. Counts(d) BY <1>8, OnlyOne DEF Going
        <5> QED BY <4>2, <5>1, <5>2, LoopCounts
      <4>3. CASE ToolEnds(d)
        BY <1>8, <4>3 DEF ToolEnds, RTypeOK, DriveRecord
      <4>4. CASE Publish(d) \/ PublishFinish(d) \/ MarkSuspended(d) \/ Store(d) \/ Finish(d)
        BY <1>8, <4>4 DEF Publish, PublishFinish, MarkSuspended, Store, Finish, RTypeOK,
           DriveRecord
      <4> QED BY <1>8, <2>6, <4>1, <4>2, <4>3, <4>4 DEF Drive, Consume
    <3> QED BY <2>1, <2>2, <2>3, <2>4, <3>1, <3>2 DEF StreamInv
  <2> QED BY <2>5, <2>6
<1>9. ASSUME NEW d \in Drives, Drive(d) \/ Consume(d), run[d].pc \in {"idle", "over"}
      PROVE  ToolEnds(d) /\ Drive(d)
  <2>1. run[d].queue = 0 BY <1>9 DEF StreamInv
  <2>2. ~Consume(d)
    BY <1>9, <2>1 DEF Consume, Publish, PublishFinish, MarkSuspended, Store, Save, Finish,
       CloseTopic
  <2>3. ~LoopStep(d)
    BY <1>9 DEF LoopStep, LoopHead, ModelRetried, ModelFails, ModelAnswers, ModelCallsTools,
       ToolSuspends, Suspends, BatchEnds, Finishes, Asks
  <2> QED BY <1>9, <2>2, <2>3 DEF Drive
<1> QED BY <1>1, <1>3, <1>4, <1>5, <1>6, <1>7, <1>8, <1>9 DEF RNext, Watches, Answer

(* A stream of observe() that ended has yielded every event of the run,    *)
(* those of the drives behind a suspension included, provided that nobody  *)
(* answers or recovers the run while something else is under way.          *)
THEOREM StreamsAreComplete == ASSUME OneByOne PROVE RSpec => []StreamsComplete
<1>1. RInit => RTypeOK /\ BudgetInv /\ StreamInv BY InitTypes, InitBudget, InitStreams
<1>2. RTypeOK /\ BudgetInv /\ StreamInv /\ [RNext]_dvars
        => (RTypeOK /\ BudgetInv /\ StreamInv)'
  BY TypesKeep, BudgetStep, StreamStep
<1>3. StreamInv => StreamsComplete BY DEF StreamInv, StreamsComplete
<1> QED BY <1>1, <1>2, <1>3, PTL DEF RSpec
=============================================================================
