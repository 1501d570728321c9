----------------------------- MODULE DurableRun -----------------------------
(***************************************************************************)
(* One run of a DurableAgent (src/durable): stream() starts a drive of the *)
(* agent loop in the background and publishes its chunks to the handle of  *)
(* the run; a suspension is kept for an answer, and an answer or a         *)
(* recovery starts another drive on the same handle.  The options that     *)
(* createAgent forwards to the loop are approvedToolCalls, but not         *)
(* resumePendingTool.                                                      *)
(***************************************************************************)
EXTENDS AgentLoop

CONSTANTS
  Answerers,   \* callers of approveToolCall, declineToolCall and resumeStream
  OneByOne     \* nobody answers or recovers a run while something else is under
               \* way; a suspension is answered once, after it was reported

VARIABLES
  status,     \* handle.status
  closed,     \* handle.closed
  result,     \* what handle.result was settled with, "none" until then
  waiting,    \* drives whose continuation promises are unsettled
  pending,    \* DurableAgent.pending, the call of the suspension
  stored,     \* the record of the suspended-run store
  answer,     \* calls of _answerApproval and resumeStream
  begunBy,    \* history: the call whose answer began a drive, or NoCall
  unread,     \* handle.events holds events that the observer has not been given
  observer,   \* the stream of a caller of observe()
  cleaned     \* somebody called cleanup(), or its timer did

dvars == <<run, checkpoint, modelCalls, lost, status, closed, result, waiting, pending,
           stored, answer, begunBy, unread, observer, cleaned>>
handle == <<status, closed, result, waiting>>
answering == <<pending, stored, answer, begunBy>>
reading == <<unread, observer, cleaned>>

Quiet == [phase |-> "idle", call |-> NoCall]
Stored == [call : Calls \cup {NoCall}, resolved : BOOLEAN]
Live == {d \in Drives : run[d].pc \notin {"idle", "over"}}
Used == {d \in Drives : run[d].pc # "idle"}
Calm == Live = {} /\ \A a \in Answerers : answer[a].phase = "idle"

RInit ==
  /\ LInit
  /\ status = "none" /\ closed = FALSE /\ result = "none" /\ waiting = {}
  /\ pending = NoCall /\ stored = [call |-> NoCall, resolved |-> FALSE]
  /\ answer = [a \in Answerers |-> Quiet] /\ begunBy = [d \in Drives |-> NoCall]
  /\ unread = FALSE /\ observer = "none" /\ cleaned = FALSE

(* stream(): the handle is created and the first drive begins.             *)
Stream ==
  /\ status = "none"
  /\ status' = "running"
  /\ run' = Begin(1, {})
  /\ UNCHANGED <<checkpoint, modelCalls, lost, closed, result, waiting, answering, reading>>

Drive(d) ==
  /\ LoopStep(d) \/ ToolEnds(d)
  /\ UNCHANGED <<handle, answering, reading>>

-----------------------------------------------------------------------------
(* _consume: one chunk after the other is published.                       *)
Publish(d) ==
  /\ run[d].queue > 0
  /\ run' = [run EXCEPT ![d].queue = @ - 1]
  /\ unread' = TRUE
  /\ UNCHANGED <<checkpoint, modelCalls, lost, handle, answering, observer, cleaned>>
PublishFinish(d) ==
  /\ run[d].pc = "finished" /\ run[d].queue = 0
  /\ run' = [run EXCEPT ![d].pc = "delivered"]
  /\ unread' = TRUE
  /\ UNCHANGED <<checkpoint, modelCalls, lost, handle, answering, observer, cleaned>>

(* Of a drive that is over only the call it stopped at, if any, and the    *)
(* tools it left running still matter.                                     *)
Over(d) == [Idle EXCEPT !.pc = "over", !.call = run[d].call, !.running = run[d].running]
Settled(r) == IF result = "none" THEN r ELSE result

(* A suspension: the status, the record in memory, the record in the store *)
(* (which may fail), and only then the result.                             *)
MarkSuspendedCloses(d) ==
  /\ run[d].pc = "delivered" /\ run[d].why = "suspended"
  /\ run' = [run EXCEPT ![d].pc = "storing"]
  /\ status' = "suspended" /\ closed' = TRUE
  /\ UNCHANGED <<checkpoint, modelCalls, lost, result, waiting, answering, reading>>
MarkSuspended(d) ==
  /\ run[d].pc = "delivered" /\ run[d].why = "suspended"
  /\ run' = [run EXCEPT ![d].pc = "storing"]
  /\ status' = "suspended"
  /\ UNCHANGED <<checkpoint, modelCalls, lost, closed, result, waiting, answering, reading>>
StoreReported(d) ==
  /\ run[d].pc = "storing"
  /\ run' = [run EXCEPT ![d].pc = "saving"]
  /\ result' = Settled("suspended")
  /\ UNCHANGED <<checkpoint, modelCalls, lost, status, closed, waiting, answering, reading>>
Store(d) ==
  /\ run[d].pc = "storing"
  /\ run' = [run EXCEPT ![d].pc = "saving"]
  /\ pending' = run[d].call
  /\ UNCHANGED <<checkpoint, modelCalls, lost, handle, stored, answer, begunBy, reading>>
Save(d) ==
  /\ run[d].pc = "saving"
  /\ run' = [run EXCEPT ![d] = Over(d)]
  /\ \/ stored' = [call |-> run[d].call, resolved |-> FALSE]
     \/ UNCHANGED stored
  /\ result' = Settled("suspended")
  /\ UNCHANGED <<checkpoint, modelCalls, lost, status, closed, waiting, pending, answer, begunBy, reading>>

(* Any other end settles the result and every continuation; the topic is   *)
(* closed when the status has been written, unless the end was an error    *)
(* that the stream of the agent threw instead of yielding it.              *)
FinishSilent(d) ==
  /\ run[d].pc = "delivered" /\ run[d].why # "suspended"
  /\ run' = [run EXCEPT ![d].pc = "closing"]
  /\ result' = Settled("settled")
  /\ status' = IF run[d].why = "error" THEN "error" ELSE "done"
  /\ UNCHANGED <<checkpoint, modelCalls, lost, closed, waiting, answering, reading>>
Finish(d) ==
  /\ run[d].pc = "delivered" /\ run[d].why # "suspended"
  /\ run' = [run EXCEPT ![d].pc = "closing"]
  /\ result' = Settled("settled")
  /\ waiting' = {}
  /\ status' = IF run[d].why = "error" THEN "error" ELSE "done"
  /\ UNCHANGED <<checkpoint, modelCalls, lost, closed, answering, reading>>
CloseTopic(d) ==
  /\ run[d].pc = "closing"
  /\ run' = [run EXCEPT ![d] = Over(d)]
  /\ closed' = TRUE \/ (run[d].why = "error" /\ closed' = closed)
  /\ UNCHANGED <<checkpoint, modelCalls, lost, status, result, waiting, answering, reading>>

Consume(d) ==
  \/ Publish(d) \/ PublishFinish(d) \/ MarkSuspended(d) \/ Store(d) \/ Save(d)
  \/ Finish(d) \/ CloseTopic(d)

-----------------------------------------------------------------------------
(* _replay: another drive on the same handle, with a continuation.  The    *)
(* approved ids are those of the answer: the options captured by stream()  *)
(* are not changed by a replay, and its caller passed none.                *)
Replay(ids, by) ==
  \E d \in Drives \ Used :
    /\ \A e \in Drives \ Used : d <= e
    /\ run' = Begin(d, ids)
    /\ begunBy' = [begunBy EXCEPT ![d] = by]
    /\ waiting' = waiting \cup {d}
    /\ status' = "running"

(* _answerApproval and resumeStream: the record is read, from memory or    *)
(* from the store, then marked resolved, then the run is replayed: by an   *)
(* answer with the id among the approved ones, by resumeStream without.    *)
(* An approval and a refusal replay alike: they differ in resumePendingTool*)
(* only, which the factory drops.                                          *)
ReadSuspended(a) ==
  /\ answer[a].phase = "idle" /\ Used # Drives
  /\ OneByOne => Calm /\ status = "suspended"
  /\ \E c \in IF pending # NoCall THEN {pending} ELSE {stored.call} :
       /\ c # NoCall
       /\ answer' = [answer EXCEPT ![a] = [phase |-> "read", call |-> c]]
  /\ UNCHANGED <<run, checkpoint, modelCalls, lost, handle, pending, stored, begunBy, reading>>
MarkResolved(a) ==
  /\ answer[a].phase = "read"
  /\ answer' = [answer EXCEPT ![a].phase = "resolved"]
  /\ stored' = [stored EXCEPT !.resolved = (stored.call # NoCall)]
  /\ UNCHANGED <<run, checkpoint, modelCalls, lost, handle, pending, begunBy, reading>>
ReplayApproved(a) ==
  /\ answer[a].phase = "resolved"
  /\ pending' = NoCall
  /\ answer' = [answer EXCEPT ![a] = Quiet]
  /\ Replay({answer[a].call}, answer[a].call)
  /\ UNCHANGED <<checkpoint, modelCalls, lost, closed, result, stored, reading>>
ReplayResumed(a) ==
  /\ answer[a].phase = "resolved"
  /\ pending' = NoCall
  /\ answer' = [answer EXCEPT ![a] = Quiet]
  /\ Replay({}, NoCall)
  /\ UNCHANGED <<checkpoint, modelCalls, lost, closed, result, stored, reading>>
Answer(a) == ReadSuspended(a) \/ MarkResolved(a) \/ ReplayApproved(a) \/ ReplayResumed(a)

(* recoverActiveRuns() of a run that is suspended or running.              *)
RecoverApproved ==
  /\ status \in {"running", "suspended"}
  /\ OneByOne => Calm
  /\ Replay({run[d].call : d \in Used} \ {NoCall}, NoCall)
  /\ UNCHANGED <<checkpoint, modelCalls, lost, closed, result, pending, stored, answer, reading>>
Recover ==
  /\ status \in {"running", "suspended"}
  /\ OneByOne => Calm
  /\ Replay({}, NoCall)
  /\ UNCHANGED <<checkpoint, modelCalls, lost, closed, result, pending, stored, answer, reading>>

-----------------------------------------------------------------------------
(* observe(): the stream yields the events of the handle and ends when it  *)
(* has yielded all of a closed topic.                                      *)
Observe ==
  /\ status # "none" /\ observer = "none"
  /\ observer' = "open"
  /\ UNCHANGED <<run, checkpoint, modelCalls, lost, handle, answering, unread, cleaned>>
ObserverReads ==
  /\ observer = "open"
  /\ unread \/ closed
  /\ unread' = FALSE
  /\ observer' = IF closed THEN "ended" ELSE "open"
  /\ UNCHANGED <<run, checkpoint, modelCalls, lost, handle, answering, cleaned>>

(* cleanup() of any client of the run, or of the timer of stream().        *)
Cleanup ==
  /\ status # "none" /\ ~cleaned
  /\ closed' = TRUE /\ cleaned' = TRUE
  /\ UNCHANGED <<run, checkpoint, modelCalls, lost, status, result, waiting, answering, unread, observer>>

RNext ==
  \/ Stream \/ Recover \/ Observe \/ ObserverReads \/ Cleanup
  \/ \E d \in Drives : Drive(d) \/ Consume(d)
  \/ \E a \in Answerers : Answer(a)
RSpec == RInit /\ [][RNext]_dvars

(* The loop and its consumer go on by themselves, tools end, and an answer *)
(* once given is carried out.  Nobody has to answer, observe or clean up.  *)
RFairSpec ==
  /\ RSpec
  /\ \A d \in Drives :
       WF_dvars(LoopStep(d) /\ UNCHANGED <<handle, answering, reading>>)
       /\ WF_dvars(ToolEnds(d) /\ UNCHANGED <<handle, answering, reading>>)
       /\ WF_dvars(Consume(d))
  /\ \A a \in Answerers : WF_dvars(MarkResolved(a) \/ ReplayApproved(a) \/ ReplayResumed(a))

-----------------------------------------------------------------------------
(* Properties.                                                             *)

(* The step budget of a run holds over all its drives: a resume goes on    *)
(* from the checkpoint of the suspension.  What exceeds it are steps whose *)
(* checkpoint could not be saved at a suspension.                          *)
BudgetAcrossResumes == modelCalls <= MaxSteps + lost

(* A tool that needs approval is started only in a drive that was begun by *)
(* an answer about that very call, at which an earlier drive had stopped;  *)
(* recoveries, resumes and later answers do not pass an approval on.       *)
GatedNeedsAnswer ==
  [][\A d \in Drives : \A c \in (run'[d].running \ run[d].running) \cap Gated :
       begunBy[d] = c /\ \E e \in Drives : e < d /\ run[e].call = c]_dvars

(* The suspension is stored before it is reported, and can be answered     *)
(* from then on until it is.                                               *)
SuspensionAnswerable ==
  /\ \A a \in Answerers : answer[a].phase = "idle"
  /\ \/ result = "suspended" /\ Used = {1}
     \/ status = "suspended" /\ Live = {}
  => pending # NoCall

(* A stream that ended has yielded every event of the run, the drives that *)
(* followed a suspension included, unless somebody cleaned up.             *)
StreamsComplete ==
  observer = "ended" /\ ~cleaned => ~unread

(* The promise that an answer returns is settled, or the run asks again.   *)
AnswersSettle ==
  \A d \in Drives : d \in waiting ~> d \notin waiting \/ status = "suspended"

(* A drive that begins with an answer, which may be an approval, starts    *)
(* the pending call before it asks the model for the first batch of calls. *)
PendingFirst ==
  [][\A d \in Drives :
       /\ begunBy[d] # NoCall /\ begunBy[d] \notin run[d].running
       /\ run[d].pc = "loop" /\ run[d].batch = {}
       => run'[d].steps = run[d].steps]_dvars
=============================================================================
