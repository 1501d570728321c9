-------------------------- MODULE DurableExecutor --------------------------
(***************************************************************************)
(* DurableExecutor of src/graph/engine.ts: a DAGEngine whose events are    *)
(* appended to an EventStore, process crashes that lose everything else,   *)
(* and resume(), which replays the stored events into a new engine.        *)
(*                                                                         *)
(* An append is never awaited, so at any moment the store holds the events *)
(* emitted up to some point (SqliteEventStore inserts at once, a batching  *)
(* or remote store later), less the appends that failed.  A run that has   *)
(* returned may be resumed in the same process: unless LateLoads, the load *)
(* sees all it has appended, as it does in the stores of this repository   *)
(* but for a batch that BatchingEventStore has in flight (ConsistentRead). *)
(***************************************************************************)
EXTENDS DagEngine

CONSTANTS
  MaxCrashes,  \* bound on process crashes
  MaxResumes,  \* bound on resume() calls for a run that has returned
  MaxLost,     \* bound on appends that fail
  LateLoads    \* may the load of resume() miss appends that are under way?

ASSUME DurableAssumption ==
  MaxCrashes \in Nat /\ MaxResumes \in Nat /\ MaxLost \in Nat /\ LateLoads \in BOOLEAN

VARIABLES
  log,      \* the stored events of the execution, each with its sequence
  flushed,  \* how many of this engine's events have settled in the store
  base,     \* the sequence this engine started from
  up,       \* is the process alive?
  crashes, resumes, lost

storeVars == <<log, flushed, base, up, crashes, resumes, lost>>
dvars == <<vars, storeVars>>

Stored(seq, ev) == [seq |-> seq, type |-> ev.type, nodes |-> ev.nodes, out |-> ev.out]
Latest(S) == CHOOSE e \in S : \A f \in S : f.seq <= e.seq
LastSeqZero(S) == 0
LastSeq(S) == IF S = {} THEN 0 ELSE Latest(S).seq

-----------------------------------------------------------------------------
(* replayState over a set of stored events S.                              *)

NodeTypes == [nodeStarted |-> "running", nodeCompleted |-> "completed",
              nodeFailed |-> "failed", nodeSkipped |-> "skipped"]
ExecutionTypes == [executionStarted |-> "running", executionCompleted |-> "completed",
                   executionPaused |-> "paused", executionCancelled |-> "cancelled"]

Completions(S, n) == {e \in S : e.type = "nodeCompleted" /\ n \in e.nodes}

ReplayNode(S, n) ==
  LET evs == {e \in S : e.type \in DOMAIN NodeTypes /\ n \in e.nodes}
  IN  IF evs = {} THEN "pending" ELSE NodeTypes[Latest(evs).type]

ReplayNoResult(S, n) == NoResult
ReplayResult(S, n) ==
  IF Completions(S, n) = {} THEN NoResult ELSE Latest(Completions(S, n)).out

ReplayExecution(S) ==
  LET evs == {e \in S : e.type \in DOMAIN ExecutionTypes}
  IN  IF evs = {} THEN "created" ELSE ExecutionTypes[Latest(evs).type]

(* resume() puts nodes that were running, and never completed, back to     *)
(* PENDING.  Replay knows no RETRYING, WAITING or READY.                   *)
ResumeAfresh(S, n) == "pending"
ResumeNode(S, n) ==
  IF ReplayNode(S, n) = "running" /\ Completions(S, n) = {}
  THEN "pending" ELSE ReplayNode(S, n)

(* The replayed active nodes are dropped.                                  *)
ResumeReplayedActive == {n \in Nodes : ReplayNode(log, n) = "running"}
ResumeActive == {}

-----------------------------------------------------------------------------

DInit ==
  /\ Init
  /\ log = {} /\ flushed = 0 /\ base = 0
  /\ up = TRUE /\ crashes = 0 /\ resumes = 0 /\ lost = 0

EngineStep == up /\ Next /\ UNCHANGED storeVars

(* The next append settles: stored, or failed and reported to              *)
(* onPersistenceError, which changes nothing in the engine.                *)
AppendSettles ==
  /\ up /\ flushed < Len(events)
  /\ flushed' = flushed + 1
  /\ \/ /\ log' = log \cup {Stored(base + flushed + 1, events[flushed + 1])}
        /\ UNCHANGED lost
     \/ /\ lost < MaxLost /\ lost' = lost + 1
        /\ UNCHANGED log
  /\ UNCHANGED <<vars, base, up, crashes, resumes>>

(* The process dies with everything but the store.                         *)
Crash ==
  /\ up /\ loop[1] # "idle" /\ crashes < MaxCrashes
  /\ crashes' = crashes + 1
  /\ up' = FALSE
  /\ status' = [n \in Nodes |-> "pending"]
  /\ attempts' = [n \in Nodes |-> 0]
  /\ results' = [n \in Nodes |-> NoResult]
  /\ xstatus' = "created"
  /\ active' = {} /\ cand' = {} /\ signals' = {}
  /\ aborted' = FALSE
  /\ loop' = [l \in Loops |-> "idle"]
  /\ exec' = [l \in Loops |-> [n \in Nodes |-> "none"]]
  /\ attempt' = [l \in Loops |-> [n \in Nodes |-> 0]]
  /\ events' = <<>> /\ flushed' = 0
  /\ UNCHANGED <<log, base, calls, resumes, lost>>

(* resume(executionId): a run whose replay is terminal is returned as it   *)
(* is; any other one is given to a new engine, as a checkpoint.            *)
ResumeRun ==
  LET reached == ReplayExecution(log)
      final   == reached \in {"completed", "failed", "cancelled"}
  IN  /\ log # {}
      /\ status' = [n \in Nodes |-> IF final THEN ReplayNode(log, n) ELSE ResumeNode(log, n)]
      /\ attempts' = [n \in Nodes |-> 0]
      /\ results' = [n \in Nodes |-> ReplayResult(log, n)]
      /\ xstatus' = IF final THEN reached ELSE "running"
      /\ active' = ResumeActive /\ signals' = {} /\ aborted' = FALSE
      /\ cand' = IF final THEN {}
                 ELSE {n \in Open(status') :
                         Preds(n) = {} \/ \E p \in Preds(n) : status'[p] = "completed"}
      /\ loop' = [l \in Loops |-> IF final THEN "done"
                                  ELSE IF l = 1 THEN "top" ELSE "idle"]
      /\ exec' = [l \in Loops |-> [n \in Nodes |-> "none"]]
      /\ attempt' = [l \in Loops |-> [n \in Nodes |-> 0]]
      /\ events' = IF final THEN <<>> ELSE <<Lifecycle("executionStarted")>>
      /\ flushed' = 0 /\ base' = LastSeq(log)
      /\ UNCHANGED <<calls, crashes, lost>>

ResumeAfterCrash == ~up /\ up' = TRUE /\ ResumeRun /\ UNCHANGED <<log, resumes>>

(* Everything the execution has emitted, stored or still on its way.       *)
Emitted ==
  log \cup {Stored(base + i, events[i]) : i \in (flushed + 1) .. Len(events)}

(* The appends that a late load has missed are stored behind it.           *)
ResumeReturned ==
  /\ up /\ Ended /\ loop[1] = "done"
  /\ LateLoads \/ flushed = Len(events)
  /\ resumes < MaxResumes /\ resumes' = resumes + 1
  /\ ResumeRun /\ log' = Emitted /\ UNCHANGED up

DNext ==
  EngineStep \/ AppendSettles \/ Crash \/ ResumeAfterCrash \/ ResumeReturned

DSpec == DInit /\ [][DNext]_dvars

(* Somebody resumes a crashed execution; the engine runs on.               *)
DFairSpec ==
  /\ DSpec
  /\ WF_dvars(up /\ (\E l \in Loops : Execute(l)) /\ UNCHANGED storeVars)
  /\ \A l \in Loops :
       /\ WF_dvars(up /\ LoopStep(l) /\ UNCHANGED storeVars)
       /\ \A n \in Nodes : WF_dvars(up /\ NodeStep(l, n) /\ UNCHANGED storeVars)
  /\ WF_dvars(AppendSettles)
  /\ WF_dvars(ResumeAfterCrash)

-----------------------------------------------------------------------------
(* Properties.                                                             *)

DTypeOK ==
  /\ TypeOK
  /\ log \subseteq [seq : Nat \ {0}, type : EventType, nodes : SUBSET Nodes,
                    out : Labels \cup {NoResult}]
  /\ flushed \in 0 .. Len(events) /\ base \in Nat /\ up \in BOOLEAN
  /\ crashes \in 0 .. MaxCrashes /\ resumes \in 0 .. MaxResumes /\ lost \in 0 .. MaxLost

(* Sequence numbers stay unique within an execution, although the engine   *)
(* after a crash numbers its events from the last one that was stored.     *)
SequenceUnique == \A e, f \in log : e.seq = f.seq => e = f

(* However often the process crashes and whatever appends fail, the store  *)
(* never holds two completions of a node.                                  *)
CompletedOnceInLog == \A n \in Nodes : Cardinality(Completions(log, n)) <= 1

(* The log of one execution stays sound through crashes and lost appends.  *)
LogSound == DTypeOK /\ SequenceUnique /\ CompletedOnceInLog

(* Dependencies hold through crashes as well, unless an event was lost.    *)
OrderKept == lost = 0 => DependencyOrder

(* A node with a stored NODE_COMPLETED is not executed again.              *)
NoReexecution ==
  [][\A n \in Nodes : Starts(n) => Completions(log, n) = {}]_dvars

Settled == {"completed", "failed", "skipped"}

(* Replaying the events of a run gives back the state of the live engine:  *)
(* the same settled nodes with the same results, the others to be run.     *)
ReplayAgrees ==
  up /\ lost = 0 =>
    \A n \in Nodes :
      /\ status[n] \in Settled => ResumeNode(Emitted, n) = status[n]
      /\ status[n] \notin Settled => ResumeNode(Emitted, n) = "pending"
      /\ ReplayResult(Emitted, n) = results[n]

(* The target a router decided for runs, whatever crashes lie between the  *)
(* decision and the end, unless an event of the run was lost.              *)
DecisionKept == lost = 0 => RouteTaken

(* A run that returned with a terminal status is returned by resume() with *)
(* that status, and nothing is run again.                                  *)
TerminalIsFinal ==
  [][up /\ up' /\ Ended /\ loop[1] = "done"
     /\ xstatus \in {"completed", "failed", "cancelled"} => loop'[1] # "top"]_dvars

(* A crashed execution with a stored event is finished by some resume().   *)
CrashRecovered == (~up /\ log # {}) ~> (up /\ Ended)
=============================================================================
