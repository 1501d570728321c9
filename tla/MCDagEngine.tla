---------------------------- MODULE MCDagEngine ----------------------------
(***************************************************************************)
(* Graphs for the runs of DagEngine: one definition of Kind, Out, Returns  *)
(* and MaxRetries per graph, over the nodes a .. d, lone.                  *)
(***************************************************************************)
EXTENDS DagEngine

CONSTANTS a, b, c, d, lone

Edge(to, label) == [to |-> to, label |-> label, cond |-> FALSE, guard |-> TRUE]
Case(to, label) == [Edge(to, label) EXCEPT !.cond = TRUE]
Plain(to) == Edge(to, "none")
Refused(to) == [Plain(to) EXCEPT !.guard = FALSE]

AnyLabels == {"none", "yes", "no", "__default__"}

Tasks == [n \in Nodes |-> "task"]
OneRouter == [n \in Nodes |-> IF n = a THEN "router" ELSE "task"]
Quiet == [n \in Nodes |-> {"none"}]
Decides == [n \in Nodes |-> IF n = a THEN {"yes", "no"} ELSE {"none"}]

DecidesNo == [n \in Nodes |-> IF n = a THEN {"no"} ELSE {"none"}]

NoRetry == [n \in Nodes |-> 0]
LeafRetry == [n \in Nodes |-> IF n \in {b, d} THEN 2 ELSE 0]
SomeRetry == [n \in Nodes |-> IF n \in {a, c} THEN 2 ELSE 0]

(* a and b meet in c, d stands alone.                                      *)
JoinOut == [n \in Nodes |-> IF n \in {a, b} THEN <<Plain(c)>> ELSE <<>>]

(* A router a: "yes" leads to b, "no" to c and then to d.                  *)
BranchOut == [n \in Nodes |-> CASE n = a -> <<Edge(b, "yes"), Edge(c, "no")>>
                                [] n = c -> <<Plain(d)>>
                                [] OTHER -> <<>>]

(* The two branches of the router a meet again in d.                       *)
MergeOut == [n \in Nodes |-> CASE n = a -> <<Edge(b, "yes"), Edge(c, "no")>>
                               [] n \in {b, c} -> <<Plain(d)>>
                               [] OTHER -> <<>>]

(* An optional step: "yes" leads to c directly, "no" to b and then to c.   *)
OptionalOut == [n \in Nodes |-> CASE n = a -> <<Edge(c, "yes"), Edge(b, "no")>>
                                  [] n = b -> <<Plain(c)>>
                                  [] OTHER -> <<>>]

(* addConditionalEdges(a, {yes: b}, default c), and d behind b.            *)
CondOut == [n \in Nodes |-> CASE n = a -> <<Case(b, "yes"), Edge(c, "__default__")>>
                              [] n = b -> <<Plain(d)>>
                              [] OTHER -> <<>>]

(* addConditionalEdges(a, {yes: b, no: c}), and d behind b.                *)
SwitchOut == [n \in Nodes |-> CASE n = a -> <<Case(b, "yes"), Case(c, "no")>>
                                [] n = b -> <<Plain(d)>>
                                [] OTHER -> <<>>]

(* Edges whose condition holds towards b and not towards c.                *)
GuardOut == [n \in Nodes |-> IF n = a THEN <<Plain(b), Refused(c)>> ELSE <<>>]

(* A task a beside a signal wait b, which a timer c follows.               *)
WaitKind == [n \in Nodes |-> CASE n = b -> "signal" [] n = c -> "timer"
                               [] OTHER -> "task"]
WaitOut == [n \in Nodes |-> IF n = b THEN <<Plain(c)>> ELSE <<>>]

OwnNames == [n \in Nodes |-> n]

(* A task a and a signal wait b before a human approval c.                 *)
MixedKind == [n \in Nodes |-> CASE n = b -> "signal" [] n = c -> "human"
                                [] OTHER -> "task"]

(* A router a, whose "no" branch goes on with conditional edges.           *)
DecideTwice == [n \in Nodes |-> IF n \in {a, c} THEN {"yes", "no"} ELSE {"none"}]
StepsOut == [n \in Nodes |-> CASE n = a -> <<Edge(b, "yes"), Edge(c, "no")>>
                               [] n = c -> <<Case(d, "yes")>>
                               [] OTHER -> <<>>]
=============================================================================
