------------------------- MODULE MCDurableExecutor -------------------------
(* The runs of DurableExecutor use the graphs of MCDagEngine.              *)
EXTENDS MCDagEngine, DurableExecutor

(* A router a, whose "no" branch meets the task b in d.                    *)
RouteJoinOut == [n \in Nodes |-> CASE n = a -> <<Edge(c, "yes"), Edge(d, "no")>>
                                   [] n = b -> <<Plain(d)>>
                                   [] OTHER -> <<>>]

(* The optional step of OptionalOut with its edges in the other order: a   *)
(* sweep from b reaches c before the edge to c is taken.                   *)
SweptOut == [n \in Nodes |-> CASE n = a -> <<Edge(b, "no"), Edge(c, "yes")>>
                               [] n = b -> <<Plain(c)>>
                               [] OTHER -> <<>>]

(* Two signal waits a and b for signals of the same name.                  *)
PairKind == [n \in Nodes |-> IF n \in {a, b} THEN "signal" ELSE "task"]
OneName == [n \in Nodes |-> a]
=============================================================================
