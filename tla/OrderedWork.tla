---------------------------- MODULE OrderedWork ----------------------------
(***************************************************************************)
(* What executing an objective's tasks promises: a node is worked on only  *)
(* once every node it depends on is done, and what others depend on stays  *)
(* done.  Who works, how often, and how results arrive is left open.       *)
(***************************************************************************)
CONSTANTS Nodes, Deps

VARIABLES working, done

vars == <<working, done>>

Init == working = {} /\ done = {}

Predecessors(n) == {p \in Nodes : <<p, n>> \in Deps}
Successors(n)   == {s \in Nodes : <<n, s>> \in Deps}

\* Work starts on some nodes whose predecessors are all done.
Start(S) ==
  /\ S # {} /\ S \subseteq Nodes
  /\ \A n \in S : Predecessors(n) \subseteq done
  /\ working' = working \cup S
  /\ done' = done

\* Work ends without a result, on one node or (a crash) on many.
Leave(S) ==
  /\ working' = working \ S
  /\ done' = done

\* A node is reported done, by the worker that leaves it or by a request.
Report(n) ==
  /\ done' = done \cup {n}
  /\ working' \in {working, working \ {n}}

\* Only a node nothing depends on may be done again.
Reopen(n) ==
  /\ Successors(n) = {}
  /\ done' = done \ {n}
  /\ working' = working

Next == \/ \E S \in SUBSET Nodes : Start(S) \/ Leave(S)
        \/ \E n \in Nodes : Report(n) \/ Reopen(n)

Spec == Init /\ [][Next]_vars

\* Work in progress never loses the results it builds on.
Built == \A n \in working : Predecessors(n) \subseteq done

=============================================================================
