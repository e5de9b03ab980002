----------------------------- MODULE MCPlanGate -----------------------------
(***************************************************************************)
(* Small instances of PlanGate for TLC.                                    *)
(***************************************************************************)
EXTENDS PlanGate, TLC

CONSTANTS a, b  \* nodes

\* A draft without risks, and one with neither milestones nor an architecture.
SomeDrafts == {Artifacts \ {"risks"}, {"criteria", "invariants"}}

\* What an agent may make of two tasks: a chain, or each depends on the other.
TwoGraphs == {{<<a, b>>}, {<<a, b>>, <<b, a>>}}
Requested == {<<b, a>>, <<a, b>>, <<a, a>>}

\* Up to the limits of 3 and 5 and beyond.
SomeAsks == {[blocking |-> 1, other |-> 0], [blocking |-> 3, other |-> 0],
             [blocking |-> 0, other |-> 5]}

=============================================================================
