--------------------------- MODULE MCCycleEngine ---------------------------
(***************************************************************************)
(* Small instances of CycleEngine for TLC.                                 *)
(***************************************************************************)
EXTENDS CycleEngine, TLC

CONSTANTS a, b, d, v  \* two nodes of the plan, one that comes later, verification

\* One node of the plan and the verification.
OnePlan  == {a}
OneNodes == {a, v}

\* One node that decompose_plan makes, one of a milestone, and the verification.
TwoPlan  == {a, b}
TwoNodes == {a, b, v}

\* One planned node, one that a request adds, and the verification.
LateNodes == {a, d, v}

=============================================================================
