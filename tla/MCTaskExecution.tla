-------------------------- MODULE MCTaskExecution --------------------------
(***************************************************************************)
(* Small instances of TaskExecution for TLC.                               *)
(***************************************************************************)
EXTENDS TaskExecution, TLC

CONSTANTS a, b, v  \* nodes

\* A single task, before the verification node is created.
OneNode == {a}

\* a -> b, before the verification node is created.
TwoNodes == {a, b}
TwoDeps  == {<<a, b>>}

\* a -> v: one task and the verification node.
PairNodes == {a, v}
PairDeps  == {<<a, v>>}

Symmetry == Permutations(Executors)

=============================================================================
