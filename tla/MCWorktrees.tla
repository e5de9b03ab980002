----------------------------- MODULE MCWorktrees -----------------------------
(***************************************************************************)
(* A small instance of Worktrees for TLC: two verifications, each of one    *)
(* task.                                                                    *)
(***************************************************************************)
EXTENDS Worktrees

MCPreds == [v \in Verifiers |-> IF v = "v1" THEN {"t1"} ELSE {"t2"}]
MCSlots == <<"s1", "s2">>
=============================================================================
