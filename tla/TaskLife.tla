------------------------------ MODULE TaskLife ------------------------------
(***************************************************************************)
(* What the rest of the engine may assume of task execution: how the       *)
(* status of tasks and the completion of nodes change, with no trace of    *)
(* attempts, executors, retry budgets or wake-ups.  TaskExecution          *)
(* implements it, and CycleEngine is built on its actions.                 *)
(***************************************************************************)
CONSTANTS
  Nodes,   \* all nodes that may exist
  Verify   \* the integration verification node

VARIABLES
  status,    \* tasks.status of the node's task
  complete,  \* the nodes whose lifecycle counts as complete
  begun,     \* the nodes workers of which may still report
  edges,     \* node_edges
  gate       \* plan_gates.current_status

lifeVars == <<status, complete, begun, edges, gate>>

Outcomes == {"succeeded", "failed", "failed_permanent", "failed_retryable"}
Settled  == {"succeeded", "failed", "failed_permanent"}
TaskStatuses == {"absent", "queued", "running"} \cup Outcomes

Before(n) == {p \in Nodes : <<p, n>> \in edges}
Waits(n)  == ~(Before(n) \subseteq complete)

LifeInit ==
  /\ status = [n \in Nodes |-> "absent"]
  /\ complete = {} /\ begun = {}

SetStatus(n, s) == status' = [status EXCEPT ![n] = s]

\* A task starts in the queue; it may start running if its node waits for none.
Create(n) ==
  /\ status[n] = "absent"
  /\ SetStatus(n, "queued") \/ (~Waits(n) /\ SetStatus(n, "running"))
  /\ UNCHANGED <<complete, begun, edges, gate>>

\* A queued task is set running, whatever its node waits for.
Dispatch(n) ==
  /\ status[n] = "queued"
  /\ SetStatus(n, "running")
  /\ complete' \in {complete, complete \ ({n} \cap {Verify})}
  /\ UNCHANGED <<begun, edges, gate>>

\* A late wake-up sets a task running that may have moved on since.
Wake(n) ==
  /\ status[n] # "absent" /\ ~Waits(n)
  /\ SetStatus(n, "running")
  /\ UNCHANGED <<complete, begun, edges, gate>>

\* Workers take up running tasks under an open gate.
Begin(S) ==
  /\ gate \in {"satisfied", "overridden"}
  /\ S # {} /\ \A n \in S : status[n] = "running" /\ ~Waits(n)
  /\ begun' = begun \cup S
  /\ UNCHANGED <<status, complete, edges, gate>>

\* Work ends without a report.
Leave(S) ==
  /\ begun' = begun \ S
  /\ UNCHANGED <<status, complete, edges, gate>>

\* A worker reports an outcome or a retry, even one that comes late, and goes on
\* or leaves.  Only the verification task just 'failed'.
Record(n, s) ==
  /\ n \in begun
  /\ s = "failed" => n = Verify
  /\ SetStatus(n, s)
  /\ complete' \in IF s = "succeeded" THEN {complete, complete \cup {n}} ELSE {complete}
  /\ begun' \in {begun, begun \ {n}}
  /\ UNCHANGED <<edges, gate>>

\* The verification node is marked after its task.
Mark ==
  /\ Verify \in begun
  /\ complete' = complete \cup {Verify}
  /\ begun' \in {begun, begun \ {Verify}}
  /\ UNCHANGED <<status, edges, gate>>

\* A request reports a running task as done, begun or not.
Report(n) ==
  /\ status[n] = "running"
  /\ SetStatus(n, "succeeded")
  /\ complete' = complete \cup {n}
  /\ UNCHANGED <<begun, edges, gate>>

\* A request queues the failed verification again.
Requeue ==
  /\ Verify \in Nodes /\ status[Verify] = "failed"
  /\ SetStatus(Verify, "queued")
  /\ complete' = complete \ {Verify}
  /\ UNCHANGED <<begun, edges, gate>>

\* Planning evaluates the gate.
Evaluate(verdict) ==
  /\ gate' = verdict
  /\ UNCHANGED <<status, complete, begun, edges>>

LifeNext ==
  \/ \E n \in Nodes : Create(n) \/ Dispatch(n) \/ Wake(n) \/ Report(n)
  \/ \E n \in Nodes, s \in Outcomes \cup {"running"} : Record(n, s)
  \/ \E S \in SUBSET Nodes : Begin(S) \/ Leave(S)
  \/ Mark \/ Requeue
  \/ \E verdict \in {"open", "satisfied"} : Evaluate(verdict)

LifeSpec == LifeInit /\ [][LifeNext]_lifeVars

=============================================================================
