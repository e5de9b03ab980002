----------------------------- MODULE ControlPlane -----------------------------
(***************************************************************************)
(* The command executor of the control plane (packages/control-plane).      *)
(* Every command runs in a transaction of its caller: it looks for its      *)
(* idempotency key, reads what it depends on, writes, and journals an       *)
(* event.  Callers run at the same time, deliver a command again, and mix   *)
(* with the services, which move the same task.                             *)
(*                                                                          *)
(* A command is two steps, Begin (the reads) and Commit (the writes, unless *)
(* a constraint of the migrations refuses one); READ COMMITTED lets other   *)
(* transactions commit in between.  The rows a command names exist.         *)
(***************************************************************************)
EXTENDS Naturals, FiniteSets

CONSTANTS Commands,     \* commands callers may send, [op, key]
          Callers,      \* transactions at once
          Budget,       \* tasks.retry_budget
          MaxAttempts   \* bound of the services: attempts of the task


VARIABLES task,      \* one task, [status, attempts]
          node,      \* the lifecycle of its node
          journal,   \* <<aggregate kind, aggregate, key>>
          inflight,  \* caller -> the command between its reads and its writes
          applied    \* command -> how many callers were told it was applied

cpVars == <<task, node, journal, inflight, applied>>

-----------------------------------------------------------------------------
(* What the tables allow, and what the commands write *)

Allows ==
  [status    |-> {"queued", "running", "succeeded", "failed", "failed_permanent",
                  "failed_retryable", "review_needed", "cancelled", "timed_out", "archived"},
   lifecycle |-> {"proposed", "queued", "running", "review_needed", "certification_needed",
                  "admitted", "completed", "done", "blocked", "superseded"},
   planning  |-> {"draft", "elaborating", "validated", "executing", "completed", "abandoned"},
   cycle     |-> {"cycle_id", "loop_id", "phase", "policy_snapshot"},
   event     |-> {"objective_created", "loop_created", "cycle_created", "milestone_bridged",
                  "task_created", "task_status_changed", "task_completed", "task_failed",
                  "task_retry_scheduled"}]

\* Per operation: its aggregate kind, and what it writes into constrained columns.
Op(kind, writes) == [kind |-> kind, writes |-> writes]

ObjectiveCommand == Op("objective", {<<"planning", "planning">>, <<"event", "objective_created">>})
LoopCommand == Op("loop", {<<"event", "loop_created">>})
CycleCommand == Op("cycle", {<<"cycle", "cycle_index">>, <<"event", "cycle_created">>})
NodeCommand == Op("node", {<<"lifecycle", "proposed">>, <<"event", "milestone_bridged">>})
TaskCommand == Op("task", {<<"status", "queued">>, <<"event", "task_created">>})
DispatchCommand == Op("dispatch", {<<"status", "running">>, <<"event", "dispatch_round_completed">>})
CompletionCommand ==
  Op("task", {<<"status", "succeeded">>, <<"lifecycle", "completed">>, <<"event", "task_completed">>})
CancelCommand ==
  Op("task", {<<"status", "cancelled">>, <<"lifecycle", "failed">>, <<"event", "task_completed">>})
FailureCommand ==
  Op("task", {<<"status", "failed">>, <<"lifecycle", "failed">>, <<"event", "task_failed">>})
TimeoutCommand == Op("task", {<<"status", "failed">>, <<"event", "task_timed_out">>})
RetryCommand ==
  Op("task", {<<"status", "queued">>, <<"lifecycle", "queued">>, <<"event", "task_retry_scheduled">>})
NextCycleCommand == Op("cycle", {<<"cycle", "cycle_index">>, <<"event", "cycle_created">>})

Ops ==
  [CreateObjective |-> ObjectiveCommand, CreateLoop |-> LoopCommand, CreateCycle |-> CycleCommand,
   CreateNode |-> NodeCommand, CreateTask |-> TaskCommand, Dispatch |-> DispatchCommand,
   Complete |-> CompletionCommand, Cancel |-> CancelCommand, Fail |-> FailureCommand,
   Timeout |-> TimeoutCommand, Retry |-> RetryCommand, NextCycle |-> NextCycleCommand]

ASSUME ControlAssumption ==
  /\ {Budget, MaxAttempts} \subseteq Nat
  /\ \A c \in Commands : c.op \in DOMAIN Ops
  /\ IsFiniteSet(Callers) /\ "task" \notin Callers

Nothing == [op |-> "none", key |-> "none"]

Kind(c) == Ops[c.op].kind
\* Mistake: the event's constraint is not looked at, its row dropped.
LawfulRows(c) == \A w \in Ops[c.op].writes : w[1] # "event" => w[2] \in Allows[w[1]]

\* Mistake: the column's constraint lacks the lifecycle.
LawfulButLifecycle(c) == \A w \in Ops[c.op].writes : w[1] # "lifecycle" => w[2] \in Allows[w[1]]

Lawful(c) == \A w \in Ops[c.op].writes : w[2] \in Allows[w[1]]

Creating == {"CreateObjective", "CreateLoop", "CreateCycle", "CreateNode", "CreateTask", "NextCycle"}

\* A creating command journals under its new row, a dispatch round under a fresh
\* id, a command about a task under the task.
Aggregate(c, q) == IF c.op \in Creating \cup {"Dispatch"} THEN q ELSE "task"

-----------------------------------------------------------------------------
(* The reading half *)

Journalled(c) == \E row \in journal : row[1] = Kind(c) /\ row[3] = c.key

Terminal == {"succeeded", "failed", "cancelled"}

\* Mistake: the attempt that failed is not counted.
RetryAllowedOneMore == task.status = "failed" /\ task.attempts <= Budget

RetryAllowed == task.status = "failed" /\ task.attempts < Budget

Allowed(c) ==
  CASE c.op \in {"Complete", "Cancel"} -> task.status \notin Terminal
    [] c.op = "Timeout" -> task.status = "running"
    [] c.op = "Retry" -> RetryAllowed
    [] OTHER -> TRUE

\* A command that is not begun is skipped or rejected, and changes nothing.
Begin(c, q) ==
  /\ inflight[q] = Nothing
  /\ ~Journalled(c) /\ Allowed(c)
  /\ inflight' = [inflight EXCEPT ![q] = c]
  /\ UNCHANGED <<task, node, journal, applied>>

-----------------------------------------------------------------------------
(* The writing half *)

\* Mistake: a key is unique for one aggregate only.
DuplicateOfAggregate(c, q) == FALSE

\* The unique index on kind and key, which the event's ON CONFLICT does not name;
\* a row of the same aggregate is the conflict it names, and passes over.
Duplicate(c, q) == \E row \in journal : /\ row[1] = Kind(c) /\ row[3] = c.key
                                        /\ row[2] # Aggregate(c, q)

Written(c, column, old) ==
  LET values == {w[2] : w \in {x \in Ops[c.op].writes : x[1] = column}} IN
  IF values = {} \/ c.op \in Creating THEN old ELSE CHOOSE v \in values : TRUE

\* No update looks at the status again.  Whatever fails, the caller gets an error
\* and the transaction rolls back.
Commit(q) ==
  LET c == inflight[q] IN
  /\ c # Nothing
  /\ inflight' = [inflight EXCEPT ![q] = Nothing]
  /\ IF ~Lawful(c) \/ Duplicate(c, q)
     THEN UNCHANGED <<task, node, journal, applied>>
     ELSE /\ task' = [task EXCEPT !.status = Written(c, "status", @)]
          /\ node' = Written(c, "lifecycle", node)
          /\ journal' = journal \cup {<<Kind(c), Aggregate(c, q), c.key>>}
          /\ applied' = [applied EXCEPT ![c] = @ + 1]

-----------------------------------------------------------------------------
(* The services, on the same rows (in full in TaskExecution) *)

ServiceDispatch ==
  /\ task.status = "queued" /\ task.attempts < MaxAttempts
  /\ task' = [status |-> "running", attempts |-> task.attempts + 1]
  /\ node' = IF node \in {"proposed", "queued"} THEN "running" ELSE node
  /\ UNCHANGED <<journal, inflight, applied>>

\* An integration verifier ends.
ServiceVerifies(ok) ==
  /\ task.status = "running"
  /\ task' = [task EXCEPT !.status = IF ok THEN "succeeded" ELSE "failed"]
  /\ node' = IF ok THEN "completed" ELSE node
  /\ UNCHANGED <<journal, inflight, applied>>

CPInit ==
  /\ task = [status |-> "queued", attempts |-> 0] /\ node = "proposed"
  /\ journal = {}
  /\ inflight = [q \in Callers |-> Nothing]
  /\ applied = [c \in Commands |-> 0]

CPNext ==
  \/ \E c \in Commands, q \in Callers : Begin(c, q)
  \/ \E q \in Callers : Commit(q)
  \/ ServiceDispatch
  \/ \E ok \in BOOLEAN : ServiceVerifies(ok)

CPSpec == CPInit /\ [][CPNext]_cpVars

-----------------------------------------------------------------------------
(* Properties *)

CPTypeOK ==
  /\ task.status \in Allows.status /\ task.attempts \in 0 .. MaxAttempts
  /\ node \in Allows.lifecycle
  /\ \A q \in Callers : inflight[q] \in Commands \cup {Nothing}

\* However often and concurrently it is delivered, a creating command makes one
\* row; a command about a task is applied again only by those who had begun
\* before the first of them committed.
AppliedAgainOnlyByOverlap ==
  \A c \in Commands :
    applied[c] <= IF c.op \in Creating THEN 1 ELSE Cardinality(Callers)

\* Nothing happens by halves: what was applied is in the journal, and what the
\* tables or the journal refuse is never applied (executor.rs creates no cycle and
\* no objective, and dispatches, fails or times out no task).
AppliedIsJournalled ==
  \A c \in Commands : applied[c] > 0 =>
    /\ Journalled(c)
    /\ c.op \in {"CreateLoop", "CreateNode", "CreateTask", "Complete", "Retry"}

\* Retries granted at the same time overrun the budget by one attempt each, no
\* more (execute_retry_scheduling counts the attempts before it writes).  The first
\* attempt is no retry.
RetriesNearBudget ==
  task.attempts > 1 => task.attempts <= Budget + Cardinality(Callers) - 1

\* Commands delivered repeatedly and concurrently: applied once or by those who had
\* begun before, never by halves, and retried within a budget that overlapping
\* requests can overrun by one attempt each.
CommandsInv ==
  /\ CPTypeOK
  /\ AppliedAgainOnlyByOverlap
  /\ AppliedIsJournalled
  /\ RetriesNearBudget
=============================================================================
