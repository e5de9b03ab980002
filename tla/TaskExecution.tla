--------------------------- MODULE TaskExecution ---------------------------
(***************************************************************************)
(* The life of the tasks of one objective: the rows of nodes, tasks and    *)
(* task_attempts, and the three processes that change them with no lock    *)
(* held across statements:                                                 *)
(*   - the loop runner (services/loop-runner/src/tick.rs): creates one     *)
(*     task per node and dispatches queued tasks, one tick after another;  *)
(*   - worker dispatch (services/worker-dispatch/src/main.rs): a tick      *)
(*     selects ready tasks and spawns one tokio task ("executor") each;    *)
(*     executors interleave at every SQL statement or transaction;         *)
(*   - the API (orchestration-api/src/routes/task_lifecycle.rs): requests  *)
(*     that report results or patch a task.                                *)
(* A node has one task, so both are named by the node.  One transaction,   *)
(* or one autocommitted statement, is one action.                          *)
(***************************************************************************)
EXTENDS Integers, Sequences, FiniteSets

CONSTANTS
  Nodes,        \* nodes of the objective
  Verify,       \* the "Integration Verification" node (lane 'integration'); NoNode
                \* before it is created
  Deps,         \* node_edges of kind depends_on/blocks: <<from, to>>
  Executors,    \* bound: activities in flight at once (spawned or API)
  NoNode,       \* not a node
  MaxAgents,    \* policy /global/max_active_agents
  RetryBudget,  \* tasks.retry_budget at creation
  BatchLimit,   \* LIMIT of dispatch_queued_tasks (10)
  MaxAttempts,  \* bound: attempts of a task
  MaxApi,       \* bound: API requests
  MaxCrashes,   \* bound: process restarts and failed activities
  Replanning    \* whether a later cycle may evaluate the plan gate again

ASSUME ConstantsAssumption ==
  /\ Verify \in Nodes \cup {NoNode}
  /\ NoNode \notin Nodes
  /\ IsFiniteSet(Nodes) /\ IsFiniteSet(Executors)
  /\ Deps \subseteq Nodes \X Nodes
  /\ MaxAgents \in Nat /\ RetryBudget \in Nat /\ BatchLimit \in Nat
  /\ MaxAttempts \in Nat /\ MaxApi \in Nat /\ MaxCrashes \in Nat
  /\ Replanning \in BOOLEAN

\* decompose_and_create_tasks makes every other node a predecessor of the
\* verification node and nothing a successor of it.
ASSUME VerifyIsSink == \A d \in Deps : d[1] # Verify

VARIABLES
  status,     \* tasks.status; "absent" before the row is inserted
  budget,     \* tasks.retry_budget
  lifecycle,  \* nodes.lifecycle
  attempts,   \* task_attempts of a task, by attempt_index
  created,    \* tasks.created_at, as the rank of the insertion; 0 before it
  journal,    \* tasks whose key dispatch-<task> is in event_journal
  gate,       \* plan_gates.current_status of the objective's plan
  runner,     \* the loop runner's local state
  slots,      \* worker dispatch: available_slots read by this tick, or -1
  exec,       \* the activities in flight
  apiCalls,   \* counts API requests, for MaxApi
  crashes     \* counts restarts and failed activities, for MaxCrashes

db      == <<status, budget, lifecycle, attempts, created, journal, gate>>
local   == <<runner, slots, exec>>
bounds  == <<apiCalls, crashes>>
vars    == <<db, local, bounds>>

Statuses   == {"absent", "queued", "running", "succeeded", "failed",
               "failed_permanent", "failed_retryable"}
Lifecycles == {"proposed", "queued", "running", "completed", "done"}
Owners     == {"loop-runner", "worker-dispatch"}
AttemptStatuses == {"running", "succeeded", "failed", "cancelled",
                    "failed_permanent", "failed_retryable"}
Attempt    == [owner : Owners, status : AttemptStatuses]

\* Where an activity stands between two of its statements.
WorkerPcs == {"guard", "workspace", "index", "insert", "invoke", "budget",
              "retry", "exhaust", "verify", "verified"}
WakingPcs == {"unblock", "wake", "relabel"}
Activity  == [pc : {"free"} \cup WorkerPcs \cup WakingPcs,
              node : Nodes \cup {NoNode}, idx : Nat, todo : SUBSET Nodes,
              kind : {"worker", "api"}]
Free      == [pc |-> "free", node |-> NoNode, idx |-> 0, todo |-> {},
              kind |-> "worker"]
IdleRunner == [pc |-> "idle", node |-> NoNode, unmet |-> FALSE, batch |-> {}]

-----------------------------------------------------------------------------
(* What the queries select.                                                *)

Preds(n)    == {p \in Nodes : <<p, n>> \in Deps}
Succs(n)    == {s \in Nodes : <<n, s>> \in Deps}
Complete(n) == lifecycle[n] \in {"completed", "done"}
Unmet(n)    == \E p \in Preds(n) : ~Complete(p)

LiveWorkerAttempts(n) ==
  {i \in DOMAIN attempts[n] : /\ attempts[n][i].status = "running"
                              /\ attempts[n][i].owner = "worker-dispatch"}

RunningCount == Cardinality({r \in Nodes \X (1..MaxAttempts) :
                               r[2] \in LiveWorkerAttempts(r[1])})

\* Mistake: the readiness query forgets the predecessors.
ReadyWithoutDeps(n) == /\ status[n] = "running"
                       /\ LiveWorkerAttempts(n) = {}
                       /\ gate \in {"satisfied", "overridden"}

Ready(n) == /\ status[n] = "running"
            /\ LiveWorkerAttempts(n) = {}
            /\ ~Unmet(n)
            /\ gate \in {"satisfied", "overridden"}

Tasks       == {n \in Nodes : status[n] # "absent"}
Started(o)  == [owner |-> o, status |-> "running"]

Terminal == {"succeeded", "failed_permanent"}

Init ==
  /\ status = [n \in Nodes |-> "absent"]
  /\ budget = [n \in Nodes |-> 0]
  /\ lifecycle = [n \in Nodes |-> "proposed"]
  /\ attempts = [n \in Nodes |-> <<>>]
  /\ created = [n \in Nodes |-> 0]
  /\ journal = {}
  /\ gate \in {"open", "satisfied"}
  /\ runner = IdleRunner
  /\ slots = -1
  /\ exec = [e \in Executors |-> Free]
  /\ apiCalls = 0
  /\ crashes = 0

-----------------------------------------------------------------------------
(* Loop runner.                                                            *)

\* create_tasks_for_objective, outside the transaction: count unmet deps.  The
\* verification node is created once the nodes that precede it have tasks.
CheckDeps(n) ==
  /\ runner.pc = "idle"
  /\ status[n] = "absent" /\ lifecycle[n] \in {"proposed", "queued"}
  /\ n = Verify => \A p \in Preds(n) : status[p] # "absent"
  /\ runner' = [IdleRunner EXCEPT !.pc = "create", !.node = n,
                                  !.unmet = Unmet(n)]
  /\ UNCHANGED <<db, slots, exec, bounds>>

\* ... and the transaction: the task row and the node's lifecycle, both from
\* the count read before.
CreateTask ==
  /\ runner.pc = "create"
  /\ LET n == runner.node
         s == IF runner.unmet THEN "queued" ELSE "running"
     IN /\ status' = [status EXCEPT ![n] = s]
        /\ budget' = [budget EXCEPT ![n] = RetryBudget]
        /\ lifecycle' = IF lifecycle[n] = "proposed"
                        THEN [lifecycle EXCEPT ![n] = s] ELSE lifecycle
        /\ created' = [created EXCEPT ![n] = Cardinality(Tasks) + 1]
  /\ runner' = IdleRunner
  /\ UNCHANGED <<attempts, journal, gate, slots, exec, bounds>>

\* dispatch_queued_tasks: the oldest BatchLimit queued tasks, whatever they
\* depend on.
SelectQueued ==
  /\ runner.pc = "idle"
  /\ LET queued == {n \in Nodes : status[n] = "queued"} IN
     \E B \in SUBSET queued \ {{}} :
       /\ Cardinality(B) <= BatchLimit
       /\ B = queued \/ Cardinality(B) = BatchLimit
       /\ \A m \in B, k \in queued \ B : created[m] < created[k]
       /\ runner' = [IdleRunner EXCEPT !.pc = "dispatch", !.batch = B]
  /\ UNCHANGED <<db, slots, exec, bounds>>

\* Mistake: a task with unmet dependencies is passed over.
DispatchMetOnly ==
  /\ runner.pc = "dispatch"
  /\ \E n \in runner.batch :
     /\ runner' = IF runner.batch = {n} THEN IdleRunner
                  ELSE [runner EXCEPT !.batch = @ \ {n}]
     /\ IF status[n] # "queued" \/ Unmet(n)
        THEN UNCHANGED db
        ELSE /\ status' = [status EXCEPT ![n] = "running"]
             /\ UNCHANGED <<budget, lifecycle, attempts, created, journal, gate>>
  /\ UNCHANGED <<slots, exec, bounds>>

\* One iteration: skipped if the key dispatch-<task> exists or the guarded
\* UPDATE matches no row, else the task runs, with an attempt of the runner's.
DispatchQueued ==
  /\ runner.pc = "dispatch"
  /\ \E n \in runner.batch :
     /\ \A m \in runner.batch : created[n] <= created[m]
     /\ runner' = IF runner.batch = {n} THEN IdleRunner
                  ELSE [runner EXCEPT !.batch = @ \ {n}]
     /\ IF n \in journal \/ status[n] # "queued"
        THEN UNCHANGED db
        ELSE /\ Len(attempts[n]) < MaxAttempts
             /\ status' = [status EXCEPT ![n] = "running"]
             /\ attempts' = [attempts EXCEPT ![n] = Append(@, Started("loop-runner"))]
             /\ lifecycle' = IF lifecycle[n] \in {"proposed", "queued"}
                             THEN [lifecycle EXCEPT ![n] = "running"]
                             ELSE lifecycle
             /\ journal' = journal \cup {n}
             /\ UNCHANGED <<budget, created, gate>>
  /\ UNCHANGED <<slots, exec, bounds>>

\* elaborate_plan writes the gate again when the loop's next cycle plans; no
\* code writes 'overridden'.
EvaluateGate ==
  /\ Replanning
  /\ runner.pc = "idle"
  /\ gate' \in {"open", "satisfied"} \ {gate}
  /\ UNCHANGED <<status, budget, lifecycle, attempts, created, journal, local, bounds>>

-----------------------------------------------------------------------------
(* Worker dispatch: the tick.                                              *)

\* dispatch_tick, first query: attempts in flight against the policy's cap.
CountSlots ==
  /\ slots = -1
  /\ slots' = IF MaxAgents > RunningCount THEN MaxAgents - RunningCount ELSE 0
  /\ UNCHANGED <<db, runner, exec, bounds>>

\* dispatch_tick, second query: any subset of the ready tasks that fits (rows
\* locked by an API transaction, and tasks that overlap the files of running
\* ones, are left out) gets an executor each.  The row locks of the
\* autocommitted SELECT are gone when it returns.
Spawn(S) ==
  /\ slots # -1
  /\ S \subseteq {n \in Nodes : Ready(n)}
  /\ Cardinality(S) <= slots
  /\ \E by \in [S -> {e \in Executors : exec[e].pc = "free"}] :
       /\ \A m, n \in S : by[m] = by[n] => m = n
       /\ exec' = [e \in Executors |->
                     IF \E n \in S : by[n] = e
                     THEN [Free EXCEPT !.pc = "guard",
                                       !.node = CHOOSE n \in S : by[n] = e]
                     ELSE exec[e]]
  /\ slots' = -1
  /\ UNCHANGED <<db, runner, bounds>>

SpawnExecutors == \E S \in SUBSET Nodes : Spawn(S)

-----------------------------------------------------------------------------
(* Worker dispatch: an executor (execute_task), one statement at a time.   *)

At(e, pc)   == exec[e].pc = pc
Goto(e, pc) == exec' = [exec EXCEPT ![e].pc = pc]
Exit(e)     == exec' = [exec EXCEPT ![e] = Free]
NodeOf(e)   == exec[e].node
Otherwise   == UNCHANGED <<runner, slots, bounds>>

\* The terminal state guard; the verification node takes its own path.
Guard(e) ==
  /\ At(e, "guard")
  /\ IF status[NodeOf(e)] \in Terminal THEN Exit(e)
     ELSE Goto(e, IF NodeOf(e) = Verify THEN "verify" ELSE "workspace")
  /\ UNCHANGED db /\ Otherwise

AcquireWorkspace(e) ==
  /\ At(e, "workspace")
  /\ Goto(e, "index")
  /\ UNCHANGED db /\ Otherwise

\* No adapter, or the worktree cannot be acquired: the task stays 'running'
\* and no attempt and no budget is spent.
NoWorkspace(e) ==
  /\ At(e, "workspace")
  /\ Exit(e)
  /\ UNCHANGED db /\ Otherwise

\* SELECT MAX(attempt_index), outside the transaction that inserts.
ReadIndex(e) ==
  /\ At(e, "index")
  /\ exec' = [exec EXCEPT ![e].pc = "insert",
                          ![e].idx = Len(attempts[NodeOf(e)]) + 1]
  /\ UNCHANGED db /\ Otherwise

\* Mistake: an insert that conflicts takes the row over.
UpsertAttempt(e) ==
  /\ At(e, "insert")
  /\ LET n == NodeOf(e)  i == exec[e].idx IN
     attempts' = [attempts EXCEPT ![n] =
       IF i \in DOMAIN @ THEN [@ EXCEPT ![i] = Started("worker-dispatch")]
                         ELSE Append(@, Started("worker-dispatch"))]
  /\ Goto(e, "invoke")
  /\ UNCHANGED <<status, budget, lifecycle, created, journal, gate>> /\ Otherwise

\* The attempt is inserted under its key and UNIQUE (task_id, attempt_index):
\* whoever comes second to an index gives up.
InsertAttempt(e) ==
  /\ At(e, "insert")
  /\ LET n == NodeOf(e) IN
     IF exec[e].idx \in DOMAIN attempts[n]
     THEN Exit(e) /\ UNCHANGED db
     ELSE /\ Len(attempts[n]) < MaxAttempts
          /\ attempts' = [attempts EXCEPT ![n] = Append(@, Started("worker-dispatch"))]
          /\ Goto(e, "invoke")
          /\ UNCHANGED <<status, budget, lifecycle, created, journal, gate>>
  /\ Otherwise

\* Mistake: a late result is dropped, and its attempt with it.
FinishIfRunning(e, result) ==
  /\ At(e, "invoke")
  /\ LET n == NodeOf(e) IN
     IF status[n] # "running" THEN UNCHANGED <<attempts, status>>
     ELSE /\ attempts' = [attempts EXCEPT ![n][exec[e].idx].status = result]
          /\ status' = [status EXCEPT ![n] = result]
  /\ Exit(e)
  /\ UNCHANGED <<budget, lifecycle, created, journal, gate>> /\ Otherwise

\* The adapter answers (or times out) and one transaction records it, whatever
\* became of the attempt and the task in the meantime.
Finish(e, result) ==
  /\ At(e, "invoke")
  /\ LET n == NodeOf(e) IN
     /\ attempts' = [attempts EXCEPT ![n][exec[e].idx].status = result]
     /\ status' = [status EXCEPT ![n] = result]
     /\ lifecycle' = IF result = "succeeded" /\ lifecycle[n] = "running"
                     THEN [lifecycle EXCEPT ![n] = "completed"] ELSE lifecycle
  /\ CASE result = "succeeded"        -> Goto(e, "unblock")
       [] result = "failed_retryable" -> Goto(e, "budget")
       [] result = "failed_permanent" -> Exit(e)
  /\ UNCHANGED <<budget, created, journal, gate>> /\ Otherwise

\* Same-cycle retry: the budget is read, then spent in a transaction guarded
\* by retry_budget > 0 only; with no budget the task fails for good.
ReadBudget(e) ==
  /\ At(e, "budget")
  /\ Goto(e, IF budget[NodeOf(e)] > 0 THEN "retry" ELSE "exhaust")
  /\ UNCHANGED db /\ Otherwise

\* Mistake: the UPDATE is not guarded by retry_budget > 0.
RetryUnguarded(e) ==
  /\ At(e, "retry")
  /\ budget' = [budget EXCEPT ![NodeOf(e)] = @ - 1]
  /\ status' = [status EXCEPT ![NodeOf(e)] = "running"]
  /\ Exit(e)
  /\ UNCHANGED <<lifecycle, attempts, created, journal, gate>> /\ Otherwise

\* Mistake: the activity goes on after the retry is recorded.
RetryWithoutReturn(e) ==
  /\ At(e, "retry")
  /\ budget' = [budget EXCEPT ![NodeOf(e)] = IF @ > 0 THEN @ - 1 ELSE @]
  /\ status' = [status EXCEPT ![NodeOf(e)] = "running"]
  /\ Goto(e, "budget")
  /\ UNCHANGED <<lifecycle, attempts, created, journal, gate>> /\ Otherwise

Retry(e) ==
  /\ At(e, "retry")
  /\ LET n == NodeOf(e) IN
     IF budget[n] > 0
     THEN /\ budget' = [budget EXCEPT ![n] = @ - 1]
          /\ status' = [status EXCEPT ![n] = "running"]
          /\ UNCHANGED <<lifecycle, attempts, created, journal, gate>>
     ELSE UNCHANGED db
  /\ Exit(e)
  /\ Otherwise

\* Mistake: a task with no budget left keeps 'failed_retryable'.
ExhaustSilently(e) == At(e, "exhaust") /\ Exit(e) /\ UNCHANGED db /\ Otherwise

Exhaust(e) ==
  /\ At(e, "exhaust")
  /\ status' = [status EXCEPT ![NodeOf(e)] = "failed_permanent"]
  /\ Exit(e)
  /\ UNCHANGED <<budget, lifecycle, attempts, created, journal, gate>> /\ Otherwise

\* execute_integration_verify: merge, build and record, with no attempt row, so
\* the next tick may start another one while this one runs.
FinishVerify(e, result) ==
  /\ At(e, "verify")
  /\ status' = [status EXCEPT ![NodeOf(e)] = result]
  /\ IF result = "succeeded" THEN Goto(e, "verified") ELSE Exit(e)
  /\ UNCHANGED <<budget, lifecycle, attempts, created, journal, gate>> /\ Otherwise

CompleteVerify(e) ==
  /\ At(e, "verified")
  /\ lifecycle' = [lifecycle EXCEPT ![NodeOf(e)] = "completed"]
  /\ Exit(e)
  /\ UNCHANGED <<status, budget, attempts, created, journal, gate>> /\ Otherwise

\* unblock_dependent_tasks (worker dispatch and the API share its text): the
\* queued successors with nothing unmet are read once, then set running one
\* by one, each with an unguarded statement for the task and a second one for
\* the node.
Unblock(e) ==
  /\ At(e, "unblock")
  /\ LET woken == {n \in Succs(NodeOf(e)) : status[n] = "queued" /\ ~Unmet(n)}
     IN exec' = [exec EXCEPT ![e] = IF woken = {} THEN Free
                                    ELSE [@ EXCEPT !.pc = "wake", !.node = NoNode,
                                                   !.idx = 0, !.todo = woken]]
  /\ UNCHANGED db /\ Otherwise

WakeTask(e) ==
  /\ At(e, "wake")
  /\ \E n \in exec[e].todo :
       /\ status' = [status EXCEPT ![n] = "running"]
       /\ exec' = [exec EXCEPT ![e].pc = "relabel", ![e].node = n,
                               ![e].todo = @ \ {n}]
  /\ UNCHANGED <<budget, lifecycle, attempts, created, journal, gate>> /\ Otherwise

RelabelNode(e) ==
  /\ At(e, "relabel")
  /\ LET n == NodeOf(e) IN
     lifecycle' = IF lifecycle[n] \in {"proposed", "queued"}
                  THEN [lifecycle EXCEPT ![n] = "running"] ELSE lifecycle
  /\ exec' = [exec EXCEPT ![e] = IF exec[e].todo = {} THEN Free
                                 ELSE [@ EXCEPT !.pc = "wake", !.node = NoNode]]
  /\ UNCHANGED <<status, budget, attempts, created, journal, gate>> /\ Otherwise

-----------------------------------------------------------------------------
(* API requests.  A request that sets 'failed' or 'cancelled' on a running *)
(* or queued task (fail_task, patch_task, complete_attempt) writes a node  *)
(* lifecycle the schema's CHECK rejects, and its transaction rolls back.   *)

Request ==
  /\ apiCalls < MaxApi
  /\ apiCalls' = apiCalls + 1
  /\ UNCHANGED <<budget, created, journal, gate, runner, slots, crashes>>

\* The handler goes on to unblock the successors of n.
ThenUnblock(n) ==
  \E e \in Executors : /\ exec[e] = Free
                       /\ exec' = [exec EXCEPT ![e].pc = "unblock", ![e].node = n,
                                               ![e].kind = "api"]

\* Rows of task_attempts that are 'running' get the result of the task.
CloseAttempts(n) ==
  attempts' = [attempts EXCEPT ![n] =
    [i \in DOMAIN @ |-> IF @[i].status = "running"
                        THEN [@[i] EXCEPT !.status = "succeeded"] ELSE @[i]]]

\* complete_task, and patch_task to 'succeeded'.
ApiComplete(n) ==
  /\ status[n] = "running"
  /\ status' = [status EXCEPT ![n] = "succeeded"]
  /\ lifecycle' = [lifecycle EXCEPT ![n] = "done"]
  /\ CloseAttempts(n)
  /\ ThenUnblock(n)
  /\ Request

\* Mistake: any transition to 'queued' is accepted.
PatchUnchecked(n) ==
  /\ status[n] # "absent"
  /\ status' = [status EXCEPT ![n] = "queued"]
  /\ lifecycle' = [lifecycle EXCEPT ![n] = "queued"]
  /\ UNCHANGED <<attempts, exec>>
  /\ Request

\* patch_task from 'queued' to 'running' and from 'failed' to 'queued'.
ApiPatch(n) ==
  /\ \E t \in {<<"queued", "running">>, <<"failed", "queued">>} :
       /\ status[n] = t[1]
       /\ status' = [status EXCEPT ![n] = t[2]]
       /\ lifecycle' = [lifecycle EXCEPT ![n] = t[2]]
  /\ UNCHANGED <<attempts, exec>>
  /\ Request

\* complete_attempt: a running task takes the attempt's result, any other
\* keeps its status.
ApiCompleteAttempt(n) ==
  /\ \E i \in DOMAIN attempts[n], result \in {"succeeded", "failed", "cancelled"} :
       /\ attempts[n][i].status = "running"
       /\ attempts' = [attempts EXCEPT ![n][i].status = result]
       /\ IF status[n] = "running"
          THEN /\ result = "succeeded"
               /\ status' = [status EXCEPT ![n] = result]
               /\ lifecycle' = [lifecycle EXCEPT ![n] = "done"]
          ELSE UNCHANGED <<status, lifecycle>>
  /\ IF status'[n] = "succeeded" THEN ThenUnblock(n) ELSE UNCHANGED exec
  /\ Request

-----------------------------------------------------------------------------
(* Failures.  The database keeps every committed row.                      *)

Failure ==
  /\ crashes < MaxCrashes
  /\ crashes' = crashes + 1
  /\ UNCHANGED <<db, apiCalls>>

\* Worker dispatch restarts: its tick and its executors are gone.
WorkerCrash ==
  /\ exec' = [e \in Executors |-> IF exec[e].kind = "worker" THEN Free ELSE exec[e]]
  /\ slots' = -1
  /\ exec' # exec
  /\ UNCHANGED runner
  /\ Failure

\* A statement of one activity fails (lost connection, a deadlock victim): the
\* error is logged and the activity ends where it stands.
ActivityFails(e) ==
  /\ exec[e].pc # "free"
  /\ Exit(e)
  /\ UNCHANGED <<runner, slots>>
  /\ Failure

\* The loop runner restarts, or its tick returns an error.
RunnerCrash ==
  /\ runner.pc # "idle"
  /\ runner' = IdleRunner
  /\ UNCHANGED <<slots, exec>>
  /\ Failure

-----------------------------------------------------------------------------
Results == {"succeeded", "failed_permanent", "failed_retryable"}

Executor(e) ==
  \/ Guard(e) \/ AcquireWorkspace(e) \/ NoWorkspace(e)
  \/ ReadIndex(e) \/ InsertAttempt(e)
  \/ \E result \in Results : Finish(e, result)
  \/ ReadBudget(e) \/ Retry(e) \/ Exhaust(e)
  \/ \E result \in {"succeeded", "failed"} : FinishVerify(e, result)
  \/ CompleteVerify(e)
  \/ Unblock(e) \/ WakeTask(e) \/ RelabelNode(e)

Runner ==
  \/ \E n \in Nodes : CheckDeps(n)
  \/ CreateTask \/ SelectQueued \/ DispatchQueued \/ EvaluateGate

Api == \E n \in Nodes : ApiComplete(n) \/ ApiPatch(n) \/ ApiCompleteAttempt(n)

Crash == WorkerCrash \/ RunnerCrash \/ \E e \in Executors : ActivityFails(e)

Next ==
  \/ Runner
  \/ CountSlots \/ SpawnExecutors
  \/ \E e \in Executors : Executor(e)
  \/ Api
  \/ Crash

Spec == Init /\ [][Next]_vars

\* Both services tick in an endless loop, and each tick runs every phase, so a
\* phase that is enabled whenever its turn comes is taken; tokio runs every
\* spawned task.  Of the environment it is assumed that a ready task is not left
\* out for ever (locked rows, overlapping files) and that a workspace asked for
\* again and again is had at last.  Requests and failures come or do not.
Fairness ==
  /\ \A n \in Nodes : SF_vars(CheckDeps(n))
  /\ WF_vars(CreateTask) /\ WF_vars(DispatchQueued)
  /\ SF_vars(SelectQueued)
  /\ WF_vars(CountSlots) /\ WF_vars(SpawnExecutors)
  /\ \A n \in Nodes : SF_vars(\E S \in SUBSET Nodes : n \in S /\ Spawn(S))
  /\ \A e \in Executors : WF_vars(Executor(e)) /\ SF_vars(AcquireWorkspace(e))

FairSpec == Spec /\ Fairness

-----------------------------------------------------------------------------
(* Properties.                                                             *)

DbType ==
  /\ status \in [Nodes -> Statuses]
  /\ budget \in [Nodes -> 0..RetryBudget]
  /\ lifecycle \in [Nodes -> Lifecycles]
  /\ attempts \in [Nodes -> Seq(Attempt)]
  /\ created \in [Nodes -> Nat]
  /\ journal \subseteq Nodes
  /\ gate \in {"open", "satisfied", "overridden"}

RunnerType ==
  /\ runner \in [pc : {"idle", "create", "dispatch"}, node : Nodes \cup {NoNode},
                 unmet : BOOLEAN, batch : SUBSET Nodes]
  /\ runner.pc = "create" => runner.node \in Nodes

\* An activity is of a node, except between two tasks that it wakes.
Placed(x) == x.pc \in {"free", "wake"} \/ x.node \in Nodes

ExecType == exec \in [Executors -> {x \in Activity : Placed(x)}]

TypeOK ==
  /\ DbType /\ RunnerType /\ ExecType
  /\ slots \in {-1} \cup 0..MaxAgents
  /\ apiCalls \in 0..MaxApi /\ crashes \in 0..MaxCrashes

Working(n) == \E e \in Executors : exec[e].pc \in WorkerPcs /\ exec[e].node = n
Attempted(n) == \E i \in DOMAIN attempts[n] : attempts[n][i].owner = "worker-dispatch"

\* A worker is never at work on a node, and never was, before every node it
\* depends on is complete: although the loop runner dispatches queued tasks
\* whatever they depend on, and although the set of ready tasks is stale by the
\* time its executors run.
OrderRespected == \A n \in Nodes : Working(n) \/ Attempted(n) => ~Unmet(n)

\* What makes it hold: nothing an executor that comes late, a stale wake-up or a
\* request may do takes a completed node back.  (The verification node, which
\* nothing depends on, may be queued again by the API.)
CompletionIsFinal ==
  [][\A n \in Nodes \ {Verify} : Complete(n) => Complete(n)']_vars

\* Why both hold.  Nothing but the verification node fails without a retry, is
\* verified, or is complete before it was ever running; rows exist for whatever
\* an activity works on, and only for that.
NotDoneBeforeStart ==
  \A n \in Nodes \ {Verify} : status[n] \in {"absent", "queued"} => ~Complete(n)
OnlyVerifyFails ==
  /\ \A n \in Nodes : status[n] = "failed" => n = Verify
  /\ \A e \in Executors : exec[e].pc \in {"verify", "verified"} => exec[e].node = Verify
RowsExist ==
  /\ \A e \in Executors, n \in Nodes :
       n = exec[e].node \/ n \in exec[e].todo => status[n] # "absent"
  /\ runner.pc = "create" => status[runner.node] = "absent"
OrderInv ==
  TypeOK /\ OrderRespected /\ NotDoneBeforeStart /\ OnlyVerifyFails /\ RowsExist

\* Executors that race for one task (both spawned before either has a row) read
\* the same next attempt_index, yet no two of them ever drive the same attempt,
\* and none drives a row of the loop runner's.
OneExecutorPerAttempt ==
  \A e \in Executors : At(e, "invoke") =>
    /\ exec[e].idx \in DOMAIN attempts[NodeOf(e)]
    /\ attempts[NodeOf(e)][exec[e].idx].owner = "worker-dispatch"
    /\ \A f \in Executors \ {e} :
         At(f, "invoke") /\ NodeOf(f) = NodeOf(e) => exec[f].idx # exec[e].idx

\* Every unit of retry_budget a task has spent was paid for by an attempt that
\* failed retryably, counting those whose executor has still to spend it, so
\* racing executors never spend one failure twice.
Failures(n) == {i \in DOMAIN attempts[n] : attempts[n][i].status = "failed_retryable"}
Owing(n)    == {e \in Executors : exec[e].pc \in {"budget", "retry", "exhaust"}
                                   /\ NodeOf(e) = n}
BudgetPaysForFailures ==
  \A n \in Nodes : status[n] # "absent" =>
    RetryBudget - budget[n] + Cardinality(Owing(n)) <= Cardinality(Failures(n))

\* Only a failure strands an attempt: as long as none happened, every running
\* attempt of worker dispatch has the executor that will finish it, so the slots
\* counted as taken are the ones at work.
NoOrphanAttempt ==
  crashes = 0 =>
    \A n \in Nodes : \A i \in LiveWorkerAttempts(n) :
      \E e \in Executors : At(e, "invoke") /\ NodeOf(e) = n /\ exec[e].idx = i

\* A queued task leaves the queue, whatever becomes of those it depends on (as
\* long as no request puts a dispatched task back: task_lifecycle.rs:25 allows
\* "failed" to "queued" for a "retry").
QueuedIsDispatched == \A n \in Nodes : status[n] = "queued" ~> status[n] # "queued"

\* With no request and no failure, a running task whose predecessors are
\* complete under a satisfied gate ends in a final status.
Settled == {"succeeded", "failed_permanent", "failed"}
ReadySettles ==
  \A n \in Nodes : (gate = "satisfied" /\ status[n] = "running" /\ ~Unmet(n))
                     ~> status[n] \in Settled

\* The promise to the objective (module OrderedWork): a node is being worked on
\* while some executor of it has yet to record a result, and is done when its
\* lifecycle says so.
Promise == INSTANCE OrderedWork WITH working <- {n \in Nodes : Working(n)},
                                     done    <- {n \in Nodes : Complete(n)}
KeepsOrder == Promise!Spec

\* What the cycle engine assumes of tasks (module TaskLife): of all the interleavings
\* of executors, wake-ups and requests only a few kinds of changes are visible in
\* the status of tasks and the completion of nodes, and all but a dispatch of the
\* runner's and a request's report come after the predecessors were complete.
Life == INSTANCE TaskLife WITH complete <- {n \in Nodes : Complete(n)},
                               begun    <- {n \in Nodes : Working(n) \/ Attempted(n)},
                               edges    <- Deps
TaskLifeHolds == Life!LifeSpec

-----------------------------------------------------------------------------
(* What a comment of the repository claims, and TLC refutes; see the README.*)

\* worker-dispatch main.rs:135: "FOR UPDATE OF t SKIP LOCKED prevents concurrent
\* ticks from picking the same task": no task has two attempts in flight.
OneAttemptAtATime == \A n \in Nodes : Cardinality(LiveWorkerAttempts(n)) <= 1

=============================================================================
