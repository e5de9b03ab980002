----------------------------- MODULE CycleEngine -----------------------------
(***************************************************************************)
(* The loop runner's tick (services/loop-runner/src/tick.rs) drives the    *)
(* loops and cycles of one objective: it creates them, moves each cycle    *)
(* from intake to next_cycle_ready, plans, decomposes the plan into nodes  *)
(* and tasks, dispatches them and waits for them.  Every phase of a tick   *)
(* first SELECTs the rows it is about and then handles them one by one, a  *)
(* statement or a transaction at a time, while workers and requests go on. *)
(* What those do to tasks is module TaskLife, which TaskExecution          *)
(* implements.  Certification (pending_cert) is not in this module.        *)
(***************************************************************************)
EXTENDS Integers, Sequences, FiniteSets, TaskLife

CONSTANTS
  Planned,         \* the nodes made of the plan, by decompose_plan or
  Milestones,      \* ... those of its milestones, by bridge_milestones_to_nodes
  Late,            \* nodes that requests may add
  PlanEdges,       \* the edges among the planned nodes
  Runners,         \* loop runner processes (deployed as one)
  MaxElaborations, \* MAX_ELABORATION_ATTEMPTS
  Verdicts,        \* what evaluating the plan gate may yield
  Tardy,           \* whether an elaboration may exceed MAX_ELABORATION_MINUTES
  Faults,          \* the outcomes other than success that workers may report
  Halves,          \* whether a success may leave its node incomplete
  MaxCycles,       \* bound: cycles
  MaxApi,          \* bound: requests
  MaxCrashes,      \* bound: ticks that end early
  MaxLate          \* bound: results recorded over a settled one

ASSUME CycleConstants ==
  /\ Nodes = Planned \cup Late \cup {Verify}
  /\ Verify \notin Planned \cup Late
  /\ Milestones \subseteq Planned
  /\ PlanEdges \subseteq ((Planned \ Milestones) \X (Planned \ Milestones))
                           \cup (Milestones \X Milestones)
  /\ Verdicts \subseteq {"open", "satisfied"} /\ Verdicts # {}
  /\ Faults \subseteq Outcomes \ {"succeeded"}
  /\ Tardy \in BOOLEAN /\ Halves \in BOOLEAN
  /\ MaxElaborations \in Nat /\ MaxCycles \in Nat
  /\ MaxApi \in Nat /\ MaxCrashes \in Nat /\ MaxLate \in Nat

VARIABLES
  nodes,    \* the nodes that exist
  loops,    \* loops.cycle_index of each loop
  cycles,   \* the cycles: their loop, phase, and whether the runner made them
  evals,    \* plan_gate_evaluated events of each cycle
  journal,  \* idempotency keys in event_journal
  runner,   \* where each runner stands in its tick
  won,      \* history: the nodes whose task was ever recorded as succeeded
  count     \* counts requests, early ends and late results, for the bounds

engine == <<nodes, loops, cycles, evals, journal>>
cycleVars == <<lifeVars, engine, runner, won, count>>

Phases == <<"intake", "plan_elaboration", "decomposition", "dispatch", "execution",
            "integration", "state_update", "next_cycle_ready">>
Rank(p)  == CHOOSE i \in DOMAIN Phases : Phases[i] = p
After(p) == Phases[Rank(p) + 1]

\* The phases of a tick: those that advance cycles are named for the cycle phase.
TickOrder == <<"loops", "cycles", "intake", "plan_elaboration", "decomposition", "queue",
               "dispatch", "execution", "integration", "state_update">>
TickStart == [at |-> 1, step |-> "select", rows |-> {}, tasks |-> {}, seen |-> <<>>,
              row |-> 0, evals |-> 0, ok |-> FALSE]
Step(r, at, step) == TickOrder[runner[r].at] = at /\ runner[r].step = step

-----------------------------------------------------------------------------
(* Queries.                                                                *)

Active(l)   == {c \in DOMAIN cycles : cycles[c].loop = l
                                       /\ cycles[c].phase # "next_cycle_ready"}
\* Mistake: every unfinished cycle is selected.
Unfinished(p) == {c \in DOMAIN cycles : cycles[c].phase # "next_cycle_ready"}
InPhase(p)  == {c \in DOMAIN cycles : cycles[c].phase = p}
Tasked      == {n \in nodes : status[n] # "absent"}
Untasked    == nodes \ Tasked
Queued      == {n \in nodes : status[n] = "queued"}
ActiveTasks == {n \in nodes : status[n] \in {"queued", "running"}}

Selected(at) ==
  CASE at = "loops"  -> IF loops = <<>> THEN {0} ELSE {}
    [] at = "cycles" -> {l \in DOMAIN loops : Active(l) = {}}
    [] at = "queue"  -> {}
    [] OTHER         -> InPhase(at)

CycleInit ==
  /\ LifeInit
  /\ edges = {} /\ gate = "none"
  /\ nodes = {} /\ loops = <<>> /\ cycles = <<>> /\ evals = <<>> /\ journal = {}
  /\ runner = [r \in Runners |-> TickStart]
  /\ won = {}
  /\ count = [api |-> 0, crash |-> 0, late |-> 0]

Move(r, next) == runner' = [runner EXCEPT ![r] = next]
Here(r)       == runner[r]
\* A phase that is through with its rows goes on to the next one of the tick.
NextPhase(r)  == [TickStart EXCEPT !.at = IF Here(r).at = Len(TickOrder) THEN 1
                                          ELSE Here(r).at + 1]
RowDone(r)    == [Here(r) EXCEPT !.step = "row", !.row = 0]

\* A phase's SELECT.
Select(r) ==
  /\ Here(r).step = "select"
  /\ LET at == TickOrder[Here(r).at]
         tasks == IF at = "queue" THEN Queued ELSE {}
     IN Move(r, IF Selected(at) = {} /\ tasks = {} THEN NextPhase(r)
                ELSE [Here(r) EXCEPT !.step = "row", !.rows = Selected(at),
                                     !.tasks = tasks, !.seen = loops])
  /\ UNCHANGED <<lifeVars, engine, won, count>>

EndPhase(r) ==
  /\ Here(r).step = "row" /\ Here(r).rows = {} /\ Here(r).tasks = {}
  /\ Move(r, NextPhase(r))
  /\ UNCHANGED <<lifeVars, engine, won, count>>

\* The loop over the rows takes the next one and goes to the given step.
Take(r, at, step(_)) ==
  /\ Step(r, at, "row")
  /\ \E x \in Here(r).rows :
       Move(r, [Here(r) EXCEPT !.rows = @ \ {x}, !.row = x, !.step = step(x),
                               !.evals = IF x \in DOMAIN evals THEN evals[x] ELSE 0])
  /\ UNCHANGED <<lifeVars, engine, won, count>>

-----------------------------------------------------------------------------
(* Loops and cycles.                                                       *)

\* create_loops_for_new_objectives, one transaction.
CreateLoop(r) ==
  /\ Step(r, "loops", "row") /\ Here(r).rows # {}
  /\ IF <<"loop">> \in journal THEN UNCHANGED engine
     ELSE /\ loops' = Append(loops, 0)
          /\ journal' = journal \cup {<<"loop">>}
          /\ UNCHANGED <<nodes, cycles, evals>>
  /\ Move(r, [Here(r) EXCEPT !.rows = {}])
  /\ UNCHANGED <<lifeVars, won, count>>

NewCycle(l, auto) == /\ cycles' = Append(cycles, [loop |-> l, phase |-> "intake", auto |-> auto])
                     /\ evals' = Append(evals, 0)

\* Mistake: the key of the new cycle is not looked for.
CreateCycleAnyway(r) ==
  /\ Step(r, "cycles", "row")
  /\ \E l \in Here(r).rows :
     /\ IF Len(cycles) = MaxCycles THEN UNCHANGED <<loops, cycles, evals>>
        ELSE /\ NewCycle(l, TRUE)
             /\ loops' = [loops EXCEPT ![l] = Here(r).seen[l] + 1]
     /\ Move(r, [Here(r) EXCEPT !.rows = @ \ {l}])
  /\ UNCHANGED <<lifeVars, nodes, journal, won, count>>

\* create_cycles_for_active_loops, one transaction per loop without an active
\* cycle, under a key that carries the next cycle index.
CreateCycle(r) ==
  /\ Step(r, "cycles", "row")
  /\ \E l \in Here(r).rows :
     /\ LET index == Here(r).seen[l] + 1 IN
        IF <<"cycle", l, index>> \in journal \/ Len(cycles) = MaxCycles
        THEN UNCHANGED engine
        ELSE /\ NewCycle(l, TRUE)
             /\ loops' = [loops EXCEPT ![l] = index]
             /\ journal' = journal \cup {<<"cycle", l, index>>}
             /\ UNCHANGED nodes
     /\ Move(r, [Here(r) EXCEPT !.rows = @ \ {l}])
  /\ UNCHANGED <<lifeVars, won, count>>

\* advance_cycle_phase (and advance_intake_cycles): one transaction, under a key
\* for the transition and guarded by the phase it leaves.
Advance(r) ==
  /\ Here(r).step = "advance"
  /\ LET from == TickOrder[Here(r).at]
         c    == Here(r).row
         key  == <<"phase", c, from>>
     IN IF key \in journal \/ cycles[c].phase # from THEN UNCHANGED engine
        ELSE /\ cycles' = [cycles EXCEPT ![c].phase = After(from)]
             /\ journal' = journal \cup {key}
             /\ UNCHANGED <<nodes, loops, evals>>
  /\ Move(r, RowDone(r))
  /\ UNCHANGED <<lifeVars, won, count>>

Intake(r) == LET go(c) == "advance" IN Take(r, "intake", go)

-----------------------------------------------------------------------------
(* Planning: check_plan_gates.                                             *)

\* Mistake: the evaluations so far are not looked at.
CheckTimeOnly(r) == \E late \in {FALSE, Tardy} :
  LET go(c) == IF late THEN "force" ELSE "elaborate" IN Take(r, "plan_elaboration", go)

\* The number of evaluations so far, or the clock, may force the cycle on.
CheckGate(r) == \E late \in {FALSE, Tardy} :
  LET go(c) == IF late \/ evals[c] >= MaxElaborations THEN "force" ELSE "elaborate"
  IN Take(r, "plan_elaboration", go)

\* The forced override: an autocommitted UPDATE by cycle_id alone, which leaves
\* plan_gates as it is.
ForceOverride(r) ==
  /\ Step(r, "plan_elaboration", "force")
  /\ cycles' = [cycles EXCEPT ![Here(r).row].phase = "decomposition"]
  /\ Move(r, RowDone(r))
  /\ UNCHANGED <<lifeVars, nodes, loops, evals, journal, won, count>>

\* elaborate_plan: writes the gate's status and returns it.
Elaborate(r) ==
  /\ Step(r, "plan_elaboration", "elaborate")
  /\ \E verdict \in Verdicts :
       /\ Evaluate(verdict)
       /\ Move(r, [Here(r) EXCEPT !.step = "count", !.ok = (verdict = "satisfied")])
  /\ UNCHANGED <<engine, won, count>>

\* Mistake: an evaluation that was open is not counted.
CountSatisfied(r) ==
  /\ Step(r, "plan_elaboration", "count")
  /\ evals' = [evals EXCEPT ![Here(r).row] = IF Here(r).ok THEN @ + 1 ELSE @]
  /\ Move(r, IF Here(r).ok THEN [Here(r) EXCEPT !.step = "advance"] ELSE RowDone(r))
  /\ UNCHANGED <<lifeVars, nodes, loops, cycles, journal, won, count>>

\* The evaluation is recorded under the number read before.
CountEvaluation(r) ==
  /\ Step(r, "plan_elaboration", "count")
  /\ evals' = [evals EXCEPT ![Here(r).row] = IF Here(r).evals = @ THEN @ + 1 ELSE @]
  /\ Move(r, IF Here(r).ok THEN [Here(r) EXCEPT !.step = "advance"] ELSE RowDone(r))
  /\ UNCHANGED <<lifeVars, nodes, loops, cycles, journal, won, count>>

-----------------------------------------------------------------------------
(* Decomposition: decompose_and_create_tasks.                              *)

Decomposition(r) == LET go(c) == "plan" IN Take(r, "decomposition", go)

\* Nodes of the plan are inserted with the edges among them.
AddPlan(N) == /\ nodes' = nodes \cup N
              /\ edges' = edges \cup (PlanEdges \cap (N \X N))

\* decompose_plan starts only while the objective has no node at all; an agent then
\* drafts the graph ...
DecomposePlan(r) ==
  /\ Step(r, "decomposition", "plan")
  /\ Move(r, [Here(r) EXCEPT !.step = IF nodes = {} THEN "graph" ELSE "bridge"])
  /\ UNCHANGED <<lifeVars, engine, won, count>>

\* ... which is inserted in one transaction, whatever nodes there are by now.  (Two
\* runners would insert two copies; the model has one.)
InsertGraph(r) ==
  /\ Step(r, "decomposition", "graph")
  /\ AddPlan(Planned \ Milestones)
  /\ Move(r, [Here(r) EXCEPT !.step = "bridge"])
  /\ UNCHANGED <<status, complete, begun, gate, loops, cycles, evals, journal, won, count>>

\* Then each milestone that is not bridged yet becomes a node, and each of its edges
\* is added, in one transaction.
BridgeMilestones(r) ==
  /\ Step(r, "decomposition", "bridge")
  /\ AddPlan(Milestones)
  /\ Move(r, [Here(r) EXCEPT !.step = "list"])
  /\ UNCHANGED <<status, complete, begun, gate, loops, cycles, evals, journal, won, count>>

\* create_tasks_for_objective lists the nodes without a task ...
ListNodes(r) ==
  /\ Step(r, "decomposition", "list")
  /\ Move(r, [Here(r) EXCEPT !.step = "tasks", !.tasks = Untasked])
  /\ UNCHANGED <<lifeVars, engine, won, count>>

\* ... and makes a task for each of them, one transaction at a time.  (Two
\* runners on one cycle meet at the key auto-task-<cycle>-<node>.)
CreateTask(r) ==
  /\ Step(r, "decomposition", "tasks")
  /\ \E n \in Here(r).tasks :
     /\ IF status[n] = "absent" THEN Create(n) ELSE UNCHANGED lifeVars
     /\ Move(r, [Here(r) EXCEPT !.tasks = @ \ {n}])
  /\ UNCHANGED <<engine, won, count>>

TasksDone(r) ==
  /\ Step(r, "decomposition", "tasks") /\ Here(r).tasks = {}
  /\ Move(r, [Here(r) EXCEPT !.step = "verify"])
  /\ UNCHANGED <<lifeVars, engine, won, count>>

\* Mistake: the query for the other nodes does not leave the new one out.
VerifyWaitsForItself(r) ==
  /\ Step(r, "decomposition", "verify")
  /\ nodes' = nodes \cup {Verify}
  /\ edges' = edges \cup {<<n, Verify>> : n \in IF Verify \in nodes THEN {} ELSE nodes'}
  /\ Move(r, [Here(r) EXCEPT !.step = IF Verify \in nodes THEN "untasked" ELSE "list"])
  /\ UNCHANGED <<status, complete, begun, gate, loops, cycles, evals, journal, won, count>>

\* The verification node is made once, after every node that exists by then,
\* and create_tasks_for_objective runs again.
CreateVerify(r) ==
  /\ Step(r, "decomposition", "verify")
  /\ IF Verify \in nodes
     THEN /\ Move(r, [Here(r) EXCEPT !.step = "untasked"])
          /\ UNCHANGED <<edges, nodes>>
     ELSE /\ nodes' = nodes \cup {Verify}
          /\ edges' = edges \cup {<<n, Verify>> : n \in nodes}
          /\ Move(r, [Here(r) EXCEPT !.step = "list"])
  /\ UNCHANGED <<status, complete, begun, gate, loops, cycles, evals, journal, won, count>>

CheckUntasked(r) ==
  /\ Step(r, "decomposition", "untasked")
  /\ Move(r, IF Untasked = {} THEN [Here(r) EXCEPT !.step = "advance"] ELSE RowDone(r))
  /\ UNCHANGED <<lifeVars, engine, won, count>>

-----------------------------------------------------------------------------
(* Dispatch, execution, integration, state update.                         *)

\* dispatch_queued_tasks: each task of the batch once, under dispatch-<task>.  (That
\* a batch has at most ten tasks is in TaskExecution.)
DispatchTask(r) ==
  /\ Step(r, "queue", "row")
  /\ \E n \in Here(r).tasks :
     /\ IF <<"dispatch", n>> \in journal \/ status[n] # "queued"
        THEN UNCHANGED <<lifeVars, engine>>
        ELSE /\ Dispatch(n)
             /\ complete' = complete
             /\ journal' = journal \cup {<<"dispatch", n>>}
             /\ UNCHANGED <<nodes, loops, cycles, evals>>
     /\ Move(r, [Here(r) EXCEPT !.tasks = @ \ {n}])
  /\ UNCHANGED <<won, count>>

\* dispatch_phase: on, once no task of the objective is queued.
CheckDispatched(r) ==
  LET go(c) == IF Queued = {} THEN "advance" ELSE "row" IN Take(r, "dispatch", go)

\* check_execution_completion: on, once there are tasks and none is queued or
\* running; any other status counts as terminal.
CheckExecuted(r) ==
  LET go(c) == IF ActiveTasks = {} /\ Tasked # {} THEN "advance" ELSE "row"
  IN Take(r, "execution", go)

\* Mistake: the cycle goes on once the verification has an outcome.
CheckOutcome(r) ==
  LET go(c) == IF status[Verify] \in Settled \cup {"absent"} THEN "advance" ELSE "row"
  IN Take(r, "integration", go)

\* complete_integration: on, if the verification task succeeded or there is none;
\* a failed one blocks the cycle.
CheckVerified(r) ==
  LET go(c) == IF status[Verify] \in {"succeeded", "absent"} THEN "advance" ELSE "row"
  IN Take(r, "integration", go)

UpdateState(r) == LET go(c) == "advance" IN Take(r, "state_update", go)

-----------------------------------------------------------------------------
(* The environment.                                                        *)

Counted(what, limit) == /\ count[what] < limit
                        /\ count' = [count EXCEPT ![what] = @ + 1]

\* An error ends the tick (every phase is chained by `?'), or the process
\* restarts: the next tick starts over.
TickFails(r) ==
  /\ Here(r) # TickStart
  /\ Counted("crash", MaxCrashes)
  /\ Move(r, TickStart)
  /\ UNCHANGED <<lifeVars, engine, won>>

\* POST /cycles: a further cycle in intake, whatever cycles the loop has.
ApiCreateCycle(l) ==
  /\ Counted("api", MaxApi)
  /\ Len(cycles) < MaxCycles
  /\ NewCycle(l, FALSE)
  /\ UNCHANGED <<lifeVars, nodes, loops, journal, runner, won>>

\* POST /nodes (also before the plan is decomposed, which then never happens), or a
\* milestone template of a later cycle bridged to a node.
AddNode(n) ==
  /\ n \in Late \ nodes
  /\ nodes' = nodes \cup {n}
  /\ UNCHANGED <<lifeVars, loops, cycles, evals, journal, runner, won, count>>

\* A request reports a task done (the verification is left to its worker), or
\* queues the failed verification again.
ApiReport(n) ==
  /\ n # Verify
  /\ Counted("api", MaxApi)
  /\ Report(n)
  /\ won' = won \cup {n}
  /\ UNCHANGED <<engine, runner>>

ApiRequeue == Counted("api", MaxApi) /\ Requeue /\ UNCHANGED <<engine, runner, won>>

Start(n) == n \notin begun /\ Begin({n}) /\ UNCHANGED <<engine, runner, won, count>>

Reported(n, s) ==
  /\ n = Verify => s \in {"succeeded", "failed"}
  /\ Record(n, s) /\ begun' = begun
  /\ s = "succeeded" /\ ~Halves => n \in complete'
  /\ won' = IF s = "succeeded" THEN won \cup {n} ELSE won
  /\ UNCHANGED <<engine, runner>>

\* A worker's report of a task in progress: success, a fault, or another try
\* after a retryable failure.
Progress(n, s) ==
  /\ \/ status[n] = "running" /\ s \in {"succeeded"} \cup Faults
     \/ status[n] = "failed_retryable" /\ s \in {"running", "failed_permanent"}
  /\ Reported(n, s)
  /\ UNCHANGED count

\* The report of a second executor that comes after the task is settled.
LateReport(n, s) ==
  /\ status[n] \in Settled
  /\ s \in {"succeeded", "running"} \cup Faults
  /\ Reported(n, s)
  /\ Counted("late", MaxLate)

\* unblock_dependent_tasks wakes a queued task, or one that has moved on since.
WakeUp(n) ==
  /\ Wake(n)
  /\ IF status[n] = "queued" THEN UNCHANGED count ELSE Counted("late", MaxLate)
  /\ UNCHANGED <<engine, runner, won>>

-----------------------------------------------------------------------------
Tick(r) ==
  \/ Select(r) \/ EndPhase(r) \/ CreateLoop(r) \/ CreateCycle(r) \/ Advance(r)
  \/ Intake(r) \/ CheckGate(r) \/ ForceOverride(r) \/ Elaborate(r) \/ CountEvaluation(r)
  \/ Decomposition(r) \/ DecomposePlan(r) \/ InsertGraph(r) \/ BridgeMilestones(r)
  \/ ListNodes(r)
  \/ CreateTask(r) \/ TasksDone(r) \/ CreateVerify(r) \/ CheckUntasked(r)
  \/ DispatchTask(r) \/ CheckDispatched(r) \/ CheckExecuted(r) \/ CheckVerified(r)
  \/ UpdateState(r)

Workers == \E n \in Nodes :
  \/ Start(n) \/ WakeUp(n)
  \/ \E s \in Outcomes \cup {"running"} : Progress(n, s) \/ LateReport(n, s)

Requests == \/ \E l \in DOMAIN loops : ApiCreateCycle(l)
            \/ \E n \in Nodes : AddNode(n) \/ ApiReport(n)
            \/ ApiRequeue

CycleNext == \/ \E r \in Runners : Tick(r) \/ TickFails(r)
             \/ Workers \/ Requests

CycleSpec == CycleInit /\ [][CycleNext]_cycleVars

\* The runner ticks for ever; a task that is ready under an open gate is taken up
\* and settles (what TaskExecution's ReadySettles shows).
CycleFairness ==
  /\ \A r \in Runners : WF_cycleVars(Tick(r))
  /\ \A n \in Nodes : /\ WF_cycleVars(Start(n))
                      /\ SF_cycleVars(\E s \in Settled : Progress(n, s))

CycleFairSpec == CycleSpec /\ CycleFairness

-----------------------------------------------------------------------------
(* Properties.                                                             *)

CycleTypeOK ==
  /\ status \in [Nodes -> TaskStatuses]
  /\ complete \subseteq Nodes /\ begun \subseteq Nodes /\ edges \subseteq Nodes \X Nodes
  /\ gate \in {"none", "open", "satisfied"}
  /\ nodes \subseteq Nodes
  /\ loops \in Seq(0..MaxCycles)
  /\ cycles \in Seq([loop : DOMAIN loops, phase : {Phases[i] : i \in DOMAIN Phases},
                     auto : BOOLEAN])
  /\ evals \in Seq(0..MaxElaborations) /\ Len(evals) = Len(cycles)
  /\ \A r \in Runners : runner[r].at \in DOMAIN TickOrder

\* However runners overlap, restart or act on what they read long ago, they make
\* one loop for the objective, and never a cycle beside one they made before that
\* is still active (as long as no slow runner forces a cycle past its gate that
\* another has by then led further: the forced override is not guarded).
RunnersCreateOnce ==
  /\ Len(loops) <= 1
  /\ \A l \in DOMAIN loops : Cardinality({c \in Active(l) : cycles[c].auto}) <= 1

\* With one runner no cycle ever goes back, or skips a phase, although the forced
\* override sets the phase by cycle_id alone and a tick may end anywhere.
PhasesInOrder ==
  [][\A c \in DOMAIN cycles :
       \/ cycles'[c].phase = cycles[c].phase
       \/ cycles'[c].phase = After(cycles[c].phase)]_cycleVars

Completed(c) == cycles[c].phase \in {"state_update", "next_cycle_ready"}

\* A cycle passes integration only when all of the plan is complete and the
\* verification has succeeded, also when requests and late results interfere, the
\* statuses were read some statements ago, and one cycle follows another.
IntegrationMeansComplete ==
  \A c \in DOMAIN cycles : Completed(c) =>
    Planned \cap nodes \subseteq complete /\ Verify \in won

\* Rows fit the schema, and no cycle passes integration with work outstanding.
CycleInv == CycleTypeOK /\ IntegrationMeansComplete

\* Unless a task fails for good, or the gate is never satisfied for good (a cycle
\* forced past it is not executed), every cycle comes to its end, however often the
\* gate was found open before.
Failed == \E n \in Nodes : status[n] \in {"failed", "failed_permanent"}
CyclesEnd == \/ <>Failed \/ <>[](gate # "satisfied")
             \/ \A c \in 1..MaxCycles : (c \in DOMAIN cycles) ~>
                  (c \in DOMAIN cycles /\ cycles[c].phase = "next_cycle_ready")

\* Planning never holds a cycle for ever: MAX_ELABORATION_ATTEMPTS evaluations that
\* leave the gate open force it on.
PlanningEnds ==
  \A c \in 1..MaxCycles :
    (c \in DOMAIN cycles) ~>
      (c \in DOMAIN cycles /\ Rank(cycles[c].phase) > Rank("plan_elaboration"))

-----------------------------------------------------------------------------
(* What a comment of the repository claims, and TLC refutes; see the README.*)

\* tick.rs:591: "Force-advance past planning with an override": a cycle forced past
\* the gate gets its tasks executed.
ForcedCycleRuns ==
  (\E c \in DOMAIN cycles : cycles[c].phase = "execution") ~> begun # {}

=============================================================================
