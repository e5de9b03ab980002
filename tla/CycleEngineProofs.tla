------------------------- MODULE CycleEngineProofs -------------------------
(***************************************************************************)
(* CycleEngine, for every plan, number of runners and bound: phases go     *)
(* forward one at a time, runners make one cycle at a time, and a cycle    *)
(* is past integration only with its plan complete and verified.  With     *)
(* several runners the first two fail when a slow forced override hits a   *)
(* cycle that has moved on, and the third when a slow draft of the graph   *)
(* is inserted after the verification node; the theorems name these two    *)
(* steps, and show that with one runner, as deployed, they cannot happen.  *)
(***************************************************************************)
EXTENDS CycleEngine, SequenceTheorems, FiniteSetTheorems, TLAPS

-----------------------------------------------------------------------------
(* The tables and the runners.                                             *)

\* The steps of planning and of decomposition, and the phases that move cycles.
PlanSteps == {"force", "elaborate", "count"}
MakeSteps == {"plan", "graph", "bridge", "list", "tasks", "verify", "untasked"}
Passing   == {"intake", "plan_elaboration", "decomposition", "dispatch", "execution",
              "integration", "state_update"}
PhaseNames == Passing \cup {"next_cycle_ready"}
\* A runner's place in its tick.
TickState == [at    : 1..10,
              step  : {"select", "row", "advance"} \cup PlanSteps \cup MakeSteps,
              rows  : SUBSET Nat, tasks : SUBSET Nodes, seen : Seq(Nat),
              row   : Nat, evals : Nat, ok : BOOLEAN]
Phase(x) == TickOrder[x.at]

\* A runner's place fits the rows there are: each step belongs to its phase, and what
\* it read is not ahead of the tables.
Fits(x) ==
  /\ x.step \in PlanSteps => Phase(x) = "plan_elaboration"
  /\ x.step \in MakeSteps => Phase(x) = "decomposition"
  /\ x.step = "advance" => Phase(x) \in Passing
  /\ x.step \notin {"select", "row"} => x.row \in DOMAIN cycles
  /\ Phase(x) \in Passing => x.rows \subseteq DOMAIN cycles
  /\ Phase(x) = "cycles" => x.rows \subseteq DOMAIN x.seen
  /\ DOMAIN x.seen \subseteq DOMAIN loops
  /\ \A l \in DOMAIN x.seen : x.seen[l] <= loops[l]
  /\ x.step \in {"elaborate", "count"} => x.evals < MaxElaborations
  /\ x.tasks \subseteq nodes

\* A row of cycles.
Cycle == [loop : DOMAIN loops, phase : PhaseNames, auto : BOOLEAN]

\* The tables of loops and cycles: the keys of all cycles made for a loop are kept, one
\* for each value its index has had.
RowsOK ==
  /\ loops \in Seq(0..MaxCycles)
  /\ cycles \in Seq(Cycle)
  /\ evals \in Seq(0..MaxElaborations) /\ Len(evals) = Len(cycles)
  /\ Len(cycles) <= MaxCycles
  /\ \A l \in DOMAIN loops : loops[l] <= Len(cycles)
  /\ \A l \in DOMAIN loops : \A i \in 1..loops[l] : <<"cycle", l, i>> \in journal

\* Tasks, nodes and edges, which join existing nodes.
LifeOK ==
  /\ status \in [Nodes -> TaskStatuses]
  /\ complete \subseteq Nodes /\ begun \subseteq Nodes /\ edges \subseteq nodes \X nodes
  /\ gate \in {"none", "open", "satisfied"}
  /\ nodes \subseteq Nodes

RunnersOK == runner \in [Runners -> TickState] /\ \A r \in Runners : Fits(runner[r])

EngineOK == RowsOK /\ LifeOK /\ RunnersOK

\* Nothing is taken away.
Grows ==
  /\ DOMAIN cycles \subseteq DOMAIN cycles'
  /\ DOMAIN loops \subseteq DOMAIN loops'
  /\ \A l \in DOMAIN loops : loops[l] <= loops'[l]
  /\ nodes \subseteq nodes'

\* A runner takes a row of a phase, and goes on with one of the steps.
Goes(r, at, steps) ==
  /\ Step(r, at, "row")
  /\ \E x \in Here(r).rows, s \in steps :
       /\ runner' = [runner EXCEPT ![r] =
            [Here(r) EXCEPT !.rows = @ \ {x}, !.row = x, !.step = s,
                            !.evals = IF x \in DOMAIN evals THEN evals[x] ELSE 0]]
       /\ s = "elaborate" => ~(evals[x] >= MaxElaborations)
       /\ s = "advance" /\ at = "integration" => status[Verify] \in {"succeeded", "absent"}
  /\ UNCHANGED <<lifeVars, engine, won, count>>

Taking(r) ==
  \/ Goes(r, "intake", {"advance"}) \/ Goes(r, "plan_elaboration", {"force", "elaborate"})
  \/ Goes(r, "decomposition", {"plan"})
  \/ \E at \in {"dispatch", "execution", "integration"} : Goes(r, at, {"row", "advance"})
  \/ Goes(r, "state_update", {"advance"})

\* The actions that take the next row of a phase, put in one form.
LEMMA RowsTaken ==
  ASSUME NEW r \in Runners,
         \/ Intake(r) \/ CheckGate(r) \/ Decomposition(r) \/ CheckDispatched(r)
         \/ CheckExecuted(r) \/ CheckVerified(r) \/ UpdateState(r)
  PROVE  Taking(r)
<1>1. CASE Intake(r)
  BY <1>1 DEF Intake, Take, Move, Taking, Goes
<1>2. CASE CheckGate(r)
  <2> PICK late \in {FALSE, Tardy} : LET go(c) == IF late \/ evals[c] >= MaxElaborations THEN "force" ELSE "elaborate"
         IN Take(r, "plan_elaboration", go)
    BY <1>2 DEF CheckGate
  <2> Goes(r, "plan_elaboration", {"force", "elaborate"})
    BY DEF Take, Move, Goes
  <2> QED BY DEF Taking
<1>3. CASE Decomposition(r)
  BY <1>3 DEF Decomposition, Take, Move, Taking, Goes
<1>4. CASE CheckDispatched(r)
  <2> Goes(r, "dispatch", {"row", "advance"})
    BY <1>4 DEF CheckDispatched, Take, Move, Goes
  <2> QED BY DEF Taking
<1>5. CASE CheckExecuted(r)
  <2> Goes(r, "execution", {"row", "advance"})
    BY <1>5 DEF CheckExecuted, Take, Move, Goes
  <2> QED BY DEF Taking
<1>6. CASE CheckVerified(r)
  <2> Goes(r, "integration", {"row", "advance"})
    BY <1>6 DEF CheckVerified, Take, Move, Goes
  <2> QED BY DEF Taking
<1>7. CASE UpdateState(r)
  BY <1>7 DEF UpdateState, Take, Move, Taking, Goes
<1> QED BY <1>1, <1>2, <1>3, <1>4, <1>5, <1>6, <1>7

\* Each phase of a cycle and the one after it.
LEMMA NextOf ==
  /\ After("intake") = "plan_elaboration" /\ After("plan_elaboration") = "decomposition"
  /\ After("decomposition") = "dispatch" /\ After("dispatch") = "execution"
  /\ After("execution") = "integration" /\ After("integration") = "state_update"
  /\ After("state_update") = "next_cycle_ready"
<1>1. DOMAIN Phases = 1..8
  BY DEF Phases
<1>2. /\ Phases[1] = "intake" /\ Phases[2] = "plan_elaboration" /\ Phases[3] = "decomposition"
      /\ Phases[4] = "dispatch" /\ Phases[5] = "execution" /\ Phases[6] = "integration"
      /\ Phases[7] = "state_update" /\ Phases[8] = "next_cycle_ready"
  BY DEF Phases
<1>3. \A i \in 1..8 : i = 1 \/ i = 2 \/ i = 3 \/ i = 4 \/ i = 5 \/ i = 6 \/ i = 7 \/ i = 8
  OBVIOUS
<1>4. Rank("intake") = 1 /\ Rank("plan_elaboration") = 2 /\ Rank("decomposition") = 3
      /\ Rank("dispatch") = 4
  BY <1>1, <1>2, <1>3 DEF Rank
<1>5. Rank("execution") = 5 /\ Rank("integration") = 6 /\ Rank("state_update") = 7
  BY <1>1, <1>2, <1>3 DEF Rank
<1> QED
  BY <1>2, <1>4, <1>5 DEF After

\* The phases of a tick, by number.
LEMMA PhasesOfTick ==
  /\ Len(TickOrder) = 10 /\ DOMAIN TickOrder = 1..10
  /\ TickOrder[1] = "loops" /\ TickOrder[2] = "cycles" /\ TickOrder[3] = "intake"
  /\ TickOrder[4] = "plan_elaboration" /\ TickOrder[5] = "decomposition"
  /\ TickOrder[6] = "queue" /\ TickOrder[7] = "dispatch" /\ TickOrder[8] = "execution"
  /\ TickOrder[9] = "integration" /\ TickOrder[10] = "state_update"
BY DEF TickOrder

\* Rows are only added: what fitted keeps fitting.
LEMMA FitsStays ==
  ASSUME NEW x \in TickState, Fits(x), Grows, RowsOK, RowsOK'
  PROVE  Fits(x)'
<1>1. \A l \in DOMAIN x.seen : x.seen[l] <= loops'[l]
  <2> TAKE l \in DOMAIN x.seen
  <2> l \in DOMAIN loops /\ x.seen[l] <= loops[l] /\ loops[l] <= loops'[l]
    BY DEF Fits, Grows
  <2> x.seen[l] \in Nat
    <3> x.seen \in Seq(Nat)
      BY DEF TickState
    <3> QED OBVIOUS
  <2> loops[l] \in Nat /\ loops'[l] \in Nat
    <3> loops \in Seq(0..MaxCycles) /\ loops' \in Seq(0..MaxCycles) /\ l \in DOMAIN loops'
      BY DEF RowsOK, Grows
    <3> QED BY CycleConstants
  <2> QED OBVIOUS
<1> QED BY <1>1 DEF Fits, Grows, Phase

\* The start of a phase, or of a tick, fits whatever rows there are.
LEMMA FreshFits ==
  ASSUME NEW r \in Runners, RunnersOK, NEW n, n = NextPhase(r) \/ n = TickStart
  PROVE  n \in TickState /\ Fits(n)' /\ n.rows = {} /\ n.tasks = {} /\ n.step = "select"
         /\ n.seen = <<>>
<1>1. runner[r].at \in 1..10
  BY DEF RunnersOK, TickState
<1>2. n \in TickState /\ n.step = "select" /\ n.rows = {} /\ n.tasks = {} /\ n.seen = <<>>
  <2>1. TickStart = [at |-> 1, step |-> "select", row |-> 0, rows |-> {}, tasks |-> {}, seen |-> <<>>,
            evals |-> 0, ok |-> FALSE]
    BY DEF TickStart
  <2>2. PICK a \in 1..10 : n = [at |-> a, step |-> "select", row |-> 0, rows |-> {}, tasks |-> {}, seen |-> <<>>,
            evals |-> 0, ok |-> FALSE]
    BY <1>1, <2>1, PhasesOfTick DEF NextPhase, Here
  <2>3. {} \in SUBSET Nat /\ {} \in SUBSET Nodes /\ <<>> \in Seq(Nat)
    OBVIOUS
  <2> QED BY <2>2, <2>3 DEF TickState
<1> HIDE DEF TickState
<1> QED BY <1>2 DEF Fits, PlanSteps, MakeSteps

\* What the actions do to the loops, the cycles and the keys.
Writes(r) == CreateLoop(r) \/ CreateCycle(r) \/ Advance(r) \/ ForceOverride(r)

\* A step that changes neither loops nor cycles, and makes no loop's key.
QuietRows == /\ UNCHANGED <<loops, cycles>> /\ journal \subseteq journal'
             /\ (<<"loop">> \in journal' => <<"loop">> \in journal)

\* Only four steps of a runner, and the request that adds a cycle, change loops or cycles.
LEMMA WhoWrites ==
  ASSUME EngineOK, [CycleNext]_cycleVars
  PROVE  \/ QuietRows
         \/ \E r \in Runners : Writes(r)
         \/ \E l \in DOMAIN loops : ApiCreateCycle(l)
<1>1. CASE UNCHANGED cycleVars
  BY <1>1 DEF cycleVars, engine, QuietRows
<1>2. CASE Workers \/ Requests
  BY <1>2 DEF Workers, Requests, Start, WakeUp, Progress, LateReport, Reported, AddNode, ApiReport,
     ApiRequeue, QuietRows, engine
<1>3. ASSUME NEW r \in Runners, Tick(r) \/ TickFails(r)
      PROVE  QuietRows \/ Writes(r)
  <2>1. CASE UNCHANGED engine
    BY <2>1 DEF engine, QuietRows
  <2>2. CASE Intake(r) \/ CheckGate(r) \/ Decomposition(r) \/ CheckDispatched(r)
             \/ CheckExecuted(r) \/ CheckVerified(r) \/ UpdateState(r)
    <3>1. UNCHANGED engine
      BY <2>2, RowsTaken DEF Taking, Goes
    <3> QED BY <2>1, <3>1
  <2>3. CASE Select(r) \/ EndPhase(r) \/ TickFails(r) \/ Elaborate(r)
    BY <2>1, <2>3 DEF Select, EndPhase, TickFails, Elaborate
  <2>4. CASE DecomposePlan(r) \/ ListNodes(r) \/ CreateTask(r) \/ TasksDone(r) \/ CheckUntasked(r)
    BY <2>1, <2>4 DEF DecomposePlan, ListNodes, CreateTask, TasksDone, CheckUntasked
  <2>5. CASE InsertGraph(r) \/ BridgeMilestones(r) \/ CreateVerify(r) \/ CountEvaluation(r)
    BY <2>5 DEF InsertGraph, BridgeMilestones, CreateVerify, CountEvaluation, QuietRows
  <2>6. CASE DispatchTask(r)
    BY <2>6 DEF DispatchTask, QuietRows, engine
  <2> QED
    BY <1>3, <2>2, <2>3, <2>4, <2>5, <2>6 DEF Tick, Writes
<1> QED
  BY <1>1, <1>2, <1>3 DEF CycleNext

\* What Append does to a sequence.
LEMMA Appended ==
  ASSUME NEW S, NEW s \in Seq(S), NEW e \in S
  PROVE  /\ Append(s, e) \in Seq(S) /\ Len(Append(s, e)) = Len(s) + 1
         /\ DOMAIN Append(s, e) = 1..(Len(s) + 1) /\ DOMAIN s = 1..Len(s) /\ Len(s) \in Nat
         /\ \A i \in DOMAIN s : Append(s, e)[i] = s[i]
         /\ Append(s, e)[Len(s) + 1] = e
<1>1. Append(s, e) \in Seq(S) /\ Len(Append(s, e)) = Len(s) + 1
  BY AppendProperties
<1>2. DOMAIN s = 1..Len(s) /\ Len(s) \in Nat /\ DOMAIN Append(s, e) = 1..(Len(s) + 1)
  BY <1>1, LenProperties
<1>3. /\ \A i \in 1..Len(s) : Append(s, e)[i] = s[i]
      /\ Append(s, e)[Len(s) + 1] = e
  BY AppendProperties
<1> QED BY <1>1, <1>2, <1>3

\* A row of a table overwritten.
LEMMA RowWritten ==
  ASSUME NEW S, NEW s \in Seq(S), NEW i \in DOMAIN s, NEW e \in S
  PROVE  /\ [s EXCEPT ![i] = e] \in Seq(S) /\ Len([s EXCEPT ![i] = e]) = Len(s)
         /\ DOMAIN [s EXCEPT ![i] = e] = DOMAIN s
<1>1. i \in 1..Len(s)
  BY LenProperties
<1> QED BY <1>1, ExceptSeq

\* The rows of the tables, one by one.
LEMMA RowTypes ==
  ASSUME RowsOK
  PROVE  /\ DOMAIN loops = 1..Len(loops) /\ Len(loops) \in Nat
         /\ DOMAIN cycles = 1..Len(cycles) /\ DOMAIN evals = DOMAIN cycles /\ Len(cycles) \in Nat
         /\ \A l \in DOMAIN loops : loops[l] \in 0..MaxCycles /\ loops[l] \in Nat
                                    /\ loops[l] <= Len(cycles)
         /\ \A c \in DOMAIN cycles : cycles[c] \in Cycle /\ evals[c] \in 0..MaxElaborations
<1>1. loops \in Seq(0..MaxCycles) /\ cycles \in Seq(Cycle) /\ evals \in Seq(0..MaxElaborations)
      /\ Len(evals) = Len(cycles)
  BY DEF RowsOK
<1>2. /\ DOMAIN loops = 1..Len(loops) /\ Len(loops) \in Nat
      /\ DOMAIN cycles = 1..Len(cycles) /\ Len(cycles) \in Nat /\ DOMAIN evals = DOMAIN cycles
  BY <1>1, LenProperties
<1>3. \A l \in DOMAIN loops : loops[l] \in 0..MaxCycles
  BY <1>1, <1>2, ElementOfSeq
<1>4. \A c \in DOMAIN cycles : cycles[c] \in Cycle /\ evals[c] \in 0..MaxElaborations
  BY <1>1, <1>2, ElementOfSeq
<1> QED BY <1>2, <1>3, <1>4, CycleConstants DEF RowsOK

\* Where no row of loops or cycles changes, the tables stay right.
LEMMA RowsKept ==
  ASSUME RowsOK, UNCHANGED <<loops, cycles>>, journal \subseteq journal', nodes \subseteq nodes',
         evals' \in Seq(0..MaxElaborations), Len(evals') = Len(evals)
  PROVE  RowsOK' /\ Grows
<1>1. \A l \in DOMAIN loops : loops[l] \in Nat
  BY RowTypes
<1> QED BY <1>1 DEF RowsOK, Grows, Cycle

\* A sequence over a set is one over a larger set.
LEMMA Widened ==
  ASSUME NEW S, NEW T, S \subseteq T, NEW s \in Seq(S)
  PROVE  s \in Seq(T)
<1>1. s \in [1..Len(s) -> T] /\ Len(s) \in Nat
  OBVIOUS
<1> QED BY <1>1, SeqDef

\* create_loops_for_new_objectives keeps the tables right.
LEMMA LoopMade ==
  ASSUME RowsOK, NEW r \in Runners, CreateLoop(r)
  PROVE  RowsOK' /\ Grows
<1>1. CASE <<"loop">> \in journal
  BY <1>1, RowsKept DEF CreateLoop, engine, RowsOK
<1>2. CASE <<"loop">> \notin journal
  <2>1. loops' = Append(loops, 0) /\ journal' = journal \cup {<<"loop">>}
        /\ UNCHANGED <<nodes, cycles, evals>>
    BY <1>2 DEF CreateLoop
  <2>2. loops \in Seq(0..MaxCycles) /\ 0 \in 0..MaxCycles
    BY CycleConstants DEF RowsOK
  <2>3. /\ loops' \in Seq(0..MaxCycles) /\ DOMAIN loops \subseteq DOMAIN loops'
        /\ \A l \in DOMAIN loops : loops'[l] = loops[l]
        /\ \A l \in DOMAIN loops' : l \notin DOMAIN loops => loops'[l] = 0
    BY <2>1, <2>2, Appended
  <2>4. Cycle \subseteq Cycle'
    BY <2>3 DEF Cycle
  <2>5. cycles' \in Seq(Cycle')
    <3> cycles \in Seq(Cycle)
      BY DEF RowsOK
    <3> QED BY <2>1, <2>4, Widened
  <2>6. Len(cycles) \in Nat
    BY RowTypes
  <2>7. \A l \in DOMAIN loops : loops[l] \in Nat /\ loops[l] <= Len(cycles)
    BY RowTypes
  <2>8. \A l \in DOMAIN loops' : \A i \in 1..loops'[l] : <<"cycle", l, i>> \in journal'
    <3> TAKE l \in DOMAIN loops'
    <3> TAKE i \in 1..loops'[l]
    <3> l \in DOMAIN loops
      BY <2>3
    <3> <<"cycle", l, i>> \in journal
      BY <2>3 DEF RowsOK
    <3> QED BY <2>1
  <2> QED
    BY <2>1, <2>3, <2>5, <2>6, <2>7, <2>8 DEF RowsOK, Grows
<1> QED BY <1>1, <1>2

\* What a new cycle is.
LEMMA CycleAdded ==
  ASSUME RowsOK, NEW l \in DOMAIN loops, NEW auto \in BOOLEAN, NewCycle(l, auto),
         Len(cycles) # MaxCycles
  PROVE  /\ cycles' \in Seq(Cycle) /\ Len(cycles') = Len(cycles) + 1 /\ Len(cycles') <= MaxCycles
         /\ evals' \in Seq(0..MaxElaborations) /\ Len(evals') = Len(cycles')
         /\ DOMAIN cycles' = DOMAIN cycles \cup {Len(cycles) + 1}
         /\ Len(cycles) \in Nat /\ Len(cycles) + 1 \notin DOMAIN cycles
         /\ cycles'[Len(cycles) + 1] = [loop |-> l, phase |-> "intake", auto |-> auto]
         /\ \A c \in DOMAIN cycles : cycles'[c] = cycles[c]
<1> DEFINE new == [loop |-> l, phase |-> "intake", auto |-> auto]
<1>1. cycles \in Seq(Cycle) /\ new \in Cycle /\ evals \in Seq(0..MaxElaborations)
      /\ 0 \in 0..MaxElaborations
  BY CycleConstants DEF RowsOK, Cycle, Passing, PhaseNames
<1>2. cycles' = Append(cycles, new) /\ evals' = Append(evals, 0)
  BY DEF NewCycle
<1>3. Len(cycles) \in Nat /\ Len(cycles) + 1 <= MaxCycles
  BY <1>1, CycleConstants DEF RowsOK
<1>4. DOMAIN cycles' = 1..(Len(cycles) + 1) /\ DOMAIN cycles = 1..Len(cycles)
  BY <1>1, <1>2, Appended
<1>5. DOMAIN cycles' = DOMAIN cycles \cup {Len(cycles) + 1} /\ Len(cycles) + 1 \notin DOMAIN cycles
  BY <1>3, <1>4
<1>6. evals' \in Seq(0..MaxElaborations) /\ Len(evals') = Len(evals) + 1
  BY <1>1, <1>2, Appended
<1>7. /\ cycles' \in Seq(Cycle) /\ Len(cycles') = Len(cycles) + 1
      /\ \A c \in DOMAIN cycles : cycles'[c] = cycles[c]
      /\ cycles'[Len(cycles) + 1] = new
  BY <1>1, <1>2, Appended
<1> QED BY <1>3, <1>5, <1>6, <1>7 DEF RowsOK

\* create_cycles_for_active_loops keeps the tables right: the key that is missing shows
\* that the index read is still the loop's.
LEMMA CycleMade ==
  ASSUME EngineOK, NEW r \in Runners, CreateCycle(r)
  PROVE  /\ RowsOK' /\ Grows
         /\ \/ UNCHANGED engine
            \/ \E l \in Here(r).rows : /\ l \in DOMAIN loops /\ Here(r).seen[l] = loops[l]
                                       /\ l \in DOMAIN Here(r).seen
                                       /\ NewCycle(l, TRUE) /\ Len(cycles) # MaxCycles
                                       /\ loops' = [loops EXCEPT ![l] = loops[l] + 1]
                                       /\ runner' = [runner EXCEPT ![r] =
                                                       [Here(r) EXCEPT !.rows = @ \ {l}]]
                                       /\ <<"loop">> \in journal' => <<"loop">> \in journal
<1> DEFINE x == runner[r]
<1>1. PICK l \in x.rows :
     /\ LET index == x.seen[l] + 1 IN
        IF <<"cycle", l, index>> \in journal \/ Len(cycles) = MaxCycles
        THEN UNCHANGED engine
        ELSE /\ NewCycle(l, TRUE)
             /\ loops' = [loops EXCEPT ![l] = index]
             /\ journal' = journal \cup {<<"cycle", l, index>>}
             /\ UNCHANGED nodes
     /\ Move(r, [Here(r) EXCEPT !.rows = @ \ {l}])
  BY DEF CreateCycle, Here
<1>2. CASE UNCHANGED engine
  BY <1>2, RowsKept DEF engine, EngineOK, RowsOK
<1>3. CASE ~ UNCHANGED engine
  <2>1. /\ <<"cycle", l, x.seen[l] + 1>> \notin journal /\ Len(cycles) # MaxCycles
        /\ NewCycle(l, TRUE) /\ loops' = [loops EXCEPT ![l] = x.seen[l] + 1]
        /\ journal' = journal \cup {<<"cycle", l, x.seen[l] + 1>>} /\ UNCHANGED nodes
    BY <1>1, <1>3
  <2>2. x \in TickState /\ Fits(x) /\ Phase(x) = "cycles"
    BY DEF EngineOK, RunnersOK, CreateCycle, Step, Phase
  <2>3. l \in DOMAIN x.seen /\ l \in DOMAIN loops /\ x.seen[l] <= loops[l]
    BY <2>2 DEF Fits
  <2>4. x.seen[l] \in Nat
    <3> x.seen \in Seq(Nat)
      BY <2>2 DEF TickState
    <3> QED BY <2>3
  <2>5. loops[l] \in 0..MaxCycles /\ loops \in Seq(0..MaxCycles) /\ RowsOK /\ Len(cycles) \in Nat
    BY <2>3, RowTypes DEF EngineOK, RowsOK
  <2>6. x.seen[l] = loops[l]
    <3>1. CASE x.seen[l] + 1 <= loops[l]
      <4> x.seen[l] + 1 \in 1..loops[l]
        BY <3>1, <2>4, <2>5
      <4> QED BY <2>1, <2>3, <2>5 DEF RowsOK
    <3> QED BY <3>1, <2>3, <2>4, <2>5
  <2>7. /\ cycles' \in Seq(Cycle) /\ Len(cycles') = Len(cycles) + 1 /\ Len(cycles') <= MaxCycles
        /\ evals' \in Seq(0..MaxElaborations) /\ Len(evals') = Len(cycles')
        /\ DOMAIN cycles' = DOMAIN cycles \cup {Len(cycles) + 1}
    BY <2>1, <2>3, <2>5, CycleAdded
  <2>8. loops[l] + 1 \in 0..MaxCycles /\ loops[l] + 1 <= Len(cycles')
    BY <2>3, <2>5, <2>7, CycleConstants DEF RowsOK
  <2>9. /\ loops' \in Seq(0..MaxCycles) /\ DOMAIN loops' = DOMAIN loops
        /\ loops'[l] = loops[l] + 1
        /\ \A k \in DOMAIN loops : k # l => loops'[k] = loops[k]
    <3> loops' = [loops EXCEPT ![l] = loops[l] + 1]
      BY <2>1, <2>6
    <3> QED BY <2>3, <2>5, <2>8, RowWritten
  <2>10. \A k \in DOMAIN loops' : loops'[k] <= Len(cycles') /\ loops[k] <= loops'[k]
    <3> TAKE k \in DOMAIN loops'
    <3> loops[k] \in 0..MaxCycles /\ loops[k] <= Len(cycles)
      BY <2>5, <2>9, RowTypes
    <3> QED BY <2>5, <2>7, <2>8, <2>9
  <2>11. \A k \in DOMAIN loops' : \A i \in 1..loops'[k] : <<"cycle", k, i>> \in journal'
    <3> TAKE k \in DOMAIN loops'
    <3> TAKE i \in 1..loops'[k]
    <3>1. CASE k = l /\ i = loops[l] + 1
      BY <3>1, <2>1, <2>6
    <3>2. CASE ~(k = l /\ i = loops[l] + 1)
      <4> loops[k] \in 0..MaxCycles
        BY <2>5, <2>9, RowTypes
      <4> i \in 1..loops[k]
        BY <3>2, <2>9
      <4> QED BY <2>1, <2>5, <2>9 DEF RowsOK
    <3> QED BY <3>1, <3>2
  <2>12. cycles' \in Seq(Cycle')
    <3> Cycle' = Cycle
      BY <2>9 DEF Cycle
    <3> QED BY <2>7
  <2>13. RowsOK' /\ Grows
    BY <2>1, <2>7, <2>9, <2>10, <2>11, <2>12 DEF RowsOK, Grows
  <2> QED BY <1>1, <2>1, <2>3, <2>6, <2>13 DEF Here, Move
<1> QED BY <1>2, <1>3
\* A runner in the middle of a row works on a cycle there is.
LEMMA AtWork ==
  ASSUME EngineOK, NEW r \in Runners, Here(r).step \notin {"select", "row"}
  PROVE  Here(r).row \in DOMAIN cycles /\ Here(r) \in TickState /\ Fits(Here(r))
         /\ TickOrder[Here(r).at] = Phase(Here(r))
BY DEF EngineOK, RunnersOK, Fits, Here, Phase

\* A cycle moved to a phase differs in its phase only.
LEMMA PhaseSet ==
  ASSUME RowsOK, NEW c \in DOMAIN cycles, NEW p \in PhaseNames,
         cycles' = [cycles EXCEPT ![c].phase = p]
  PROVE  /\ cycles' \in Seq(Cycle) /\ Len(cycles') = Len(cycles) /\ DOMAIN cycles' = DOMAIN cycles
         /\ cycles'[c] = [cycles[c] EXCEPT !.phase = p]
         /\ \A e \in DOMAIN cycles : e # c => cycles'[e] = cycles[e]
         /\ cycles'[c].phase = p /\ cycles'[c].loop = cycles[c].loop
         /\ cycles'[c].auto = cycles[c].auto
<1>1. cycles[c] \in Cycle
  BY RowTypes
<1>2. [cycles[c] EXCEPT !.phase = p] \in Cycle
  BY <1>1 DEF Cycle
<1>3. cycles' = [cycles EXCEPT ![c] = [cycles[c] EXCEPT !.phase = p]] /\ cycles \in Seq(Cycle)
  BY DEF RowsOK
<1>4. cycles' \in Seq(Cycle) /\ Len(cycles') = Len(cycles) /\ DOMAIN cycles' = DOMAIN cycles
  BY <1>2, <1>3, RowWritten
<1>5. cycles'[c] = [cycles[c] EXCEPT !.phase = p] /\ \A e \in DOMAIN cycles : e # c => cycles'[e] = cycles[e]
  BY <1>3
<1>6. cycles'[c].phase = p /\ cycles'[c].loop = cycles[c].loop /\ cycles'[c].auto = cycles[c].auto
  BY <1>1, <1>5 DEF Cycle
<1> QED BY <1>4, <1>5, <1>6

\* advance_cycle_phase moves a cycle from the phase of the tick to the next, or does nothing.
LEMMA Advances ==
  ASSUME EngineOK, NEW r \in Runners, Advance(r)
  PROVE  \/ UNCHANGED <<loops, cycles, evals, nodes, journal>>
         \/ /\ Here(r).row \in DOMAIN cycles
            /\ cycles[Here(r).row].phase = Phase(Here(r)) /\ Phase(Here(r)) \in Passing
            /\ After(Phase(Here(r))) \in PhaseNames
            /\ cycles' = [cycles EXCEPT ![Here(r).row].phase = After(Phase(Here(r)))]
            /\ UNCHANGED <<loops, evals, nodes>> /\ journal \subseteq journal'
            /\ (<<"loop">> \in journal' => <<"loop">> \in journal)
<1>1. Here(r).row \in DOMAIN cycles /\ Here(r) \in TickState /\ Fits(Here(r))
      /\ TickOrder[Here(r).at] = Phase(Here(r)) /\ Phase(Here(r)) \in Passing
  BY AtWork DEF Advance, Fits
<1>2. After(Phase(Here(r))) \in PhaseNames
  BY <1>1, NextOf DEF Passing, PhaseNames
<1> QED BY <1>1, <1>2 DEF Advance, engine

\* Moving a cycle keeps the tables right.
LEMMA RowsWritten ==
  ASSUME EngineOK, NEW r \in Runners, Advance(r) \/ ForceOverride(r)
  PROVE  RowsOK' /\ Grows
<1>1. RowsOK
  BY DEF EngineOK
<1>2. CASE /\ UNCHANGED <<loops, evals, nodes>> /\ journal \subseteq journal'
           /\ \E p \in PhaseNames, c \in DOMAIN cycles : cycles' = [cycles EXCEPT ![c].phase = p]
  <2>1. PICK p \in PhaseNames, c \in DOMAIN cycles : cycles' = [cycles EXCEPT ![c].phase = p]
    BY <1>2
  <2>2. cycles' \in Seq(Cycle) /\ Len(cycles') = Len(cycles) /\ DOMAIN cycles' = DOMAIN cycles
    BY <1>1, <2>1, PhaseSet
  <2>3. Cycle' = Cycle
    BY <1>2 DEF Cycle
  <2>4. \A l \in DOMAIN loops : loops[l] \in Nat
    BY <1>1, RowTypes
  <2> QED BY <1>1, <1>2, <2>2, <2>3, <2>4 DEF RowsOK, Grows
<1>3. CASE UNCHANGED <<loops, cycles, evals, nodes, journal>>
  BY <1>1, <1>3, RowsKept DEF RowsOK
<1>4. CASE Advance(r)
  BY <1>2, <1>3, <1>4, Advances
<1>5. CASE ForceOverride(r)
  <2>1. Here(r).row \in DOMAIN cycles
    BY <1>5, AtWork DEF ForceOverride, Step, Here
  <2> QED BY <1>2, <1>5, <2>1 DEF ForceOverride, Passing, PhaseNames
<1> QED BY <1>4, <1>5

\* Every step keeps the tables right, and takes no row away.
LEMMA RowsStep ==
  ASSUME EngineOK, [CycleNext]_cycleVars
  PROVE  RowsOK' /\ Grows
<1>1. RowsOK
  BY DEF EngineOK
<1>2. CASE UNCHANGED <<loops, cycles, evals>> /\ journal \subseteq journal' /\ nodes \subseteq nodes'
  BY <1>1, <1>2, RowsKept DEF RowsOK
<1>3. CASE UNCHANGED cycleVars
  BY <1>2, <1>3 DEF cycleVars, engine
<1>4. CASE Workers
  BY <1>2, <1>4 DEF Workers, Start, WakeUp, Progress, LateReport, Reported, engine
<1>5. CASE Requests
  <2>1. CASE \E l \in DOMAIN loops : ApiCreateCycle(l)
    <3> PICK l \in DOMAIN loops : ApiCreateCycle(l)
      BY <2>1
    <3>1. /\ cycles' \in Seq(Cycle) /\ Len(cycles') = Len(cycles) + 1 /\ Len(cycles') <= MaxCycles
          /\ evals' \in Seq(0..MaxElaborations) /\ Len(evals') = Len(cycles')
          /\ DOMAIN cycles' = DOMAIN cycles \cup {Len(cycles) + 1}
      <4> NewCycle(l, FALSE) /\ Len(cycles) # MaxCycles /\ FALSE \in BOOLEAN
        <5> Len(cycles) \in Nat
          BY <1>1, RowTypes
        <5> MaxCycles \in Nat /\ Len(cycles) < MaxCycles
          BY CycleConstants DEF ApiCreateCycle
        <5> Len(cycles) # MaxCycles
          OBVIOUS
        <5> QED BY DEF ApiCreateCycle
      <4> QED BY <1>1, CycleAdded
    <3>2. UNCHANGED <<loops, nodes, journal>> /\ Cycle' = Cycle
      BY DEF ApiCreateCycle, Cycle
    <3>3. \A k \in DOMAIN loops : loops[k] \in Nat /\ loops[k] <= Len(cycles) /\ loops[k] <= Len(cycles')
      BY <1>1, <3>1, RowTypes
    <3> QED BY <1>1, <3>1, <3>2, <3>3 DEF RowsOK, Grows
  <2>2. CASE \E n \in Nodes : AddNode(n) \/ ApiReport(n)
    BY <1>2, <2>2 DEF AddNode, ApiReport, engine
  <2>3. CASE ApiRequeue
    BY <1>2, <2>3 DEF ApiRequeue, engine
  <2> QED BY <1>5, <2>1, <2>2, <2>3 DEF Requests
<1>6. ASSUME NEW r \in Runners, Tick(r) \/ TickFails(r)
      PROVE  RowsOK' /\ Grows
  <2>1. CASE UNCHANGED engine
    BY <1>2, <2>1 DEF engine
  <2>2. CASE Intake(r) \/ CheckGate(r) \/ Decomposition(r) \/ CheckDispatched(r)
             \/ CheckExecuted(r) \/ CheckVerified(r) \/ UpdateState(r)
    <3>1. UNCHANGED engine
      BY <2>2, RowsTaken DEF Taking, Goes
    <3> QED BY <2>1, <3>1
  <2>3. CASE Select(r) \/ EndPhase(r) \/ TickFails(r) \/ Elaborate(r)
    BY <2>1, <2>3 DEF Select, EndPhase, TickFails, Elaborate
  <2>4. CASE DecomposePlan(r) \/ ListNodes(r) \/ CreateTask(r) \/ TasksDone(r) \/ CheckUntasked(r)
    BY <2>1, <2>4 DEF DecomposePlan, ListNodes, CreateTask, TasksDone, CheckUntasked
  <2>5. CASE InsertGraph(r) \/ BridgeMilestones(r) \/ CreateVerify(r)
    BY <1>2, <2>5 DEF InsertGraph, BridgeMilestones, CreateVerify, AddPlan
  <2>6. CASE DispatchTask(r)
    BY <1>2, <2>6 DEF DispatchTask, engine
  <2>7. CASE CountEvaluation(r)
    <3> DEFINE c == Here(r).row
               e == IF Here(r).evals = evals[c] THEN evals[c] + 1 ELSE evals[c]
    <3>1. c \in DOMAIN cycles /\ Here(r) \in TickState /\ Fits(Here(r)) /\ Here(r).step = "count"
      BY <2>7, AtWork DEF CountEvaluation, Step, Here
    <3>2. Here(r).evals < MaxElaborations
      BY <3>1 DEF Fits
    <3>3. evals[c] \in 0..MaxElaborations /\ c \in DOMAIN evals
      BY <1>1, <3>1, RowTypes
    <3>4. e \in 0..MaxElaborations
      BY <3>2, <3>3, CycleConstants
    <3>5. evals' = [evals EXCEPT ![c] = e]
      BY <2>7 DEF CountEvaluation
    <3>6. evals \in Seq(0..MaxElaborations)
      BY <1>1 DEF RowsOK
    <3> HIDE DEF c, e
    <3>7. evals' \in Seq(0..MaxElaborations) /\ Len(evals') = Len(evals)
      BY <3>3, <3>4, <3>5, <3>6, RowWritten
    <3> QED BY <1>1, <2>7, <3>7, RowsKept DEF CountEvaluation
  <2>8. CASE CreateLoop(r)
    BY <1>1, <2>8, LoopMade
  <2>9. CASE CreateCycle(r)
    BY <2>9, CycleMade
  <2>10. CASE Advance(r) \/ ForceOverride(r)
    BY <2>10, RowsWritten
  <2> QED
    BY <1>6, <2>2, <2>3, <2>4, <2>5, <2>6, <2>7, <2>8, <2>9, <2>10 DEF Tick
<1> QED
  BY <1>3, <1>4, <1>5, <1>6 DEF CycleNext

\* Every step keeps tasks, nodes and edges well typed.
LEMMA LifeStep ==
  ASSUME EngineOK, [CycleNext]_cycleVars
  PROVE  LifeOK'
<1> USE DEF LifeOK
<1>1. LifeOK /\ Verify \in Nodes
  BY CycleConstants DEF EngineOK
<1>2. CASE UNCHANGED <<lifeVars, nodes>>
  BY <1>1, <1>2 DEF lifeVars
<1>3. CASE UNCHANGED cycleVars
  BY <1>2, <1>3 DEF cycleVars, engine
<1>4. CASE Workers
  <2> UNCHANGED nodes
    BY <1>4 DEF Workers, Start, WakeUp, Progress, LateReport, Reported, engine
  <2>1. ASSUME NEW n \in Nodes, Start(n) \/ WakeUp(n)
        PROVE  LifeOK'
    BY <1>1, <2>1 DEF Start, Begin, WakeUp, Wake, SetStatus, TaskStatuses
  <2>2. ASSUME NEW n \in Nodes, NEW s \in Outcomes \cup {"running"}, Reported(n, s)
        PROVE  LifeOK'
    BY <1>1, <2>2 DEF Reported, Record, SetStatus, TaskStatuses
  <2> QED BY <1>4, <2>1, <2>2 DEF Workers, Progress, LateReport
<1>5. CASE Requests
  <2>1. ASSUME NEW l, ApiCreateCycle(l)
        PROVE  LifeOK'
    BY <1>2, <2>1 DEF ApiCreateCycle
  <2>2. ASSUME NEW n \in Nodes, AddNode(n)
        PROVE  LifeOK'
    BY <1>1, <2>2 DEF AddNode, lifeVars
  <2>3. ASSUME NEW n \in Nodes, ApiReport(n)
        PROVE  LifeOK'
    BY <1>1, <2>3 DEF ApiReport, Report, SetStatus, TaskStatuses, engine, Outcomes
  <2>4. CASE ApiRequeue
    BY <1>1, <2>4 DEF ApiRequeue, Requeue, SetStatus, TaskStatuses, engine
  <2> QED BY <1>5, <2>1, <2>2, <2>3, <2>4 DEF Requests
<1>6. ASSUME NEW r \in Runners, Tick(r) \/ TickFails(r)
      PROVE  LifeOK'
  <2>2. CASE Intake(r) \/ CheckGate(r) \/ Decomposition(r) \/ CheckDispatched(r)
             \/ CheckExecuted(r) \/ CheckVerified(r) \/ UpdateState(r)
    <3>1. UNCHANGED <<lifeVars, nodes>>
      BY <2>2, RowsTaken DEF Taking, Goes, engine
    <3> QED BY <1>2, <3>1
  <2>3. CASE Select(r) \/ EndPhase(r) \/ TickFails(r) \/ Advance(r) \/ ForceOverride(r)
             \/ CreateLoop(r) \/ CreateCycle(r) \/ CountEvaluation(r)
    <3>1. UNCHANGED <<lifeVars, nodes>>
      BY <2>3 DEF Select, EndPhase, TickFails, Advance, ForceOverride, CreateLoop, CreateCycle,
         CountEvaluation, engine
    <3> QED BY <1>2, <3>1
  <2>4. CASE DecomposePlan(r) \/ ListNodes(r) \/ TasksDone(r) \/ CheckUntasked(r)
    <3>1. UNCHANGED <<lifeVars, nodes>>
      BY <2>4 DEF DecomposePlan, ListNodes, TasksDone, CheckUntasked, engine
    <3> QED BY <1>2, <3>1
  <2>5. CASE Elaborate(r)
    BY <1>1, <2>5, CycleConstants DEF Elaborate, Evaluate, engine
  <2>6. CASE InsertGraph(r) \/ BridgeMilestones(r)
    BY <1>1, <2>6, CycleConstants DEF InsertGraph, BridgeMilestones, AddPlan
  <2>7. CASE CreateVerify(r)
    BY <1>1, <2>7 DEF CreateVerify
  <2>8. CASE CreateTask(r)
    <3> UNCHANGED nodes
      BY <2>8 DEF CreateTask, engine
    <3> QED BY <1>1, <2>8 DEF CreateTask, Create, SetStatus, TaskStatuses, lifeVars
  <2>9. CASE DispatchTask(r)
    <3> UNCHANGED nodes
      BY <2>9 DEF DispatchTask, engine
    <3> QED BY <1>1, <2>9 DEF DispatchTask, Dispatch, SetStatus, TaskStatuses, lifeVars
  <2> QED
    BY <1>6, <2>2, <2>3, <2>4, <2>5, <2>6, <2>7, <2>8, <2>9 DEF Tick
<1> QED
  BY <1>3, <1>4, <1>5, <1>6 DEF CycleNext

\* A runner that moves leaves the others where they are.
LEMMA OneMoves ==
  ASSUME RunnersOK, NEW r \in Runners, NEW n \in TickState, Move(r, n)
  PROVE  /\ runner' \in [Runners -> TickState] /\ runner'[r] = n
         /\ \A s \in Runners : s # r => runner'[s] = runner[s]
BY DEF RunnersOK, Move

\* A runner that moves to a place that fits leaves all of them fitting.
LEMMA MoveFits ==
  ASSUME EngineOK, RowsOK', Grows, NEW r \in Runners, NEW n \in TickState, Fits(n)', Move(r, n)
  PROVE  RunnersOK'
<1>1. /\ runner' \in [Runners -> TickState] /\ runner'[r] = n
      /\ \A s \in Runners : s # r => runner'[s] = runner[s]
  BY OneMoves DEF EngineOK
<1>2. ASSUME NEW s \in Runners, NEW x, x = runner'[s]
      PROVE  Fits(x)'
  <2>1. CASE s = r
    BY <1>1, <1>2, <2>1
  <2>2. CASE s # r
    <3>1. x \in TickState /\ Fits(x)
      BY <1>1, <1>2, <2>2 DEF EngineOK, RunnersOK
    <3> QED BY <3>1, FitsStays DEF EngineOK
  <2> QED BY <2>1, <2>2
<1>3. \A s \in Runners : Fits(runner[s])'
  BY <1>2 DEF Fits, Phase
<1> QED BY <1>1, <1>3 DEF RunnersOK

\* A runner that goes on within a phase fits.
LEMMA FitsNext ==
  ASSUME EngineOK, RowsOK', Grows, NEW x \in TickState, Fits(x), NEW n \in TickState,
         n.at = x.at, n.rows \subseteq x.rows, n.seen = x.seen, n.tasks \subseteq nodes',
         n.step \notin {"select", "row"} => n.row \in DOMAIN cycles,
         n.step \in PlanSteps => Phase(x) = "plan_elaboration",
         n.step \in MakeSteps => Phase(x) = "decomposition",
         n.step = "advance" => Phase(x) \in Passing,
         n.step \in {"elaborate", "count"} => n.evals < MaxElaborations
  PROVE  Fits(n)'
<1>1. Fits(x)'
  BY FitsStays DEF EngineOK
<1> QED BY <1>1 DEF Fits, Phase, Grows

\* A runner is done with a row, or goes on to another step with it.
LEMMA RowMoves ==
  ASSUME EngineOK, RowsOK', Grows, NEW r \in Runners, NEW x \in TickState, x = runner[r],
         NEW n, Move(r, n),
         \/ n = RowDone(r)
         \/ /\ \E s \in {"advance"} \cup PlanSteps \cup MakeSteps : n = [x EXCEPT !.step = s]
            /\ x.step \notin {"select", "row"}
            /\ n.step \in PlanSteps => Phase(x) = "plan_elaboration"
            /\ n.step \in MakeSteps => Phase(x) = "decomposition"
            /\ n.step = "advance" => Phase(x) \in Passing
            /\ n.step \in {"elaborate", "count"} => n.evals < MaxElaborations
         \/ \E N \in SUBSET x.tasks : n = [x EXCEPT !.tasks = N]
         \/ \E N \in SUBSET x.rows : n = [x EXCEPT !.rows = N]
  PROVE  RunnersOK'
<1>1. Fits(x)
  BY DEF EngineOK, RunnersOK
<1>2. n \in TickState /\ n.at = x.at /\ n.rows \subseteq x.rows /\ n.seen = x.seen
      /\ n.tasks \subseteq x.tasks
  <2>1. x.step \in {"select", "row", "advance"} \cup PlanSteps \cup MakeSteps
    BY DEF TickState
  <2>2. CASE n = RowDone(r)
    BY <2>2 DEF TickState, RowDone, Here
  <2>3. CASE \E s \in {"advance"} \cup PlanSteps \cup MakeSteps : n = [x EXCEPT !.step = s]
    BY <2>3 DEF TickState
  <2>4. CASE \E N \in SUBSET x.tasks : n = [x EXCEPT !.tasks = N]
    BY <2>4 DEF TickState
  <2>5. CASE \E N \in SUBSET x.rows : n = [x EXCEPT !.rows = N]
    BY <2>5 DEF TickState
  <2> QED BY <2>2, <2>3, <2>4, <2>5
<1>3. n.tasks \subseteq nodes'
  BY <1>1, <1>2 DEF Fits, Grows
<1>4. /\ n.step \notin {"select", "row"} => n.row \in DOMAIN cycles
      /\ n.step \in PlanSteps => Phase(x) = "plan_elaboration"
      /\ n.step \in MakeSteps => Phase(x) = "decomposition"
      /\ n.step = "advance" => Phase(x) \in Passing
      /\ n.step \in {"elaborate", "count"} => n.evals < MaxElaborations
  BY <1>1, <1>2 DEF TickState, RowDone, Here, Fits, PlanSteps, MakeSteps
<1>5. Fits(n)'
  BY <1>1, <1>2, <1>3, <1>4, FitsNext
<1> QED BY <1>2, <1>5, MoveFits

\* A runner that takes a row fits.
LEMMA TakingFits ==
  ASSUME EngineOK, RowsOK', Grows, NEW r \in Runners, Taking(r)
  PROVE  RunnersOK'
<1>1. runner[r] \in TickState /\ Fits(runner[r])
  BY DEF EngineOK, RunnersOK
<1>2. PICK x \in TickState : x = runner[r] /\ Fits(x)
  BY <1>1
<1>3. PICK at \in Passing, y \in x.rows, s \in {"row", "advance", "force", "elaborate", "plan"} :
          /\ Phase(x) = at
          /\ runner' = [runner EXCEPT ![r] =
            [x EXCEPT !.rows = @ \ {y}, !.row = y, !.step = s,
                            !.evals = IF y \in DOMAIN evals THEN evals[y] ELSE 0]]
          /\ s = "elaborate" => ~(evals[y] >= MaxElaborations)
          /\ s \in {"force", "elaborate"} => at = "plan_elaboration"
          /\ s = "plan" => at = "decomposition"
  <2>1. PICK at \in Passing, steps \in SUBSET {"row", "advance", "force", "elaborate", "plan"} :
           /\ Goes(r, at, steps)
           /\ ("force" \in steps \/ "elaborate" \in steps => at = "plan_elaboration")
           /\ ("plan" \in steps => at = "decomposition")
    BY DEF Taking, Passing
  <2>2. PICK y \in x.rows, s \in steps :
          /\ runner' = [runner EXCEPT ![r] =
            [x EXCEPT !.rows = @ \ {y}, !.row = y, !.step = s,
                            !.evals = IF y \in DOMAIN evals THEN evals[y] ELSE 0]]
          /\ s = "elaborate" => ~(evals[y] >= MaxElaborations)
    BY <1>2, <2>1 DEF Goes, Here
  <2>3. Phase(x) = at
    BY <1>2, <2>1 DEF Goes, Step, Phase
  <2> QED BY <2>1, <2>2, <2>3
<1> DEFINE n == [x EXCEPT !.rows = @ \ {y}, !.row = y, !.step = s,
                            !.evals = IF y \in DOMAIN evals THEN evals[y] ELSE 0]
<1>4. y \in DOMAIN cycles /\ y \in Nat /\ evals[y] \in 0..MaxElaborations /\ y \in DOMAIN evals
  BY <1>2, <1>3, RowTypes DEF EngineOK, Fits
<1>5. evals[y] \in Nat /\ (s = "elaborate" => evals[y] < MaxElaborations)
  BY <1>3, <1>4, CycleConstants
<1>6. /\ n \in TickState /\ n.at = x.at /\ n.rows \subseteq x.rows /\ n.seen = x.seen
      /\ n.tasks = x.tasks /\ n.row = y /\ n.step = s /\ n.evals = evals[y]
  BY <1>3, <1>4, <1>5 DEF TickState, PlanSteps, MakeSteps
<1>7. UNCHANGED nodes
  BY DEF Taking, Goes, engine
<1>8. PICK m \in TickState : m = n
  BY <1>6
<1>9. Move(r, m)
  BY <1>2, <1>3, <1>8 DEF Move
<1>10. Fits(m)'
  <2>1. m.tasks \subseteq nodes'
    BY <1>2, <1>6, <1>7, <1>8 DEF Fits
  <2>2. /\ m.step \in PlanSteps => Phase(x) = "plan_elaboration"
        /\ m.step \in MakeSteps => Phase(x) = "decomposition"
        /\ m.step = "advance" => Phase(x) \in Passing
        /\ m.step \in {"elaborate", "count"} => m.evals < MaxElaborations
    BY <1>3, <1>5, <1>6, <1>8 DEF PlanSteps, MakeSteps
  <2>3. m.step \notin {"select", "row"} => m.row \in DOMAIN cycles
    BY <1>4, <1>6, <1>8
  <2> QED BY <1>2, <1>6, <1>8, <2>1, <2>2, <2>3, FitsNext
<1> QED BY <1>9, <1>10, MoveFits

\* A runner that has selected rows fits.
LEMMA SelectFits ==
  ASSUME EngineOK, RowsOK', Grows, NEW r \in Runners, Select(r)
  PROVE  RunnersOK'
<1>1. runner[r] \in TickState /\ Fits(runner[r]) /\ RunnersOK
  BY DEF EngineOK, RunnersOK
<1>2. PICK x \in TickState : x = runner[r] /\ Fits(x)
  BY <1>1
<1> DEFINE at == Phase(x)
           tasks == IF at = "queue" THEN Queued ELSE {}
           n == [x EXCEPT !.step = "row", !.rows = Selected(at), !.tasks = tasks, !.seen = loops]
<1>3. Move(r, NextPhase(r)) \/ Move(r, n)
  BY <1>2 DEF Select, Phase, Here
<1>4. CASE Move(r, NextPhase(r))
  <2>1. NextPhase(r) \in TickState
    BY <1>1, FreshFits
  <2>2. PICK m \in TickState : m = NextPhase(r)
    BY <2>1
  <2>3. Fits(m)'
    BY <1>1, <2>2, FreshFits
  <2> QED BY <1>4, <2>2, <2>3, MoveFits
<1>5. CASE Move(r, n)
  <2>1. UNCHANGED <<loops, cycles, nodes>>
    BY DEF Select, engine
  <2>2. loops \in Seq(Nat) /\ \A l \in DOMAIN loops : loops[l] \in Nat
    <3> loops \in Seq(0..MaxCycles) /\ 0..MaxCycles \subseteq Nat
      BY CycleConstants DEF EngineOK, RowsOK
    <3> QED BY Widened, RowTypes DEF EngineOK
  <2>3. at \in {"loops", "cycles", "queue"} \cup Passing
    BY <1>2, PhasesOfTick DEF Phase, TickState, Passing
  <2>4. /\ Selected(at) \subseteq Nat
        /\ at \in Passing => Selected(at) \subseteq DOMAIN cycles
        /\ at = "cycles" => Selected(at) \subseteq DOMAIN loops
    <3>1. DOMAIN cycles \subseteq Nat /\ DOMAIN loops \subseteq Nat
      BY RowTypes DEF EngineOK
    <3>2. at = "loops" => Selected(at) \subseteq {0}
      BY DEF Selected
    <3>3. at = "cycles" => Selected(at) \subseteq DOMAIN loops
      BY DEF Selected
    <3>4. at = "queue" => Selected(at) = {}
      BY DEF Selected
    <3>5. at \in Passing => Selected(at) \subseteq DOMAIN cycles
      BY DEF Selected, Passing, InPhase
    <3> QED BY <2>3, <3>1, <3>2, <3>3, <3>4, <3>5
  <2>5. tasks \subseteq nodes /\ tasks \subseteq Nodes
    BY DEF Queued, EngineOK, LifeOK
  <2> HIDE DEF at, tasks
  <2>6. n \in TickState /\ n.at = x.at /\ n.step = "row" /\ n.rows = Selected(at)
        /\ n.tasks = tasks /\ n.seen = loops
    BY <2>2, <2>4, <2>5 DEF TickState
  <2> HIDE DEF n
  <2>7. Phase(n) = at
    BY <2>6 DEF Phase, at
  <2>8. PICK m \in TickState : m = n
    BY <2>6
  <2>9. Fits(m)'
    <3>1. m.step = "row" /\ m.rows = Selected(at) /\ m.tasks = tasks /\ m.seen = loops /\ Phase(m) = at
      BY <2>6, <2>7, <2>8
    <3>2. \A l \in DOMAIN m.seen : m.seen[l] <= loops'[l]
      BY <2>1, <2>2, <3>1
    <3>3. Phase(m)' = at
      BY <3>1 DEF Phase
    <3>4. m.step \notin PlanSteps \cup MakeSteps \cup {"advance", "elaborate", "count"}
      BY <3>1 DEF PlanSteps, MakeSteps
    <3> QED BY <2>1, <2>4, <2>5, <3>1, <3>2, <3>3, <3>4 DEF Fits
  <2> QED BY <1>5, <2>8, <2>9, MoveFits
<1> QED BY <1>3, <1>4, <1>5
\* Every step keeps the runners fitting.
LEMMA RunnersStep ==
  ASSUME EngineOK, [CycleNext]_cycleVars
  PROVE  RunnersOK'
<1>1. RowsOK' /\ Grows
  BY RowsStep
<1>2. CASE UNCHANGED runner
  <2>1. ASSUME NEW s \in Runners, NEW x, x = runner[s]
        PROVE  Fits(x)'
    BY <1>1, <2>1, FitsStays DEF EngineOK, RunnersOK
  <2>2. \A s \in Runners : Fits(runner[s])'
    BY <1>2, <2>1 DEF Fits, Phase
  <2> QED BY <1>2, <2>2 DEF EngineOK, RunnersOK
<1>3. CASE UNCHANGED cycleVars \/ Workers \/ Requests
  <2> UNCHANGED runner
    BY <1>3 DEF cycleVars, Workers, Start, WakeUp, Progress, LateReport, Reported, Requests,
       ApiCreateCycle, AddNode, ApiReport, ApiRequeue
  <2> QED BY <1>2
<1>4. ASSUME NEW r \in Runners, Tick(r) \/ TickFails(r)
      PROVE  RunnersOK'
  <2>1. PICK x \in TickState : x = runner[r] /\ Fits(x) /\ x = Here(r)
    BY DEF EngineOK, RunnersOK, Here
  <2> HIDE DEF TickState, Fits
  <2>2. CASE Intake(r) \/ CheckGate(r) \/ Decomposition(r) \/ CheckDispatched(r)
             \/ CheckExecuted(r) \/ CheckVerified(r) \/ UpdateState(r)
    BY <1>1, <2>2, RowsTaken, TakingFits
  <2>3. CASE Select(r)
    BY <1>1, <2>3, SelectFits
  <2>4. CASE EndPhase(r) \/ TickFails(r)
    <3>1. PICK n : n \in {NextPhase(r), TickStart} /\ Move(r, n)
      BY <2>4 DEF EndPhase, TickFails
    <3>2. n \in TickState /\ Fits(n)'
      BY <3>1, FreshFits DEF EngineOK
    <3> QED BY <1>1, <3>1, <3>2, MoveFits
  <2>5. CASE CreateLoop(r) \/ CreateCycle(r)
    <3>1. PICK N \in SUBSET x.rows : Move(r, [x EXCEPT !.rows = N])
      BY <2>1, <2>5 DEF CreateLoop, CreateCycle
    <3> DEFINE n == [x EXCEPT !.rows = N]
    <3>2. Move(r, n)
      BY <3>1
    <3>3. \E M \in SUBSET x.rows : n = [x EXCEPT !.rows = M]
      OBVIOUS
    <3> HIDE DEF n
    <3> QED BY <1>1, <2>1, <3>2, <3>3, RowMoves
  <2>6. CASE CreateTask(r) \/ DispatchTask(r)
    <3>1. PICK N \in SUBSET x.tasks : Move(r, [x EXCEPT !.tasks = N])
      BY <2>1, <2>6 DEF CreateTask, DispatchTask
    <3> DEFINE n == [x EXCEPT !.tasks = N]
    <3>2. Move(r, n)
      BY <3>1
    <3>3. \E M \in SUBSET x.tasks : n = [x EXCEPT !.tasks = M]
      OBVIOUS
    <3> HIDE DEF n
    <3> QED BY <1>1, <2>1, <3>2, <3>3, RowMoves
  <2>7. CASE Advance(r) \/ ForceOverride(r)
    <3> Move(r, RowDone(r))
      BY <2>7 DEF Advance, ForceOverride
    <3> QED BY <1>1, <2>1, RowMoves
  <2>8. CASE CountEvaluation(r) \/ CheckUntasked(r)
    <3>1. CASE Move(r, RowDone(r))
      BY <1>1, <2>1, <3>1, RowMoves
    <3>2. CASE ~ Move(r, RowDone(r))
      <4> DEFINE n == [x EXCEPT !.step = "advance"]
      <4>1. Move(r, n)
        BY <2>1, <2>8, <3>2 DEF CountEvaluation, CheckUntasked
      <4>2. x.step \in {"count", "untasked"} /\ Phase(x) \in Passing
        BY <2>1, <2>8 DEF CountEvaluation, CheckUntasked, Step, Here, Phase, Passing
      <4>3. \E s \in {"advance"} \cup PlanSteps \cup MakeSteps : n = [x EXCEPT !.step = s]
        OBVIOUS
      <4>4. n.step = "advance" /\ n.step \notin PlanSteps \cup MakeSteps \cup {"elaborate", "count"}
        BY DEF PlanSteps, MakeSteps, TickState
      <4> HIDE DEF n
      <4> QED BY <1>1, <2>1, <4>1, <4>2, <4>3, <4>4, RowMoves
    <3> QED BY <3>1, <3>2
  <2>9. CASE Elaborate(r)
    <3>1. PICK verdict \in Verdicts : Move(r, [Here(r) EXCEPT !.step = "count", !.ok = (verdict = "satisfied")])
      BY <2>9 DEF Elaborate
    <3> DEFINE n == [x EXCEPT !.step = "count", !.ok = (verdict = "satisfied")]
    <3>2. x.step = "elaborate" /\ Phase(x) = "plan_elaboration"
      BY <2>1, <2>9 DEF Elaborate, Step, Phase
    <3>3. n \in TickState
      BY DEF TickState, PlanSteps
    <3>4. /\ n.at = x.at /\ n.rows = x.rows /\ n.seen = x.seen /\ n.tasks = x.tasks
          /\ n.row = x.row /\ n.step = "count" /\ n.evals = x.evals
      BY DEF TickState
    <3>5. Move(r, n)
      BY <2>1, <3>1
    <3>6. PICK m \in TickState : m = n
      BY <3>3
    <3> HIDE DEF n
    <3>7. m.row \in DOMAIN cycles /\ m.evals < MaxElaborations /\ m.tasks \subseteq nodes'
      BY <1>1, <2>1, <3>2, <3>4, <3>6 DEF Fits, Grows
    <3>8. m.step \notin MakeSteps \cup {"advance"}
      BY <3>4, <3>6 DEF MakeSteps
    <3>9. Fits(m)'
      BY <1>1, <2>1, <3>2, <3>4, <3>6, <3>7, <3>8, FitsNext
    <3> QED BY <1>1, <3>5, <3>6, <3>9, MoveFits
  <2>10. CASE DecomposePlan(r) \/ InsertGraph(r) \/ BridgeMilestones(r) \/ TasksDone(r)
              \/ CreateVerify(r)
    <3>1. PICK s \in MakeSteps : Move(r, [x EXCEPT !.step = s])
      BY <2>1, <2>10 DEF DecomposePlan, InsertGraph, BridgeMilestones, TasksDone, CreateVerify, MakeSteps
    <3>2. x.step \in MakeSteps /\ Phase(x) = "decomposition"
      BY <2>1, <2>10 DEF DecomposePlan, InsertGraph, BridgeMilestones, TasksDone, CreateVerify,
         MakeSteps, Step, Phase
    <3> DEFINE n == [x EXCEPT !.step = s]
    <3>3. Move(r, n) /\ \E t \in {"advance"} \cup PlanSteps \cup MakeSteps : n = [x EXCEPT !.step = t]
      BY <3>1
    <3>4. n.step \in MakeSteps /\ n.step \notin PlanSteps \cup {"advance", "elaborate", "count"}
          /\ x.step \notin {"select", "row"}
      BY <3>2 DEF PlanSteps, MakeSteps, TickState
    <3> HIDE DEF n
    <3> QED BY <1>1, <2>1, <3>2, <3>3, <3>4, RowMoves
  <2>11. CASE ListNodes(r)
    <3> DEFINE n == [x EXCEPT !.step = "tasks", !.tasks = Untasked]
    <3>1. x.step = "list" /\ Phase(x) = "decomposition"
      BY <2>1, <2>11 DEF ListNodes, Step, Phase
    <3>2. Untasked \subseteq nodes /\ Untasked \subseteq Nodes
      BY DEF Untasked, EngineOK, LifeOK
    <3>3. n \in TickState
      BY <3>2 DEF TickState, MakeSteps
    <3>4. /\ n.at = x.at /\ n.rows = x.rows /\ n.seen = x.seen /\ n.tasks = Untasked
          /\ n.row = x.row /\ n.step = "tasks" /\ n.evals = x.evals
      BY DEF TickState
    <3>5. Move(r, n)
      BY <2>1, <2>11 DEF ListNodes
    <3>6. PICK m \in TickState : m = n
      BY <3>3
    <3> HIDE DEF n
    <3>7. m.row \in DOMAIN cycles /\ m.tasks \subseteq nodes'
      BY <1>1, <2>1, <3>1, <3>2, <3>4, <3>6 DEF Fits, Grows
    <3>8. m.step \notin PlanSteps \cup {"advance", "elaborate", "count"}
      BY <3>4, <3>6 DEF PlanSteps
    <3>9. Fits(m)'
      BY <1>1, <2>1, <3>1, <3>4, <3>6, <3>7, <3>8, FitsNext
    <3> QED BY <1>1, <3>5, <3>6, <3>9, MoveFits
  <2> QED
    BY <1>4, <2>2, <2>3, <2>4, <2>5, <2>6, <2>7, <2>8, <2>9, <2>10, <2>11 DEF Tick
<1> QED
  BY <1>3, <1>4 DEF CycleNext

\* The tables are right to begin with.
LEMMA EngineInitial == CycleInit => EngineOK
<1> SUFFICES ASSUME CycleInit PROVE EngineOK
  OBVIOUS
<1>1. loops = <<>> /\ cycles = <<>> /\ evals = <<>> /\ nodes = {} /\ edges = {}
  BY DEF CycleInit
<1>2. RowsOK
  BY <1>1, CycleConstants, EmptySeq DEF RowsOK
<1>3. LifeOK
  BY <1>1 DEF CycleInit, LifeInit, LifeOK, TaskStatuses
<1>4. TickStart \in TickState /\ Fits(TickStart)
  <2>1. <<>> \in Seq(Nat)
    OBVIOUS
  <2> QED BY <1>1, <2>1, PhasesOfTick DEF TickStart, TickState, Fits, Phase, Passing, PlanSteps, MakeSteps
<1>5. RunnersOK
  BY <1>4 DEF CycleInit, RunnersOK
<1> QED BY <1>2, <1>3, <1>5 DEF EngineOK

\* The tables and the runners are right in every reachable state, whatever else happens.
LEMMA EngineInvariant == CycleSpec => []EngineOK
<1>1. CycleInit => EngineOK
  BY EngineInitial
<1>2. EngineOK /\ [CycleNext]_cycleVars => EngineOK'
  BY RowsStep, LifeStep, RunnersStep DEF EngineOK
<1> QED BY <1>1, <1>2, PTL DEF CycleSpec

\* ... and that is type correctness.
LEMMA RowsFit == EngineOK => CycleTypeOK
<1> SUFFICES ASSUME EngineOK PROVE CycleTypeOK
  OBVIOUS
<1>1. PhaseNames = {Phases[i] : i \in DOMAIN Phases}
  BY DEF PhaseNames, Passing, Phases
<1>2. [loop : DOMAIN loops, phase : {Phases[i] : i \in DOMAIN Phases}, auto : BOOLEAN] = Cycle
  BY <1>1 DEF Cycle
<1>3. \A r \in Runners : runner[r].at \in DOMAIN TickOrder
  BY PhasesOfTick DEF EngineOK, RunnersOK, TickState
<1>4. edges \subseteq Nodes \X Nodes
  BY DEF EngineOK, LifeOK
<1> QED BY <1>2, <1>3, <1>4 DEF EngineOK, RowsOK, LifeOK, CycleTypeOK
-----------------------------------------------------------------------------
(* Phases in order.                                                        *)

\* A runner is about to force a cycle that has left planning already.
ForcedBack ==
  \E r \in Runners : /\ Step(r, "plan_elaboration", "force")
                     /\ cycles[Here(r).row].phase # "plan_elaboration"

\* A runner is about to insert a graph beside the verification node.
PlannedLate ==
  \E r \in Runners : Step(r, "decomposition", "graph") /\ Verify \in nodes

\* PhasesInOrder for any number of runners, requests, failures and restarts, for as long
\* as no runner forces a cycle that another has by then led past planning (the forced
\* UPDATE names the cycle only; tick.rs, check_plan_gates).
THEOREM PhasesOrdered == CycleSpec /\ []~ForcedBack => PhasesInOrder
<1>1. EngineOK /\ ~ForcedBack /\ [CycleNext]_cycleVars
        => [\A c \in DOMAIN cycles :
             \/ cycles'[c].phase = cycles[c].phase
             \/ cycles'[c].phase = After(cycles[c].phase)]_cycleVars
  <2> SUFFICES ASSUME EngineOK, CycleNext, ~ForcedBack, NEW c \in DOMAIN cycles
               PROVE  \/ cycles'[c].phase = cycles[c].phase
                      \/ cycles'[c].phase = After(cycles[c].phase)
    OBVIOUS
  <2>1. RowsOK
    BY DEF EngineOK
  <2>2. CASE UNCHANGED cycles
    BY <2>2
  <2>3. CASE \E l \in DOMAIN loops : ApiCreateCycle(l)
    <3> PICK l \in DOMAIN loops : ApiCreateCycle(l)
      BY <2>3
    <3>1. NewCycle(l, FALSE)
      BY DEF ApiCreateCycle
    <3>2. Len(cycles) # MaxCycles
      <4> Len(cycles) \in Nat /\ MaxCycles \in Nat /\ Len(cycles) < MaxCycles
        BY <2>1, RowTypes, CycleConstants DEF ApiCreateCycle
      <4> QED OBVIOUS
    <3> QED BY <2>1, <3>1, <3>2, CycleAdded
  <2>4. ASSUME NEW r \in Runners, Writes(r)
        PROVE  \/ cycles'[c].phase = cycles[c].phase
               \/ cycles'[c].phase = After(cycles[c].phase)
    <3>1. CASE CreateLoop(r)
      BY <3>1 DEF CreateLoop, engine
    <3>2. CASE CreateCycle(r)
      <4>1. CASE UNCHANGED engine
        BY <4>1 DEF engine
      <4>2. CASE ~ UNCHANGED engine
        <5>1. PICK l \in DOMAIN loops : NewCycle(l, TRUE) /\ Len(cycles) # MaxCycles
          BY <3>2, <4>2, CycleMade
        <5> QED BY <2>1, <5>1, CycleAdded
      <4> QED BY <4>1, <4>2
    <3>3. CASE Advance(r)
      <4>1. CASE UNCHANGED cycles
        BY <4>1
      <4>2. CASE ~ UNCHANGED cycles
        <5>1. PICK e \in DOMAIN cycles, p \in PhaseNames :
                 /\ p = After(cycles[e].phase)
                 /\ cycles' = [cycles EXCEPT ![e].phase = p]
          BY <3>3, <4>2, Advances
        <5>2. cycles'[e].phase = p /\ \A i \in DOMAIN cycles : i # e => cycles'[i] = cycles[i]
          BY <2>1, <5>1, PhaseSet
        <5> QED BY <5>1, <5>2
      <4> QED BY <4>1, <4>2
    <3>4. CASE ForceOverride(r)
      <4>1. PICK e \in DOMAIN cycles :
               /\ cycles[e].phase = "plan_elaboration"
               /\ cycles' = [cycles EXCEPT ![e].phase = "decomposition"]
        BY <3>4, AtWork DEF ForceOverride, ForcedBack, Step, Here
      <4>2. cycles'[e].phase = "decomposition"
            /\ \A i \in DOMAIN cycles : i # e => cycles'[i] = cycles[i]
        BY <2>1, <4>1, PhaseSet DEF PhaseNames, Passing
      <4> QED BY <4>1, <4>2, NextOf
    <3> QED BY <2>4, <3>1, <3>2, <3>3, <3>4 DEF Writes
  <2> QED BY <2>2, <2>3, <2>4, WhoWrites DEF QuietRows
<1> QED
  BY <1>1, EngineInvariant, PTL DEF CycleSpec, PhasesInOrder
-----------------------------------------------------------------------------
(* Loops and cycles are made once.                                         *)

\* A runner moves in a tick only.
LEMMA WhoMoves ==
  ASSUME [CycleNext]_cycleVars
  PROVE  UNCHANGED runner \/ \E r \in Runners : Tick(r) \/ TickFails(r)
BY DEF CycleNext, cycleVars, Workers, Start, WakeUp, Progress, LateReport, Reported, Requests,
   ApiCreateCycle, AddNode, ApiReport, ApiRequeue

\* The ways a runner's place changes from x to y.
Restarts(y)   == y.rows = {} /\ y.step = "select"
Reads(r, x, y) == /\ Select(r) /\ y.at = x.at /\ y.seen = loops
                  /\ y.rows = Selected(Phase(x)) /\ y.step = "row"
Takes(x, y)   == /\ x.step = "row" /\ y.row \in x.rows /\ y.rows = x.rows \ {y.row}
                 /\ y.step \in {"row", "advance", "force", "elaborate", "plan"}
                 /\ y.step = "advance" /\ Phase(x) = "integration"
                      => status[Verify] \in {"succeeded", "absent"}
                 /\ y.step = "advance" => Phase(x) # "decomposition"
Handles(x, y) == y.step = x.step /\ y.row = x.row /\ y.rows \subseteq x.rows
Finishes(x, y) == y.step = "row" /\ y.rows = x.rows
GoesOn(r, x, y) ==
  /\ y.row = x.row /\ y.rows = x.rows
  /\ \/ x.step = "elaborate" /\ y.step = "count"
     \/ x.step = "count" /\ y.step = "advance" /\ Phase(x) = "plan_elaboration"
     \/ x.step = "plan" /\ ((y.step = "graph" /\ nodes = {}) \/ y.step = "bridge")
     \/ x.step = "graph" /\ y.step = "bridge"
     \/ x.step = "bridge" /\ y.step = "list" /\ Milestones \subseteq nodes'
     \/ x.step = "list" /\ y.step = "tasks"
     \/ x.step = "tasks" /\ y.step = "verify"
     \/ x.step = "verify" /\ y.step = "list"
     \/ x.step = "verify" /\ y.step = "untasked" /\ Verify \in nodes
     \/ x.step = "untasked" /\ y.step = "advance" /\ Untasked = {}
Walks(r, x, y) ==
  \/ Restarts(y) \/ Reads(r, x, y)
  \/ /\ y.at = x.at /\ y.seen = x.seen
     /\ Takes(x, y) \/ Handles(x, y) \/ Finishes(x, y) \/ GoesOn(r, x, y)

\* Each step of a tick moves its runner in one of these ways, and no other runner.
LEMMA HowItWalks ==
  ASSUME EngineOK, NEW r \in Runners, Tick(r) \/ TickFails(r)
  PROVE  /\ \A s \in Runners : s # r => runner'[s] = runner[s]
         /\ Walks(r, runner[r], runner'[r])
<1>1. PICK x \in TickState : x = runner[r] /\ x = Here(r)
  BY DEF EngineOK, RunnersOK, Here
<1>2. SUFFICES \E n : Move(r, n) /\ Walks(r, x, n)
  <2> PICK n : Move(r, n) /\ Walks(r, x, n)
    BY <1>2
  <2>1. runner'[r] = n /\ \A s \in Runners : s # r => runner'[s] = runner[s]
    BY DEF Move, EngineOK, RunnersOK
  <2> HIDE DEF Walks
  <2> QED BY <1>1, <2>1
<1>4. CASE Intake(r) \/ CheckGate(r) \/ Decomposition(r) \/ CheckDispatched(r)
             \/ CheckExecuted(r) \/ CheckVerified(r) \/ UpdateState(r)
  <2>1. PICK at, steps : /\ Goes(r, at, steps)
                         /\ steps \subseteq {"row", "advance", "force", "elaborate", "plan"}
                         /\ "advance" \in steps => at # "decomposition"
    BY <1>4, RowsTaken DEF Taking
  <2>2. PICK y \in x.rows, s \in steps :
          /\ runner' = [runner EXCEPT ![r] =
               [x EXCEPT !.rows = @ \ {y}, !.row = y, !.step = s,
                      !.evals = IF y \in DOMAIN evals THEN evals[y] ELSE 0]]
          /\ s = "advance" /\ at = "integration" => status[Verify] \in {"succeeded", "absent"}
    BY <1>1, <2>1 DEF Goes
  <2>3. PICK e : e = IF y \in DOMAIN evals THEN evals[y] ELSE 0
    OBVIOUS
  <2>4. x.step = "row" /\ Phase(x) = at
    BY <1>1, <2>1 DEF Goes, Step, Phase
  <2> DEFINE n == [x EXCEPT !.rows = @ \ {y}, !.row = y, !.step = s, !.evals = e]
  <2>5. Move(r, n)
    BY <2>2, <2>3 DEF Move
  <2>6. n.at = x.at /\ n.seen = x.seen /\ n.rows = x.rows \ {y} /\ n.row = y /\ n.step = s
    BY DEF TickState
  <2> HIDE DEF n
  <2>7. Takes(x, n)
    BY <2>1, <2>2, <2>4, <2>6 DEF Takes
  <2> QED BY <2>5, <2>6, <2>7 DEF Walks
<1>5. CASE EndPhase(r) \/ TickFails(r)
  <2>1. PICK n \in {NextPhase(r), TickStart} : Move(r, n)
    BY <1>5 DEF EndPhase, TickFails
  <2>2. Restarts(n)
    BY <2>1, FreshFits DEF EngineOK, Restarts
  <2> QED BY <2>1, <2>2 DEF Walks
<1>6. CASE Select(r)
  <2>1. CASE Move(r, NextPhase(r))
    <3>1. Restarts(NextPhase(r))
      BY FreshFits DEF EngineOK, Restarts
    <3> QED BY <2>1, <3>1 DEF Walks
  <2>2. CASE ~ Move(r, NextPhase(r))
    <3>1. PICK t : Move(r, [x EXCEPT !.step = "row", !.rows = Selected(Phase(x)), !.tasks = t, !.seen = loops])
      BY <1>1, <1>6, <2>2 DEF Select, Phase
    <3> DEFINE n == [x EXCEPT !.step = "row", !.rows = Selected(Phase(x)), !.tasks = t, !.seen = loops]
    <3>2. Reads(r, x, n)
      BY <1>6 DEF TickState, Reads
    <3> QED BY <3>1, <3>2 DEF Walks
  <2> QED BY <2>1, <2>2
<1>7. CASE CreateLoop(r) \/ CreateCycle(r)
  <2>1. PICK N \in SUBSET x.rows : Move(r, [x EXCEPT !.rows = N])
    BY <1>1, <1>7 DEF CreateLoop, CreateCycle
  <2> DEFINE n == [x EXCEPT !.rows = N]
  <2>2. n.at = x.at /\ n.seen = x.seen /\ Handles(x, n)
    BY DEF TickState, Handles
  <2> QED BY <2>1, <2>2 DEF Walks
<1>8. CASE CreateTask(r) \/ DispatchTask(r)
  <2>1. PICK N : Move(r, [x EXCEPT !.tasks = N])
    BY <1>1, <1>8 DEF CreateTask, DispatchTask
  <2> DEFINE n == [x EXCEPT !.tasks = N]
  <2>2. n.at = x.at /\ n.seen = x.seen /\ Handles(x, n)
    BY DEF TickState, Handles
  <2> QED BY <2>1, <2>2 DEF Walks
<1>9. CASE Move(r, RowDone(r))
  <2>1. RowDone(r).at = x.at /\ RowDone(r).seen = x.seen /\ Finishes(x, RowDone(r))
    BY <1>1 DEF TickState, RowDone, Finishes
  <2> QED BY <1>9, <2>1 DEF Walks
<1>10. ASSUME NEW s, NEW k, NEW T,
              \/ Move(r, [x EXCEPT !.step = s]) \/ Move(r, [x EXCEPT !.step = s, !.ok = k])
              \/ Move(r, [x EXCEPT !.step = s, !.tasks = T]),
              \/ x.step = "elaborate" /\ s = "count"
              \/ x.step = "count" /\ s = "advance" /\ Phase(x) = "plan_elaboration"
              \/ x.step = "plan" /\ ((s = "graph" /\ nodes = {}) \/ s = "bridge")
              \/ x.step = "graph" /\ s = "bridge"
              \/ x.step = "bridge" /\ s = "list" /\ Milestones \subseteq nodes'
              \/ x.step = "list" /\ s = "tasks"
              \/ x.step = "tasks" /\ s = "verify"
              \/ x.step = "verify" /\ s = "list"
              \/ x.step = "verify" /\ s = "untasked" /\ Verify \in nodes
              \/ x.step = "untasked" /\ s = "advance" /\ Untasked = {}
       PROVE  \E n : Move(r, n) /\ Walks(r, x, n)
  <2>1. PICK n : /\ Move(r, n)
                 /\ n \in {[x EXCEPT !.step = s], [x EXCEPT !.step = s, !.ok = k],
                           [x EXCEPT !.step = s, !.tasks = T]}
    BY <1>10
  <2>2. n.at = x.at /\ n.seen = x.seen /\ n.row = x.row /\ n.rows = x.rows /\ n.step = s
    BY <2>1 DEF TickState
  <2>3. GoesOn(r, x, n)
    BY <1>10, <2>2 DEF GoesOn
  <2> QED BY <2>1, <2>2, <2>3 DEF Walks
<1>11. CASE Advance(r) \/ ForceOverride(r)
  BY <1>9, <1>11 DEF Advance, ForceOverride
<1>12. CASE Elaborate(r)
  <2>1. \E k : Move(r, [x EXCEPT !.step = "count", !.ok = k])
    BY <1>1, <1>12 DEF Elaborate
  <2>2. x.step = "elaborate"
    BY <1>1, <1>12 DEF Elaborate, Step
  <2> QED BY <1>10, <2>1, <2>2
<1>13. CASE CountEvaluation(r)
  <2>1. x.step = "count" /\ Phase(x) = "plan_elaboration"
    BY <1>1, <1>13 DEF CountEvaluation, Step, Phase
  <2> QED BY <1>1, <1>9, <1>10, <1>13, <2>1 DEF CountEvaluation
<1>14. CASE DecomposePlan(r)
  <2>1. x.step = "plan"
    BY <1>1, <1>14 DEF DecomposePlan, Step
  <2> QED BY <1>1, <1>10, <1>14, <2>1 DEF DecomposePlan
<1>15. CASE InsertGraph(r)
  <2>1. x.step = "graph"
    BY <1>1, <1>15 DEF InsertGraph, Step
  <2> QED BY <1>1, <1>10, <1>15, <2>1 DEF InsertGraph
<1>16. CASE BridgeMilestones(r)
  <2>1. x.step = "bridge" /\ Milestones \subseteq nodes'
    BY <1>1, <1>16 DEF BridgeMilestones, Step, AddPlan
  <2> QED BY <1>1, <1>10, <1>16, <2>1 DEF BridgeMilestones
<1>17. CASE ListNodes(r)
  <2>1. x.step = "list"
    BY <1>1, <1>17 DEF ListNodes, Step
  <2> QED BY <1>1, <1>10, <1>17, <2>1 DEF ListNodes
<1>18. CASE TasksDone(r)
  <2>1. x.step = "tasks"
    BY <1>1, <1>18 DEF TasksDone, Step
  <2> QED BY <1>1, <1>10, <1>18, <2>1 DEF TasksDone
<1>19. CASE CreateVerify(r)
  <2>1. x.step = "verify"
    BY <1>1, <1>19 DEF CreateVerify, Step
  <2> QED BY <1>1, <1>10, <1>19, <2>1 DEF CreateVerify
<1>20. CASE CheckUntasked(r)
  <2>1. x.step = "untasked"
    BY <1>1, <1>20 DEF CheckUntasked, Step
  <2> QED BY <1>1, <1>9, <1>10, <1>20, <2>1 DEF CheckUntasked
<1> QED
  BY <1>4, <1>5, <1>6, <1>7, <1>8, <1>11, <1>12, <1>13, <1>14, <1>15, <1>16, <1>17, <1>18, <1>19,
     <1>20 DEF Tick

\* What that says of rows and of what was read.
LEMMA HowItMoves ==
  ASSUME EngineOK, NEW r \in Runners, Tick(r) \/ TickFails(r)
  PROVE  /\ \A s \in Runners : s # r => runner'[s] = runner[s]
         /\ \/ /\ runner'[r].at = runner[r].at /\ runner'[r].seen = runner[r].seen
               /\ runner'[r].rows \subseteq runner[r].rows
            \/ runner'[r].rows = {} /\ runner'[r].step = "select"
            \/ /\ Select(r) /\ runner'[r].at = runner[r].at /\ runner'[r].seen = loops
               /\ runner'[r].rows = Selected(Phase(runner[r])) /\ runner'[r].step = "row"
BY HowItWalks DEF Walks, Restarts, Reads, Takes, Handles, Finishes, GoesOn

\* The active cycles of a loop that runners made.
AutoActive(l) == {c \in Active(l) : cycles[c].auto}

\* A runner about to create cycles read either an old index or that there is none.
Cleared(x) == Phase(x) = "cycles" =>
                \A l \in x.rows : x.seen[l] = loops[l] => AutoActive(l) = {}

\* Inductive for RunnersCreateOnce.
CreateInv ==
  /\ EngineOK
  /\ Len(loops) <= 1 /\ (loops = <<>> <=> <<"loop">> \notin journal)
  /\ \A l \in DOMAIN loops : \A c, e \in AutoActive(l) : c = e
  /\ \A r \in Runners : Cleared(runner[r])

\* A cycle that is active and moves on makes no further cycle active.
LEMMA PhaseMoves ==
  ASSUME RowsOK, NEW c \in DOMAIN cycles, NEW p \in PhaseNames, NEW l,
         cycles[c].phase # "next_cycle_ready", cycles' = [cycles EXCEPT ![c].phase = p]
  PROVE  AutoActive(l)' \subseteq AutoActive(l)
<1>1. /\ DOMAIN cycles' = DOMAIN cycles
      /\ \A e \in DOMAIN cycles : e # c => cycles'[e] = cycles[e]
      /\ cycles'[c].loop = cycles[c].loop /\ cycles'[c].auto = cycles[c].auto
  BY PhaseSet
<1> QED BY <1>1 DEF AutoActive, Active

\* Only creating a cycle makes one more active.
LEMMA OldLoops ==
  ASSUME EngineOK, ~ForcedBack, [CycleNext]_cycleVars,
         ~ \E r \in Runners : CreateCycle(r) \/ CreateLoop(r)
  PROVE  /\ UNCHANGED loops /\ \A l : AutoActive(l)' \subseteq AutoActive(l)
         /\ <<"loop">> \in journal' <=> <<"loop">> \in journal
<1>1. RowsOK
  BY DEF EngineOK
<1>0. <<"loop">> \in journal' <=> <<"loop">> \in journal
  <2>1. ASSUME NEW r \in Runners, Advance(r)
        PROVE  <<"loop">> \in journal' <=> <<"loop">> \in journal
    BY <2>1, Advances
  <2>2. ASSUME NEW r \in Runners, ForceOverride(r)
        PROVE  UNCHANGED journal
    BY <2>2 DEF ForceOverride
  <2>3. ASSUME NEW l, ApiCreateCycle(l)
        PROVE  UNCHANGED journal
    BY <2>3 DEF ApiCreateCycle
  <2> QED BY <2>1, <2>2, <2>3, WhoWrites DEF QuietRows, Writes
<1>2. CASE UNCHANGED <<loops, cycles>>
  BY <1>0, <1>2 DEF AutoActive, Active
<1>3. CASE \E l \in DOMAIN loops : ApiCreateCycle(l)
  <2> PICK k \in DOMAIN loops : ApiCreateCycle(k)
    BY <1>3
  <2>1. NewCycle(k, FALSE) /\ UNCHANGED loops
    BY DEF ApiCreateCycle
  <2>2. Len(cycles) # MaxCycles
    <3> Len(cycles) \in Nat /\ MaxCycles \in Nat /\ Len(cycles) < MaxCycles
      BY <1>1, RowTypes, CycleConstants DEF ApiCreateCycle
    <3> QED OBVIOUS
  <2>3. /\ DOMAIN cycles' = DOMAIN cycles \cup {Len(cycles) + 1}
        /\ cycles'[Len(cycles) + 1] = [loop |-> k, phase |-> "intake", auto |-> FALSE]
        /\ \A c \in DOMAIN cycles : cycles'[c] = cycles[c]
    BY <1>1, <2>1, <2>2, CycleAdded
  <2> QED BY <1>0, <2>1, <2>3 DEF AutoActive, Active
<1>4. ASSUME NEW r \in Runners, Advance(r) \/ ForceOverride(r)
      PROVE  UNCHANGED loops /\ \A l : AutoActive(l)' \subseteq AutoActive(l)
  <2>1. CASE UNCHANGED <<loops, cycles>>
    BY <2>1 DEF AutoActive, Active
  <2>2. CASE ~ UNCHANGED <<loops, cycles>>
    <3>1. PICK c \in DOMAIN cycles, p \in PhaseNames :
             cycles[c].phase # "next_cycle_ready" /\ cycles' = [cycles EXCEPT ![c].phase = p]
      <4>1. CASE Advance(r)
        BY <2>2, <4>1, Advances DEF Passing
      <4>2. CASE ForceOverride(r)
        <5>1. "decomposition" \in PhaseNames
          BY DEF PhaseNames, Passing
        <5> QED BY <4>2, <5>1, AtWork DEF ForceOverride, ForcedBack, Step, Here
      <4> QED BY <1>4, <4>1, <4>2
    <3>2. UNCHANGED loops
      BY <1>4 DEF Advance, ForceOverride, engine
    <3> QED BY <1>1, <3>1, <3>2, PhaseMoves
  <2> QED BY <2>1, <2>2
<1> QED BY <1>0, <1>2, <1>3, <1>4, WhoWrites DEF QuietRows, Writes

\* What a runner read of a loop without an active cycle stays true or is seen to be old.
LEMMA ClearedStep ==
  ASSUME CreateInv, EngineOK', [CycleNext]_cycleVars, Grows,
         \A l \in DOMAIN loops : loops'[l] = loops[l] => AutoActive(l)' \subseteq AutoActive(l)
  PROVE  \A s \in Runners : Cleared(runner[s])'
<1>1. \A l \in DOMAIN loops : loops[l] \in Nat /\ loops'[l] \in Nat /\ loops[l] <= loops'[l]
  <2>1. RowsOK /\ RowsOK'
    BY DEF CreateInv, EngineOK
  <2>2. \A l \in DOMAIN loops : loops[l] \in Nat
    BY <2>1, RowTypes
  <2>3. \A l \in DOMAIN loops' : loops'[l] \in Nat
    <3> loops' \in Seq(0..MaxCycles)
      BY <2>1 DEF RowsOK
    <3> DOMAIN loops' = 1..Len(loops') /\ 0..MaxCycles \subseteq Nat
      BY CycleConstants, LenProperties
    <3> QED BY ElementOfSeq
  <2> QED BY <2>2, <2>3 DEF Grows
<1>2. ASSUME NEW x \in TickState, NEW y \in TickState, Fits(x), Cleared(x),
             y.at = x.at, y.seen = x.seen, y.rows \subseteq x.rows
      PROVE  Cleared(y)'
  <2> SUFFICES ASSUME Phase(y) = "cycles", NEW l \in y.rows, y.seen[l] = loops'[l]
               PROVE  AutoActive(l)' = {}
    BY DEF Cleared, Phase
  <2>1. Phase(x) = "cycles" /\ l \in x.rows
    BY <1>2 DEF Phase
  <2>2. l \in DOMAIN x.seen /\ l \in DOMAIN loops /\ x.seen[l] <= loops[l]
    BY <1>2, <2>1 DEF Fits
  <2>3. loops'[l] = loops[l] /\ x.seen[l] = loops[l]
    BY <1>1, <1>2, <2>2
  <2>4. AutoActive(l) = {}
    BY <1>2, <2>1, <2>3 DEF Cleared
  <2> QED BY <2>2, <2>3, <2>4
<1>3. ASSUME NEW s \in Runners, NEW x \in TickState, NEW y \in TickState,
             x = runner[s], y = runner'[s]
      PROVE  Cleared(y)'
  <2>1. Fits(x) /\ Cleared(x)
    BY <1>3 DEF CreateInv, EngineOK, RunnersOK
  <2>2. CASE x = y
    BY <1>2, <2>1, <2>2
  <2>3. CASE x # y
    <3>1. Tick(s) \/ TickFails(s)
      <4>1. PICK r \in Runners : Tick(r) \/ TickFails(r)
        BY <1>3, <2>3, WhoMoves
      <4>2. r = s
        BY <1>3, <2>3, <4>1, HowItMoves DEF CreateInv
      <4> QED BY <4>1, <4>2
    <3>2. CASE y.at = x.at /\ y.seen = x.seen /\ y.rows \subseteq x.rows
      BY <1>2, <2>1, <3>2
    <3>3. CASE y.rows = {}
      BY <3>3 DEF Cleared
    <3>4. CASE Select(s) /\ y.at = x.at /\ y.rows = Selected(Phase(x))
      <4> SUFFICES ASSUME Phase(y) = "cycles", NEW l \in y.rows
                   PROVE  AutoActive(l)' = {}
        BY DEF Cleared, Phase
      <4>1. UNCHANGED cycles
        BY <3>4 DEF Select, engine
      <4>2. y.rows = {k \in DOMAIN loops : Active(k) = {}}
        BY <3>4 DEF Selected, Phase
      <4> QED BY <4>1, <4>2 DEF AutoActive, Active
    <3> QED BY <1>3, <3>1, <3>2, <3>3, <3>4, HowItMoves DEF CreateInv
  <2> QED BY <2>2, <2>3
<1>4. ASSUME NEW s \in Runners, NEW y, y = runner'[s]
      PROVE  Cleared(y)'
  <2>1. runner[s] \in TickState /\ y \in TickState
    BY <1>4 DEF CreateInv, EngineOK, RunnersOK
  <2>2. PICK x \in TickState : x = runner[s]
    BY <2>1
  <2> QED BY <1>3, <1>4, <2>1, <2>2
<1> QED
  BY <1>4 DEF Cleared, Phase, AutoActive, Active

\* CreateInv is inductive while no cycle is forced back.
LEMMA CreateStep ==
  ASSUME CreateInv, ~ForcedBack, [CycleNext]_cycleVars
  PROVE  CreateInv'
<1>1. EngineOK' /\ Grows /\ EngineOK /\ RowsOK
  BY RowsStep, LifeStep, RunnersStep DEF CreateInv, EngineOK
<1>2. CASE ~ \E r \in Runners : CreateCycle(r) \/ CreateLoop(r)
  <2>1. /\ UNCHANGED loops /\ \A l : AutoActive(l)' \subseteq AutoActive(l)
        /\ <<"loop">> \in journal' <=> <<"loop">> \in journal
    BY <1>1, <1>2, OldLoops
  <2>2. \A s \in Runners : Cleared(runner[s])'
    BY <1>1, <2>1, ClearedStep
  <2>3. \A l \in DOMAIN loops' : \A c, e \in AutoActive(l)' : c = e
    BY <2>1 DEF CreateInv
  <2> HIDE DEF AutoActive, Cleared
  <2> QED BY <1>1, <2>1, <2>2, <2>3 DEF CreateInv
<1>3. ASSUME NEW r \in Runners, CreateLoop(r)
      PROVE  CreateInv'
  <2>1. CASE UNCHANGED engine
    <3>1. \A l : AutoActive(l)' = AutoActive(l)
      BY <2>1 DEF AutoActive, Active, engine
    <3>2. \A s \in Runners : Cleared(runner[s])'
      BY <1>1, <3>1, ClearedStep
    <3>3. \A l \in DOMAIN loops' : \A c, e \in AutoActive(l)' : c = e
      BY <2>1, <3>1 DEF CreateInv, engine
    <3> HIDE DEF AutoActive, Cleared
    <3> QED BY <1>1, <2>1, <3>2, <3>3 DEF CreateInv, engine
  <2>2. CASE ~ UNCHANGED engine
    <3>1. /\ <<"loop">> \notin journal /\ loops' = Append(loops, 0)
          /\ journal' = journal \cup {<<"loop">>} /\ UNCHANGED cycles
      BY <1>3, <2>2 DEF CreateLoop
    <3>2. loops = <<>> /\ loops' = <<0>>
      <4>1. loops = <<>>
        BY <3>1 DEF CreateInv
      <4> QED BY <3>1, <4>1
    <3>3. cycles = <<>>
      <4>1. DOMAIN loops = {} /\ cycles \in Seq(Cycle)
        BY <1>1, <3>2 DEF RowsOK
      <4>2. \A c \in DOMAIN cycles : cycles[c].loop \in DOMAIN loops
        BY <1>1, RowTypes DEF Cycle
      <4>3. DOMAIN cycles = {}
        BY <4>1, <4>2
      <4> QED BY <4>1, <4>3
    <3>4. \A l : AutoActive(l)' = {} /\ AutoActive(l) = {}
      BY <3>1, <3>3 DEF AutoActive, Active
    <3>5. \A s \in Runners : Cleared(runner[s])'
      BY <1>1, <3>4, ClearedStep
    <3>6. Len(loops') <= 1 /\ loops' # <<>> /\ <<"loop">> \in journal'
      BY <3>1, <3>2
    <3> HIDE DEF AutoActive, Cleared
    <3> QED BY <1>1, <3>4, <3>5, <3>6 DEF CreateInv
  <2> QED BY <2>1, <2>2
<1>4. ASSUME NEW r \in Runners, CreateCycle(r)
      PROVE  CreateInv'
  <2>1. CASE UNCHANGED engine
    <3>1. \A l : AutoActive(l)' = AutoActive(l)
      BY <2>1 DEF AutoActive, Active, engine
    <3>2. \A s \in Runners : Cleared(runner[s])'
      BY <1>1, <3>1, ClearedStep
    <3>3. \A l \in DOMAIN loops' : \A c, e \in AutoActive(l)' : c = e
      BY <2>1, <3>1 DEF CreateInv, engine
    <3> HIDE DEF AutoActive, Cleared
    <3> QED BY <1>1, <2>1, <3>2, <3>3 DEF CreateInv, engine
  <2>2. CASE ~ UNCHANGED engine
    <3>1. PICK l \in Here(r).rows :
             /\ l \in DOMAIN loops /\ Here(r).seen[l] = loops[l]
             /\ NewCycle(l, TRUE) /\ Len(cycles) # MaxCycles
             /\ loops' = [loops EXCEPT ![l] = loops[l] + 1]
             /\ <<"loop">> \in journal' => <<"loop">> \in journal
      BY <1>1, <1>4, <2>2, CycleMade
    <3>2. /\ DOMAIN cycles' = DOMAIN cycles \cup {Len(cycles) + 1}
          /\ cycles'[Len(cycles) + 1] = [loop |-> l, phase |-> "intake", auto |-> TRUE]
          /\ \A c \in DOMAIN cycles : cycles'[c] = cycles[c]
      BY <1>1, <3>1, CycleAdded
    <3>3. AutoActive(l) = {}
      <4>1. Cleared(Here(r)) /\ Phase(Here(r)) = "cycles"
        BY <1>4 DEF CreateInv, Here, CreateCycle, Step, Phase
      <4> QED BY <3>1, <4>1 DEF Cleared
    <3>4. AutoActive(l)' \subseteq {Len(cycles) + 1}
      BY <3>2, <3>3 DEF AutoActive, Active
    <3>5. \A k : k # l => AutoActive(k)' \subseteq AutoActive(k)
      BY <3>2 DEF AutoActive, Active
    <3>6. loops[l] \in Nat /\ loops \in Seq(0..MaxCycles) /\ loops[l] + 1 # loops[l]
      BY <1>1, <3>1, RowTypes DEF RowsOK
    <3>7. DOMAIN loops' = DOMAIN loops /\ loops'[l] # loops[l] /\ Len(loops') = Len(loops)
          /\ (loops' = <<>> <=> loops = <<>>)
      BY <3>1, <3>6
    <3>8. \A s \in Runners : Cleared(runner[s])'
      BY <1>1, <3>5, <3>7, ClearedStep
    <3>9. \A k \in DOMAIN loops' : \A c, e \in AutoActive(k)' : c = e
      BY <3>4, <3>5, <3>7 DEF CreateInv
    <3>10. journal \subseteq journal'
      BY <1>4 DEF CreateCycle, engine
    <3> HIDE DEF AutoActive, Cleared
    <3> QED BY <1>1, <3>1, <3>7, <3>8, <3>9, <3>10 DEF CreateInv
  <2> QED BY <2>1, <2>2
<1> QED BY <1>2, <1>3, <1>4

\* RunnersCreateOnce under the same condition: one loop, and at most one active cycle
\* of the runners' making, however many runners create_loops_for_new_objectives and
\* create_cycles_for_active_loops run in at a time, from however old a SELECT.
THEOREM RunnersCreateOne == CycleSpec /\ []~ForcedBack => []RunnersCreateOnce
<1>1. CycleInit => CreateInv
  <2> SUFFICES ASSUME CycleInit, EngineOK PROVE CreateInv
    BY EngineInitial
  <2>1. loops = <<>> /\ journal = {} /\ Len(loops) = 0 /\ DOMAIN loops = {}
    BY DEF CycleInit
  <2>2. \A r \in Runners : Cleared(runner[r])
    BY PhasesOfTick DEF CycleInit, TickStart, Cleared, Phase
  <2> QED BY <2>1, <2>2 DEF CreateInv
<1>2. CreateInv /\ ~ForcedBack /\ [CycleNext]_cycleVars => CreateInv'
  BY CreateStep
<1>3. CreateInv => RunnersCreateOnce
  <2> SUFFICES ASSUME CreateInv, NEW l \in DOMAIN loops
               PROVE  Cardinality(AutoActive(l)) <= 1
    BY DEF CreateInv, RunnersCreateOnce, AutoActive
  <2>1. CASE AutoActive(l) = {}
    BY <2>1, FS_EmptySet
  <2>2. CASE AutoActive(l) # {}
    <3>1. PICK c : AutoActive(l) = {c}
      BY <2>2 DEF CreateInv
    <3>2. Cardinality({c}) = 1
      BY FS_Singleton
    <3> QED BY <3>1, <3>2
  <2> QED BY <2>1, <2>2
<1> QED
  BY <1>1, <1>2, <1>3, PTL DEF CycleSpec
-----------------------------------------------------------------------------
(* A cycle is past integration with its plan complete.                     *)

\* Tasks are of nodes there are, and only tasks are taken up.
Tasks ==
  /\ \A n \in Nodes : status[n] # "absent" => n \in nodes
  /\ \A n \in begun : status[n] # "absent"

\* What every step leaves of tasks and completed nodes.
Lasts ==
  /\ \A n \in Nodes : status[n] # "absent" => status'[n] # "absent"
  /\ \A n \in Nodes : status'[n] # "absent" => n \in nodes
  /\ complete \ {Verify} \subseteq complete'
  /\ \A n \in begun' : n \in begun \/ (status[n] = "running" /\ ~Waits(n))
  /\ won \subseteq won' /\ (Verify \in won' => Verify \in won \/ Verify \in begun)
  /\ status'[Verify] = "succeeded" => status[Verify] = "succeeded" \/ Verify \in won'

\* Every step leaves these.
LEMMA WorkLasts ==
  ASSUME EngineOK, Tasks, [CycleNext]_cycleVars
  PROVE  Lasts
<1>1. Verify \in Nodes /\ LifeOK
  BY CycleConstants DEF EngineOK
<1>2. CASE UNCHANGED <<status, complete, begun, won>>
  BY <1>2 DEF Lasts, Tasks
<1>3. CASE UNCHANGED cycleVars
  BY <1>2, <1>3 DEF cycleVars, lifeVars
<1>4. ASSUME NEW n \in Nodes, NEW s, s # "absent", status' = [status EXCEPT ![n] = s], n \in nodes
      PROVE  /\ \A m \in Nodes : status[m] # "absent" => status'[m] # "absent"
             /\ \A m \in Nodes : status'[m] # "absent" => m \in nodes
             /\ status'[Verify] = "succeeded" => status[Verify] = "succeeded" \/ (n = Verify /\ s = "succeeded")
  BY <1>1, <1>4 DEF LifeOK, Tasks
<1>5. CASE Workers
  <2>1. ASSUME NEW n \in Nodes, Start(n)
        PROVE  Lasts
    BY <2>1 DEF Start, Begin, Lasts, Tasks
  <2>2. ASSUME NEW n \in Nodes, WakeUp(n)
        PROVE  Lasts
    <3>1. n \in nodes /\ status' = [status EXCEPT ![n] = "running"]
      BY <2>2 DEF WakeUp, Wake, SetStatus, Tasks
    <3>2. UNCHANGED <<complete, begun, won>>
      BY <2>2 DEF WakeUp, Wake
    <3>3. "running" # "absent" /\ "running" # "succeeded"
      OBVIOUS
    <3>4. /\ \A m \in Nodes : status[m] # "absent" => status'[m] # "absent"
          /\ \A m \in Nodes : status'[m] # "absent" => m \in nodes
          /\ status'[Verify] = "succeeded" => status[Verify] = "succeeded"
      BY <1>4, <3>1, <3>3
    <3> QED BY <3>2, <3>4 DEF Lasts
  <2>3. ASSUME NEW n \in Nodes, NEW s \in Outcomes \cup {"running"}, Reported(n, s)
        PROVE  Lasts
    <3>1. n \in nodes /\ status' = [status EXCEPT ![n] = s] /\ s # "absent" /\ n \in begun
      BY <2>3 DEF Reported, Record, SetStatus, Tasks, Outcomes
    <3>2. complete \subseteq complete' /\ begun' = begun
          /\ won' = IF s = "succeeded" THEN won \cup {n} ELSE won
      BY <2>3 DEF Reported, Record
    <3> QED BY <1>4, <3>1, <3>2 DEF Lasts
  <2> QED BY <1>5, <2>1, <2>2, <2>3 DEF Workers, Progress, LateReport
<1>6. CASE Requests
  <2>1. CASE \E l \in DOMAIN loops : ApiCreateCycle(l)
    BY <1>2, <2>1 DEF ApiCreateCycle, lifeVars
  <2>2. CASE \E n \in Nodes : AddNode(n)
    BY <1>2, <2>2 DEF AddNode, lifeVars
  <2>3. ASSUME NEW n \in Nodes, ApiReport(n)
        PROVE  Lasts
    <3>1. n \in nodes /\ status' = [status EXCEPT ![n] = "succeeded"] /\ n # Verify
      BY <2>3 DEF ApiReport, Report, SetStatus, Tasks
    <3>2. complete \subseteq complete' /\ begun' = begun /\ won' = won \cup {n}
      BY <2>3 DEF ApiReport, Report
    <3> QED BY <1>4, <3>1, <3>2 DEF Lasts
  <2>4. CASE ApiRequeue
    <3>1. Verify \in nodes /\ status' = [status EXCEPT ![Verify] = "queued"]
      BY <2>4 DEF ApiRequeue, Requeue, SetStatus, Tasks
    <3> QED BY <1>1, <1>4, <2>4, <3>1 DEF ApiRequeue, Requeue, Lasts
  <2> QED BY <1>6, <2>1, <2>2, <2>3, <2>4 DEF Requests
<1>7. ASSUME NEW r \in Runners, Tick(r) \/ TickFails(r)
      PROVE  Lasts
  <2>1. UNCHANGED won
    <3>1. CASE Intake(r) \/ CheckGate(r) \/ Decomposition(r) \/ CheckDispatched(r)
             \/ CheckExecuted(r) \/ CheckVerified(r) \/ UpdateState(r)
      BY <3>1, RowsTaken DEF Taking, Goes
    <3> QED BY <1>7, <3>1 DEF Tick, TickFails, Select, EndPhase, CreateLoop, CreateCycle, Advance,
         ForceOverride, Elaborate, CountEvaluation, DecomposePlan, InsertGraph, BridgeMilestones,
         ListNodes, CreateTask, TasksDone, CreateVerify, CheckUntasked, DispatchTask
  <2>2. CASE ~ (CreateTask(r) \/ DispatchTask(r))
    <3> UNCHANGED <<status, complete, begun>>
      <4>1. CASE Intake(r) \/ CheckGate(r) \/ Decomposition(r) \/ CheckDispatched(r)
             \/ CheckExecuted(r) \/ CheckVerified(r) \/ UpdateState(r)
        BY <4>1, RowsTaken DEF Taking, Goes, lifeVars
      <4> QED BY <1>7, <2>2, <4>1 DEF Tick, TickFails, Select, EndPhase, CreateLoop, CreateCycle, Advance,
         ForceOverride, Elaborate, Evaluate, CountEvaluation, DecomposePlan, InsertGraph, BridgeMilestones,
         ListNodes, TasksDone, CreateVerify, CheckUntasked, lifeVars
    <3> QED BY <1>2, <2>1
  <2>3. CASE (CreateTask(r) \/ DispatchTask(r)) /\ UNCHANGED lifeVars
    BY <1>2, <2>1, <2>3 DEF lifeVars
  <2>4. CASE (CreateTask(r) \/ DispatchTask(r)) /\ ~ UNCHANGED lifeVars
    <3>1. PICK n \in Here(r).tasks : (CreateTask(r) /\ Create(n)) \/ (Dispatch(n) /\ complete' = complete)
      BY <2>4 DEF CreateTask, DispatchTask
    <3>2. n \in nodes /\ n \in Nodes
      BY DEF EngineOK, RunnersOK, Fits, TickState, Here
    <3>3. PICK s \in {"queued", "running"} : status' = [status EXCEPT ![n] = s]
      BY <3>1 DEF Create, Dispatch, SetStatus
    <3>4. UNCHANGED <<complete, begun>>
      BY <3>1 DEF Create, Dispatch
    <3> QED BY <1>4, <2>1, <3>2, <3>3, <3>4 DEF Lasts
  <2> QED BY <2>2, <2>3, <2>4
<1> QED BY <1>3, <1>5, <1>6, <1>7 DEF CycleNext

\* The verification node comes after the plan.
PlanFirst ==
  /\ Verify \in nodes => /\ Milestones \subseteq nodes
                         /\ Planned \cap nodes \subseteq Before(Verify)
                         /\ Verify \notin Before(Verify)
  /\ \A r \in Runners : Here(r).step \in {"list", "tasks", "verify", "untasked"}
                          => Milestones \subseteq nodes

\* Who adds nodes.
LEMMA NodesMade ==
  ASSUME [CycleNext]_cycleVars
  PROVE  \/ UNCHANGED <<nodes, edges>>
         \/ \E n \in Late : nodes' = nodes \cup {n} /\ UNCHANGED edges
         \/ \E r \in Runners : InsertGraph(r) \/ BridgeMilestones(r) \/ CreateVerify(r)
<1>1. CASE UNCHANGED cycleVars
  BY <1>1 DEF cycleVars, lifeVars, engine
<1>2. CASE Workers
  BY <1>2 DEF Workers, Start, WakeUp, Progress, LateReport, Reported, Begin, Wake, Record, engine
<1>3. CASE Requests
  BY <1>3 DEF Requests, AddNode, ApiCreateCycle, ApiReport, ApiRequeue, Report, Requeue,
      lifeVars, engine
<1>4. ASSUME NEW r \in Runners, Tick(r) \/ TickFails(r), ~ UNCHANGED <<nodes, edges>>
      PROVE  InsertGraph(r) \/ BridgeMilestones(r) \/ CreateVerify(r)
  <2>1. CASE Intake(r) \/ CheckGate(r) \/ Decomposition(r) \/ CheckDispatched(r)
             \/ CheckExecuted(r) \/ CheckVerified(r) \/ UpdateState(r)
    BY <1>4, <2>1, RowsTaken DEF Taking, Goes, lifeVars, engine
  <2>2. CASE Select(r) \/ EndPhase(r) \/ TickFails(r) \/ CreateLoop(r) \/ CreateCycle(r)
             \/ Advance(r) \/ ForceOverride(r) \/ Elaborate(r) \/ CountEvaluation(r)
    BY <1>4, <2>2 DEF Select, EndPhase, TickFails, CreateLoop, CreateCycle, Advance,
         ForceOverride, Elaborate, Evaluate, CountEvaluation, lifeVars, engine
  <2>3. CASE DecomposePlan(r) \/ ListNodes(r) \/ CreateTask(r) \/ TasksDone(r) \/ CheckUntasked(r)
             \/ DispatchTask(r)
    BY <1>4, <2>3 DEF DecomposePlan, ListNodes, CreateTask, TasksDone, CheckUntasked, DispatchTask,
       Create, Dispatch, lifeVars, engine
  <2> QED BY <1>4, <2>1, <2>2, <2>3 DEF Tick
<1> QED BY <1>1, <1>2, <1>3, <1>4 DEF CycleNext

\* What the nodes become in a step.
LEMMA NodesMove ==
  ASSUME EngineOK, PlanFirst, ~PlannedLate, Late \cap Planned = {}, [CycleNext]_cycleVars
  PROVE  /\ Verify \in nodes => /\ Planned \cap nodes' = Planned \cap nodes
                                /\ Before(Verify)' = Before(Verify)
         /\ Verify \in nodes' /\ Verify \notin nodes =>
              /\ Milestones \subseteq nodes /\ nodes' = nodes \cup {Verify}
              /\ Before(Verify)' = nodes
<1>1. Verify \in Nodes /\ LifeOK
  BY CycleConstants DEF EngineOK
<1>7. ASSUME NEW r \in Runners, InsertGraph(r)
      PROVE  Verify \notin nodes /\ Verify \notin nodes'
  BY <1>7, CycleConstants DEF InsertGraph, AddPlan, PlannedLate
<1>8. ASSUME NEW r \in Runners, BridgeMilestones(r)
      PROVE  /\ Verify \in nodes => /\ Planned \cap nodes' = Planned \cap nodes
                                    /\ Before(Verify)' = Before(Verify)
             /\ Verify \in nodes' => Verify \in nodes
  <2>1. nodes' = nodes \cup Milestones /\ edges' = edges \cup (PlanEdges \cap (Milestones \X Milestones))
    BY <1>8 DEF BridgeMilestones, AddPlan
  <2>2. Verify \notin Milestones
    BY CycleConstants
  <2>3. Verify \in nodes => nodes' = nodes
    BY <2>1 DEF PlanFirst
  <2>4. Before(Verify)' = Before(Verify)
    BY <2>1, <2>2 DEF Before
  <2> QED BY <2>1, <2>2, <2>3, <2>4
<1>9. ASSUME NEW r \in Runners, CreateVerify(r), Verify \notin nodes
      PROVE  /\ Milestones \subseteq nodes /\ nodes' = nodes \cup {Verify}
             /\ Before(Verify)' = nodes
  <2>1. nodes' = nodes \cup {Verify} /\ edges' = edges \cup {<<n, Verify>> : n \in nodes}
    BY <1>9 DEF CreateVerify
  <2>2. Milestones \subseteq nodes
    BY <1>9 DEF PlanFirst, CreateVerify, Step, Here
  <2>3. \A n : <<n, Verify>> \notin edges
    BY <1>1, <1>9 DEF LifeOK
  <2>4. Before(Verify)' = nodes
    BY <1>1, <2>1, <2>3 DEF Before, LifeOK
  <2> QED BY <2>1, <2>2, <2>4
<1>10. ASSUME NEW r \in Runners, CreateVerify(r), Verify \in nodes
      PROVE  UNCHANGED <<nodes, edges>>
  BY <1>10 DEF CreateVerify
<1>11. CASE UNCHANGED <<nodes, edges>>
  BY <1>11 DEF Before
<1>12. ASSUME NEW n \in Late, nodes' = nodes \cup {n} /\ UNCHANGED edges
       PROVE  /\ Planned \cap nodes' = Planned \cap nodes /\ Before(Verify)' = Before(Verify)
              /\ Verify \in nodes' => Verify \in nodes
  <2> n \notin Planned /\ n # Verify
    BY CycleConstants
  <2> QED BY <1>12 DEF Before
<1> QED BY <1>7, <1>8, <1>9, <1>10, <1>11, <1>12, NodesMade
\* What a runner's place in its tick says of the verification.
Vouches(x) ==
  /\ x.step = "untasked" => Verify \in nodes
  /\ Phase(x) = "decomposition" /\ x.step = "advance" => status[Verify] # "absent"
  /\ Phase(x) = "integration" /\ x.rows # {} => status[Verify] # "absent"
  /\ Phase(x) = "integration" /\ x.step = "advance" => Verify \in won

\* What the phase of a cycle says of the verification.
Reached ==
  \A c \in DOMAIN cycles :
    /\ cycles[c].phase \in {"dispatch", "execution", "integration"} => status[Verify] # "absent"
    /\ Completed(c) => Verify \in won

\* The verification began, and was won, after all that comes before it.
VerifiedLast ==
  /\ status[Verify] = "succeeded" => Verify \in won
  /\ Verify \in begun \cup won => Verify \in nodes /\ Before(Verify) \subseteq complete

\* Inductive for CycleInv.
WorkInv ==
  /\ EngineOK /\ Tasks /\ PlanFirst /\ VerifiedLast /\ Reached
  /\ \A r \in Runners : Vouches(runner[r])

\* The verification node can only begin, or have been won, after what comes before it.
LEMMA VerifiedLastStep ==
  ASSUME WorkInv, ~PlannedLate, Late \cap Planned = {}, [CycleNext]_cycleVars
  PROVE  Tasks' /\ VerifiedLast'
<1>1. Lasts /\ Verify \in Nodes /\ nodes \subseteq nodes' /\ EngineOK /\ EngineOK'
  BY WorkLasts, RowsStep, LifeStep, RunnersStep, CycleConstants DEF WorkInv, Grows, EngineOK
<1>2. Tasks'
  BY <1>1 DEF WorkInv, Tasks, Lasts, EngineOK, LifeOK
<1>3. Verify \in nodes => Before(Verify)' = Before(Verify)
  BY <1>1, NodesMove DEF WorkInv
<1>4. ASSUME Verify \in begun' \cup won'
      PROVE  Verify \in nodes /\ Before(Verify) \subseteq complete
  <2>1. CASE Verify \in begun \cup won
    BY <2>1 DEF WorkInv, VerifiedLast
  <2>2. CASE status[Verify] = "running" /\ ~Waits(Verify)
    BY <1>1, <2>2 DEF WorkInv, Tasks, Waits
  <2> QED BY <1>1, <1>4, <2>1, <2>2 DEF Lasts
<1>5. ASSUME Verify \in nodes
      PROVE  Verify \notin Before(Verify)
  BY <1>5 DEF WorkInv, PlanFirst
<1>6. ASSUME Verify \in begun' \cup won'
      PROVE  Verify \in nodes' /\ Before(Verify)' \subseteq complete'
  BY <1>1, <1>3, <1>4, <1>5, <1>6 DEF Lasts
<1>7. status'[Verify] = "succeeded" => Verify \in won'
  BY <1>1 DEF Lasts, WorkInv, VerifiedLast
<1>8. VerifiedLast'
  <2> HIDE DEF Before
  <2> QED BY <1>6, <1>7 DEF VerifiedLast
<1> QED BY <1>2, <1>8

\* How each runner's place changed, if it did.
LEMMA OwnWalk ==
  ASSUME EngineOK, [CycleNext]_cycleVars, NEW s \in Runners
  PROVE  runner'[s] = runner[s] \/ Walks(s, runner[s], runner'[s])
<1>1. CASE UNCHANGED runner
  BY <1>1
<1>2. CASE \E r \in Runners : Tick(r) \/ TickFails(r)
  <2> PICK r \in Runners : Tick(r) \/ TickFails(r)
    BY <1>2
  <2>1. (\A t \in Runners : t # r => runner'[t] = runner[t]) /\ Walks(r, runner[r], runner'[r])
    BY HowItWalks
  <2>2. CASE s = r
    BY <2>1, <2>2
  <2> HIDE DEF Walks
  <2> QED BY <2>1, <2>2
<1> QED BY <1>1, <1>2, WhoMoves

\* The verification node still comes after the plan.
LEMMA PlanFirstStep ==
  ASSUME WorkInv, ~PlannedLate, Late \cap Planned = {}, [CycleNext]_cycleVars
  PROVE  PlanFirst'
<1>1. EngineOK /\ PlanFirst /\ nodes \subseteq nodes'
  BY RowsStep DEF WorkInv, Grows
<1>2. ASSUME Verify \in nodes'
      PROVE  /\ Milestones \subseteq nodes' /\ Planned \cap nodes' \subseteq Before(Verify)'
             /\ Verify \notin Before(Verify)'
  <2>1. CASE Verify \in nodes
    <3>1. Planned \cap nodes' = Planned \cap nodes /\ Before(Verify)' = Before(Verify)
      BY <1>1, <2>1, NodesMove
    <3> QED BY <1>1, <2>1, <3>1 DEF PlanFirst
  <2>2. CASE Verify \notin nodes
    <3>1. Milestones \subseteq nodes /\ nodes' = nodes \cup {Verify} /\ Before(Verify)' = nodes
      BY <1>1, <1>2, <2>2, NodesMove
    <3> QED BY <2>2, <3>1, CycleConstants
  <2> QED BY <2>1, <2>2
<1>3. ASSUME NEW s \in Runners, NEW y, y = runner'[s],
             y.step \in {"list", "tasks", "verify", "untasked"}
      PROVE  Milestones \subseteq nodes'
  <2>1. PICK x : x = runner[s] /\ x = Here(s)
    BY DEF Here
  <2>2. CASE x.step \in {"list", "tasks", "verify", "untasked"}
    BY <1>1, <2>1, <2>2 DEF PlanFirst
  <2>3. CASE x.step \notin {"list", "tasks", "verify", "untasked"}
    BY <1>1, <1>3, <2>1, <2>3, OwnWalk
       DEF Walks, Restarts, Reads, Takes, Handles, Finishes, GoesOn
  <2> QED BY <2>2, <2>3
<1>4. (\A r \in Runners : Here(r).step \in {"list", "tasks", "verify", "untasked"}
                           => Milestones \subseteq nodes)'
  BY <1>3 DEF Here
<1> QED
  <2> HIDE DEF Before
  <2> QED BY <1>2, <1>4 DEF PlanFirst

\* What runners vouch for holds after every step: what they read does not become untrue.
LEMMA VouchesStep ==
  ASSUME WorkInv, [CycleNext]_cycleVars
  PROVE  \A r \in Runners : Vouches(runner[r])'
<1>1. /\ EngineOK /\ nodes \subseteq nodes' /\ Lasts /\ Verify \in Nodes
      /\ VerifiedLast /\ Reached
  BY RowsStep, WorkLasts, CycleConstants DEF WorkInv, Grows
<1>2. status[Verify] # "absent" => status'[Verify] # "absent"
  BY <1>1 DEF Lasts
<1>3. won \subseteq won'
  BY <1>1 DEF Lasts
<1>4. ASSUME NEW s \in Runners, NEW x \in TickState, NEW y \in TickState, x = runner[s], y = runner'[s]
      PROVE  Vouches(y)'
  <2>1. Vouches(x) /\ Fits(x)
    BY <1>4 DEF WorkInv, EngineOK, RunnersOK
  <2>2. CASE x = y
    BY <1>1, <1>2, <1>3, <2>1, <2>2 DEF Vouches, Phase
  <2>3. CASE Restarts(y)
    BY <2>3 DEF Vouches, Restarts
  <2>4. CASE Reads(s, x, y)
    <3>1. Phase(y) = "integration" /\ y.rows # {} => status[Verify] # "absent"
      BY <1>1, <2>4 DEF Reads, Phase, Selected, InPhase, Reached
    <3> QED BY <1>2, <2>4, <3>1 DEF Vouches, Reads, Phase
  <2>5. CASE y.at = x.at /\ Takes(x, y)
    <3>1. Phase(y) = Phase(x) /\ x.rows # {} /\ y.rows \subseteq x.rows
      BY <2>5 DEF Phase, Takes
    <3>2. Phase(y) = "integration" => status[Verify] # "absent"
      BY <2>1, <3>1 DEF Vouches
    <3>3. Phase(y) = "integration" /\ y.step = "advance" => Verify \in won
      BY <1>1, <2>5, <3>1, <3>2 DEF Takes, VerifiedLast
    <3>4. y.step # "untasked" /\ ~(Phase(y) = "decomposition" /\ y.step = "advance")
      BY <2>5, <3>1 DEF Takes
    <3> QED BY <1>2, <1>3, <3>2, <3>3, <3>4 DEF Vouches, Phase
  <2>6. CASE y.at = x.at /\ (Handles(x, y) \/ Finishes(x, y))
    BY <1>1, <1>2, <1>3, <2>1, <2>6 DEF Vouches, Phase, Handles, Finishes
  <2>7. CASE y.at = x.at /\ GoesOn(s, x, y)
    <3>1. Phase(y) = Phase(x) /\ y.rows = x.rows
      BY <2>7 DEF Phase, GoesOn
    <3>2. y.step = "advance" => \/ x.step = "count" /\ Phase(x) = "plan_elaboration"
                                \/ x.step = "untasked" /\ Untasked = {}
      BY <2>7 DEF GoesOn
    <3>3. x.step = "untasked" => Phase(x) = "decomposition" /\ Verify \in nodes
      BY <2>1 DEF Vouches, Fits, MakeSteps
    <3>4. x.step = "untasked" /\ Untasked = {} => status[Verify] # "absent"
      BY <3>3 DEF Untasked, Tasked
    <3>5. y.step = "untasked" => Verify \in nodes
      BY <2>7 DEF GoesOn
    <3> QED BY <1>1, <1>2, <2>1, <3>1, <3>2, <3>3, <3>4, <3>5 DEF Vouches, Phase
  <2> HIDE DEF Vouches
  <2> QED BY <1>1, <1>4, <2>2, <2>3, <2>4, <2>5, <2>6, <2>7, OwnWalk DEF Walks
<1>5. ASSUME NEW s \in Runners, NEW y, y = runner'[s]
      PROVE  Vouches(y)'
  <2>1. runner[s] \in TickState /\ y \in TickState
    BY <1>1, <1>5, RunnersStep DEF EngineOK, RunnersOK
  <2>2. PICK x \in TickState : x = runner[s]
    BY <2>1
  <2> QED BY <1>4, <1>5, <2>1, <2>2
<1> QED BY <1>5 DEF Vouches, Phase

\* What the phases of cycles stand for holds after every step.
LEMMA ReachedStep ==
  ASSUME WorkInv, [CycleNext]_cycleVars
  PROVE  Reached'
<1>1. /\ EngineOK /\ Lasts /\ Verify \in Nodes /\ Reached /\ RowsOK
  BY WorkLasts, CycleConstants DEF WorkInv, EngineOK
<1>2. status[Verify] # "absent" => status'[Verify] # "absent"
  BY <1>1 DEF Lasts
<1>3. won \subseteq won'
  BY <1>1 DEF Lasts
<1>4. CASE \A c \in DOMAIN cycles' : \/ c \in DOMAIN cycles /\ cycles'[c] = cycles[c]
                                     \/ cycles'[c].phase \in {"intake", "plan_elaboration", "decomposition"}
  BY <1>1, <1>2, <1>3, <1>4 DEF Reached, Completed
<1>5. CASE UNCHANGED cycles
  BY <1>4, <1>5
<1>6. ASSUME NEW l \in DOMAIN loops, NEW auto \in BOOLEAN, NewCycle(l, auto), Len(cycles) # MaxCycles
      PROVE  Reached'
  <2>1. /\ DOMAIN cycles' = DOMAIN cycles \cup {Len(cycles) + 1}
        /\ cycles'[Len(cycles) + 1] = [loop |-> l, phase |-> "intake", auto |-> auto]
        /\ \A c \in DOMAIN cycles : cycles'[c] = cycles[c]
    BY <1>1, <1>6, CycleAdded
  <2> QED BY <1>4, <2>1
<1>7. CASE \E l \in DOMAIN loops : ApiCreateCycle(l)
  <2>1. PICK l \in DOMAIN loops : NewCycle(l, FALSE) /\ Len(cycles) < MaxCycles
    BY <1>7 DEF ApiCreateCycle
  <2>2. Len(cycles) # MaxCycles
    <3> Len(cycles) \in Nat /\ MaxCycles \in Nat
      BY <1>1, RowTypes, CycleConstants
    <3> QED BY <2>1
  <2> QED BY <1>6, <2>1, <2>2
<1>8. ASSUME NEW r \in Runners, Writes(r), ~ UNCHANGED cycles
      PROVE  Reached'
  <2>1. CASE CreateLoop(r)
    BY <1>8, <2>1 DEF CreateLoop, engine
  <2>2. CASE CreateCycle(r)
    <3>1. PICK l \in DOMAIN loops : NewCycle(l, TRUE) /\ Len(cycles) # MaxCycles
      BY <1>1, <1>8, <2>2, CycleMade DEF engine
    <3> QED BY <1>6, <3>1
  <2>3. CASE ForceOverride(r)
    <3>1. PICK e \in DOMAIN cycles : cycles' = [cycles EXCEPT ![e].phase = "decomposition"]
      BY <1>1, <2>3, AtWork DEF ForceOverride, Step, Here
    <3>2. /\ DOMAIN cycles' = DOMAIN cycles /\ cycles'[e].phase = "decomposition"
          /\ \A i \in DOMAIN cycles : i # e => cycles'[i] = cycles[i]
      BY <1>1, <3>1, PhaseSet DEF PhaseNames, Passing
    <3> QED BY <1>4, <3>2
  <2>4. CASE Advance(r)
    <3>1. PICK e \in DOMAIN cycles, p \in PhaseNames :
             /\ e = Here(r).row /\ cycles[e].phase = Phase(Here(r)) /\ Phase(Here(r)) \in Passing
             /\ p = After(cycles[e].phase) /\ cycles' = [cycles EXCEPT ![e].phase = p]
      BY <1>1, <1>8, <2>4, Advances
    <3>2. /\ DOMAIN cycles' = DOMAIN cycles /\ cycles'[e].phase = p
          /\ \A i \in DOMAIN cycles : i # e => cycles'[i] = cycles[i]
      BY <1>1, <3>1, PhaseSet
    <3>3. PICK q \in Passing : q = cycles[e].phase /\ p = After(q)
      BY <3>1
    <3>4. Vouches(Here(r)) /\ Here(r).step = "advance"
      BY <2>4 DEF WorkInv, Here, Advance
    <3>5. p \in {"dispatch", "execution", "integration"} => status[Verify] # "absent"
      <4>1. q = "decomposition" => status[Verify] # "absent"
        BY <3>1, <3>3, <3>4 DEF Vouches
      <4>2. q \in {"dispatch", "execution"} => status[Verify] # "absent"
        BY <1>1, <3>3 DEF Reached
      <4> QED BY <3>3, <4>1, <4>2, NextOf DEF Passing
    <3>6. p \in {"state_update", "next_cycle_ready"} => Verify \in won
      <4>1. q = "integration" => Verify \in won
        BY <3>1, <3>3, <3>4 DEF Vouches
      <4>2. q = "state_update" => Verify \in won
        BY <1>1, <3>3 DEF Reached, Completed
      <4> QED BY <3>3, <4>1, <4>2, NextOf DEF Passing
    <3> QED BY <1>1, <1>2, <1>3, <3>2, <3>5, <3>6 DEF Reached, Completed
  <2> QED BY <1>8, <2>1, <2>2, <2>3, <2>4 DEF Writes
<1> QED BY <1>1, <1>5, <1>7, <1>8, WhoWrites DEF QuietRows

\* CycleInv for any number of runners, as long as no graph drafted before the
\* verification node was made is inserted after it, and requests add other nodes than the
\* plan has: a cycle is past complete_integration only with the plan complete and verified.
THEOREM CyclesComplete ==
  ASSUME Late \cap Planned = {}
  PROVE  CycleSpec /\ []~PlannedLate => []CycleInv
<1>1. CycleInit => WorkInv
  <2> SUFFICES ASSUME CycleInit, EngineOK PROVE WorkInv
    BY EngineInitial
  <2>1. nodes = {} /\ begun = {} /\ won = {} /\ status = [n \in Nodes |-> "absent"]
        /\ DOMAIN cycles = {} /\ Verify \in Nodes
    BY CycleConstants DEF CycleInit, LifeInit
  <2>2. \A r \in Runners : runner[r] = TickStart
    BY DEF CycleInit
  <2>3. \A r \in Runners : Vouches(runner[r])
    BY <2>2 DEF TickStart, Vouches
  <2>4. PlanFirst
    BY <2>1, <2>2 DEF PlanFirst, TickStart, Here
  <2> QED BY <2>1, <2>3, <2>4 DEF WorkInv, Tasks, VerifiedLast, Reached
<1>2. WorkInv /\ ~PlannedLate /\ [CycleNext]_cycleVars => WorkInv'
  <2> SUFFICES ASSUME WorkInv, ~PlannedLate, [CycleNext]_cycleVars PROVE WorkInv'
    OBVIOUS
  <2>1. EngineOK'
    BY RowsStep, LifeStep, RunnersStep DEF WorkInv, EngineOK
  <2>2. Tasks' /\ VerifiedLast' /\ PlanFirst' /\ Reached'
    BY VerifiedLastStep, PlanFirstStep, ReachedStep
  <2>3. \A r \in Runners : Vouches(runner[r])'
    BY VouchesStep
  <2> HIDE DEF Vouches
  <2> QED BY <2>1, <2>2, <2>3 DEF WorkInv
<1>3. WorkInv => CycleInv
  <2> SUFFICES ASSUME WorkInv PROVE CycleInv
    OBVIOUS
  <2>1. CycleTypeOK
    BY RowsFit DEF WorkInv
  <2>2. IntegrationMeansComplete
    BY DEF WorkInv, Reached, VerifiedLast, PlanFirst, IntegrationMeansComplete
  <2> QED BY <2>1, <2>2 DEF CycleInv
<1> QED
  BY <1>1, <1>2, <1>3, PTL DEF CycleSpec

-----------------------------------------------------------------------------
(* One runner.                                                             *)

\* The one runner that is deployed, and the rows it has selected.
Keeps(x) ==
  /\ Phase(x) \in Passing => \A c \in x.rows : cycles[c].phase = Phase(x)
  /\ x.step \notin {"select", "row"} => /\ cycles[x.row].phase = Phase(x)
                                        /\ x.row \notin x.rows
  /\ x.step = "graph" => Verify \notin nodes

\* The one runner's rows stay in the phase it selected them in.
LEMMA KeepsStep ==
  ASSUME NEW r, Runners = {r}, EngineOK, Keeps(Here(r)), [CycleNext]_cycleVars
  PROVE  Keeps(Here(r))'
<1>1. RowsOK /\ EngineOK'
  BY RowsStep, LifeStep, RunnersStep DEF EngineOK
<1>2. PICK x \in TickState : x = runner[r] /\ Keeps(x) /\ Fits(x)
  BY DEF EngineOK, RunnersOK, Here
<1>3. PICK y \in TickState : y = runner'[r]
  BY <1>1 DEF EngineOK, RunnersOK
<1>4. SUFFICES Keeps(y)'
  BY <1>3 DEF Keeps, Here, Phase
  \* Cycles of a phase stay in it, but for the one that a runner moves on.
<1>5. ASSUME ~ Writes(r)
      PROVE  \A c \in DOMAIN cycles : cycles'[c] = cycles[c]
  <2>1. CASE UNCHANGED cycles
    BY <2>1
  <2>2. CASE \E l \in DOMAIN loops : ApiCreateCycle(l)
    <3>1. PICK l \in DOMAIN loops : NewCycle(l, FALSE) /\ Len(cycles) < MaxCycles
      BY <2>2 DEF ApiCreateCycle
    <3>2. Len(cycles) # MaxCycles
      <4> Len(cycles) \in Nat /\ MaxCycles \in Nat
        BY <1>1, RowTypes, CycleConstants
      <4> QED BY <3>1
    <3> QED BY <1>1, <3>1, <3>2, CycleAdded
  <2> QED BY <1>5, <2>1, <2>2, WhoWrites DEF QuietRows
<1>6. ASSUME Writes(r)
      PROVE  \/ \A c \in DOMAIN cycles : cycles'[c] = cycles[c]
             \/ /\ \A c \in DOMAIN cycles : c # x.row => cycles'[c] = cycles[c]
                /\ x.row \notin x.rows /\ y.at = x.at /\ y.rows = x.rows /\ y.step = "row"
  <2>1. CASE CreateLoop(r)
    BY <2>1 DEF CreateLoop, engine
  <2>2. CASE CreateCycle(r)
    <3>1. CASE UNCHANGED engine
      BY <3>1 DEF engine
    <3>2. CASE ~ UNCHANGED engine
      <4>1. PICK l \in DOMAIN loops : NewCycle(l, TRUE) /\ Len(cycles) # MaxCycles
        BY <2>2, <3>2, CycleMade
      <4> QED BY <1>1, <4>1, CycleAdded
    <3> QED BY <3>1, <3>2
  <2>3. CASE Advance(r) \/ ForceOverride(r)
    <3>1. y.at = x.at /\ y.rows = x.rows /\ y.step = "row"
      BY <1>2, <1>3, <2>3 DEF Advance, ForceOverride, Move, RowDone, Here, EngineOK, RunnersOK, TickState
    <3>2. x.step \notin {"select", "row"} /\ x.row \notin x.rows
      BY <1>2, <2>3 DEF Advance, ForceOverride, Step, Here, Keeps
    <3>3. \A c \in DOMAIN cycles : c # x.row => cycles'[c] = cycles[c]
      <4>1. cycles' = cycles \/ \E q : cycles' = [cycles EXCEPT ![x.row].phase = q]
        BY <1>2, <2>3 DEF Advance, ForceOverride, Here, engine
      <4> QED BY <4>1
    <3> QED BY <3>1, <3>2, <3>3
  <2> QED BY <1>6, <2>1, <2>2, <2>3 DEF Writes
<1>7. y.step = "graph" => Verify \notin nodes'
  <2> SUFFICES ASSUME y.step = "graph" PROVE Verify \notin nodes'
    OBVIOUS
  <2>1. x = y \/ Walks(r, x, y)
    BY <1>2, <1>3, OwnWalk
  <2>2. Verify \notin nodes
    BY <1>2, <2>1 DEF Keeps, Walks, Restarts, Reads, Takes, Handles, Finishes, GoesOn
  <2>3. ~ CreateVerify(r)
    BY <1>2, <1>3 DEF CreateVerify, Move, Here, EngineOK, RunnersOK, TickState
  <2>4. ASSUME NEW n \in Late, nodes' = nodes \cup {n}
        PROVE  Verify \notin nodes'
    BY <2>2, <2>4, CycleConstants
  <2>5. CASE InsertGraph(r) \/ BridgeMilestones(r)
    BY <2>2, <2>5, CycleConstants DEF InsertGraph, BridgeMilestones, AddPlan
  <2> QED BY <2>2, <2>3, <2>4, <2>5, NodesMade
<1>8. x.rows \subseteq DOMAIN cycles \/ Phase(x) \notin Passing
  BY <1>2 DEF Fits
<1>9. x.step \notin {"select", "row"} => x.row \in DOMAIN cycles /\ Phase(x) \in Passing
  BY <1>2 DEF Fits, TickState, PlanSteps, MakeSteps, Passing
<1>10. CASE \A c \in DOMAIN cycles : cycles'[c] = cycles[c]
  <2>1. CASE x = y
    BY <1>2, <1>7, <1>8, <1>9, <1>10, <2>1 DEF Keeps, Phase
  <2>2. CASE Restarts(y)
    BY <2>2 DEF Restarts, Keeps
  <2>3. CASE Reads(r, x, y)
    <3>1. Phase(y) \in Passing => y.rows \subseteq DOMAIN cycles /\ \A c \in y.rows : cycles[c].phase = Phase(y)
      BY <2>3 DEF Reads, Selected, Phase, InPhase, Passing
    <3> QED BY <1>10, <2>3, <3>1 DEF Reads, Keeps, Phase
  <2>4. CASE y.at = x.at /\ Takes(x, y)
    <3>1. Phase(y) = Phase(x) /\ y.row \in x.rows /\ y.rows = x.rows \ {y.row} /\ y.step # "graph"
      BY <2>4 DEF Takes, Phase
    <3>2. y.step \notin {"select", "row"} => Phase(y) \in Passing
      <4> Fits(y)'
        BY <1>1, <1>3 DEF EngineOK, RunnersOK, Fits, Phase
      <4> QED BY DEF Fits, TickState, PlanSteps, MakeSteps, Passing, Phase
    <3> QED BY <1>2, <1>8, <1>10, <3>1, <3>2 DEF Keeps, Phase
  <2>5. CASE y.at = x.at /\ (Handles(x, y) \/ Finishes(x, y) \/ GoesOn(r, x, y))
    <3>1. /\ Phase(y) = Phase(x) /\ y.rows \subseteq x.rows
          /\ y.step \notin {"select", "row"} => y.row = x.row /\ x.step \notin {"select", "row"}
      BY <2>5 DEF Handles, Finishes, GoesOn, Phase
    <3> QED BY <1>2, <1>7, <1>8, <1>9, <1>10, <3>1 DEF Keeps, Phase
  <2> QED BY <1>2, <1>3, <2>1, <2>2, <2>3, <2>4, <2>5, OwnWalk DEF Walks
<1>11. CASE /\ \A c \in DOMAIN cycles : c # x.row => cycles'[c] = cycles[c]
            /\ x.row \notin x.rows /\ y.at = x.at /\ y.rows = x.rows /\ y.step = "row"
  BY <1>2, <1>8, <1>11 DEF Keeps, Phase
<1> QED BY <1>5, <1>6, <1>10, <1>11

\* Neither condition can fail with the one loop runner that is deployed, wherever its
\* ticks end and whatever requests and workers do meanwhile.
THEOREM OneRunnerInStep ==
  ASSUME NEW r, Runners = {r}
  PROVE  CycleSpec => []~ForcedBack /\ []~PlannedLate
<1>1. CycleInit => EngineOK /\ Keeps(Here(r))
  <2> SUFFICES ASSUME CycleInit PROVE Keeps(Here(r))
    BY EngineInitial
  <2> Here(r) = TickStart /\ TickStart.rows = {} /\ TickStart.step = "select"
    BY DEF CycleInit, Here, TickStart
  <2> QED BY DEF Keeps
<1>2. EngineOK /\ Keeps(Here(r)) /\ [CycleNext]_cycleVars => EngineOK' /\ Keeps(Here(r))'
  BY KeepsStep, RowsStep, LifeStep, RunnersStep DEF EngineOK
<1>3. EngineOK /\ Keeps(Here(r)) => ~ForcedBack /\ ~PlannedLate
  BY DEF Keeps, ForcedBack, PlannedLate, Step, Phase, Here
<1> QED
  BY <1>1, <1>2, <1>3, PTL DEF CycleSpec

\* So with one runner PhasesInOrder and RunnersCreateOnce hold without condition, and
\* CycleInv on the nodes of the plan.
COROLLARY OneRunner ==
  ASSUME NEW r, Runners = {r}
  PROVE  /\ CycleSpec => PhasesInOrder /\ []RunnersCreateOnce
         /\ Late \cap Planned = {} => (CycleSpec => []CycleInv)
<1>1. CycleSpec => PhasesInOrder /\ []RunnersCreateOnce
  BY OneRunnerInStep, PhasesOrdered, RunnersCreateOne
<1>2. ASSUME Late \cap Planned = {}
      PROVE  CycleSpec => []CycleInv
  BY <1>2, OneRunnerInStep, CyclesComplete
<1> QED BY <1>1, <1>2
====
