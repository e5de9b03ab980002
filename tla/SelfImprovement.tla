--------------------------- MODULE SelfImprovement ---------------------------
(***************************************************************************)
(* What the loop runner records about a self-improvement objective          *)
(* (services/loop-runner/src/recursive_improvement.rs): milestone templates *)
(* when a cycle is decomposed, and when a cycle ends a comparison, a score, *)
(* a drift check, a report, success patterns and roadmap suggestions.       *)
(*                                                                          *)
(* Each generator looks for its key in the journal, reads, and in one       *)
(* transaction inserts its row and the event.  The unique index on kind and *)
(* key, which the event's ON CONFLICT does not name, rolls a second one     *)
(* back; tick.rs logs the error and goes on.  Runners run at the same time  *)
(* and crash between any two steps; a table may be out of order.            *)
(*                                                                          *)
(* The failure patterns of tick.rs:1714-1769 are left out: they want a      *)
(* failed task with an adapter_output artifact, and the one executor that   *)
(* fails a task (integration verification) records no artifact.             *)
(***************************************************************************)
EXTENDS Naturals, Sequences, FiniteSets, SequencesExt

CONSTANTS Runners, Outcomes,  \* how a task can end
          MaybeBroken,   \* generators whose table may be out of order
          MaxCycles, MaxFaults      \* bounds: cycles; crashes and passing errors

ASSUME SIAssumption == IsFiniteSet(Runners) /\ MaxCycles \in Nat \ {0} /\ MaxFaults \in Nat

VARIABLES cycle, phase,   \* of the objective's newest cycle
          work,           \* the objective's tasks: outcome -> how many
          rows,           \* generator -> its artifacts in the order they were inserted
          trees,          \* milestone_trees of the objective
          milestones,     \* tree -> template milestones under it
          journal,        \* <<generator, cycle>>; templates under cycle 0
          runner,         \* runner -> [at, cycle, draft]
          broken,         \* generators that always fail
          skipped,        \* <<generator, cycle>> given up after an error
          faults          \* crashes and passing errors so far

siVars == <<cycle, phase, work, rows, trees, milestones, journal, runner, broken, skipped, faults>>

-----------------------------------------------------------------------------
(* The steps of a runner *)

\* Mistake: the report is written before the score it cites.
StepsReportFirst == <<"comparison", "report", "score", "drift", "success", "roadmap", "completed">>

\* The generators, in the order complete_integration calls them, and the end.
Steps == <<"comparison", "score", "drift", "report", "success", "roadmap", "completed">>

Trees == 1 .. Cardinality(Runners)   \* as many as runners can find missing at once

Generators == Range(Steps) \ {"completed"}

After(step) == Steps[CHOOSE i \in 2 .. Len(Steps) : Steps[i - 1] = step]

Idle == [at |-> "idle", cycle |-> 0, draft |-> <<>>]

Goto(r, step) == runner' = [runner EXCEPT ![r].at = step, ![r].draft = <<>>]

\* Mistake: the key names the objective, as that of the templates does.
JournalledForObjective(k, c) == \E e \in journal : e[1] = k

Journalled(k, c) == <<k, c>> \in journal

-----------------------------------------------------------------------------
(* The generators *)

\* The answer to a query ORDER BY created_at DESC LIMIT 1: no row or one.
Latest(k) == IF rows[k] = <<>> THEN {} ELSE {Last(rows[k])}

Total == MapThenFoldSet(+, 0, LAMBDA o : work[o], LAMBDA S : CHOOSE o \in S : TRUE, Outcomes)

\* A success rate is a fraction; of no tasks it is 0.
Rate == IF Total = 0 THEN <<0, 1>> ELSE <<work.succeeded, Total>>

\* The previous rate is looked for in the baseline of the latest comparison.
Baseline == IF rows.comparison = <<>> THEN <<0, 1>> ELSE Last(rows.comparison).before

\* With a dead band of a hundredth.
Direction(before, after) ==
  LET gain == 100 * after[1] * before[2]
      loss == 100 * before[1] * after[2]
      band == before[2] * after[2] IN
  IF gain > loss + band THEN "improved"
  ELSE IF loss > gain + band THEN "degraded" ELSE "unchanged"

Blank(k, c) ==
  [cycle |-> c, index |-> Len(rows[k]) + 1, before |-> <<0, 1>>, after |-> <<0, 1>>,
   verdict |-> "none", cites |-> {}]

Comparison(c) ==
  [Blank("comparison", c) EXCEPT
     !.before = Baseline, !.after = Rate,
     !.verdict = Direction(Baseline, Rate)]

Score(c) == Blank("score", c)

DriftCheck(c) == Blank("drift", c)

Report(c) ==
  [Blank("report", c) EXCEPT
     !.cites = UNION {{<<k, row.cycle>> : row \in Latest(k)} :
                        k \in {"comparison", "score", "drift"}},
     !.verdict = IF work.failed > 0 THEN "pause" ELSE "continue"]

\* Memory entries have no index; suggestions look at the failures and the latest score.
Memory(k, c) ==
  [Blank(k, c) EXCEPT
     !.index = 0,
     !.cites = IF k = "roadmap" /\ work.failed = 0
               THEN {<<"score", row.cycle>> : row \in Latest("score")} ELSE {}]

Draft(k, c) ==
  CASE k = "comparison" -> Comparison(c)
    [] k = "score" -> Score(c)
    [] k = "drift" -> DriftCheck(c)
    [] k = "report" -> Report(c)
    [] OTHER -> Memory(k, c)

\* A generator begins: skipped when its key is there, or (success patterns) when
\* nothing succeeded.
Read(r) ==
  LET k == runner[r].at c == runner[r].cycle IN
  /\ k \in Generators \ broken /\ runner[r].draft = <<>>
  /\ IF Journalled(k, c) \/ (k = "success" /\ work.succeeded = 0)
     THEN Goto(r, After(k))
     ELSE runner' = [runner EXCEPT ![r].draft = <<Draft(k, c)>>]
  /\ UNCHANGED <<cycle, phase, work, rows, trees, milestones, journal, broken, skipped, faults>>

\* Success patterns and suggestions are one function: an error of the first ends it.
AfterError(k) == IF k = "success" THEN "completed" ELSE After(k)
LeftUndone(k, c) == (IF k = "success" THEN {"success", "roadmap"} ELSE {k}) \X {c}

\* Mistake: the conflict the event names is the only one.
AlwaysUnique(k, c) == TRUE

\* Whether the transaction of a generator commits.
Unique(k, c) == <<k, c>> \notin journal

Write(r) ==
  LET k == runner[r].at c == runner[r].cycle IN
  /\ k \in Generators /\ runner[r].draft # <<>>
  /\ IF Unique(k, c)
     THEN /\ rows' = [rows EXCEPT ![k] = @ \o runner[r].draft]
          /\ journal' = journal \cup {<<k, c>>}
          /\ Goto(r, After(k))
          /\ UNCHANGED skipped
     ELSE /\ Goto(r, AfterError(k))
          /\ skipped' = skipped \cup (LeftUndone(k, c) \ {<<k, c>>})
          /\ UNCHANGED <<rows, journal>>
  /\ UNCHANGED <<cycle, phase, work, trees, milestones, broken, faults>>

\* Mistake: the error is handed on with ?, and ends the tick.
GiveUpFatally(r) ==
  LET k == runner[r].at c == runner[r].cycle IN
  /\ k \in Generators
  /\ runner' = [runner EXCEPT ![r] = Idle]
  /\ UNCHANGED <<cycle, phase, work, rows, trees, milestones, journal, broken, skipped>>

\* Any other error of a generator is logged, and the next one runs.
GiveUp(r) ==
  LET k == runner[r].at c == runner[r].cycle IN
  /\ k \in Generators
  /\ Goto(r, AfterError(k))
  /\ skipped' = skipped \cup LeftUndone(k, c)
  /\ UNCHANGED <<cycle, phase, work, rows, trees, milestones, journal, broken>>

Broken(r) == runner[r].at \in broken /\ GiveUp(r) /\ UNCHANGED faults

Error(r) ==
  /\ faults < MaxFaults /\ GiveUp(r)
  /\ faults' = faults + 1

\* The completion event, and the phase, which only the first runner changes.
Complete(r) ==
  /\ runner[r].at = "completed"
  /\ runner' = [runner EXCEPT ![r] = Idle]
  /\ phase' = IF runner[r].cycle = cycle /\ phase = "state_update" THEN "next_cycle_ready" ELSE phase
  /\ UNCHANGED <<cycle, work, rows, trees, milestones, journal, broken, skipped, faults>>

-----------------------------------------------------------------------------
(* Milestone templates *)

TemplatesWanted(r) == ~Journalled("templates", 0)

\* Mistake: the tree is not looked for.
ReadKeyOnly(r) ==
  /\ runner[r].at = "templates" /\ runner[r].draft = <<>>
  /\ IF TemplatesWanted(r)
     THEN runner' = [runner EXCEPT ![r].draft = <<0>>]
     ELSE Goto(r, "decompose")
  /\ UNCHANGED <<cycle, phase, work, rows, trees, milestones, journal, broken, skipped, faults>>

\* Reads the key and a tree; the tree's table does not keep a second one out.
ReadTree(r) ==
  /\ runner[r].at = "templates" /\ runner[r].draft = <<>>
  /\ IF TemplatesWanted(r)
     THEN \E t \in IF trees = {} THEN {0} ELSE trees : runner' = [runner EXCEPT ![r].draft = <<t>>]
     ELSE Goto(r, "decompose")
  /\ UNCHANGED <<cycle, phase, work, rows, trees, milestones, journal, broken, skipped, faults>>

\* Without one the runner makes one, in a statement of its own.
InsertTree(r) ==
  LET t == Cardinality(trees) + 1 IN
  /\ runner[r].at = "templates" /\ runner[r].draft = <<0>>
  /\ trees' = trees \cup {t}
  /\ runner' = [runner EXCEPT ![r].draft = <<t>>]
  /\ UNCHANGED <<cycle, phase, work, rows, milestones, journal, broken, skipped, faults>>

InsertTemplates(r) ==
  /\ runner[r].at = "templates" /\ runner[r].draft \notin {<<>>, <<0>>}
  /\ IF Unique("templates", 0)
     THEN /\ milestones' = [milestones EXCEPT ![runner[r].draft[1]] = @ + 3]
          /\ journal' = journal \cup {<<"templates", 0>>}
     ELSE UNCHANGED <<milestones, journal>>
  /\ Goto(r, "decompose")
  /\ UNCHANGED <<cycle, phase, work, rows, trees, broken, skipped, faults>>

-----------------------------------------------------------------------------
(* The cycle around them (in full in CycleEngine) *)

\* A tick reaches the cycle.
Select(r) ==
  /\ runner[r].at = "idle"
  /\ \/ phase = "decomposition" /\ runner' = [runner EXCEPT ![r] = [at |-> "templates", cycle |-> cycle, draft |-> <<>>]]
     \/ phase = "state_update" /\ runner' = [runner EXCEPT ![r] = [at |-> Steps[1], cycle |-> cycle, draft |-> <<>>]]
  /\ UNCHANGED <<cycle, phase, work, rows, trees, milestones, journal, broken, skipped, faults>>

Decompose(r) ==
  /\ runner[r].at = "decompose"
  /\ runner' = [runner EXCEPT ![r] = Idle]
  /\ phase' = IF runner[r].cycle = cycle /\ phase = "decomposition" THEN "executing" ELSE phase
  /\ UNCHANGED <<cycle, work, rows, trees, milestones, journal, broken, skipped, faults>>

\* The cycle's work: one more task of the objective has its final status.
Execute ==
  /\ phase = "executing" /\ phase' = "state_update"
  /\ \E o \in Outcomes : work' = [work EXCEPT ![o] = @ + 1]
  /\ UNCHANGED <<cycle, rows, trees, milestones, journal, runner, broken, skipped, faults>>

NextCycle ==
  /\ phase = "next_cycle_ready" /\ cycle < MaxCycles
  /\ cycle' = cycle + 1 /\ phase' = "decomposition"
  /\ UNCHANGED <<work, rows, trees, milestones, journal, runner, broken, skipped, faults>>

Crash(r) ==
  /\ runner[r].at # "idle" /\ faults < MaxFaults
  /\ runner' = [runner EXCEPT ![r] = Idle]
  /\ faults' = faults + 1
  /\ UNCHANGED <<cycle, phase, work, rows, trees, milestones, journal, broken, skipped>>

SIInit ==
  /\ cycle = 1 /\ phase = "decomposition"
  /\ work = [o \in Outcomes |-> 0]
  /\ rows = [k \in Generators |-> <<>>] /\ trees = {} /\ milestones = [t \in Trees |-> 0] /\ journal = {}
  /\ runner = [r \in Runners |-> Idle]
  /\ broken \in SUBSET MaybeBroken /\ skipped = {}
  /\ faults = 0

Run(r) == \/ Select(r) \/ ReadTree(r) \/ InsertTree(r) \/ InsertTemplates(r) \/ Decompose(r)
          \/ Read(r) \/ Write(r) \/ Broken(r) \/ Complete(r)

SINext ==
  \/ Execute \/ NextCycle
  \/ \E r \in Runners : Run(r) \/ Error(r) \/ Crash(r)

SISpec == SIInit /\ [][SINext]_siVars /\ WF_siVars(Execute) /\ \A r \in Runners : WF_siVars(Run(r))

-----------------------------------------------------------------------------
(* Properties *)

SITypeOK ==
  /\ cycle \in 1 .. MaxCycles
  /\ phase \in {"decomposition", "executing", "state_update", "next_cycle_ready"}
  /\ \A k \in Generators : \A row \in Range(rows[k]) :
       /\ row.cycle \in 1 .. cycle /\ row.index \in 0 .. MaxCycles
       /\ row.verdict \in {"none", "improved", "degraded", "unchanged", "pause", "continue"}
  /\ trees \subseteq Trees
  /\ \A r \in Runners : runner[r].at \in Range(Steps) \cup {"idle", "templates", "decompose"}

\* However many runners reach the end of a cycle, and however often it is begun
\* again, a cycle has at most one artifact of each kind, and the objective one set
\* of milestone templates.
OneOfEachPerCycle ==
  /\ \A k \in Generators : \A i, j \in 1 .. Len(rows[k]) :
       rows[k][i].cycle = rows[k][j].cycle => i = j
  /\ \A t, u \in Trees : milestones[t] > 0 /\ milestones[u] > 0 => t = u /\ milestones[t] = 3

Has(k, c) == \E row \in Range(rows[k]) : row.cycle = c
Ended(c) == c < cycle \/ (c = cycle /\ phase = "next_cycle_ready")

\* A cycle ends with all its artifacts, those apart whose generator failed (success
\* patterns apart too, which need a success).
EndedIsDocumented ==
  \A c \in 1 .. cycle : Ended(c) =>
    \A k \in Generators : Has(k, c) \/ <<k, c>> \in skipped \/ k = "success"

\* A report cites the artifacts of its own cycle.  Only an error opens a gap, by
\* letting a cycle go on without a row that a slow runner adds later: an error of
\* the cited generator, now or earlier, or of the report itself.
ReportCitesItsCycle ==
  \A row \in Range(rows.report) :
    \A k \in {"comparison", "score", "drift"} :
      \/ <<k, row.cycle>> \in row.cites
      \/ <<"report", row.cycle>> \in skipped
      \/ \E c \in 1 .. row.cycle : <<k, c>> \in skipped

\* Two runners and the restarts between them leave one artifact of each kind per
\* cycle, every ended cycle has all of them, and reports cite those of their cycle.
RecordsInv ==
  /\ SITypeOK
  /\ OneOfEachPerCycle
  /\ EndedIsDocumented
  /\ ReportCitesItsCycle

\* No table out of order, no error and no slower runner keeps a cycle from ending:
\* everything recorded here is non-fatal.
CycleEnds == \A c \in 1 .. MaxCycles :
  (phase = "state_update" /\ cycle = c) ~> Ended(c)

\* recursive_improvement.rs:15: the comparison is against the previous cycle, so its
\* baseline is the rate the comparison before it recorded.
BaselineIsPreviousRate ==
  \A i \in 2 .. Len(rows.comparison) : rows.comparison[i].before = rows.comparison[i - 1].after
=============================================================================
