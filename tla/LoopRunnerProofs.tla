-------------------------- MODULE LoopRunnerProofs --------------------------
(***************************************************************************)
(* What the loop runner records and sweeps, for every number of runners,    *)
(* cycles, reviews and keys: the artifacts of self-improvement are one of   *)
(* each per cycle and cite their own cycle, and what a journal key makes    *)
(* happen happens once while the key is kept.                               *)
(***************************************************************************)
EXTENDS SelfImprovement, Governance, FiniteSetTheorems, SequenceTheorems, NaturalsInduction,
        WellFoundedInduction, TLAPS

-----------------------------------------------------------------------------
(* What a cycle records for self-improvement *)

Cited == {"comparison", "score", "drift"}
Stations == Generators \cup {"completed", "idle", "templates", "decompose"}

\* The generators that come before a step.
Passed ==
  [comparison |-> {}, score |-> {"comparison"}, drift |-> {"comparison", "score"},
   report |-> Cited, success |-> Cited \cup {"report"},
   roadmap |-> Cited \cup {"report", "success"}, completed |-> Generators]

\* What a generator may leave behind when a runner goes on.
Covered(k, c) == Has(k, c) \/ <<k, c>> \in skipped \/ k = "success"

\* Why a report of a cycle may not cite an artifact of it.
Excused(k, c) ==
  <<"report", c>> \in skipped \/ \E b \in 1 .. c : <<k, b>> \in skipped

RowOK(k, row) ==
  /\ row.cycle \in 1 .. cycle /\ row.index \in 0 .. MaxCycles
  /\ row.verdict \in {"none", "improved", "degraded", "unchanged", "pause", "continue"}
  /\ k = "report" => \A j \in Cited : <<j, row.cycle>> \in row.cites \/ Excused(j, row.cycle)

\* A runner has come past generators that are covered, and what it has drafted may
\* still be written.
RunnerOK(x) ==
  /\ x = [at |-> x.at, cycle |-> x.cycle, draft |-> x.draft]
  /\ x.at \in Stations
  /\ x.at # "idle" => x.cycle \in 1 .. cycle
  /\ x.at \in {"idle", "decompose", "completed"} => x.draft = <<>>
  /\ x.at = "templates" => x.draft = <<>> \/ \E t \in trees \cup {0} : x.draft = <<t>>
  /\ x.at \in Generators =>
       \/ x.draft = <<>>
       \/ /\ x.draft = <<x.draft[1]>> /\ x.draft[1].cycle = x.cycle
          /\ RowOK(x.at, x.draft[1])
  /\ x.at \in Generators \cup {"completed"} =>
       \A k \in Passed[x.at] : Covered(k, x.cycle)

CycleTyped ==
  /\ cycle \in 1 .. MaxCycles
  /\ phase \in {"decomposition", "executing", "state_update", "next_cycle_ready"}
  /\ runner = [r \in Runners |-> runner[r]]
  /\ rows = [k \in Generators |-> rows[k]]
  /\ \A k \in Generators : rows[k] \in Seq(ToSet(rows[k]))

\* The journal has the key of an artifact exactly where the artifact is, and an
\* artifact of an earlier cycle comes after one of a later cycle only where its
\* generator had been given up before.
RowsKept ==
  \A k \in Generators :
    /\ \A i \in DOMAIN rows[k] : RowOK(k, rows[k][i])
    /\ \A c \in Nat : <<k, c>> \in journal <=> Has(k, c)
    /\ \A i, j \in DOMAIN rows[k] : rows[k][i].cycle = rows[k][j].cycle => i = j
    /\ \A i, j \in DOMAIN rows[k] :
         i < j /\ rows[k][i].cycle > rows[k][j].cycle /\ k # "success" =>
           <<k, rows[k][j].cycle>> \in skipped

\* Each tree after the first was made by a runner that had found none.
Planters == {r \in Runners : runner[r].at = "templates" /\ runner[r].draft = << 0 >>}
TreesKept ==
  /\ IsFiniteSet(trees) /\ trees = 1 .. Cardinality(trees)
  /\ trees = {} \/ Cardinality(trees) + Cardinality(Planters) <= Cardinality(Runners)
  /\ milestones \in [Trees -> {0, 3}]
  /\ <<"templates", 0>> \notin journal => \A t \in Trees : milestones[t] = 0
  /\ \A t, u \in Trees : milestones[t] > 0 /\ milestones[u] > 0 => t = u

SIIInv ==
  /\ CycleTyped /\ RowsKept /\ TreesKept /\ EndedIsDocumented
  /\ \A r \in Runners : RunnerOK(runner[r])

LEMMA UpTo ==
  ASSUME NEW m \in Nat PROVE IsFiniteSet(1 .. m) /\ Cardinality(1 .. m) = m
<1>1. m \in Int /\ 1 \in Int /\ m - 1 + 1 = m /\ (1 > m => m = 0) OBVIOUS
<1> QED BY <1>1, FS_Interval

LEMMA StepFacts ==
  /\ Generators = {"comparison", "score", "drift", "report", "success", "roadmap"}
  /\ Range(Steps) = Generators \cup {"completed"}
  /\ Steps[1] = "comparison"
  /\ After("comparison") = "score" /\ After("score") = "drift" /\ After("drift") = "report"
  /\ After("report") = "success" /\ After("success") = "roadmap" /\ After("roadmap") = "completed"
<1>1. Len(Steps) = 7 /\ DOMAIN Steps = 1..7
  BY DEF Steps
<1>2. /\ Steps[1] = "comparison" /\ Steps[2] = "score" /\ Steps[3] = "drift" /\ Steps[4] = "report"
      /\ Steps[5] = "success" /\ Steps[6] = "roadmap" /\ Steps[7] = "completed"
  BY DEF Steps
<1>3. Range(Steps) = {Steps[i] : i \in 1..7}
  BY <1>1 DEF Range
<1>4. Range(Steps) = {"comparison", "score", "drift", "report", "success", "roadmap", "completed"}
  <2>1. 1..7 = {1, 2, 3, 4, 5, 6, 7} OBVIOUS
  <2> QED BY <1>2, <1>3, <2>1
<1>5. ASSUME NEW i \in 2..7 PROVE After(Steps[i - 1]) = Steps[i]
  <2>1. \A j \in 2..7 : Steps[j - 1] = Steps[i - 1] => j = i
    BY <1>2
  <2> QED BY <1>1, <2>1 DEF After
<1>6. /\ After(Steps[1]) = Steps[2] /\ After(Steps[2]) = Steps[3] /\ After(Steps[3]) = Steps[4]
      /\ After(Steps[4]) = Steps[5] /\ After(Steps[5]) = Steps[6] /\ After(Steps[6]) = Steps[7]
  BY <1>5
<1> QED BY <1>2, <1>4, <1>6 DEF Generators

\* Going on after a generator passes it, by its error as well.
LEMMA GoesOn ==
  ASSUME NEW k \in Generators
  PROVE  /\ After(k) \in Generators \cup {"completed"}
         /\ Passed[After(k)] = Passed[k] \cup {k}
         /\ AfterError(k) \in Generators \cup {"completed"}
         /\ \A j \in Passed[AfterError(k)] :
              j \in Passed[k] \/ j = "success" \/ \A c : <<j, c>> \in LeftUndone(k, c)
<1> USE StepFacts DEF Passed, Cited, AfterError, LeftUndone
<1>1. CASE k = "comparison" BY <1>1
<1>2. CASE k = "score" BY <1>2
<1>3. CASE k = "drift" BY <1>3
<1>4. CASE k = "report" BY <1>4
<1>5. CASE k = "success" BY <1>5
<1>6. CASE k = "roadmap" BY <1>6
<1> QED BY <1>1, <1>2, <1>3, <1>4, <1>5, <1>6

\* A sequence with one more element.
LEMMA OneMore ==
  ASSUME NEW S, NEW s \in Seq(S), NEW x
  PROVE  /\ s \o <<x>> \in Seq(ToSet(s \o <<x>>))
         /\ Len(s \o <<x>>) = Len(s) + 1 /\ Len(s) \in Nat
         /\ DOMAIN s = 1..Len(s) /\ DOMAIN (s \o <<x>>) = 1..Len(s) + 1
         /\ \A i \in 1..Len(s) : (s \o <<x>>)[i] = s[i]
         /\ (s \o <<x>>)[Len(s) + 1] = x
<1>1. s \in Seq(S \cup {x}) /\ <<x>> \in Seq(S \cup {x})
  OBVIOUS
<1>2. /\ s \o <<x>> \in Seq(S \cup {x}) /\ Len(s \o <<x>>) = Len(s) + 1 /\ Len(s) \in Nat
      /\ \A i \in 1..Len(s) : (s \o <<x>>)[i] = s[i]
      /\ (s \o <<x>>)[Len(s) + 1] = x
  BY <1>1
<1>3. DOMAIN s = 1..Len(s) /\ DOMAIN (s \o <<x>>) = 1..Len(s) + 1
  BY <1>1, <1>2
<1>4. s \o <<x>> \in Seq(ToSet(s \o <<x>>))
  <2> DEFINE t == s \o <<x>>
  <2>1. t \in Seq(S \cup {x}) /\ DOMAIN t = 1..Len(t) BY <1>2, <1>3
  <2>2. \A i \in 1..Len(t) : t[i] \in ToSet(t) BY <2>1 DEF ToSet
  <2> HIDE DEF t
  <2>3. t = [i \in 1..Len(t) |-> t[i]] BY <2>1
  <2>4. Len(t) \in Nat BY <2>1
  <2> QED BY <2>2, <2>3, <2>4, IsASeq DEF t
<1> QED BY <1>2, <1>3, <1>4

\* What only grows.
Grown ==
  /\ cycle <= cycle' /\ cycle' \in Nat
  /\ trees \subseteq trees' /\ skipped \subseteq skipped'
  /\ \A k \in Generators, c \in Nat : Has(k, c) => Has(k, c)'

LEMMA ExcusedStays ==
  ASSUME skipped \subseteq skipped', NEW k, NEW c, Excused(k, c) PROVE Excused(k, c)'
BY DEF Excused

LEMMA RowStays ==
  ASSUME SIIInv, Grown, NEW k, NEW row, RowOK(k, row) PROVE RowOK(k, row)'
<1>1. row.cycle \in 1 .. cycle'
  BY DEF RowOK, Grown, SIIInv, CycleTyped
<1>2. ASSUME k = "report", NEW j \in Cited PROVE <<j, row.cycle>> \in row.cites \/ Excused(j, row.cycle)'
  BY <1>2, ExcusedStays DEF RowOK, Grown
<1> QED BY <1>1, <1>2 DEF RowOK

LEMMA CoveredStays ==
  ASSUME Grown, NEW k \in Generators, NEW c \in Nat, Covered(k, c) PROVE Covered(k, c)'
BY DEF Grown, Covered

\* A runner that does not move.
LEMMA RunnerStays ==
  ASSUME SIIInv, Grown, NEW x, RunnerOK(x) PROVE RunnerOK(x)'
<1>1. x.at # "idle" => x.cycle \in 1 .. cycle' /\ x.cycle \in Nat
  BY DEF RunnerOK, Grown, SIIInv, CycleTyped
<1>2. x.at = "templates" => x.draft = <<>> \/ \E t \in trees' \cup {0} : x.draft = <<t>>
  BY DEF RunnerOK, Grown
<1>3. ASSUME x.at \in Generators, x.draft # <<>>
      PROVE  x.draft = <<x.draft[1]>> /\ x.draft[1].cycle = x.cycle /\ RowOK(x.at, x.draft[1])'
  BY <1>3, RowStays DEF RunnerOK
<1>4. ASSUME x.at \in Generators \cup {"completed"}, NEW k \in Passed[x.at] PROVE Covered(k, x.cycle)'
  <2>1. k \in Generators /\ x.at # "idle"
    BY <1>4, StepFacts DEF Passed, Cited
  <2> QED BY <1>1, <1>4, <2>1, CoveredStays DEF RunnerOK
<1> QED BY <1>1, <1>2, <1>3, <1>4 DEF RunnerOK

\* The ends of the cycles are documented as long as nothing is taken away, and no cycle
\* ends before it is covered.
LEMMA DocumentedStays ==
  ASSUME SIIInv, Grown,
         \A c \in 1 .. cycle' : Ended(c)' =>
           c \in 1 .. cycle /\ (Ended(c) \/ \A k \in Generators : Covered(k, c))
  PROVE  EndedIsDocumented'
<1> SUFFICES ASSUME NEW c \in 1 .. cycle', Ended(c)', NEW k \in Generators
             PROVE  Covered(k, c)'
  BY DEF EndedIsDocumented, Covered
<1>1. c \in 1 .. cycle /\ c \in Nat /\ (Ended(c) \/ Covered(k, c))
  BY DEF Grown
<1>2. Covered(k, c)
  BY <1>1 DEF SIIInv, EndedIsDocumented, Covered
<1> QED BY <1>1, <1>2, CoveredStays

-----------------------------------------------------------------------------
LEMMA SIInitIInv == SIInit => SIIInv
<1> SUFFICES ASSUME SIInit PROVE SIIInv OBVIOUS
<1> USE SIAssumption DEF SIInit
<1>1. CycleTyped
  <2>1. \A k \in Generators : rows[k] = <<>> /\ rows[k] \in Seq(ToSet(rows[k])) OBVIOUS
  <2> QED BY <2>1 DEF CycleTyped
<1>2. RowsKept
  <2>1. \A k \in Generators : rows[k] = <<>> /\ DOMAIN rows[k] = {} OBVIOUS
  <2> QED BY <2>1 DEF RowsKept, Has, Range
<1>3. TreesKept
  <2>1. trees = {} /\ Cardinality(trees) = 0 /\ IsFiniteSet(trees) BY FS_EmptySet
  <2>2. milestones \in [Trees -> {0, 3}] OBVIOUS
  <2> QED BY <2>1, <2>2 DEF TreesKept
<1>4. EndedIsDocumented
  BY DEF EndedIsDocumented, Ended
<1>5. ASSUME NEW r \in Runners PROVE RunnerOK(runner[r])
  BY StepFacts DEF RunnerOK, Idle, Stations
<1> QED BY <1>1, <1>2, <1>3, <1>4, <1>5 DEF SIIInv

\* The rows and the journal do not change.
LEMMA RowsStay ==
  ASSUME SIIInv, Grown, UNCHANGED <<rows, cycle>>, \A k \in Generators, c \in Nat : <<k, c>> \in journal' <=> <<k, c>> \in journal
  PROVE  RowsKept'
<1>1. \A k \in Generators : \A i \in DOMAIN rows[k] : RowOK(k, rows[k][i])'
  BY RowStays DEF SIIInv, RowsKept
<1>2. \A k \in Generators, c \in Nat : Has(k, c)' <=> Has(k, c)
  BY DEF Has
<1> QED BY <1>1, <1>2 DEF SIIInv, RowsKept, Grown

\* A runner moves, and the tables stay.
LEMMA RunnerMoves ==
  ASSUME SIIInv, Grown, NEW r \in Runners, NEW y, runner' = [runner EXCEPT ![r] = y], RunnerOK(y)'
  PROVE  /\ runner' = [s \in Runners |-> runner'[s]]
         /\ \A s \in Runners : RunnerOK(runner[s])'
<1>1. runner = [s \in Runners |-> runner[s]]
  BY DEF SIIInv, CycleTyped
<1>2. runner' = [s \in Runners |-> IF s = r THEN y ELSE runner[s]]
  BY <1>1
<1>3. ASSUME NEW s \in Runners, s # r PROVE RunnerOK(runner[s])'
  BY RunnerStays DEF SIIInv
<1> QED BY <1>1, <1>2, <1>3

LEMMA TreesStay ==
  ASSUME SIIInv, UNCHANGED <<trees, milestones>>, <<"templates", 0>> \in journal => <<"templates", 0>> \in journal',
         trees = {} \/ Planters' \subseteq Planters
  PROVE  TreesKept'
<1>1. /\ IsFiniteSet(Planters) /\ Cardinality(Planters) \in Nat
      /\ trees = {} \/ (Cardinality(Planters') \in Nat /\ Cardinality(Planters') <= Cardinality(Planters))
  BY SIAssumption, FS_Subset, FS_CardinalityType DEF Planters
<1>2. Cardinality(Runners) \in Nat /\ Cardinality(trees) \in Nat
  BY SIAssumption, FS_CardinalityType DEF SIIInv, TreesKept
<1>3. trees' = {} \/ Cardinality(trees') + Cardinality(Planters') <= Cardinality(Runners)
  <2>1. trees = {} \/ Cardinality(trees) + Cardinality(Planters) <= Cardinality(Runners)
    BY DEF SIIInv, TreesKept
  <2>2. trees' = trees
    OBVIOUS
  <2>3. trees = {} \/ Cardinality(trees) + Cardinality(Planters') <= Cardinality(Runners)
    BY <1>1, <1>2, <2>1
  <2> QED BY <2>2, <2>3
<1> QED BY <1>3 DEF SIIInv, TreesKept

\* A step of a runner that changes no table, and wants a tree only where there is none.
LEMMA OnlyARunner ==
  ASSUME SIIInv, NEW r \in Runners, NEW y, runner' = [runner EXCEPT ![r] = y],
         UNCHANGED <<cycle, rows, trees, milestones, journal>>, skipped \subseteq skipped',
         \A c \in 1 .. cycle : Ended(c)' => Ended(c) \/ \A k \in Generators : Covered(k, c),
         phase' \in {"decomposition", "executing", "state_update", "next_cycle_ready"},
         trees = {} \/ y.at # "templates" \/ y.draft # << 0 >>,
         RunnerOK(y)'
  PROVE  SIIInv'
<1>1. Grown
  BY DEF Grown, Has, SIIInv, CycleTyped
<1>2. /\ runner' = [s \in Runners |-> runner'[s]]
      /\ \A s \in Runners : RunnerOK(runner[s])'
  BY <1>1, RunnerMoves
<1>3. RowsKept'
  BY <1>1, RowsStay
<1>4. EndedIsDocumented'
  BY <1>1, DocumentedStays
<1>5. trees = {} \/ Planters' \subseteq Planters
  BY DEF Planters, SIIInv, CycleTyped
<1>6. TreesKept'
  BY <1>5, TreesStay
<1>7. CycleTyped'
  BY <1>2 DEF SIIInv, CycleTyped
<1> QED BY <1>2, <1>3, <1>4, <1>6, <1>7 DEF SIIInv

\* What a runner that has read must know of the sequence it will append to: artifacts of
\* other cycles only, so fewer than there are cycles.
LEMMA RowsAreFew ==
  ASSUME SIIInv, NEW k \in Generators, NEW c \in 1 .. cycle, <<k, c>> \notin journal
  PROVE  Len(rows[k]) + 1 \in 0 .. MaxCycles
<1> DEFINE n == Len(rows[k])
           f == [i \in 1..n |-> rows[k][i].cycle]
           others == (1 .. cycle) \ {c}
<1>1. rows[k] \in Seq(ToSet(rows[k])) /\ n \in Nat /\ DOMAIN rows[k] = 1..n
  BY DEF SIIInv, CycleTyped
<1>2. cycle \in 1..MaxCycles /\ cycle \in Nat /\ MaxCycles \in Nat
  BY SIAssumption DEF SIIInv, CycleTyped
<1>3. ~Has(k, c)
  BY DEF SIIInv, RowsKept
<1>4. \A i \in 1..n : rows[k][i].cycle \in others
  <2> SUFFICES ASSUME NEW i \in 1..n PROVE rows[k][i].cycle \in others
    OBVIOUS
  <2>1. rows[k][i].cycle # c BY <1>1, <1>3 DEF Has, Range
  <2>2. rows[k][i].cycle \in 1..cycle BY <1>1 DEF SIIInv, RowsKept, RowOK
  <2> QED BY <2>1, <2>2
<1>5. \A i, j \in 1..n : f[i] = f[j] => i = j
  BY <1>1 DEF SIIInv, RowsKept
<1>6. f \in Injection(1..n, others)
  BY <1>4, <1>5 DEF Injection, IsInjective
<1>7. IsFiniteSet(others) /\ Cardinality(others) = cycle - 1
  <2>1. IsFiniteSet(1..cycle) /\ Cardinality(1..cycle) = cycle
    BY <1>2, UpTo
  <2> QED BY <2>1, FS_RemoveElement
<1>8. Cardinality(1..n) = n
  BY <1>1, UpTo
<1>9. Cardinality(1..n) <= Cardinality(others)
  <2> HIDE DEF f, n, others
  <2> QED BY <1>6, <1>7, FS_Injection
<1> QED BY <1>1, <1>2, <1>7, <1>8, <1>9

\* An artifact that is drafted may be written.
LEMMA DraftIsFit ==
  ASSUME SIIInv, NEW k \in Generators, NEW c \in 1 .. cycle, <<k, c>> \notin journal,
         \A j \in Passed[k] : Covered(j, c)
  PROVE  Draft(k, c).cycle = c /\ RowOK(k, Draft(k, c))
<1>1. Len(rows[k]) + 1 \in 0 .. MaxCycles
  BY RowsAreFew
<1>2. c \in 1 .. cycle /\ MaxCycles \in Nat /\ cycle \in Nat /\ c \in 1 .. c
  BY SIAssumption DEF SIIInv, CycleTyped
<1>3. CASE k = "comparison"
  <2> DEFINE d == Direction(Baseline, Rate)
  <2>1. d \in {"improved", "degraded", "unchanged"}
    BY DEF Direction
  <2>2. /\ Comparison(c).cycle = c /\ Comparison(c).index = Len(rows["comparison"]) + 1
        /\ Comparison(c).verdict = d
    BY DEF Comparison, Blank
  <2>3. Draft(k, c) = Comparison(c)
    BY <1>3 DEF Draft
  <2> QED BY <1>1, <1>2, <1>3, <2>1, <2>2, <2>3 DEF RowOK
<1>4. CASE k \in {"score", "drift"}
  BY <1>1, <1>2, <1>4 DEF Draft, Score, DriftCheck, Blank, RowOK
<1>5. CASE k \in {"success", "roadmap"}
  BY <1>1, <1>2, <1>5 DEF Draft, Memory, Blank, RowOK
<1>6. CASE k = "report"
  <2>1. /\ Report(c).cycle = c /\ Report(c).index = Len(rows["report"]) + 1
        /\ Report(c).verdict \in {"pause", "continue"}
        /\ Report(c).cites = UNION {{<<j, row.cycle>> : row \in Latest(j)} : j \in Cited}
    BY DEF Report, Blank, Cited
  <2>2. ASSUME NEW j \in Cited PROVE <<j, c>> \in Report(c).cites \/ Excused(j, c)
    <3>1. j \in Generators /\ j # "success" /\ Covered(j, c)
      BY <1>6, <2>2, StepFacts DEF Passed, Cited
    <3>2. CASE <<j, c>> \in skipped
      BY <3>2, <1>2 DEF Excused
    <3>3. CASE Has(j, c)
      <4> DEFINE last == rows[j][Len(rows[j])]
      <4>1. rows[j] \in Seq(ToSet(rows[j])) /\ DOMAIN rows[j] = 1..Len(rows[j]) /\ Len(rows[j]) \in Nat
        BY <3>1 DEF SIIInv, CycleTyped
      <4>2. PICK i \in 1..Len(rows[j]) : rows[j][i].cycle = c
        BY <3>3, <4>1 DEF Has, Range
      <4>3. rows[j] # <<>> /\ Latest(j) = {last} /\ Len(rows[j]) \in 1..Len(rows[j])
        BY <4>1, <4>2 DEF Latest, Last
      <4>4. last.cycle \in 1..cycle /\ cycle \in Nat
        BY <3>1, <4>1, <4>3 DEF SIIInv, RowsKept, RowOK, CycleTyped
      <4>5. CASE last.cycle = c
        <5>1. <<j, c>> \in {<<j, row.cycle>> : row \in Latest(j)}
          BY <4>3, <4>5
        <5> QED BY <2>1, <5>1
      <4>6. CASE last.cycle > c
        <5>1. Ended(c)
          BY <4>4, <4>6, <1>2 DEF Ended
        <5>2. Covered("report", c)
          BY <5>1, <1>2, StepFacts DEF SIIInv, EndedIsDocumented, Covered
        <5>3. ~Has("report", c)
          BY <1>6 DEF SIIInv, RowsKept
        <5> QED BY <5>2, <5>3 DEF Covered, Excused
      <4>7. CASE last.cycle < c
        <5>1. i < Len(rows[j]) /\ rows[j][i].cycle > last.cycle
          BY <4>1, <4>2, <4>7, <4>4
        <5>2. <<j, last.cycle>> \in skipped
          BY <3>1, <4>1, <4>3, <5>1 DEF SIIInv, RowsKept
        <5> QED BY <5>2, <4>4, <4>7, <1>2 DEF Excused
      <4> QED BY <4>4, <4>5, <4>6, <4>7, <1>2
    <3> QED BY <3>1, <3>2, <3>3 DEF Covered
  <2>3. Draft(k, c) = Report(c)
    BY <1>6 DEF Draft
  <2> QED BY <1>1, <1>2, <1>6, <2>1, <2>2, <2>3 DEF RowOK
<1> QED BY <1>3, <1>4, <1>5, <1>6, StepFacts

-----------------------------------------------------------------------------
LEMMA SelectStep == ASSUME SIIInv, NEW r \in Runners, Select(r) PROVE SIIInv'
<1>1. PICK y \in {[at |-> "templates", cycle |-> cycle, draft |-> <<>>],
                  [at |-> "comparison", cycle |-> cycle, draft |-> <<>>]} :
        runner' = [runner EXCEPT ![r] = y]
  BY StepFacts DEF Select
<1>2. RunnerOK(y)'
  BY StepFacts, <1>1, SIAssumption DEF Select, RunnerOK, Stations, Passed, SIIInv, CycleTyped
<1>3. UNCHANGED <<cycle, phase, rows, trees, milestones, journal, skipped>> BY DEF Select
<1> QED BY <1>1, <1>2, <1>3, OnlyARunner DEF Ended, SIIInv, CycleTyped

LEMMA ReadStep == ASSUME SIIInv, NEW r \in Runners, Read(r) PROVE SIIInv'
<1> PICK k, c : k = runner[r].at /\ c = runner[r].cycle OBVIOUS
<1>1. /\ k \in Generators /\ runner[r].draft = <<>> /\ c \in 1..cycle
      /\ RunnerOK(runner[r])
      /\ UNCHANGED <<cycle, phase, rows, trees, milestones, journal, skipped>>
  BY StepFacts DEF Read, SIIInv, RunnerOK
<1>2. \A j \in Passed[k] : Covered(j, c)
  BY <1>1 DEF RunnerOK
<1>3. runner[r] = [at |-> k, cycle |-> c, draft |-> <<>>] /\ runner = [s \in Runners |-> runner[s]]
  BY <1>1 DEF RunnerOK, SIIInv, CycleTyped
<1>4. \A j : Covered(j, c) => Covered(j, c)'
  BY <1>1 DEF Covered, Has
<1>5. CASE <<k, c>> \in journal \/ (k = "success" /\ work.succeeded = 0)
  <2> DEFINE y == [at |-> After(k), cycle |-> c, draft |-> <<>>]
  <2>1. runner' = [runner EXCEPT ![r] = y]
    BY <1>3, <1>5 DEF Read, Goto, Journalled
  <2>2. Covered(k, c)
    BY <1>1, <1>5 DEF Covered, SIIInv, RowsKept
  <2>3. \A j \in Passed[After(k)] : Covered(j, c)'
    BY <1>1, <1>2, <1>4, <2>2, GoesOn
  <2>4. y.at \in Generators \cup {"completed"}
    BY <1>1, GoesOn
  <2>5. RunnerOK(y)'
    BY <1>1, <2>3, <2>4, StepFacts DEF RunnerOK, Stations
  <2>6. y.at # "templates"
    BY <2>4, StepFacts
  <2> HIDE DEF y
  <2> QED BY <1>1, <2>1, <2>5, <2>6, OnlyARunner DEF Ended, SIIInv, CycleTyped
<1>6. CASE ~(<<k, c>> \in journal \/ (k = "success" /\ work.succeeded = 0))
  <2> PICK d : d = Draft(k, c) OBVIOUS
  <2> DEFINE y == [at |-> k, cycle |-> c, draft |-> <<d>>]
  <2>1. runner' = [runner EXCEPT ![r] = y]
    BY <1>3, <1>6 DEF Read, Journalled
  <2>2. d.cycle = c /\ RowOK(k, d)
    BY <1>1, <1>2, <1>6, DraftIsFit
  <2>3. RowOK(k, d)'
    BY <1>1, <2>2 DEF RowOK, Excused
  <2>4. y.draft = <<d>> /\ y.draft[1] = d /\ y.at = k /\ y.cycle = c /\ y.draft # <<>>
        /\ y = [at |-> y.at, cycle |-> y.cycle, draft |-> y.draft]
    OBVIOUS
  <2>5. RunnerOK(y)'
    <3> HIDE DEF y
    <3> QED BY <1>1, <1>2, <1>4, <2>2, <2>3, <2>4, StepFacts DEF RunnerOK, Stations
  <2>6. y.at # "templates"
    BY <1>1, StepFacts
  <2> HIDE DEF y
  <2> QED BY <1>1, <2>1, <2>5, <2>6, OnlyARunner DEF Ended, SIIInv, CycleTyped
<1> QED BY <1>5, <1>6

LEMMA WriteStep == ASSUME SIIInv, NEW r \in Runners, Write(r) PROVE SIIInv'
<1> PICK k, c : k = runner[r].at /\ c = runner[r].cycle OBVIOUS
<1> PICK d : d = runner[r].draft[1] OBVIOUS
<1>1. /\ k \in Generators /\ c \in 1..cycle /\ c \in Nat
      /\ RunnerOK(runner[r])
      /\ UNCHANGED <<cycle, phase, trees, milestones>>
  BY StepFacts, SIAssumption DEF Write, SIIInv, RunnerOK, CycleTyped
<1>2. /\ \A j \in Passed[k] : Covered(j, c)
      /\ runner[r].draft = <<d>> /\ d.cycle = c /\ RowOK(k, d)
  BY <1>1 DEF RunnerOK, Write
<1>3. runner[r] = [at |-> k, cycle |-> c, draft |-> <<d>>] /\ runner = [s \in Runners |-> runner[s]]
  BY <1>1, <1>2 DEF RunnerOK, SIIInv, CycleTyped
<1>4. CASE <<k, c>> \notin journal
  <2> DEFINE y == [at |-> After(k), cycle |-> c, draft |-> <<>>]
  <2> PICK new, n : new = rows[k] \o <<d>> /\ n = Len(rows[k]) OBVIOUS
  <2>1. /\ runner' = [runner EXCEPT ![r] = y] /\ skipped' = skipped
        /\ journal' = journal \cup {<<k, c>>}
        /\ rows' = [rows EXCEPT ![k] = new]
    BY <1>2, <1>3, <1>4 DEF Write, Goto, Unique
  <2>2. /\ new \in Seq(ToSet(new)) /\ n \in Nat
        /\ DOMAIN rows[k] = 1..n /\ DOMAIN new = 1..n + 1
        /\ \A i \in 1..n : new[i] = rows[k][i]
        /\ new[n + 1] = d
    BY <1>1, OneMore DEF SIIInv, CycleTyped
  <2>3. rows' = [j \in Generators |-> IF j = k THEN new ELSE rows[j]]
    BY <1>1, <2>1 DEF SIIInv, CycleTyped
  <2> HIDE DEF y
  <2>4. rows'[k] = new /\ \A j \in Generators : j # k => rows'[j] = rows[j]
    BY <1>1, <2>3
  <2>4a. /\ n \in Nat /\ 1..n + 1 = (1..n) \cup {n + 1} /\ n + 1 \notin 1..n
         /\ \A i \in 1..n : i < n + 1
    <3>1. n \in Nat BY <2>2
    <3> QED BY <3>1
  <2>4b. new[n + 1].cycle = c /\ \A i \in 1..n : new[i].cycle = rows[k][i].cycle
    BY <1>2, <2>2
  <2>5. \A b : Has(k, b)' <=> Has(k, b) \/ b = c
    <3>1. ASSUME NEW b PROVE Has(k, b)' <=> \E i \in 1..n + 1 : new[i].cycle = b
      <4>1. Range(new) = {new[i] : i \in 1..n + 1} BY <2>2 DEF Range
      <4>2. Has(k, b)' <=> \E row \in Range(new) : row.cycle = b BY <2>4 DEF Has
      <4>3. \A row : row \in Range(new) <=> \E i \in 1..n + 1 : row = new[i] BY <4>1
      <4>4. (\E row \in Range(new) : row.cycle = b) <=> \E i \in 1..n + 1 : new[i].cycle = b
        <5>1. ASSUME NEW row \in Range(new), row.cycle = b PROVE \E i \in 1..n + 1 : new[i].cycle = b
          <6>1. PICK i \in 1..n + 1 : row = new[i] BY <4>3
          <6> QED BY <5>1, <6>1
        <5>2. ASSUME NEW i \in 1..n + 1, new[i].cycle = b PROVE \E row \in Range(new) : row.cycle = b
          <6>1. new[i] \in Range(new) BY <4>3
          <6> QED BY <5>2, <6>1
        <5> QED BY <5>1, <5>2
      <4> QED BY <4>2, <4>4, Zenon
    <3>2. \A b : Has(k, b) <=> \E i \in 1..n : rows[k][i].cycle = b
      <4>1. Range(rows[k]) = {rows[k][i] : i \in 1..n} BY <2>2 DEF Range
      <4> QED BY <4>1 DEF Has
    <3>3. ASSUME NEW b PROVE (\E i \in 1..n + 1 : new[i].cycle = b) <=> (\E i \in 1..n : rows[k][i].cycle = b) \/ b = c
      <4>1. (\E i \in 1..n + 1 : new[i].cycle = b) <=> (\E i \in 1..n : new[i].cycle = b) \/ c = b
        BY <2>4a, <2>4b
      <4> QED BY <4>1, <2>4b
    <3> QED BY <3>1, <3>2, <3>3
  <2>6. \A j \in Generators : j # k => \A b : Has(j, b)' <=> Has(j, b)
    BY <2>4 DEF Has
  <2>7. Grown
    <3>1. \A j \in Generators, b \in Nat : Has(j, b) => Has(j, b)' BY <2>5, <2>6
    <3>2. cycle \in Nat BY SIAssumption DEF SIIInv, CycleTyped
    <3> QED BY <1>1, <2>1, <3>1, <3>2 DEF Grown
  <2>8. RunnerOK(y)'
    <3>1. y.at = After(k) /\ y.cycle = c /\ y.draft = <<>> /\ y = [at |-> y.at, cycle |-> y.cycle, draft |-> y.draft]
      BY DEF y
    <3>2. Covered(k, c)' BY <2>5 DEF Covered
    <3>3. \A j \in Passed[After(k)] : Covered(j, c)'
      <4>1. Passed[k] \subseteq Generators BY <1>1, StepFacts DEF Passed, Cited
      <4> QED BY <1>1, <1>2, <2>7, <3>2, <4>1, GoesOn, CoveredStays
    <3>4. y.at \in Generators \cup {"completed"}
      BY <1>1, <3>1, GoesOn
    <3> QED BY <1>1, <3>1, <3>3, <3>4, StepFacts DEF RunnerOK, Stations
  <2>9. /\ runner' = [s \in Runners |-> runner'[s]]
        /\ \A s \in Runners : RunnerOK(runner[s])'
    BY <2>1, <2>7, <2>8, RunnerMoves
  <2>10. CycleTyped'
    <3>1. \A j \in Generators : rows'[j] \in Seq(ToSet(rows'[j]))
      BY <2>2, <2>4 DEF SIIInv, CycleTyped
    <3>2. rows' = [j \in Generators |-> rows'[j]]
      BY <2>3
    <3> QED BY <1>1, <2>9, <3>1, <3>2 DEF SIIInv, CycleTyped
  <2>11. EndedIsDocumented'
    BY <1>1, <2>7, DocumentedStays DEF Ended
  <2>12. TreesKept'
    <3>1. Planters' \subseteq Planters
      <4>1. y.at # "templates" BY <1>1, GoesOn, StepFacts DEF y
      <4> QED BY <1>3, <2>1, <4>1 DEF Planters
    <3> QED BY <1>1, <2>1, <3>1, TreesStay
  <2>13. RowsKept'
    <3>1. ASSUME NEW j \in Generators, j # k
          PROVE  /\ \A i \in DOMAIN rows'[j] : RowOK(j, rows[j][i])'
                 /\ \A b \in Nat : <<j, b>> \in journal' <=> Has(j, b)'
                 /\ \A i, l \in DOMAIN rows'[j] : rows'[j][i].cycle = rows'[j][l].cycle => i = l
                 /\ \A i, l \in DOMAIN rows'[j] :
                      i < l /\ rows'[j][i].cycle > rows'[j][l].cycle /\ j # "success" =>
                        <<j, rows'[j][l].cycle>> \in skipped'
      <4>1. rows'[j] = rows[j] BY <2>4, <3>1
      <4> PICK x : x = rows[j] OBVIOUS
      <4>2. \A i \in DOMAIN x : RowOK(j, x[i])'
        <5>1. \A i \in DOMAIN x : RowOK(j, x[i]) BY DEF SIIInv, RowsKept
        <5>2. \A row : RowOK(j, row) => RowOK(j, row)' BY <2>7, RowStays
        <5> QED BY <5>1, <5>2
      <4>3. \A b \in Nat : <<j, b>> \in journal' <=> Has(j, b)'
        BY <2>1, <2>6, <3>1 DEF SIIInv, RowsKept
      <4>4. /\ \A i, l \in DOMAIN rows[j] : rows[j][i].cycle = rows[j][l].cycle => i = l
            /\ \A i, l \in DOMAIN rows[j] :
                 i < l /\ rows[j][i].cycle > rows[j][l].cycle /\ j # "success" =>
                   <<j, rows[j][l].cycle>> \in skipped'
        BY <2>1 DEF SIIInv, RowsKept
      <4> QED BY <4>1, <4>2, <4>3, <4>4
    <3>2. \A i \in DOMAIN rows'[k] : RowOK(k, rows[k][i])'
      <4>1. \A x : RowOK(k, x) => RowOK(k, x)' BY <2>7, RowStays
      <4>2. \A i \in 1..n : RowOK(k, rows[k][i]) BY <1>1, <2>2 DEF SIIInv, RowsKept
      <4>3. \A i \in 1..n + 1 : RowOK(k, new[i]) BY <4>2, <2>2, <2>4a, <1>2
      <4>4. \A i \in 1..n + 1 : RowOK(k, new[i])' BY <4>1, <4>3
      <4> QED BY <4>4, <2>2, <2>4
    <3>3. \A b \in Nat : <<k, b>> \in journal' <=> Has(k, b)'
      BY <1>1, <2>1, <2>5 DEF SIIInv, RowsKept
    <3>4. \A i \in 1..n : rows[k][i].cycle # c
      BY <1>1, <1>4, <2>2 DEF SIIInv, RowsKept, Has, Range
    <3>5. ASSUME NEW i \in 1..n + 1, NEW l \in 1..n + 1, new[i].cycle = new[l].cycle PROVE i = l
      <4>1. CASE i \in 1..n /\ l \in 1..n
        <5>1. rows[k][i].cycle = rows[k][l].cycle BY <2>4b, <3>5, <4>1
        <5> QED BY <1>1, <2>2, <4>1, <5>1 DEF SIIInv, RowsKept
      <4>2. CASE i = n + 1 /\ l \in 1..n BY <2>4b, <3>4, <3>5, <4>2
      <4>3. CASE i \in 1..n /\ l = n + 1 BY <2>4b, <3>4, <3>5, <4>3
      <4>4. (i \in 1..n \/ i = n + 1) /\ (l \in 1..n \/ l = n + 1)
        BY <2>4a
      <4> QED BY <4>1, <4>2, <4>3, <4>4
    <3>6. ASSUME NEW i \in 1..n + 1, NEW l \in 1..n + 1, i < l, new[i].cycle > new[l].cycle, k # "success"
          PROVE  <<k, new[l].cycle>> \in skipped
      <4>1. CASE l \in 1..n
        <5>1. i \in 1..n
          <6>1. i # n + 1 BY <2>4a, <3>6, <4>1
          <6> QED BY <2>4a, <6>1
        <5>2. rows[k][i].cycle > rows[k][l].cycle /\ new[l].cycle = rows[k][l].cycle
          BY <2>4b, <3>6, <4>1, <5>1
        <5> QED BY <1>1, <2>2, <3>6, <4>1, <5>1, <5>2 DEF SIIInv, RowsKept
      <4>2. CASE l = n + 1
        <5>1. i \in 1..n /\ rows[k][i].cycle > c
          <6>1. i # n + 1 BY <2>4a, <3>6, <4>2
          <6>2. i \in 1..n BY <2>4a, <6>1
          <6> QED BY <2>4b, <3>6, <4>2, <6>2
        <5>2. rows[k][i].cycle \in 1..cycle BY <1>1, <2>2, <5>1 DEF SIIInv, RowsKept, RowOK
        <5>3. c < cycle BY <1>1, <5>1, <5>2, SIAssumption DEF SIIInv, CycleTyped
        <5>4. ~Has(k, c) BY <1>1, <1>4 DEF SIIInv, RowsKept
        <5> QED BY <1>1, <1>2, <2>2, <3>6, <4>2, <5>3, <5>4 DEF SIIInv, EndedIsDocumented, Ended
      <4>3. l \in 1..n \/ l = n + 1
        <5>1. n \in Nat BY <2>2
        <5> QED BY <5>1
      <4> QED BY <4>1, <4>2, <4>3
    <3>7. /\ \A i \in DOMAIN rows'[k] : RowOK(k, rows[k][i])'
          /\ \A b \in Nat : <<k, b>> \in journal' <=> Has(k, b)'
          /\ \A i, l \in DOMAIN rows'[k] : rows'[k][i].cycle = rows'[k][l].cycle => i = l
          /\ \A i, l \in DOMAIN rows'[k] :
               i < l /\ rows'[k][i].cycle > rows'[k][l].cycle /\ k # "success" =>
                 <<k, rows'[k][l].cycle>> \in skipped'
      <4>1. rows'[k] = new /\ DOMAIN new = 1..n + 1 /\ skipped' = skipped BY <2>1, <2>2, <2>4
      <4>2. \A i, l \in DOMAIN new : new[i].cycle = new[l].cycle => i = l BY <4>1, <3>5
      <4>3. \A i, l \in DOMAIN new :
              i < l /\ new[i].cycle > new[l].cycle /\ k # "success" => <<k, new[l].cycle>> \in skipped
        BY <4>1, <3>6
      <4> QED BY <4>1, <4>2, <4>3, <3>2, <3>3
    <3> QED
      <4> SUFFICES ASSUME NEW j \in Generators
                   PROVE  /\ \A i \in DOMAIN rows'[j] : RowOK(j, rows[j][i])'
                          /\ \A b \in Nat : <<j, b>> \in journal' <=> Has(j, b)'
                          /\ \A i, l \in DOMAIN rows'[j] : rows'[j][i].cycle = rows'[j][l].cycle => i = l
                          /\ \A i, l \in DOMAIN rows'[j] :
                               i < l /\ rows'[j][i].cycle > rows'[j][l].cycle /\ j # "success" =>
                                 <<j, rows'[j][l].cycle>> \in skipped'
        BY DEF RowsKept
      <4> QED BY <3>1, <3>7
  <2> QED BY <2>9, <2>10, <2>11, <2>12, <2>13 DEF SIIInv
<1>5. CASE <<k, c>> \in journal
  <2> DEFINE y == [at |-> AfterError(k), cycle |-> c, draft |-> <<>>]
  <2>1. /\ runner' = [runner EXCEPT ![r] = y] /\ UNCHANGED <<rows, journal>>
        /\ skipped' = skipped \cup (LeftUndone(k, c) \ {<<k, c>>})
    BY <1>3, <1>5 DEF Write, Goto, Unique
  <2>2. Has(k, c)
    BY <1>1, <1>5 DEF SIIInv, RowsKept
  <2>3. \A j \in Passed[AfterError(k)] : Covered(j, c)'
    <3>1. \A j : Has(j, c)' <=> Has(j, c) BY <2>1 DEF Has
    <3> QED BY <1>1, <1>2, <2>1, <2>2, <3>1, GoesOn DEF Covered
  <2>4. y.at \in Generators \cup {"completed"}
    BY <1>1, GoesOn
  <2>5. RunnerOK(y)'
    BY <1>1, <2>3, <2>4, StepFacts DEF RunnerOK, Stations
  <2>6. y.at # "templates"
    BY <2>4, StepFacts
  <2> HIDE DEF y
  <2> QED BY <1>1, <2>1, <2>5, <2>6, OnlyARunner DEF Ended, SIIInv, CycleTyped
<1> QED BY <1>4, <1>5

LEMMA GoesTo ==
  ASSUME SIIInv, NEW r \in Runners, NEW step, RunnerOK(runner[r]), Goto(r, step)
  PROVE  runner' = [runner EXCEPT ![r] = [at |-> step, cycle |-> runner[r].cycle, draft |-> <<>>]]
<1>1. runner = [s \in Runners |-> runner[s]] BY DEF SIIInv, CycleTyped
<1>2. ASSUME NEW x, NEW k, NEW c, NEW d, x = [at |-> k, cycle |-> c, draft |-> d]
      PROVE  [x EXCEPT !.at = step, !.draft = <<>>] = [at |-> step, cycle |-> c, draft |-> <<>>]
  <2>1. [x EXCEPT !.at = step] = [at |-> step, cycle |-> c, draft |-> d] BY <1>2
  <2>2. [[at |-> step, cycle |-> c, draft |-> d] EXCEPT !.draft = <<>>] = [at |-> step, cycle |-> c, draft |-> <<>>] OBVIOUS
  <2>3. [x EXCEPT !.at = step, !.draft = <<>>] = [[x EXCEPT !.at = step] EXCEPT !.draft = <<>>] OBVIOUS
  <2> QED BY <2>1, <2>2, <2>3
<1>3. [runner[r] EXCEPT !.at = step, !.draft = <<>>] = [at |-> step, cycle |-> runner[r].cycle, draft |-> <<>>]
  BY <1>2 DEF RunnerOK
<1> QED BY <1>1, <1>3 DEF Goto

LEMMA RunnerDrafts ==
  ASSUME NEW x, NEW d, RunnerOK(x)
  PROVE  [x EXCEPT !.draft = d] = [at |-> x.at, cycle |-> x.cycle, draft |-> d]
<1>1. ASSUME NEW k, NEW c, NEW e, x = [at |-> k, cycle |-> c, draft |-> e]
      PROVE  [x EXCEPT !.draft = d] = [at |-> k, cycle |-> c, draft |-> d]
  BY <1>1
<1> QED BY <1>1 DEF RunnerOK

LEMMA GiveUpStep == ASSUME SIIInv, NEW r \in Runners, GiveUp(r) PROVE SIIInv'
<1> PICK k, c : k = runner[r].at /\ c = runner[r].cycle OBVIOUS
<1> DEFINE y == [at |-> AfterError(k), cycle |-> c, draft |-> <<>>]
<1>1. /\ k \in Generators /\ c \in 1..cycle
      /\ RunnerOK(runner[r])
      /\ UNCHANGED <<cycle, phase, rows, journal, trees, milestones>>
      /\ skipped' = skipped \cup LeftUndone(k, c)
  BY StepFacts DEF GiveUp, SIIInv, RunnerOK
<1>2. \A j \in Passed[k] : Covered(j, c)
  BY <1>1 DEF RunnerOK
<1>3. runner' = [runner EXCEPT ![r] = y]
  BY <1>1, GoesTo DEF GiveUp, RunnerOK
<1>4. \A j \in Passed[AfterError(k)] : Covered(j, c)'
  <2>1. \A j : Has(j, c)' <=> Has(j, c) BY <1>1 DEF Has
  <2> QED BY <1>1, <1>2, <2>1, GoesOn DEF Covered
<1>5. y.at \in Generators \cup {"completed"}
  BY <1>1, GoesOn
<1>6. RunnerOK(y)'
  BY <1>1, <1>4, <1>5, StepFacts DEF RunnerOK, Stations
<1>7. y.at # "templates"
  BY <1>5, StepFacts
<1> HIDE DEF y
<1> QED BY <1>1, <1>3, <1>6, <1>7, OnlyARunner DEF Ended, SIIInv, CycleTyped

\* A runner that has nothing in hand.
LEMMA IdleIsOK == RunnerOK(Idle)' /\ Idle.at = "idle"
BY StepFacts DEF RunnerOK, Idle, Stations

LEMMA CompleteStep == ASSUME SIIInv, NEW r \in Runners, Complete(r) PROVE SIIInv'
<1>1. RunnerOK(runner[r]) /\ runner[r].at = "completed"
  BY DEF Complete, SIIInv
<1>2. \A k \in Generators : Covered(k, runner[r].cycle)
  BY <1>1, StepFacts DEF RunnerOK, Passed
<1>3. /\ runner' = [runner EXCEPT ![r] = Idle]
      /\ UNCHANGED <<cycle, rows, trees, milestones, journal, skipped>>
      /\ phase' = phase \/ (phase' = "next_cycle_ready" /\ runner[r].cycle = cycle)
  BY DEF Complete
<1>4. \A c \in 1 .. cycle : Ended(c)' => Ended(c) \/ \A k \in Generators : Covered(k, c)
  BY <1>2, <1>3, SIAssumption DEF Ended, SIIInv, CycleTyped
<1> QED BY <1>3, <1>4, IdleIsOK, OnlyARunner DEF SIIInv, CycleTyped

LEMMA DecomposeStep == ASSUME SIIInv, NEW r \in Runners, Decompose(r) PROVE SIIInv'
<1>1. /\ runner' = [runner EXCEPT ![r] = Idle]
      /\ UNCHANGED <<cycle, rows, trees, milestones, journal, skipped>>
      /\ phase' = phase \/ phase' = "executing"
  BY DEF Decompose
<1>2. \A c \in 1 .. cycle : Ended(c)' => Ended(c)
  BY <1>1 DEF Ended
<1> QED BY <1>1, <1>2, IdleIsOK, OnlyARunner DEF SIIInv, CycleTyped

LEMMA CrashStep == ASSUME SIIInv, NEW r \in Runners, Crash(r) PROVE SIIInv'
<1>1. /\ runner' = [runner EXCEPT ![r] = Idle]
      /\ UNCHANGED <<cycle, phase, rows, trees, milestones, journal, skipped>>
  BY DEF Crash
<1>2. \A c \in 1 .. cycle : Ended(c)' => Ended(c)
  BY <1>1 DEF Ended
<1> QED BY <1>1, <1>2, IdleIsOK, OnlyARunner DEF SIIInv, CycleTyped

LEMMA ReadTreeStep == ASSUME SIIInv, NEW r \in Runners, ReadTree(r) PROVE SIIInv'
<1> PICK c : c = runner[r].cycle OBVIOUS
<1>1. /\ runner[r].at = "templates" /\ runner[r].draft = <<>>
      /\ UNCHANGED <<cycle, phase, rows, trees, milestones, journal, skipped>>
      /\ RunnerOK(runner[r]) /\ runner = [s \in Runners |-> runner[s]]
  BY DEF ReadTree, SIIInv, CycleTyped
<1>2. runner[r] = [at |-> "templates", cycle |-> c, draft |-> <<>>] /\ c \in 1 .. cycle
  BY <1>1 DEF RunnerOK
<1>3. \A b \in 1 .. cycle : Ended(b)' => Ended(b)
  BY <1>1 DEF Ended
<1>4. CASE TemplatesWanted(r)
  <2>1. PICK t \in trees \cup {0} : (t = 0 => trees = {} \/ 0 \in trees) /\ runner' = [runner EXCEPT ![r].draft = <<t>>]
    BY <1>4 DEF ReadTree
  <2> DEFINE y == [at |-> "templates", cycle |-> c, draft |-> <<t>>]
  <2>2. runner' = [runner EXCEPT ![r] = y]
    <3>1. runner' = [runner EXCEPT ![r] = [runner[r] EXCEPT !.draft = <<t>>]] BY <1>1, <2>1
    <3> QED BY <1>1, <3>1, RunnerDrafts
  <2>3. 0 \notin trees
    BY FS_CardinalityType DEF SIIInv, TreesKept
  <2>4. RunnerOK(y)'
    BY <1>1, <1>2, StepFacts DEF RunnerOK, Stations
  <2>5. trees = {} \/ y.draft # << 0 >>
    BY <2>1, <2>3
  <2> HIDE DEF y
  <2> QED BY <1>1, <1>3, <2>2, <2>4, <2>5, OnlyARunner DEF SIIInv, CycleTyped
<1>5. CASE ~TemplatesWanted(r)
  <2> DEFINE y == [at |-> "decompose", cycle |-> c, draft |-> <<>>]
  <2>1. runner' = [runner EXCEPT ![r] = y]
    BY <1>1, <1>2, <1>5 DEF ReadTree, Goto
  <2>2. RunnerOK(y)' /\ y.at # "templates"
    BY <1>1, <1>2, StepFacts DEF RunnerOK, Stations
  <2> HIDE DEF y
  <2> QED BY <1>1, <1>3, <2>1, <2>2, OnlyARunner DEF SIIInv, CycleTyped
<1> QED BY <1>4, <1>5

LEMMA InsertTreeStep == ASSUME SIIInv, NEW r \in Runners, InsertTree(r) PROVE SIIInv'
<1> PICK c, n : c = runner[r].cycle /\ n = Cardinality(trees) OBVIOUS
<1> DEFINE y == [at |-> "templates", cycle |-> c, draft |-> <<n + 1>>]
<1>1. /\ runner[r].at = "templates" /\ runner[r].draft = << 0 >>
      /\ trees' = trees \cup {n + 1}
      /\ UNCHANGED <<cycle, phase, rows, milestones, journal, skipped>>
      /\ RunnerOK(runner[r]) /\ runner = [s \in Runners |-> runner[s]]
  BY DEF InsertTree, SIIInv, CycleTyped
<1>2. runner[r] = [at |-> "templates", cycle |-> c, draft |-> << 0 >>] /\ c \in 1 .. cycle
  BY <1>1 DEF RunnerOK
<1>3. runner' = [runner EXCEPT ![r] = y]
  <2>1. runner' = [runner EXCEPT ![r] = [runner[r] EXCEPT !.draft = <<n + 1>>]] BY <1>1 DEF InsertTree
  <2>2. [runner[r] EXCEPT !.draft = <<n + 1>>] = y BY <1>1, RunnerDrafts
  <2> QED BY <2>1, <2>2
<1>4. n \in Nat /\ trees = 1 .. n /\ trees' = 1 .. n + 1
  BY <1>1, FS_CardinalityType DEF SIIInv, TreesKept
<1>5. IsFiniteSet(trees') /\ Cardinality(trees') = n + 1
  <2> PICK m : m = n + 1 OBVIOUS
  <2>1. m \in Nat BY <1>4
  <2>2. IsFiniteSet(1 .. m) /\ Cardinality(1 .. m) = m BY <2>1, UpTo
  <2> QED BY <1>4, <2>2
<1>6. Grown
  BY <1>1, SIAssumption DEF Grown, Has, SIIInv, CycleTyped
<1>7. RunnerOK(y)'
  BY <1>1, <1>2, StepFacts DEF RunnerOK, Stations
<1>8. Planters' \subseteq Planters \ {r} /\ r \in Planters
  <2>1. y.draft # << 0 >>
    BY <1>4
  <2> QED BY <1>1, <1>3, <2>1 DEF Planters
<1> HIDE DEF y
<1>9. TreesKept'
  <2>1. /\ IsFiniteSet(Planters) /\ IsFiniteSet(Runners) /\ IsFiniteSet(Planters')
        /\ Cardinality(Planters') <= Cardinality(Planters \ {r})
        /\ Cardinality(Planters \ {r}) = Cardinality(Planters) - 1
        /\ Cardinality(Planters) <= Cardinality(Runners)
    <3>1. IsFiniteSet(Planters) /\ Cardinality(Planters) <= Cardinality(Runners)
      BY SIAssumption, FS_Subset DEF Planters
    <3>2. IsFiniteSet(Planters \ {r}) /\ Cardinality(Planters \ {r}) = Cardinality(Planters) - 1
      BY <1>8, <3>1, FS_RemoveElement
    <3> QED BY <1>8, <3>1, <3>2, FS_Subset, SIAssumption
  <2>2. Cardinality(Planters') \in Nat /\ Cardinality(Planters) \in Nat /\ Cardinality(Runners) \in Nat
        /\ Cardinality(Planters \ {r}) \in Nat
    BY <2>1, FS_CardinalityType, FS_RemoveElement
  <2>3. n = 0 \/ n + Cardinality(Planters) <= Cardinality(Runners)
    <3>1. trees = {} => n = 0 BY FS_EmptySet
    <3> QED BY <3>1 DEF SIIInv, TreesKept
  <2>4. Cardinality(trees') + Cardinality(Planters') <= Cardinality(Runners)
    BY <1>4, <1>5, <2>1, <2>2, <2>3
  <2> QED BY <1>1, <1>4, <1>5, <2>4 DEF SIIInv, TreesKept
<1>10. RowsKept'
  BY <1>1, <1>6, RowsStay
<1>11. EndedIsDocumented'
  BY <1>1, <1>6, DocumentedStays DEF Ended
<1>12. /\ runner' = [s \in Runners |-> runner'[s]]
       /\ \A s \in Runners : RunnerOK(runner[s])'
  BY <1>3, <1>6, <1>7, RunnerMoves
<1>13. CycleTyped'
  BY <1>1, <1>12 DEF SIIInv, CycleTyped
<1> QED BY <1>9, <1>10, <1>11, <1>12, <1>13 DEF SIIInv

LEMMA InsertTemplatesStep == ASSUME SIIInv, NEW r \in Runners, InsertTemplates(r) PROVE SIIInv'
<1> PICK c : c = runner[r].cycle OBVIOUS
<1> DEFINE y == [at |-> "decompose", cycle |-> c, draft |-> <<>>]
<1>1. /\ runner[r].at = "templates"
      /\ UNCHANGED <<cycle, phase, rows, trees, skipped>>
      /\ RunnerOK(runner[r]) /\ runner = [s \in Runners |-> runner[s]]
  BY DEF InsertTemplates, SIIInv, CycleTyped
<1>2. PICK t \in trees : runner[r].draft = <<t>>
  BY <1>1 DEF InsertTemplates, RunnerOK
<1>3. runner[r] = [at |-> "templates", cycle |-> c, draft |-> <<t>>] /\ c \in 1 .. cycle
  BY <1>1, <1>2 DEF RunnerOK
<1>4. runner' = [runner EXCEPT ![r] = y]
  <2>1. Goto(r, "decompose") BY DEF InsertTemplates
  <2> QED BY <1>1, <2>1, GoesTo
<1>5. t \in Trees
  <2>1. IsFiniteSet(Planters)
    BY SIAssumption, FS_Subset DEF Planters
  <2>2. Cardinality(Planters) \in Nat /\ Cardinality(Runners) \in Nat /\ Cardinality(trees) \in Nat
    BY <2>1, SIAssumption, FS_CardinalityType DEF SIIInv, TreesKept
  <2> QED BY <1>2, <2>2 DEF SIIInv, TreesKept, Trees
<1>6. \/ UNCHANGED <<milestones, journal>>
      \/ /\ <<"templates", 0>> \notin journal /\ journal' = journal \cup {<<"templates", 0>>}
         /\ milestones' = [milestones EXCEPT ![t] = 3]
  BY <1>2, <1>5 DEF InsertTemplates, Unique, SIIInv, TreesKept
<1>7. TreesKept'
  <2>1. Planters' \subseteq Planters
    BY <1>1, <1>4 DEF Planters
  <2>2. CASE UNCHANGED <<milestones, journal>>
    BY <1>1, <2>1, <2>2, TreesStay
  <2>3. CASE /\ <<"templates", 0>> \notin journal /\ journal' = journal \cup {<<"templates", 0>>}
             /\ milestones' = [milestones EXCEPT ![t] = 3]
    <3>1. IsFiniteSet(Planters) /\ Cardinality(Planters) \in Nat
          /\ Cardinality(Planters') \in Nat /\ Cardinality(Planters') <= Cardinality(Planters)
      BY <2>1, SIAssumption, FS_Subset, FS_CardinalityType DEF Planters
    <3>2. Cardinality(Runners) \in Nat /\ Cardinality(trees) \in Nat
      BY SIAssumption, FS_CardinalityType DEF SIIInv, TreesKept
    <3>3. trees' = {} \/ Cardinality(trees') + Cardinality(Planters') <= Cardinality(Runners)
      BY <1>1, <3>1, <3>2 DEF SIIInv, TreesKept
    <3>4. /\ milestones' \in [Trees -> {0, 3}]
          /\ \A u, v \in Trees : milestones'[u] > 0 /\ milestones'[v] > 0 => u = v
      BY <1>5, <2>3 DEF SIIInv, TreesKept
    <3> QED BY <1>1, <2>3, <3>3, <3>4 DEF SIIInv, TreesKept
  <2> QED BY <1>6, <2>2, <2>3
<1>8. Grown
  BY <1>1, SIAssumption DEF Grown, Has, SIIInv, CycleTyped
<1>9. RowsKept'
  <2>1. \A k \in Generators, b \in Nat : <<k, b>> \in journal' <=> <<k, b>> \in journal
    BY <1>6, StepFacts
  <2> QED BY <1>1, <1>8, <2>1, RowsStay
<1>10. RunnerOK(y)'
  BY <1>1, <1>3, StepFacts DEF RunnerOK, Stations
<1> HIDE DEF y
<1>11. EndedIsDocumented'
  BY <1>1, <1>8, DocumentedStays DEF Ended
<1>12. /\ runner' = [s \in Runners |-> runner'[s]]
       /\ \A s \in Runners : RunnerOK(runner[s])'
  BY <1>4, <1>8, <1>10, RunnerMoves
<1>13. CycleTyped'
  BY <1>1, <1>12 DEF SIIInv, CycleTyped
<1> QED BY <1>7, <1>9, <1>11, <1>12, <1>13 DEF SIIInv

\* The work of a cycle, and the cycle after it: no runner moves.
LEMMA CycleStep == ASSUME SIIInv, Execute \/ NextCycle PROVE SIIInv'
<1>1. /\ UNCHANGED <<rows, trees, milestones, journal, runner, skipped>>
      /\ \/ cycle' = cycle /\ phase = "executing" /\ phase' = "state_update"
         \/ /\ phase = "next_cycle_ready" /\ cycle < MaxCycles
            /\ cycle' = cycle + 1 /\ phase' = "decomposition"
  BY DEF Execute, NextCycle
<1>2. cycle \in Nat /\ cycle' \in 1 .. MaxCycles /\ cycle <= cycle'
  BY <1>1, SIAssumption DEF SIIInv, CycleTyped
<1>3. Grown
  BY <1>1, <1>2, SIAssumption DEF Grown, Has
<1>4. RowsKept'
  <2>1. \A k \in Generators : \A i \in DOMAIN rows[k] : RowOK(k, rows[k][i])'
    BY <1>1, <1>3, RowStays DEF SIIInv, RowsKept
  <2>2. \A k \in Generators, c \in Nat : Has(k, c)' <=> Has(k, c)
    BY <1>1 DEF Has
  <2> QED BY <1>1, <2>1, <2>2 DEF SIIInv, RowsKept
<1>5. EndedIsDocumented'
  <2>1. \A c \in 1 .. cycle' : Ended(c)' => c \in 1 .. cycle /\ Ended(c)
    BY <1>1, <1>2 DEF Ended
  <2> QED BY <1>3, <2>1, DocumentedStays
<1>6. TreesKept'
  <2>1. Planters' = Planters
    BY <1>1 DEF Planters
  <2> QED BY <1>1, <2>1, TreesStay
<1>7. \A r \in Runners : RunnerOK(runner[r])'
  <2>1. \A x : RunnerOK(x) => RunnerOK(x)'
    BY <1>3, RunnerStays
  <2>2. ASSUME NEW r \in Runners PROVE RunnerOK(runner[r])'
    <3> PICK x : x = runner[r] OBVIOUS
    <3>1. RunnerOK(x)' BY <2>1 DEF SIIInv
    <3>2. x = runner'[r] BY <1>1
    <3> QED BY <3>1, <3>2
  <2> QED BY <2>2
<1>8. CycleTyped'
  BY <1>1, <1>2 DEF SIIInv, CycleTyped
<1> QED BY <1>4, <1>5, <1>6, <1>7, <1>8 DEF SIIInv

LEMMA RecordsSteps == SIIInv /\ [SINext]_siVars => SIIInv'
<1> SUFFICES ASSUME SIIInv, [SINext]_siVars PROVE SIIInv' OBVIOUS
<1>1. CASE Execute \/ NextCycle
  BY <1>1, CycleStep
<1>2. ASSUME NEW r \in Runners, Run(r) \/ Error(r) \/ Crash(r) PROVE SIIInv'
  BY <1>2, SelectStep, ReadTreeStep, InsertTreeStep, InsertTemplatesStep, DecomposeStep, ReadStep,
     WriteStep, GiveUpStep, CompleteStep, CrashStep DEF Run, Broken, Error
<1>3. CASE UNCHANGED siVars
  <2>1. UNCHANGED <<cycle, phase, work, rows, trees, milestones, journal, runner, broken, skipped, faults>>
    BY <1>3 DEF siVars
  <2> USE <2>1
  <2>2. CycleTyped' BY DEF SIIInv, CycleTyped
  <2>3. RowsKept' BY DEF SIIInv, RowsKept, RowOK, Excused, Has
  <2>4. TreesKept'
    <3>1. Planters' = Planters BY DEF Planters
    <3> QED BY <3>1 DEF SIIInv, TreesKept
  <2>5. EndedIsDocumented' BY DEF SIIInv, EndedIsDocumented, Ended, Has
  <2>6. \A r \in Runners : RunnerOK(runner[r])' BY DEF SIIInv, RunnerOK, RowOK, Excused, Covered, Has
  <2> QED BY <2>2, <2>3, <2>4, <2>5, <2>6 DEF SIIInv
<1> QED BY <1>1, <1>2, <1>3 DEF SINext

LEMMA SIIInvImplies == SIIInv => RecordsInv
<1> SUFFICES ASSUME SIIInv PROVE RecordsInv OBVIOUS
<1>1. ASSUME NEW k \in Generators
      PROVE  /\ rows[k] \in Seq(ToSet(rows[k])) /\ DOMAIN rows[k] = 1 .. Len(rows[k])
             /\ \A row \in Range(rows[k]) : RowOK(k, row)
  <2>1. rows[k] \in Seq(ToSet(rows[k])) BY DEF SIIInv, CycleTyped
  <2>2. \A i \in DOMAIN rows[k] : RowOK(k, rows[k][i]) BY DEF SIIInv, RowsKept
  <2> QED BY <2>1, <2>2 DEF Range
<1>2. SITypeOK
  <2>1. \A k \in Generators : \A row \in Range(rows[k]) :
          /\ row.cycle \in 1 .. cycle /\ row.index \in 0 .. MaxCycles
          /\ row.verdict \in {"none", "improved", "degraded", "unchanged", "pause", "continue"}
    BY <1>1 DEF RowOK
  <2>2. trees \subseteq Trees
    <3>1. IsFiniteSet(Planters)
      BY SIAssumption, FS_Subset DEF Planters
    <3>2. Cardinality(Planters) \in Nat /\ Cardinality(Runners) \in Nat /\ Cardinality(trees) \in Nat
      BY <3>1, SIAssumption, FS_CardinalityType DEF SIIInv, TreesKept
    <3> QED BY <3>2 DEF SIIInv, TreesKept, Trees
  <2>3. \A r \in Runners : runner[r].at \in Range(Steps) \cup {"idle", "templates", "decompose"}
    BY StepFacts DEF SIIInv, RunnerOK, Stations
  <2> QED BY <2>1, <2>2, <2>3 DEF SITypeOK, SIIInv, CycleTyped
<1>3. OneOfEachPerCycle
  <2>1. \A k \in Generators : \A i, j \in 1 .. Len(rows[k]) : rows[k][i].cycle = rows[k][j].cycle => i = j
    BY <1>1 DEF SIIInv, RowsKept
  <2>2. \A t, u \in Trees : milestones[t] > 0 /\ milestones[u] > 0 => t = u /\ milestones[t] = 3
    BY DEF SIIInv, TreesKept
  <2> QED BY <2>1, <2>2 DEF OneOfEachPerCycle
<1>4. ReportCitesItsCycle
  <2> SUFFICES ASSUME NEW row \in Range(rows["report"]), NEW k \in Cited
               PROVE  \/ <<k, row.cycle>> \in row.cites
                      \/ <<"report", row.cycle>> \in skipped
                      \/ \E c \in 1 .. row.cycle : <<k, c>> \in skipped
    BY DEF ReportCitesItsCycle, Cited
  <2>1. RowOK("report", row)
    BY <1>1, StepFacts
  <2> QED BY <2>1 DEF RowOK, Excused
<1> QED BY <1>2, <1>3, <1>4 DEF RecordsInv, SIIInv

\* However often runners crash, race and give generators up, a cycle has one artifact of
\* each kind and the objective one set of templates, every ended cycle has all of them that
\* did not fail, and reports cite those of their own cycle.
THEOREM RecordsSound == SISpec => []RecordsInv
<1>1. SIInit => SIIInv
  BY SIInitIInv
<1>2. SIIInv /\ [SINext]_siVars => SIIInv'
  BY RecordsSteps
<1>3. SIIInv => RecordsInv
  BY SIIInvImplies
<1> QED BY <1>1, <1>2, <1>3, PTL DEF SISpec

-----------------------------------------------------------------------------
(* What the sweeps keep *)

ReviewRow ==
  [status : ReviewStatuses, verdict : Verdicts, age : {"fresh", "due", "past"},
   key : ClientKeys \cup {"none"}]
ApprovalRow == [auto : Nat, manual : Nat]

\* What a key makes happen has happened once for each time the key was journalled: once
\* per month it has been forgotten after, and once more while it is held and fresh.
Counted(k, n) ==
  n \in Nat /\ n <= spent.prunes + (IF k \in keys \ old THEN 1 ELSE 0)

JournalKept ==
  /\ old \subseteq keys
  /\ spent \in [restarts : Nat, prunes : Nat, weeks : Nat, patches : Nat]

Of(k) == {r \in DOMAIN reviews : reviews[r].key = k}
ReviewsKept ==
  /\ reviews \in Seq(ReviewRow) /\ approvals \in Seq(ApprovalRow)
  /\ Len(approvals) = Len(reviews)
  /\ \A r \in 1 .. Len(approvals) : Counted(Approve(r), approvals[r].manual)
  /\ \A k \in ClientKeys : IsFiniteSet(Of(k)) /\ Counted(ClientKey(k), Cardinality(Of(k)))
  /\ \A q \in asked : q.row \in 1 .. Len(reviews)

ExtractsKept ==
  /\ absorbed \in [Extracts -> [times : Nat, planned : BOOLEAN]] /\ arrived \subseteq Extracts
  /\ \A e \in Extracts : Counted(ExtractKey(e), absorbed[e].times)

\* The gate's review condition was set by a sweep that had found a success.
GateKept ==
  /\ tally \in [ok : Nat, all : Nat] /\ tally.ok <= tally.all
  /\ GateNeedsApproval

\* What the tick has read and still holds to.
SweepKept ==
  /\ \/ sweep = [at |-> sweep.at, rows |-> sweep.rows]
     \/ sweep = [at |-> "approve", rows |-> sweep.rows, row |-> sweep.row]
  /\ sweep.at = "absorb" => \A e \in sweep.rows : e \in Extracts /\ ExtractKey(e) \notin keys
  /\ sweep.at \in {"stats", "approve"} => Threshold /\ sweep.rows \subseteq 1 .. Len(reviews)
  /\ sweep.at = "approve" => sweep.row \in 1 .. Len(reviews) /\ tally.ok > 0

\* Retention looks for attempts that have ended; before it has, each journalled number
\* has its attempt.
AttemptsKept ==
  /\ attempts \subseteq [index : 1 .. MaxAttempts, done : BOOLEAN, old : BOOLEAN]
  /\ \A a \in attempts : a.old => a.done
  /\ spent.weeks + spent.prunes = 0 =>
       /\ \A a \in attempts : ~a.old
       /\ \A i \in Nat : AttemptKey(i) \in keys => \E a \in attempts : a.index = i

GovIInv ==
  /\ JournalKept /\ ReviewsKept /\ ExtractsKept /\ GateKept /\ SweepKept /\ AttemptsKept

\* A set of numbers with a bound has a greatest one.
LEMMA GreatestElement ==
  ASSUME NEW S, S \subseteq Nat, S # {}, NEW n \in Nat, \A x \in S : x <= n
  PROVE  Max(S) \in S /\ \A x \in S : x <= Max(S)
<1> DEFINE T == {n - x : x \in S}
<1>1. T \subseteq Nat /\ T # {}
  <2>1. \A x \in S : x \in Nat /\ n - x \in Nat OBVIOUS
  <2> QED BY <2>1
<1>2. PICK R : IsWellFoundedOn(R, Nat) /\ \A x, y \in Nat : x < y => <<x, y>> \in R
  BY NatLessThanWellFounded, Z3 DEF OpToRel
<1>3. \E t \in T : \A u \in T : ~ (<<u, t>> \in R)
  <2>1. \A RR, SS : IsWellFoundedOn(RR, SS) =>
          \A U : U \subseteq SS /\ U # {} => \E x \in U : \A y \in U : ~ (<<y, x>> \in RR)
    BY WFMin, Zenon
  <2>2. \A U : U \subseteq Nat /\ U # {} => \E x \in U : \A y \in U : ~ (<<y, x>> \in R)
    BY <1>2, <2>1, Zenon
  <2> QED BY <1>1, <2>2
<1>4. PICK t \in T : \A u \in T : ~ (<<u, t>> \in R) BY <1>3
<1>5. \A u \in T : t <= u
  <2> TAKE u \in T
  <2>1. u \in Nat /\ t \in Nat BY <1>1
  <2>2. ~(u < t) BY <1>4, <1>2, <2>1
  <2> QED BY <2>1, <2>2
<1>6. PICK m \in S : t = n - m OBVIOUS
<1>7. \A x \in S : m >= x
  <2> TAKE x \in S
  <2>1. n - x \in T OBVIOUS
  <2>2. t <= n - x BY <1>5, <2>1
  <2>3. x \in Nat /\ m \in Nat OBVIOUS
  <2> QED BY <1>6, <2>2, <2>3
<1>8. Max(S) \in S /\ \A x \in S : Max(S) >= x
  BY <1>7 DEF Max
<1> QED BY <1>8

\* The number of the next attempt is one that no attempt has.
LEMMA NextIndexIsNew ==
  ASSUME GovIInv
  PROVE  NextIndex \in Nat \ {0} /\ \A a \in attempts : a.index < NextIndex
<1> DEFINE S == {a.index : a \in attempts} \cup {0}
<1>1. MaxAttempts \in Nat
  BY GovernanceAssumption
<1>2. S \subseteq Nat /\ S # {} /\ \A x \in S : x <= MaxAttempts
  BY <1>1 DEF GovIInv, AttemptsKept
<1> HIDE DEF S
<1>3. Max(S) \in S /\ \A x \in S : x <= Max(S)
  BY <1>1, <1>2, GreatestElement
<1>4. NextIndex = Max(S) + 1
  BY DEF NextIndex, S
<1>5. \A a \in attempts : a.index \in S
  BY DEF S
<1> PICK m : m = Max(S) OBVIOUS
<1>6. m \in Nat /\ \A x \in S : x \in Nat /\ x <= m
  BY <1>2, <1>3
<1>7. \A a \in attempts : a.index \in Nat /\ a.index <= m
  BY <1>5, <1>6
<1> QED BY <1>4, <1>6, <1>7

\* How the journal and its clock move together.
LedgerMoves ==
  \/ keys \subseteq keys' /\ old' = old /\ spent'.prunes = spent.prunes
  \/ keys' = keys /\ old' = keys /\ spent'.prunes = spent.prunes + 1
  \/ keys' = keys \ old /\ old' = {} /\ spent'.prunes = spent.prunes

LEMMA CountedStays ==
  ASSUME GovIInv, LedgerMoves, NEW k, NEW n, Counted(k, n) PROVE Counted(k, n)'
BY DEF LedgerMoves, Counted, GovIInv, JournalKept

\* One more, in the step that journals the key.
LEMMA CountedOnce ==
  ASSUME GovIInv, NEW k, NEW n, Counted(k, n), k \notin keys, Journal(k), spent'.prunes = spent.prunes
  PROVE  Counted(k, n + 1)'
BY DEF Journal, Counted, GovIInv, JournalKept

LEMMA KeysApart ==
  /\ \A e, r : ExtractKey(e) # Approve(r) /\ ExtractKey(e) # AutoApprove(r)
  /\ \A e, k : ExtractKey(e) # ClientKey(k) /\ ExtractKey(e) # AttemptKey(k)
  /\ \A i, r : AttemptKey(i) # Approve(r) /\ AttemptKey(i) # AutoApprove(r) /\ AttemptKey(i) # ClientKey(r)
  /\ \A e, f : ExtractKey(e) = ExtractKey(f) => e = f
  /\ \A i, j : AttemptKey(i) = AttemptKey(j) => i = j
  /\ \A e : ExtractKey(e) # DriftKey /\ AttemptKey(e) # DriftKey
BY DEF ExtractKey, Approve, AutoApprove, ClientKey, AttemptKey, DriftKey

-----------------------------------------------------------------------------
(* What does not move, stays kept *)

LEMMA ReviewsStay ==
  ASSUME GovIInv, LedgerMoves, UNCHANGED <<reviews, approvals>>, \A q \in asked' : q.row \in 1 .. Len(reviews)
  PROVE  ReviewsKept'
<1>1. \A r \in 1 .. Len(approvals) : Counted(Approve(r), approvals[r].manual)'
  <2>1. \A k, n : Counted(k, n) => Counted(k, n)' BY CountedStays
  <2> PICK s : s = approvals OBVIOUS
  <2>2. \A r \in 1 .. Len(s) : Counted(Approve(r), s[r].manual)'
    BY <2>1 DEF GovIInv, ReviewsKept
  <2>3. s = approvals' OBVIOUS
  <2> QED BY <2>2, <2>3
<1>2. \A k \in ClientKeys : IsFiniteSet(Of(k)') /\ Counted(ClientKey(k), Cardinality(Of(k)))'
  <2> TAKE k \in ClientKeys
  <2> PICK n : n = Cardinality(Of(k)) OBVIOUS
  <2>1. Counted(ClientKey(k), n)' BY CountedStays DEF GovIInv, ReviewsKept
  <2>2. Of(k)' = Of(k) /\ IsFiniteSet(Of(k)) BY DEF Of, GovIInv, ReviewsKept
  <2>3. n = Cardinality(Of(k)') BY <2>2
  <2> QED BY <2>1, <2>2, <2>3
<1> QED BY <1>1, <1>2 DEF ReviewsKept, GovIInv

LEMMA ExtractsStay ==
  ASSUME GovIInv, LedgerMoves, UNCHANGED absorbed, arrived' \subseteq Extracts
  PROVE  ExtractsKept'
<1>1. \A e \in Extracts : Counted(ExtractKey(e), absorbed[e].times)'
  <2>1. \A k, n : Counted(k, n) => Counted(k, n)' BY CountedStays
  <2> PICK f : f = absorbed OBVIOUS
  <2>2. \A e \in Extracts : Counted(ExtractKey(e), f[e].times)'
    BY <2>1 DEF GovIInv, ExtractsKept
  <2>3. f = absorbed' OBVIOUS
  <2> QED BY <2>2, <2>3
<1> QED BY <1>1 DEF ExtractsKept, GovIInv

LEMMA GateStays ==
  ASSUME GovIInv, UNCHANGED <<reviewed, tally>>, 
         \A r \in DOMAIN approvals : r \in DOMAIN approvals' /\ approvals'[r].auto >= approvals[r].auto
                                     /\ approvals'[r].auto \in Nat
  PROVE  GateKept'
<1>1. \A r \in DOMAIN approvals : approvals[r].auto \in Nat
  <2>1. \A s \in Seq(ApprovalRow) : \A r \in DOMAIN s : s[r] \in ApprovalRow OBVIOUS
  <2> QED BY <2>1 DEF GovIInv, ReviewsKept, ApprovalRow
<1>2. \A r \in DOMAIN approvals : approvals[r].auto > 0 => approvals'[r].auto > 0
  BY <1>1
<1> QED BY <1>2 DEF GateKept, GateNeedsApproval, GovIInv

LEMMA SweepStays ==
  ASSUME GovIInv, UNCHANGED sweep, tally'.ok >= tally.ok, tally'.ok \in Nat,
         Len(reviews) <= Len(reviews'), Len(reviews') \in Nat,
         sweep.at = "absorb" => \A e \in sweep.rows : ExtractKey(e) \notin keys'
  PROVE  SweepKept'
<1>1. Len(reviews) \in Nat /\ tally.ok \in Nat
  BY LenProperties DEF GovIInv, ReviewsKept, GateKept
<1> QED BY <1>1 DEF SweepKept, GovIInv

LEMMA AttemptsStay ==
  ASSUME GovIInv, UNCHANGED <<attempts>>,
         spent'.weeks + spent'.prunes = 0 => spent.weeks + spent.prunes = 0,
         \A i \in Nat : AttemptKey(i) \in keys' => AttemptKey(i) \in keys
  PROVE  AttemptsKept'
BY DEF AttemptsKept, GovIInv

\* A new tick, or a phase of the tick that has read nothing.
LEMMA SweepStarts ==
  ASSUME GovIInv, NEW p, p \notin {"absorb", "stats", "approve"}, sweep' = [at |-> p, rows |-> {}]
  PROVE  SweepKept'
BY DEF SweepKept

LEMMA Sizes ==
  ASSUME GovIInv
  PROVE  /\ Len(reviews) \in Nat /\ Len(approvals) = Len(reviews)
         /\ DOMAIN reviews = 1 .. Len(reviews) /\ DOMAIN approvals = 1 .. Len(reviews)
         /\ tally.ok \in Nat /\ tally.all \in Nat /\ spent.prunes \in Nat /\ spent.weeks \in Nat
         /\ \A r \in 1 .. Len(reviews) : reviews[r] \in ReviewRow /\ approvals[r] \in ApprovalRow
<1>1. \A S : \A q \in Seq(S) : Len(q) \in Nat /\ DOMAIN q = 1 .. Len(q) /\ \A i \in 1 .. Len(q) : q[i] \in S
  OBVIOUS
<1> QED BY <1>1 DEF GovIInv, ReviewsKept, GateKept, JournalKept

\* A step that moves the tick and nothing it looks at.
LEMMA OnlyTheSweep ==
  ASSUME GovIInv, SweepKept', asked' = asked,
         UNCHANGED <<reviews, approvals, reviewed, tally, absorbed, arrived, attempts, keys, old>>,
         spent' = spent \/ Spend("restarts")
  PROVE  GovIInv'
<1>1. LedgerMoves /\ JournalKept' /\ spent'.weeks = spent.weeks /\ spent'.prunes = spent.prunes
  BY DEF LedgerMoves, Spend, GovIInv, JournalKept
<1>2. ReviewsKept' BY <1>1, ReviewsStay DEF GovIInv, ReviewsKept
<1>3. ExtractsKept' BY <1>1, ExtractsStay DEF GovIInv, ExtractsKept
<1>4. GateKept'
  BY GateStays, Sizes DEF ApprovalRow
<1>5. AttemptsKept' BY <1>1, AttemptsStay
<1> QED BY <1>1, <1>2, <1>3, <1>4, <1>5 DEF GovIInv

-----------------------------------------------------------------------------
(* The tick *)

LEMMA SelectExtractsStep == ASSUME GovIInv, SelectExtracts PROVE GovIInv'
<1>1. SweepKept'
  BY DEF SelectExtracts, SweepKept, GovIInv, ExtractsKept
<1> QED BY <1>1, OnlyTheSweep DEF SelectExtracts

LEMMA SelectPendingStep == ASSUME GovIInv, SelectPending PROVE GovIInv'
<1>1. SweepKept'
  BY Sizes DEF SelectPending, SweepKept, GovIInv
<1> QED BY <1>1, OnlyTheSweep DEF SelectPending

LEMMA ReadStatsStep == ASSUME GovIInv, NEW r \in sweep.rows, ReadStats(r) PROVE GovIInv'
<1>1. SweepKept'
  <2>1. Threshold /\ sweep.rows \subseteq 1 .. Len(reviews) /\ UNCHANGED <<reviews, tally>>
    BY DEF ReadStats, GovIInv, SweepKept
  <2>2. CASE Eligible
    BY <2>1, <2>2 DEF ReadStats, SweepKept, Eligible
  <2>3. CASE ~Eligible
    BY <2>1, <2>3 DEF ReadStats, SweepKept, NextPending
  <2> QED BY <2>2, <2>3
<1> QED BY <1>1, OnlyTheSweep DEF ReadStats

LEMMA TickEndsStep == ASSUME GovIInv, DetectConflicts \/ SkipRetention \/ TickFails PROVE GovIInv'
<1>1. /\ \E p \in {"extracts", "drift"} : sweep' = [at |-> p, rows |-> {}]
      /\ UNCHANGED <<reviews, approvals, reviewed, tally, absorbed, arrived, attempts, keys, old, asked>>
      /\ spent' = spent \/ Spend("restarts")
  BY DEF DetectConflicts, SkipRetention, TickFails, TickEnds, Start, Next1
<1>2. SweepKept'
  BY <1>1, SweepStarts
<1> QED BY <1>1, <1>2, OnlyTheSweep

LEMMA AbsorbStep == ASSUME GovIInv, NEW e \in sweep.rows, Absorb(e) PROVE GovIInv'
<1>1. /\ e \in Extracts /\ ExtractKey(e) \notin keys
      /\ UNCHANGED <<reviews, approvals, reviewed, tally, arrived, attempts, asked, spent>>
      /\ Journal(ExtractKey(e)) /\ Taken(e) /\ AfterExtract(e)
      /\ sweep.at = "absorb" /\ sweep = [at |-> "absorb", rows |-> sweep.rows]
  BY DEF Absorb, GovIInv, SweepKept
<1>2. LedgerMoves /\ JournalKept'
  BY <1>1 DEF LedgerMoves, Journal, GovIInv, JournalKept
<1>3. ReviewsKept' BY <1>1, <1>2, ReviewsStay DEF GovIInv, ReviewsKept
<1>4. GateKept' BY <1>1, GateStays, Sizes DEF ApprovalRow
<1>5. AttemptsKept'
  BY <1>1, KeysApart, AttemptsStay DEF Journal
<1>6. ExtractsKept'
  <2> PICK f, n : f = absorbed /\ n = absorbed[e].times OBVIOUS
  <2>1. absorbed \in [Extracts -> [times : Nat, planned : BOOLEAN]] BY DEF GovIInv, ExtractsKept
  <2>2. /\ absorbed' \in [Extracts -> [times : Nat, planned : BOOLEAN]]
        /\ absorbed'[e].times = n + 1
        /\ \A d \in Extracts : d # e => absorbed'[d] = f[d]
    <3>1. n \in Nat /\ absorbed[e].planned \in BOOLEAN BY <1>1, <2>1
    <3>2. absorbed' = [absorbed EXCEPT ![e] = [times |-> n + 1, planned |-> @.planned \/ Entries = "strings"]]
      BY <1>1 DEF Taken
    <3>3. (absorbed[e].planned \/ Entries = "strings") \in BOOLEAN OBVIOUS
    <3>4. [times |-> n + 1, planned |-> absorbed[e].planned \/ Entries = "strings"] \in [times : Nat, planned : BOOLEAN]
      BY <3>1, <3>3
    <3> QED BY <1>1, <2>1, <3>2, <3>4
  <2>3. Counted(ExtractKey(e), n + 1)'
    BY <1>1, CountedOnce DEF GovIInv, ExtractsKept
  <2>4. \A d \in Extracts : Counted(ExtractKey(d), f[d].times)'
    <3>1. \A k, m : Counted(k, m) => Counted(k, m)' BY <1>2, CountedStays
    <3>2. \A d \in Extracts : Counted(ExtractKey(d), f[d].times) BY DEF GovIInv, ExtractsKept
    <3> QED BY <3>1, <3>2
  <2>5. ASSUME NEW d \in Extracts PROVE Counted(ExtractKey(d), absorbed[d].times)'
    <3> PICK m : m = absorbed'[d].times OBVIOUS
    <3>1. Counted(ExtractKey(d), m)'
      <4>1. CASE d = e BY <2>2, <2>3, <4>1
      <4>2. CASE d # e
        <5>1. m = f[d].times BY <2>2, <4>2
        <5> QED BY <2>4, <5>1
      <4> QED BY <4>1, <4>2
    <3> QED BY <3>1
  <2> QED BY <1>1, <2>2, <2>5 DEF ExtractsKept, GovIInv
<1>7. SweepKept'
  <2>1. CASE sweep.rows = {e}
    BY <1>1, <2>1, SweepStarts DEF AfterExtract
  <2>2. CASE sweep.rows # {e}
    <3>1. sweep' = [at |-> "absorb", rows |-> sweep.rows \ {e}]
      BY <1>1, <2>2 DEF AfterExtract
    <3>2. \A d \in sweep.rows \ {e} : d \in Extracts /\ ExtractKey(d) \notin keys'
      BY <1>1, KeysApart DEF Journal, GovIInv, SweepKept
    <3> QED BY <3>1, <3>2 DEF SweepKept
  <2> QED BY <2>1, <2>2
<1> QED BY <1>2, <1>3, <1>4, <1>5, <1>6, <1>7 DEF GovIInv

LEMMA DriftStep == ASSUME GovIInv, Drift PROVE GovIInv'
<1>1. /\ UNCHANGED <<reviews, approvals, reviewed, tally, absorbed, arrived, attempts, asked, spent>>
      /\ sweep' = [at |-> "retention", rows |-> {}]
      /\ old' = old /\ (keys' = keys \/ keys' = keys \cup {DriftKey})
  BY DEF Drift, Next1, Journal
<1>2. LedgerMoves /\ JournalKept'
  BY <1>1 DEF LedgerMoves, GovIInv, JournalKept
<1>3. ReviewsKept' BY <1>1, <1>2, ReviewsStay DEF GovIInv, ReviewsKept
<1>4. ExtractsKept' BY <1>1, <1>2, ExtractsStay DEF GovIInv, ExtractsKept
<1>5. GateKept' BY <1>1, GateStays, Sizes DEF ApprovalRow
<1>6. AttemptsKept' BY <1>1, KeysApart, AttemptsStay
<1>7. SweepKept' BY <1>1, SweepStarts
<1> QED BY <1>2, <1>3, <1>4, <1>5, <1>6, <1>7 DEF GovIInv

LEMMA PruneJournalStep == ASSUME GovIInv, PruneJournal PROVE GovIInv'
<1>1. /\ UNCHANGED <<reviews, approvals, reviewed, tally, absorbed, arrived, attempts, asked, spent>>
      /\ sweep' = [at |-> "attempts", rows |-> {}]
      /\ keys' = keys \ old /\ old' = {}
  BY DEF PruneJournal, Next1
<1>2. LedgerMoves /\ JournalKept'
  BY <1>1 DEF LedgerMoves, GovIInv, JournalKept
<1>3. ReviewsKept' BY <1>1, <1>2, ReviewsStay DEF GovIInv, ReviewsKept
<1>4. ExtractsKept' BY <1>1, <1>2, ExtractsStay DEF GovIInv, ExtractsKept
<1>5. GateKept' BY <1>1, GateStays, Sizes DEF ApprovalRow
<1>6. AttemptsKept' BY <1>1, AttemptsStay
<1>7. SweepKept' BY <1>1, SweepStarts
<1> QED BY <1>2, <1>3, <1>4, <1>5, <1>6, <1>7 DEF GovIInv

\* Retention and the clock: the attempts that are left are those that were there, and as
\* long as no week has passed, all of them.
LEMMA AttemptsAge ==
  ASSUME GovIInv, LedgerMoves, JournalKept', SweepKept',
         UNCHANGED <<reviews, approvals, reviewed, tally, absorbed, arrived, asked>>,
         AttemptsKept'
  PROVE  GovIInv'
<1>1. ReviewsKept' BY ReviewsStay DEF GovIInv, ReviewsKept
<1>2. ExtractsKept' BY ExtractsStay DEF GovIInv, ExtractsKept
<1>3. GateKept' BY GateStays, Sizes DEF ApprovalRow
<1> QED BY <1>1, <1>2, <1>3 DEF GovIInv

LEMMA PruneAttemptsStep == ASSUME GovIInv, PruneAttempts PROVE GovIInv'
<1>1. /\ UNCHANGED <<reviews, approvals, reviewed, tally, absorbed, arrived, keys, old, asked, spent>>
      /\ sweep' = [at |-> "extracts", rows |-> {}]
      /\ attempts' = {a \in attempts : ~a.old}
  BY DEF PruneAttempts, TickEnds, Start
<1>2. LedgerMoves /\ JournalKept'
  BY <1>1 DEF LedgerMoves, GovIInv, JournalKept
<1>3. SweepKept' BY <1>1, SweepStarts
<1>4. AttemptsKept' BY <1>1 DEF AttemptsKept, GovIInv
<1> QED BY <1>1, <1>2, <1>3, <1>4, AttemptsAge

LEMMA TimeStep == ASSUME GovIInv, Week \/ Month PROVE GovIInv'
<1>1. /\ UNCHANGED <<reviews, approvals, reviewed, tally, absorbed, arrived, keys, sweep, asked>>
      /\ attempts' = {[a EXCEPT !.old = a.done] : a \in attempts}
      /\ \/ Spend("weeks") /\ old' = old
         \/ Spend("prunes") /\ old' = keys
  BY DEF Week, Month
<1>2. /\ spent' \in [restarts : Nat, prunes : Nat, weeks : Nat, patches : Nat]
      /\ \/ old' = old /\ spent'.prunes = spent.prunes
         \/ old' = keys /\ spent'.prunes = spent.prunes + 1
      /\ spent'.weeks + spent'.prunes > 0
  BY <1>1 DEF Spend, GovIInv, JournalKept
<1>3. LedgerMoves /\ JournalKept'
  BY <1>1, <1>2 DEF LedgerMoves, GovIInv, JournalKept
<1>4. SweepKept' BY <1>1, Sizes, SweepStays DEF GovIInv, SweepKept
<1>5. AttemptsKept'
  <2>1. \A a \in attempts : a \in [index : 1 .. MaxAttempts, done : BOOLEAN, old : BOOLEAN]
    BY DEF GovIInv, AttemptsKept
  <2>2. \A b \in attempts' : b \in [index : 1 .. MaxAttempts, done : BOOLEAN, old : BOOLEAN] /\ (b.old => b.done)
    BY <1>1, <2>1
  <2>3. spent'.weeks + spent'.prunes # 0
    BY <1>2
  <2> QED BY <2>2, <2>3 DEF AttemptsKept
<1> QED BY <1>1, <1>3, <1>4, <1>5, AttemptsAge

LEMMA StartAttemptStep == ASSUME GovIInv, StartAttempt PROVE GovIInv'
<1> PICK n : n = NextIndex OBVIOUS
<1>1. /\ UNCHANGED <<reviews, approvals, reviewed, tally, absorbed, arrived, sweep, asked, spent>>
      /\ attempts' = attempts \cup {[index |-> n, done |-> FALSE, old |-> FALSE]}
      /\ Journal(AttemptKey(n)) /\ n <= MaxAttempts
  BY DEF StartAttempt
<1>2. n \in Nat \ {0}
  BY NextIndexIsNew
<1>3. LedgerMoves /\ JournalKept'
  BY <1>1 DEF LedgerMoves, Journal, GovIInv, JournalKept
<1>4. SweepKept'
  <2>1. sweep.at = "absorb" => \A e \in sweep.rows : ExtractKey(e) \notin keys'
    BY <1>1, KeysApart DEF Journal, GovIInv, SweepKept
  <2> QED BY <1>1, <2>1, Sizes, SweepStays
<1>5. AttemptsKept'
  <2>1. n \in 1 .. MaxAttempts BY <1>1, <1>2, GovernanceAssumption
  <2>2. attempts' \subseteq [index : 1 .. MaxAttempts, done : BOOLEAN, old : BOOLEAN]
    <3>1. [index |-> n, done |-> FALSE, old |-> FALSE] \in [index : 1 .. MaxAttempts, done : BOOLEAN, old : BOOLEAN]
      BY <2>1
    <3>2. attempts \subseteq [index : 1 .. MaxAttempts, done : BOOLEAN, old : BOOLEAN] BY DEF GovIInv, AttemptsKept
    <3> QED BY <1>1, <3>1, <3>2
  <2>3. (\A a \in attempts' : a.old => a.done) /\ spent' = spent
    BY <1>1 DEF GovIInv, AttemptsKept
  <2>4. ASSUME spent.weeks + spent.prunes = 0
        PROVE  /\ \A a \in attempts' : ~a.old
               /\ \A i \in Nat : AttemptKey(i) \in keys' => \E a \in attempts' : a.index = i
    <3> PICK b : b = [index |-> n, done |-> FALSE, old |-> FALSE] OBVIOUS
    <3>1. attempts' = attempts \cup {b} /\ b.index = n /\ ~b.old BY <1>1
    <3>2. \A i \in Nat : AttemptKey(i) \in keys' => i = n \/ AttemptKey(i) \in keys
      BY <1>1, KeysApart DEF Journal
    <3>3. /\ \A a \in attempts : ~a.old
          /\ \A i \in Nat : AttemptKey(i) \in keys => \E a \in attempts : a.index = i
      BY <2>4 DEF GovIInv, AttemptsKept
    <3> QED BY <3>1, <3>2, <3>3
  <2> QED BY <2>2, <2>3, <2>4 DEF AttemptsKept
<1> QED BY <1>1, <1>3, <1>4, <1>5, AttemptsAge

LEMMA EndAttemptStep == ASSUME GovIInv, EndAttempt PROVE GovIInv'
<1>1. /\ UNCHANGED <<reviews, approvals, reviewed, tally, absorbed, arrived, keys, old, sweep, asked, spent>>
      /\ attempts' = {[a EXCEPT !.done = TRUE] : a \in attempts}
  BY DEF EndAttempt
<1>2. LedgerMoves /\ JournalKept'
  BY <1>1 DEF LedgerMoves, GovIInv, JournalKept
<1>3. SweepKept' BY <1>1, Sizes, SweepStays DEF GovIInv, SweepKept
<1>4. AttemptsKept'
  <2>1. \A a \in attempts : a \in [index : 1 .. MaxAttempts, done : BOOLEAN, old : BOOLEAN]
    BY DEF GovIInv, AttemptsKept
  <2>2. \A b \in attempts' : b \in [index : 1 .. MaxAttempts, done : BOOLEAN, old : BOOLEAN] /\ b.done
    BY <1>1, <2>1
  <2>3. ASSUME spent.weeks + spent.prunes = 0
        PROVE  /\ \A a \in attempts' : ~a.old
               /\ \A i \in Nat : AttemptKey(i) \in keys => \E a \in attempts' : a.index = i
    <3>1. \A a \in attempts : [a EXCEPT !.done = TRUE].index = a.index /\ [a EXCEPT !.done = TRUE].old = a.old
      BY <2>1
    <3>2. /\ \A a \in attempts : ~a.old
          /\ \A i \in Nat : AttemptKey(i) \in keys => \E a \in attempts : a.index = i
      BY <2>3 DEF GovIInv, AttemptsKept
    <3>3. \A a \in attempts : [a EXCEPT !.done = TRUE] \in attempts' BY <1>1
    <3>4. \A b \in attempts' : \E a \in attempts : b = [a EXCEPT !.done = TRUE] BY <1>1
    <3>5. \A b \in attempts' : ~b.old
      <4> TAKE b \in attempts'
      <4>1. PICK a \in attempts : b = [a EXCEPT !.done = TRUE] BY <3>4
      <4> QED BY <3>1, <3>2, <4>1
    <3>6. ASSUME NEW i \in Nat, AttemptKey(i) \in keys PROVE \E b \in attempts' : b.index = i
      <4>1. PICK a \in attempts : a.index = i BY <3>2, <3>6
      <4> QED BY <3>1, <3>3, <4>1
    <3> QED BY <3>5, <3>6
  <2> QED BY <1>1, <2>2, <2>3 DEF AttemptsKept
<1> QED BY <1>1, <1>2, <1>3, <1>4, AttemptsAge

LEMMA OthersStep ==
  ASSUME GovIInv,
         \/ EditObjective \/ (\E e \in Extracts : ExtractArrives(e)) \/ (\E ok \in BOOLEAN : TaskEnds(ok))
         \/ (\E r \in DOMAIN reviews : AskApproval(r))
  PROVE  GovIInv'
<1>1. /\ UNCHANGED <<reviews, approvals, reviewed, absorbed, attempts, keys, old, sweep, spent>>
      /\ arrived' \subseteq Extracts
      /\ \A q \in asked' : q.row \in 1 .. Len(reviews)
  BY Sizes DEF EditObjective, ExtractArrives, TaskEnds, AskApproval, GovIInv, ExtractsKept, ReviewsKept
<1>2. tally' \in [ok : Nat, all : Nat] /\ tally'.ok >= tally.ok /\ tally'.ok <= tally'.all
  <2>1. tally \in [ok : Nat, all : Nat] /\ tally.ok <= tally.all BY DEF GovIInv, GateKept
  <2>2. \/ tally' = tally
        \/ tally.ok < tally.all /\ tally' = [tally EXCEPT !.ok = @ + 1]
        \/ tally' = [tally EXCEPT !.all = @ + 1]
    BY DEF EditObjective, ExtractArrives, TaskEnds, AskApproval
  <2> QED BY <2>1, <2>2
<1>3. LedgerMoves /\ JournalKept'
  BY <1>1 DEF LedgerMoves, GovIInv, JournalKept
<1>4. ReviewsKept' BY <1>1, <1>3, ReviewsStay
<1>5. ExtractsKept' BY <1>1, <1>3, ExtractsStay
<1>6. GateKept'
  <2>1. GateNeedsApproval' BY <1>1, <1>2, Sizes DEF GateNeedsApproval, GovIInv, GateKept
  <2> QED BY <1>2, <2>1 DEF GateKept
<1>7. SweepKept' BY <1>1, <1>2, Sizes, SweepStays DEF GovIInv, SweepKept
<1>8. AttemptsKept' BY <1>1, AttemptsStay
<1> QED BY <1>3, <1>4, <1>5, <1>6, <1>7, <1>8 DEF GovIInv

-----------------------------------------------------------------------------
(* Reviews *)

\* A step that rewrites reviews or adds one.
LEMMA ReviewsMove ==
  ASSUME GovIInv, LedgerMoves, JournalKept', ReviewsKept', GateKept', SweepKept',
         UNCHANGED <<absorbed, arrived, attempts>>,
         spent'.weeks = spent.weeks, spent'.prunes = spent.prunes,
         \A i \in Nat : AttemptKey(i) \in keys' => AttemptKey(i) \in keys
  PROVE  GovIInv'
<1>1. ExtractsKept' BY ExtractsStay DEF GovIInv, ExtractsKept
<1>2. AttemptsKept' BY AttemptsStay
<1> QED BY <1>1, <1>2 DEF GovIInv

\* One row of a table written.
LEMMA RowWritten ==
  ASSUME NEW S, NEW s \in Seq(S), NEW r \in 1 .. Len(s), NEW y \in S
  PROVE  /\ [s EXCEPT ![r] = y] \in Seq(S) /\ Len([s EXCEPT ![r] = y]) = Len(s)
         /\ [s EXCEPT ![r] = y][r] = y
         /\ \A i \in 1 .. Len(s) : i # r => [s EXCEPT ![r] = y][i] = s[i]
OBVIOUS

LEMMA ReviewWritten ==
  ASSUME GovIInv, NEW r \in 1 .. Len(reviews), NEW st \in ReviewStatuses, NEW v \in Verdicts,
         reviews' = [reviews EXCEPT ![r].status = st, ![r].verdict = v]
  PROVE  /\ reviews' \in Seq(ReviewRow) /\ Len(reviews') = Len(reviews)
         /\ \A i \in 1 .. Len(reviews) : reviews'[i].key = reviews[i].key
<1> DEFINE y == [reviews[r] EXCEPT !.status = st, !.verdict = v]
<1>1. reviews \in Seq(ReviewRow) /\ reviews[r] \in ReviewRow
  BY Sizes DEF GovIInv, ReviewsKept
<1>2. y \in ReviewRow /\ y.key = reviews[r].key
  BY <1>1 DEF ReviewRow
<1>3. reviews' = [reviews EXCEPT ![r] = y]
  <2>1. reviews = [i \in 1 .. Len(reviews) |-> reviews[i]] BY <1>1
  <2> QED BY <2>1
<1> HIDE DEF y
<1>4. /\ reviews' \in Seq(ReviewRow) /\ Len(reviews') = Len(reviews) /\ reviews'[r] = y
      /\ \A i \in 1 .. Len(reviews) : i # r => reviews'[i] = reviews[i]
  <2> PICK s, t : s = reviews /\ t = reviews' OBVIOUS
  <2>1. s \in Seq(ReviewRow) /\ r \in 1 .. Len(s) /\ t = [s EXCEPT ![r] = y]
    BY <1>1, <1>3
  <2>2. /\ t \in Seq(ReviewRow) /\ Len(t) = Len(s) /\ t[r] = y
        /\ \A i \in 1 .. Len(s) : i # r => t[i] = s[i]
    <3> PICK T : T = ReviewRow OBVIOUS
    <3>1. s \in Seq(T) /\ y \in T BY <1>2, <2>1
    <3>2. t \in Seq(T) /\ Len(t) = Len(s) BY <2>1, <3>1
    <3>3. DOMAIN s = 1 .. Len(s) BY <3>1
    <3>4. t[r] = y BY <2>1, <3>3
    <3>5. \A i \in 1 .. Len(s) : i # r => t[i] = s[i] BY <2>1, <3>3
    <3> QED BY <3>2, <3>4, <3>5
  <2> QED BY <2>2
<1> QED BY <1>2, <1>4

LEMMA ApprovalWritten ==
  ASSUME NEW s \in Seq(ApprovalRow), NEW r \in 1 .. Len(s)
  PROVE  LET t == [s EXCEPT ![r].auto = @ + 1]
             u == [s EXCEPT ![r].manual = @ + 1] IN
         /\ t \in Seq(ApprovalRow) /\ Len(t) = Len(s)
         /\ t[r].auto = s[r].auto + 1 /\ t[r].manual = s[r].manual
         /\ u \in Seq(ApprovalRow) /\ Len(u) = Len(s)
         /\ u[r].auto = s[r].auto /\ u[r].manual = s[r].manual + 1
         /\ \A i \in 1 .. Len(s) : i # r => t[i] = s[i] /\ u[i] = s[i]
<1> PICK a, m : a = s[r].auto /\ m = s[r].manual OBVIOUS
<1>1. s[r] \in ApprovalRow /\ s = [i \in 1 .. Len(s) |-> s[i]] OBVIOUS
<1>2. a \in Nat /\ m \in Nat /\ s[r] = [auto |-> a, manual |-> m] BY <1>1 DEF ApprovalRow
<1> DEFINE x == [auto |-> a + 1, manual |-> m]
           y == [auto |-> a, manual |-> m + 1]
<1>3. x \in ApprovalRow /\ y \in ApprovalRow BY <1>2 DEF ApprovalRow
<1>4. [s EXCEPT ![r].auto = @ + 1] = [s EXCEPT ![r] = x]
  <2>1. [s[r] EXCEPT !.auto = a + 1] = x BY <1>2
  <2>2. [s EXCEPT ![r].auto = @ + 1] = [s EXCEPT ![r] = [s[r] EXCEPT !.auto = a + 1]] OBVIOUS
  <2> QED BY <2>1, <2>2
<1>5. [s EXCEPT ![r].manual = @ + 1] = [s EXCEPT ![r] = y]
  <2>1. [s[r] EXCEPT !.manual = m + 1] = y BY <1>2
  <2>2. [s EXCEPT ![r].manual = @ + 1] = [s EXCEPT ![r] = [s[r] EXCEPT !.manual = m + 1]] OBVIOUS
  <2> QED BY <2>1, <2>2
<1>6. x.auto = a + 1 /\ x.manual = m /\ y.auto = a /\ y.manual = m + 1 OBVIOUS
<1> HIDE DEF x, y
<1>7. /\ [s EXCEPT ![r] = x] \in Seq(ApprovalRow) /\ Len([s EXCEPT ![r] = x]) = Len(s)
      /\ [s EXCEPT ![r] = x][r] = x
      /\ \A i \in 1 .. Len(s) : i # r => [s EXCEPT ![r] = x][i] = s[i]
  BY <1>3, RowWritten
<1>8. /\ [s EXCEPT ![r] = y] \in Seq(ApprovalRow) /\ Len([s EXCEPT ![r] = y]) = Len(s)
      /\ [s EXCEPT ![r] = y][r] = y
      /\ \A i \in 1 .. Len(s) : i # r => [s EXCEPT ![r] = y][i] = s[i]
  BY <1>3, RowWritten
<1> QED BY <1>4, <1>5, <1>6, <1>7, <1>8

\* The reviews of a client are counted as before.
LEMMA CountedReviewsStay ==
  ASSUME GovIInv, LedgerMoves, reviews' \in Seq(ReviewRow), Len(reviews') = Len(reviews),
         \A i \in 1 .. Len(reviews) : reviews'[i].key = reviews[i].key,
         NEW k \in ClientKeys
  PROVE  IsFiniteSet(Of(k)') /\ Counted(ClientKey(k), Cardinality(Of(k)))'
<1>1. DOMAIN reviews = 1 .. Len(reviews) /\ DOMAIN reviews' = 1 .. Len(reviews)
  BY Sizes
<1>2. Of(k)' = Of(k)
  BY <1>1 DEF Of
<1> PICK n : n = Cardinality(Of(k)) OBVIOUS
<1>3. IsFiniteSet(Of(k)) /\ Counted(ClientKey(k), n)
  BY DEF GovIInv, ReviewsKept
<1>4. Counted(ClientKey(k), n)'
  BY <1>3, CountedStays
<1>5. n = Cardinality(Of(k)')
  BY <1>2
<1> QED BY <1>2, <1>3, <1>4, <1>5

\* Reviews are rewritten, and no approval is counted.
LEMMA ReviewsRewritten ==
  ASSUME GovIInv, LedgerMoves, reviews' \in Seq(ReviewRow), Len(reviews') = Len(reviews),
         \A i \in 1 .. Len(reviews) : reviews'[i].key = reviews[i].key,
         approvals' \in Seq(ApprovalRow), Len(approvals') = Len(approvals),
         \A i \in 1 .. Len(reviews) : approvals'[i].manual = approvals[i].manual,
         asked' \subseteq asked
  PROVE  ReviewsKept'
<1>1. \A k \in ClientKeys : IsFiniteSet(Of(k)') /\ Counted(ClientKey(k), Cardinality(Of(k)))'
  BY CountedReviewsStay
<1>2. \A r \in 1 .. Len(approvals') : Counted(Approve(r), approvals[r].manual)'
  <2> TAKE r \in 1 .. Len(approvals')
  <2> PICK n : n = approvals[r].manual OBVIOUS
  <2>1. Counted(Approve(r), n)'
    BY CountedStays, Sizes DEF GovIInv, ReviewsKept
  <2>2. n = approvals'[r].manual
    BY Sizes
  <2> QED BY <2>1, <2>2
<1> QED BY <1>1, <1>2, Sizes DEF GovIInv, ReviewsKept

LEMMA AutoApprovalStep == ASSUME GovIInv, AutoApproval PROVE GovIInv'
<1> PICK r : r = sweep.row OBVIOUS
<1>1. /\ UNCHANGED <<tally, absorbed, arrived, attempts, asked, spent>>
      /\ reviews' = [reviews EXCEPT ![r].status = "approved", ![r].verdict = "auto_approved"]
      /\ approvals' = [approvals EXCEPT ![r].auto = @ + 1]
      /\ Journal(AutoApprove(r)) /\ NextPending(r) /\ reviewed'
  BY DEF AutoApproval
<1>2. r \in 1 .. Len(reviews) /\ Threshold /\ tally.ok > 0 /\ sweep.rows \subseteq 1 .. Len(reviews)
  BY DEF AutoApproval, GovIInv, SweepKept
<1>3. LedgerMoves /\ JournalKept'
  BY <1>1 DEF LedgerMoves, Journal, GovIInv, JournalKept
<1>4. /\ reviews' \in Seq(ReviewRow) /\ Len(reviews') = Len(reviews)
      /\ \A i \in 1 .. Len(reviews) : reviews'[i].key = reviews[i].key
  BY <1>1, <1>2, ReviewWritten DEF ReviewStatuses, Verdicts
<1>5. /\ approvals' \in Seq(ApprovalRow) /\ Len(approvals') = Len(approvals)
      /\ \A i \in 1 .. Len(reviews) : approvals'[i].manual = approvals[i].manual
      /\ approvals'[r].auto = approvals[r].auto + 1
  <2>1. approvals \in Seq(ApprovalRow) /\ r \in 1 .. Len(approvals) /\ Len(approvals) = Len(reviews)
    BY <1>2, Sizes DEF GovIInv, ReviewsKept
  <2>2. approvals' = [approvals EXCEPT ![r].auto = @ + 1] BY <1>1
  <2>3. approvals' \in Seq(ApprovalRow) /\ Len(approvals') = Len(approvals)
    BY <2>1, <2>2, ApprovalWritten
  <2>4. approvals'[r].auto = approvals[r].auto + 1 /\ approvals'[r].manual = approvals[r].manual
    BY <2>1, <2>2, ApprovalWritten
  <2>5. \A i \in 1 .. Len(approvals) : i # r => approvals'[i] = approvals[i]
    BY <2>1, <2>2, ApprovalWritten
  <2> QED BY <2>1, <2>3, <2>4, <2>5
<1>6. ReviewsKept' BY <1>1, <1>3, <1>4, <1>5, ReviewsRewritten
<1>7. GateKept'
  <2>1. approvals[r].auto \in Nat BY <1>2, Sizes DEF ApprovalRow
  <2>2. r \in DOMAIN approvals' BY <1>2, <1>5, Sizes
  <2> QED BY <1>1, <1>2, <1>5, <2>1, <2>2 DEF GateKept, GateNeedsApproval, GovIInv
<1>8. SweepKept'
  BY <1>1, <1>2, <1>4 DEF NextPending, SweepKept
<1> QED BY <1>1, <1>3, <1>6, <1>7, <1>8, KeysApart, ReviewsMove DEF Journal

LEMMA PatchReviewStep ==
  ASSUME GovIInv, NEW r \in DOMAIN reviews,
         \/ PatchReview(r, "scheduled", reviews[r].verdict)
         \/ PatchReview(r, "changes_requested", "rejected")
  PROVE  GovIInv'
<1>1. PICK st \in ReviewStatuses, v \in Verdicts : PatchReview(r, st, v)
  BY Sizes DEF ReviewStatuses, Verdicts, ReviewRow
<1>2. /\ UNCHANGED <<approvals, reviewed, tally, absorbed, arrived, attempts, keys, old, sweep, asked>>
      /\ Spend("patches")
      /\ reviews' = [reviews EXCEPT ![r].status = st, ![r].verdict = v]
  BY <1>1 DEF PatchReview
<1>3. LedgerMoves /\ JournalKept' /\ spent'.weeks = spent.weeks /\ spent'.prunes = spent.prunes
  BY <1>2 DEF LedgerMoves, Spend, GovIInv, JournalKept
<1>4. /\ reviews' \in Seq(ReviewRow) /\ Len(reviews') = Len(reviews)
      /\ \A i \in 1 .. Len(reviews) : reviews'[i].key = reviews[i].key
  BY <1>2, Sizes, ReviewWritten
<1>5. ReviewsKept' BY <1>2, <1>3, <1>4, ReviewsRewritten DEF GovIInv, ReviewsKept
<1>6. GateKept' BY <1>2, GateStays, Sizes DEF ApprovalRow
<1>7. SweepKept' BY <1>2, <1>4, Sizes, SweepStays DEF GovIInv, SweepKept
<1> QED BY <1>2, <1>3, <1>5, <1>6, <1>7, ReviewsMove

LEMMA WaitStep == ASSUME GovIInv, Wait PROVE GovIInv'
<1>1. /\ UNCHANGED <<approvals, reviewed, tally, absorbed, arrived, attempts, keys, old, sweep, asked, spent>>
      /\ reviews' = [r \in 1 .. Len(reviews) |-> [reviews[r] EXCEPT !.age = Older(@)]]
  BY Sizes DEF Wait
<1>2. LedgerMoves /\ JournalKept'
  BY <1>1 DEF LedgerMoves, GovIInv, JournalKept
<1>3. /\ reviews' \in Seq(ReviewRow) /\ Len(reviews') = Len(reviews)
      /\ \A i \in 1 .. Len(reviews) : reviews'[i].key = reviews[i].key
  <2>1. \A i \in 1 .. Len(reviews) : [reviews[i] EXCEPT !.age = Older(@)] \in ReviewRow
    BY Sizes DEF ReviewRow, Older
  <2>2. \A i \in 1 .. Len(reviews) : [reviews[i] EXCEPT !.age = Older(@)].key = reviews[i].key
    BY Sizes DEF ReviewRow
  <2> DEFINE g(i) == [reviews[i] EXCEPT !.age = Older(@)]
  <2>3. (\A i \in 1 .. Len(reviews) : g(i) \in ReviewRow /\ g(i).key = reviews[i].key)
        /\ reviews' = [i \in 1 .. Len(reviews) |-> g(i)]
    BY <1>1, <2>1, <2>2
  <2> HIDE DEF g
  <2>4. Len(reviews) \in Nat BY Sizes
  <2>5. [i \in 1 .. Len(reviews) |-> g(i)] \in Seq(ReviewRow) BY <2>3, <2>4, IsASeq
  <2> QED BY <2>3, <2>4, <2>5
<1>4. ReviewsKept' BY <1>1, <1>2, <1>3, ReviewsRewritten DEF GovIInv, ReviewsKept
<1>5. GateKept' BY <1>1, GateStays, Sizes DEF ApprovalRow
<1>6. SweepKept' BY <1>1, <1>3, Sizes, SweepStays DEF GovIInv, SweepKept
<1> QED BY <1>1, <1>2, <1>4, <1>5, <1>6, ReviewsMove

LEMMA ApproveReviewStep == ASSUME GovIInv, NEW q \in asked, ApproveReview(q) PROVE GovIInv'
<1> PICK r : r = q.row OBVIOUS
<1>1. /\ UNCHANGED <<reviewed, tally, absorbed, arrived, attempts, sweep, spent>>
      /\ asked' \subseteq asked /\ r \in 1 .. Len(reviews)
  BY DEF ApproveReview, GovIInv, ReviewsKept
<1>2. CASE Approve(r) \in keys
  <2>1. UNCHANGED <<reviews, approvals, keys, old>>
    BY <1>2 DEF ApproveReview
  <2>2. LedgerMoves /\ JournalKept'
    BY <1>1, <2>1 DEF LedgerMoves, GovIInv, JournalKept
  <2>3. ReviewsKept' BY <1>1, <2>1, <2>2, ReviewsStay DEF GovIInv, ReviewsKept
  <2>4. GateKept' BY <1>1, <2>1, GateStays, Sizes DEF ApprovalRow
  <2>5. SweepKept' BY <1>1, <2>1, Sizes, SweepStays DEF GovIInv, SweepKept
  <2> QED BY <1>1, <2>1, <2>2, <2>3, <2>4, <2>5, ReviewsMove
<1>3. CASE Approve(r) \notin keys
  <2>1. /\ reviews' = [reviews EXCEPT ![r].status = "approved", ![r].verdict = "approved"]
        /\ approvals' = [approvals EXCEPT ![r].manual = @ + 1]
        /\ Journal(Approve(r))
    BY <1>3 DEF ApproveReview
  <2>2. LedgerMoves /\ JournalKept'
    BY <1>1, <2>1 DEF LedgerMoves, Journal, GovIInv, JournalKept
  <2>3. /\ reviews' \in Seq(ReviewRow) /\ Len(reviews') = Len(reviews)
        /\ \A i \in 1 .. Len(reviews) : reviews'[i].key = reviews[i].key
    BY <1>1, <2>1, ReviewWritten DEF ReviewStatuses, Verdicts
  <2>10. /\ approvals' \in Seq(ApprovalRow) /\ Len(approvals') = Len(approvals)
         /\ \A i \in 1 .. Len(reviews) : i # r => approvals'[i] = approvals[i]
         /\ approvals'[r].auto = approvals[r].auto /\ approvals'[r].manual = approvals[r].manual + 1
    <3>1. approvals \in Seq(ApprovalRow) /\ r \in 1 .. Len(approvals) /\ Len(approvals) = Len(reviews)
      BY <1>1, Sizes DEF GovIInv, ReviewsKept
    <3>2. approvals' = [approvals EXCEPT ![r].manual = @ + 1] BY <2>1
    <3>3. approvals' \in Seq(ApprovalRow) /\ Len(approvals') = Len(approvals) BY <3>1, <3>2, ApprovalWritten
    <3>4. approvals'[r].auto = approvals[r].auto /\ approvals'[r].manual = approvals[r].manual + 1
      BY <3>1, <3>2, ApprovalWritten
    <3>5. \A i \in 1 .. Len(approvals) : i # r => approvals'[i] = approvals[i] BY <3>1, <3>2, ApprovalWritten
    <3> QED BY <3>1, <3>3, <3>4, <3>5
  <2> PICK f, n : f = approvals /\ n = approvals[r].manual OBVIOUS
  <2>4. /\ approvals' \in Seq(ApprovalRow) /\ Len(approvals') = Len(approvals)
        /\ \A i \in 1 .. Len(reviews) : i # r => approvals'[i] = f[i]
        /\ approvals'[r].auto = f[r].auto /\ approvals'[r].manual = n + 1
    BY <2>10
  <2>5. Counted(Approve(r), n + 1)'
    BY <1>1, <1>3, <2>1, CountedOnce, Sizes DEF GovIInv, ReviewsKept
  <2>6. \A i \in 1 .. Len(approvals') : Counted(Approve(i), approvals[i].manual)'
    <3> TAKE i \in 1 .. Len(approvals')
    <3> PICK m : m = approvals'[i].manual OBVIOUS
    <3>1. CASE i = r BY <2>4, <2>5, <3>1
    <3>2. CASE i # r
      <4>1. m = f[i].manual BY <2>4, <3>2, Sizes
      <4>2. Counted(Approve(i), m) BY <2>4, <4>1, Sizes DEF GovIInv, ReviewsKept
      <4>3. Counted(Approve(i), m)' BY <2>2, <4>2, CountedStays
      <4> QED BY <4>3
    <3> QED BY <3>1, <3>2
  <2>7. ReviewsKept'
    <3>1. \A k \in ClientKeys : IsFiniteSet(Of(k)') /\ Counted(ClientKey(k), Cardinality(Of(k)))'
      BY <2>2, <2>3, CountedReviewsStay
    <3> QED BY <1>1, <2>3, <2>4, <2>6, <3>1, Sizes DEF ReviewsKept, GovIInv
  <2>8. GateKept'
    <3>1. \A i \in DOMAIN approvals : i \in DOMAIN approvals' /\ approvals'[i].auto >= approvals[i].auto
                                      /\ approvals'[i].auto \in Nat
      <4> TAKE i \in DOMAIN approvals
      <4>1. i \in 1 .. Len(approvals) /\ i \in DOMAIN approvals' /\ approvals[i].auto \in Nat
        <5>1. i \in 1 .. Len(approvals) /\ approvals[i] \in ApprovalRow BY Sizes
        <5>2. approvals[i].auto \in Nat BY <5>1 DEF ApprovalRow
        <5> QED BY <2>4, <5>1, <5>2, Sizes
      <4>2. approvals'[i].auto = approvals[i].auto BY <2>4, <4>1, Sizes
      <4> QED BY <4>1, <4>2
    <3> QED BY <1>1, <3>1, GateStays
  <2>9. SweepKept'
    <3>1. sweep.at = "absorb" => \A e \in sweep.rows : ExtractKey(e) \notin keys'
      BY <2>1, KeysApart DEF Journal, GovIInv, SweepKept
    <3> QED BY <1>1, <2>3, <3>1, Sizes, SweepStays
  <2> QED BY <1>1, <2>1, <2>2, <2>7, <2>8, <2>9, KeysApart, ReviewsMove DEF Journal
<1> QED BY <1>2, <1>3

\* A review is added: the client that asked for it had not yet, as far as the journal knows.
LEMMA ReviewAdded ==
  ASSUME GovIInv, LedgerMoves, NEW x \in ReviewRow, AddReview(x), asked' = asked,
         \/ x.key = "none"
         \/ ClientKey(x.key) \notin keys /\ Journal(ClientKey(x.key)) /\ spent'.prunes = spent.prunes
  PROVE  /\ ReviewsKept'
         /\ Len(reviews') = Len(reviews) + 1
         /\ \A r \in DOMAIN approvals : r \in DOMAIN approvals' /\ approvals'[r].auto >= approvals[r].auto
                                        /\ approvals'[r].auto \in Nat
<1> DEFINE z == [auto |-> 0, manual |-> 0]
<1> PICK f, g, n : f = reviews /\ g = approvals /\ n = Len(reviews) OBVIOUS
<1>1. reviews' = Append(f, x) /\ approvals' = Append(g, z)
  BY DEF AddReview
<1>2. /\ f \in Seq(ReviewRow) /\ g \in Seq(ApprovalRow) /\ n \in Nat
      /\ Len(f) = n /\ Len(g) = n /\ DOMAIN f = 1 .. n /\ DOMAIN g = 1 .. n
  BY Sizes DEF GovIInv, ReviewsKept
<1>3. z \in ApprovalRow /\ z.manual = 0 /\ z.auto = 0
  BY DEF ApprovalRow
<1> HIDE DEF z
<1>4. /\ reviews' \in Seq(ReviewRow) /\ Len(reviews') = n + 1 /\ DOMAIN reviews' = 1 .. n + 1
      /\ reviews'[n + 1] = x /\ \A i \in 1 .. n : reviews'[i] = f[i]
  BY <1>1, <1>2
<1>5. /\ approvals' \in Seq(ApprovalRow) /\ Len(approvals') = n + 1 /\ DOMAIN approvals' = 1 .. n + 1
      /\ approvals'[n + 1] = z /\ \A i \in 1 .. n : approvals'[i] = g[i]
  BY <1>1, <1>2, <1>3
<1>6. \A i \in 1 .. n : g[i].auto \in Nat
  BY <1>2, Sizes DEF ApprovalRow
<1>7. 1 .. n + 1 = (1 .. n) \cup {n + 1} /\ n + 1 \notin 1 .. n
  BY <1>2
<1>8. \A r \in DOMAIN approvals : r \in DOMAIN approvals' /\ approvals'[r].auto >= approvals[r].auto
                                  /\ approvals'[r].auto \in Nat
  <2> TAKE r \in DOMAIN approvals
  <2>1. r \in 1 .. n BY <1>2
  <2>2. approvals'[r] = approvals[r] /\ approvals[r].auto \in Nat BY <1>5, <1>6, <2>1
  <2> QED BY <1>5, <1>7, <2>1, <2>2
<1>9. \A r \in 1 .. Len(approvals') : Counted(Approve(r), approvals[r].manual)'
  <2> TAKE r \in 1 .. Len(approvals')
  <2> PICK m : m = approvals'[r].manual OBVIOUS
  <2>1. CASE r \in 1 .. n
    <3>1. m = approvals[r].manual BY <1>5, <2>1
    <3>2. Counted(Approve(r), m) BY <1>2, <2>1, <3>1 DEF GovIInv, ReviewsKept
    <3>3. Counted(Approve(r), m)' BY <3>2, CountedStays
    <3> QED BY <3>3
  <2>2. CASE r = n + 1
    <3>1. m = 0 BY <1>3, <1>5, <2>2
    <3>2. Counted(Approve(r), m) BY <3>1, Sizes DEF Counted
    <3>3. Counted(Approve(r), m)' BY <3>2, CountedStays
    <3> QED BY <3>3
  <2> QED BY <1>5, <1>7, <2>1, <2>2
<1>10. ASSUME NEW k \in ClientKeys PROVE IsFiniteSet(Of(k)') /\ Counted(ClientKey(k), Cardinality(Of(k)))'
  <2> PICK S, c : S = Of(k) /\ c = Cardinality(Of(k)) OBVIOUS
  <2>1. IsFiniteSet(S) /\ Counted(ClientKey(k), c) /\ c = Cardinality(S) /\ n + 1 \notin S
    BY <1>2, <1>7 DEF GovIInv, ReviewsKept, Of
  <2>2. CASE x.key # k
    <3>1. Of(k)' = S
      BY <1>2, <1>4, <1>7, <2>2 DEF Of
    <3>2. Counted(ClientKey(k), c)' BY <2>1, CountedStays
    <3>3. c = Cardinality(Of(k)') BY <2>1, <3>1
    <3> QED BY <2>1, <3>1, <3>2, <3>3
  <2>3. CASE x.key = k
    <3>1. Of(k)' = S \cup {n + 1}
      BY <1>2, <1>4, <1>7, <2>3 DEF Of
    <3>2. IsFiniteSet(S \cup {n + 1}) /\ Cardinality(S \cup {n + 1}) = c + 1
      <4> PICK z1 : z1 = n + 1 OBVIOUS
      <4>1. IsFiniteSet(S) /\ z1 \notin S /\ c = Cardinality(S) BY <2>1
      <4>2. IsFiniteSet(S \cup {z1}) /\ Cardinality(S \cup {z1}) = Cardinality(S) + 1
        BY <4>1, FS_AddElement
      <4> QED BY <4>1, <4>2
    <3>3. k # "none" BY GovernanceAssumption
    <3>4. Counted(ClientKey(k), c + 1)' BY <2>1, <2>3, <3>3, CountedOnce
    <3>5. c + 1 = Cardinality(Of(k)') BY <3>1, <3>2
    <3> QED BY <3>1, <3>2, <3>4, <3>5
  <2> QED BY <2>2, <2>3
<1>11. \A q \in asked' : q.row \in 1 .. Len(reviews')
  BY <1>2, <1>4, <1>7 DEF GovIInv, ReviewsKept
<1> QED BY <1>4, <1>5, <1>8, <1>9, <1>10, <1>11 DEF ReviewsKept

LEMMA PeriodicStep == ASSUME GovIInv, Periodic PROVE GovIInv'
<1>1. /\ UNCHANGED <<reviewed, tally, absorbed, arrived, attempts, keys, old, asked, spent>>
      /\ sweep' = [at |-> "pending", rows |-> {}]
      /\ UNCHANGED <<reviews, approvals>> \/ AddReview(Review("integrated", "informational"))
  BY DEF Periodic, Next1
<1>2. LedgerMoves /\ JournalKept'
  BY <1>1 DEF LedgerMoves, GovIInv, JournalKept
<1>3. SweepKept' BY <1>1, SweepStarts
<1>4. ReviewsKept' /\ GateKept'
  <2>1. CASE UNCHANGED <<reviews, approvals>>
    <3>1. ReviewsKept' BY <1>1, <1>2, <2>1, ReviewsStay DEF GovIInv, ReviewsKept
    <3>2. GateKept' BY <1>1, <2>1, GateStays, Sizes DEF ApprovalRow
    <3> QED BY <3>1, <3>2
  <2>2. CASE AddReview(Review("integrated", "informational"))
    <3> PICK x : x = Review("integrated", "informational") OBVIOUS
    <3>1. x \in ReviewRow /\ x.key = "none" /\ AddReview(x)
      BY <2>2 DEF Review, ReviewRow, ReviewStatuses, Verdicts
    <3>2. /\ ReviewsKept'
          /\ \A r \in DOMAIN approvals : r \in DOMAIN approvals' /\ approvals'[r].auto >= approvals[r].auto
                                         /\ approvals'[r].auto \in Nat
      BY <1>1, <1>2, <3>1, ReviewAdded
    <3> QED BY <1>1, <3>2, GateStays
  <2> QED BY <1>1, <2>1, <2>2
<1> QED BY <1>1, <1>2, <1>3, <1>4, ReviewsMove

LEMMA CreateReviewStep == ASSUME GovIInv, NEW k \in ClientKeys, CreateReview(k) PROVE GovIInv'
<1> PICK x : x = [Review("scheduled", "none") EXCEPT !.key = k] OBVIOUS
<1>1. /\ UNCHANGED <<reviewed, tally, absorbed, arrived, attempts, sweep, asked, spent>>
      /\ ClientKey(k) \notin keys /\ Journal(ClientKey(k)) /\ AddReview(x)
  BY DEF CreateReview
<1>2. x \in ReviewRow /\ x.key = k
  BY DEF Review, ReviewRow, ReviewStatuses, Verdicts
<1>3. LedgerMoves /\ JournalKept'
  BY <1>1 DEF LedgerMoves, Journal, GovIInv, JournalKept
<1>4. /\ ReviewsKept' /\ Len(reviews') = Len(reviews) + 1
      /\ \A r \in DOMAIN approvals : r \in DOMAIN approvals' /\ approvals'[r].auto >= approvals[r].auto
                                     /\ approvals'[r].auto \in Nat
  BY <1>1, <1>2, <1>3, ReviewAdded
<1>5. GateKept' BY <1>1, <1>4, GateStays
<1>6. SweepKept'
  <2>1. sweep.at = "absorb" => \A e \in sweep.rows : ExtractKey(e) \notin keys'
    BY <1>1, KeysApart DEF Journal, GovIInv, SweepKept
  <2> QED BY <1>1, <1>4, <2>1, Sizes, SweepStays
<1> QED BY <1>1, <1>3, <1>4, <1>5, <1>6, KeysApart, ReviewsMove DEF Journal

-----------------------------------------------------------------------------
LEMMA GovInitIInv == GovInit => GovIInv
<1> SUFFICES ASSUME GovInit PROVE GovIInv OBVIOUS
<1> USE DEF GovInit
<1>1. JournalKept BY DEF JournalKept
<1>2. ReviewsKept
  <2>1. Len(reviews) = 0 /\ Len(approvals) = 0 /\ reviews \in Seq(ReviewRow) /\ approvals \in Seq(ApprovalRow)
        /\ 1 .. 0 = {} /\ DOMAIN reviews = {}
    OBVIOUS
  <2>2. \A k \in ClientKeys : Of(k) = {} BY <2>1 DEF Of
  <2>3. \A k \in ClientKeys : IsFiniteSet(Of(k)) /\ Cardinality(Of(k)) = 0 BY <2>2, FS_EmptySet
  <2> QED BY <2>1, <2>3 DEF ReviewsKept, Counted
<1>3. ExtractsKept BY DEF ExtractsKept, Counted
<1>4. GateKept BY DEF GateKept, GateNeedsApproval
<1>5. SweepKept BY DEF SweepKept, Start
<1>6. AttemptsKept BY DEF AttemptsKept
<1> QED BY <1>1, <1>2, <1>3, <1>4, <1>5, <1>6 DEF GovIInv

LEMMA GovStutters == ASSUME GovIInv, UNCHANGED govVars PROVE GovIInv'
<1>1. UNCHANGED <<reviews, approvals, reviewed, tally, absorbed, arrived, attempts, keys, old, sweep, asked, spent>>
  BY DEF govVars
<1>2. SweepKept' BY <1>1, Sizes, SweepStays DEF GovIInv, SweepKept
<1> QED BY <1>1, <1>2, OnlyTheSweep

LEMMA GovSteps == GovIInv /\ [GovNext]_govVars => GovIInv'
<1> SUFFICES ASSUME GovIInv, GovNext \/ UNCHANGED govVars PROVE GovIInv' OBVIOUS
<1>1. CASE Sweeps
  BY <1>1, SelectExtractsStep, PeriodicStep, SelectPendingStep, AutoApprovalStep, AbsorbStep, ReadStatsStep,
     TickEndsStep, DriftStep, PruneJournalStep, PruneAttemptsStep DEF Sweeps
<1>2. CASE Requests
  BY <1>2, CreateReviewStep, ApproveReviewStep, OthersStep, PatchReviewStep DEF Requests
<1>3. CASE GovNext /\ ~Sweeps /\ ~Requests
  BY <1>3, OthersStep, StartAttemptStep, EndAttemptStep, WaitStep, TimeStep, TickEndsStep DEF GovNext
<1> QED BY <1>1, <1>2, <1>3, GovStutters

LEMMA GovIInvImplies == GovIInv => GovTypeOK /\ OncePerKey /\ GateNeedsApproval /\ NextAttemptIsFree
<1> SUFFICES ASSUME GovIInv PROVE GovTypeOK /\ OncePerKey /\ GateNeedsApproval /\ NextAttemptIsFree OBVIOUS
<1>1. GovTypeOK
  BY Sizes DEF GovTypeOK, ReviewRow, GovIInv, GateKept, JournalKept
<1>2. OncePerKey
  <2>1. \A k, n : Counted(k, n) => n <= 1 + spent.prunes
    BY Sizes DEF Counted
  <2> QED BY <2>1, Sizes DEF OncePerKey, GovIInv, ExtractsKept, ReviewsKept, Of
<1>3. NextAttemptIsFree
  <2> SUFFICES ASSUME AttemptKey(NextIndex) \in keys, ~(spent.weeks + spent.prunes > 0) PROVE FALSE
    BY DEF NextAttemptIsFree
  <2>1. spent.weeks + spent.prunes = 0 BY Sizes
  <2>2. NextIndex \in Nat /\ \A a \in attempts : a.index < NextIndex /\ a.index \in Nat
    BY NextIndexIsNew DEF GovIInv, AttemptsKept
  <2>3. \E a \in attempts : a.index = NextIndex
    BY <2>1, <2>2 DEF GovIInv, AttemptsKept
  <2> QED BY <2>2, <2>3
<1> QED BY <1>1, <1>2, <1>3 DEF GovIInv, GateKept

LEMMA RunningStay == GovIInv /\ [GovNext]_govVars =>
                       [\A a \in attempts : ~a.done => \E b \in attempts' : b.index = a.index]_govVars
<1> SUFFICES ASSUME GovIInv, GovNext, NEW a \in attempts, ~a.done
             PROVE  \E b \in attempts' : b.index = a.index
  OBVIOUS
<1>1. a \in [index : 1 .. MaxAttempts, done : BOOLEAN, old : BOOLEAN] /\ ~a.old
  BY DEF GovIInv, AttemptsKept
<1>2. CASE attempts \subseteq attempts'
  BY <1>2
<1>3. CASE attempts' = {c \in attempts : ~c.old}
  BY <1>1, <1>3
<1>4. CASE attempts' = {[c EXCEPT !.done = TRUE] : c \in attempts}
  <2>1. [a EXCEPT !.done = TRUE] \in attempts' /\ [a EXCEPT !.done = TRUE].index = a.index BY <1>1, <1>4
  <2> QED BY <2>1
<1>5. CASE attempts' = {[c EXCEPT !.old = c.done] : c \in attempts}
  <2>1. [a EXCEPT !.old = a.done] \in attempts' /\ [a EXCEPT !.old = a.done].index = a.index BY <1>1, <1>5
  <2> QED BY <2>1
<1>6. \/ attempts \subseteq attempts'
      \/ attempts' = {c \in attempts : ~c.old}
      \/ attempts' = {[c EXCEPT !.done = TRUE] : c \in attempts}
      \/ attempts' = {[c EXCEPT !.old = c.done] : c \in attempts}
  <2>1. CASE Sweeps
    BY <2>1 DEF Sweeps, SelectExtracts, Periodic, SelectPending, AutoApproval, Absorb, ReadStats, DetectConflicts,
       Drift, PruneJournal, SkipRetention, PruneAttempts
  <2>2. CASE Requests
    BY <2>2 DEF Requests, CreateReview, ApproveReview, AskApproval, PatchReview
  <2>3. CASE GovNext /\ ~Sweeps /\ ~Requests
    BY <2>3 DEF GovNext, TaskEnds, ExtractArrives, EditObjective, StartAttempt, EndAttempt, Wait, Week, Month, TickFails
  <2> QED BY <2>1, <2>2, <2>3
<1> QED BY <1>2, <1>3, <1>4, <1>5, <1>6

\* Whatever requests, restarts and retention do beside the tick, what a journal key makes
\* happen happens once for each time it is journalled, gates rest on approvals of
\* objectives with a success, an executor finds a free attempt number, and no attempt at
\* work is deleted.
THEOREM GovernanceSound == GovSpec => GovernanceHolds
<1>1. GovInit => GovIInv
  BY GovInitIInv
<1>2. GovIInv /\ [GovNext]_govVars => GovIInv'
  BY GovSteps
<1>3. GovIInv => GovTypeOK /\ OncePerKey /\ GateNeedsApproval /\ NextAttemptIsFree
  BY GovIInvImplies
<1>4. GovIInv /\ [GovNext]_govVars =>
        [\A a \in attempts : ~a.done => \E b \in attempts' : b.index = a.index]_govVars
  BY RunningStay
<1> QED BY <1>1, <1>2, <1>3, <1>4, PTL DEF GovSpec, GovernanceHolds, RunningAttemptsStay
=============================================================================
