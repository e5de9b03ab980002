------------------------ MODULE CertificationProofs ------------------------
(***************************************************************************)
(* Proofs about Certification, for every number of tasks, submissions,      *)
(* clients and failures: CertInv is an invariant, and verdicts are final.   *)
(*                                                                          *)
(* What makes CertInv hold is the one loop runner: it is the only one to    *)
(* write status, effect and certificate of a row, and CertIInv says what    *)
(* the runner may rely on between its statements.  The rows it selected are *)
(* still pending (QueueOK) or still valid (DriftRows), whatever requests    *)
(* and workers did since; the row it works on is the one in processing.     *)
(***************************************************************************)
EXTENDS Certification, FiniteSetTheorems, SequenceTheorems, WellFoundedInduction, TLAPS

Stages == {"sweep", "config", "select", "row", "mode", "run", "record",
           "drift", "stale", "invalidate", "resubmit", "event"}

Candidates == [task : Tasks, blank : BOOLEAN]

\* What every variable may hold.
EnvTypes ==
  /\ policy \in Policies
  /\ done \in [Tasks -> 0 .. MaxSuccesses]
  /\ checks \subseteq [task : Tasks, attempt : 1 .. MaxSuccesses, at : {"policy", "insert"}]
  /\ requests \subseteq Clients \cup Policies
  /\ spent \in [changes : Nat, patches : Nat, crashes : Nat, lookups : Nat]
RowTypes ==
  /\ cands \in Seq(Candidates)
  /\ subs \in Seq(SubRows)
  /\ \A s \in DOMAIN subs : subs[s].cand \in DOMAIN cands
  /\ lane \in [Tasks -> {"branch", "mainline_candidate"}]
RunnerTypes ==
  /\ runner \in [at : Stages, pass : {1, 2}, rows : SUBSET Nat, dual : BOOLEAN, res : Seq(Outcomes)]
  /\ runner.rows \subseteq DOMAIN subs

\* Candidates without a submission come from certificates taken back.
StaleRows == {s \in DOMAIN subs : subs[s].ref = "stale"}
Resubmitting == runner.at \in {"invalidate", "resubmit"}
CandsBounded ==
  Len(cands) + (IF Resubmitting THEN 1 ELSE 0) <= Len(subs) + Cardinality(StaleRows)

\* The rows the queue has read are as it read them, but for the one it is at.
AtWork == runner.at \in {"mode", "run", "record"}
QueueOK ==
  /\ runner.at \in {"sweep", "config", "select", "drift"} => runner.rows = {}
  /\ runner.at = "row" => \A s \in runner.rows : subs[s].status = "pending"
  /\ AtWork => /\ runner.rows # {}
               /\ subs[Row].status = "processing"
               /\ \A s \in runner.rows \ {Row} : subs[s].status = "pending"

\* The same for the certificates the drift check has read.
DriftRows ==
  /\ runner.at = "stale" => /\ runner.rows # {}
                            /\ \A s \in runner.rows : subs[s].ref = "valid"
  /\ runner.at \in {"invalidate", "resubmit", "event"} =>
       /\ runner.rows # {}
       /\ subs[Row].ref = "stale"
       /\ \A s \in runner.rows \ {Row} : subs[s].ref = "valid"

\* The row in processing is the one the runner works on, or it is stranded.
InProcessing ==
  \A s \in DOMAIN subs : subs[s].status = "processing" =>
    \/ AtWork /\ Row = s
    \/ subs[s].diverged
    \/ spent.crashes > 0

\* One formalizer runs for a self-improvement objective only after a failed lookup.
SingleIsDenied ==
  runner.at \in {"run", "record"} /\ ~runner.dual /\ TaskOf(Row) \in SelfImproving =>
    spent.lookups > 0

CertIInv ==
  /\ EnvTypes
  /\ RowTypes
  /\ RunnerTypes
  /\ CandsBounded
  /\ QueueOK
  /\ DriftRows
  /\ InProcessing
  /\ SingleIsDenied
  /\ VerdictConsistent
  /\ PromotionIsEarned
  /\ SubmittedOnce
  /\ StaleIsRecorded
-----------------------------------------------------------------------------
(* Facts about the operators *)

\* A set of numbers that is not empty has a least one.
LEMMA LeastElement ==
  ASSUME NEW S, S \subseteq Nat, S # {}
  PROVE  Min(S) \in S
<1>1. \E R : /\ IsWellFoundedOn(R, Nat)
             /\ \A x, y \in Nat : x < y => <<x, y>> \in R
  BY NatLessThanWellFounded, Z3 DEF OpToRel
<1>2. SUFFICES ASSUME NEW R, IsWellFoundedOn(R, Nat),
                      \A x, y \in Nat : x < y => <<x, y>> \in R
               PROVE  Min(S) \in S
  BY <1>1
<1>3. \E x \in S : \A y \in S : ~ (<<y, x>> \in R)
  <2>1. \A RR, SS : IsWellFoundedOn(RR, SS) =>
          \A T : T \subseteq SS /\ T # {} => \E x \in T : \A y \in T : ~ (<<y, x>> \in RR)
    BY WFMin, Zenon
  <2>2. \A T : T \subseteq Nat /\ T # {} => \E x \in T : \A y \in T : ~ (<<y, x>> \in R)
    BY <1>2, <2>1, Zenon
  <2> QED BY <2>2
<1>4. PICK x \in S : \A y \in S : ~ (<<y, x>> \in R) BY <1>3
<1>5. \A y \in S : x <= y
  <2> TAKE y \in S
  <2>1. y \in Nat /\ x \in Nat OBVIOUS
  <2>2. ~(y < x) BY <1>4, <1>2, <2>1
  <2> QED BY <2>1, <2>2
<1> QED BY <1>5 DEF Min

\* The runner's row is one of those it selected.
LEMMA RowIsRead ==
  ASSUME RowTypes, RunnerTypes, runner.rows # {}
  PROVE  Row \in runner.rows /\ Row \in DOMAIN subs
BY LeastElement DEF RowTypes, RunnerTypes, Row

\* No more certificates are taken back than there are submissions.
LEMMA StaleCount ==
  ASSUME RowTypes
  PROVE  /\ IsFiniteSet(StaleRows)
         /\ Cardinality(StaleRows) \in Nat
         /\ Cardinality(StaleRows) <= Len(subs)
<1>1. Len(subs) \in Nat /\ DOMAIN subs = 1 .. Len(subs) BY DEF RowTypes
<1>2. IsFiniteSet(1 .. Len(subs)) /\ Cardinality(1 .. Len(subs)) = Len(subs)
  <2>1. \A n \in Nat : IsFiniteSet(1 .. n) /\ Cardinality(1 .. n) = n
    BY FS_Interval
  <2> QED BY <1>1, <2>1
<1>3. StaleRows \subseteq 1 .. Len(subs) BY <1>1 DEF StaleRows
<1>4. IsFiniteSet(StaleRows) /\ Cardinality(StaleRows) <= Cardinality(1 .. Len(subs))
  BY <1>2, <1>3, FS_Subset
<1> QED BY <1>2, <1>4, FS_CardinalityType

\* Two versions of a row that differ in what drift looks at, if at all.
SameButFlags(q, r) ==
  /\ q.cand = r.cand /\ q.key = r.key
  /\ q.status = r.status /\ q.effect = r.effect /\ q.ref = r.ref
  /\ q.recorded = r.recorded /\ q.agreed = r.agreed /\ q.diverged = r.diverged

\* An update of a node touches the flags of certificates only.
LEMMA OutdateRows ==
  ASSUME NEW q \in Seq(SubRows), NEW t
  PROVE  /\ Outdate(q, t) \in Seq(SubRows)
         /\ DOMAIN Outdate(q, t) = DOMAIN q
         /\ \A s \in DOMAIN q : SameButFlags(Outdate(q, t)[s], q[s])
<1>1. \A s \in DOMAIN q : q[s] \in SubRows BY ElementOfSeq
<1>2. \A s \in DOMAIN q : Outdate(q, t)[s] \in SubRows /\ SameButFlags(Outdate(q, t)[s], q[s])
  <2> TAKE s \in DOMAIN q
  <2> DEFINE b == q[s].changed \/ (q[s].ref = "valid" /\ t \in Upstream[cands[q[s].cand].task])
  <2>1. b \in BOOLEAN BY <1>1, Zenon DEF SubRows
  <2>2. Outdate(q, t)[s] = [q[s] EXCEPT !.changed = b] BY Zenon DEF Outdate
  <2> HIDE DEF b
  <2> QED BY <1>1, <2>1, <2>2 DEF SubRows, SameButFlags
<1>3. DOMAIN Outdate(q, t) = DOMAIN q BY DEF Outdate
<1>4. DOMAIN q = 1 .. Len(q) /\ Len(q) \in Nat OBVIOUS
<1>5. Outdate(q, t) = [s \in 1 .. Len(q) |-> Outdate(q, t)[s]] BY <1>4 DEF Outdate
<1>6. Outdate(q, t) \in [1 .. Len(q) -> SubRows] BY <1>2, <1>4, <1>5
<1> QED BY <1>2, <1>3, <1>4, <1>6

-----------------------------------------------------------------------------
(* What the invariant rests on *)

\* A step that touches at most the flags of the rows, while the runner stays where it
\* is, disturbs nothing.
LEMMA FlagsOnly ==
  ASSUME CertIInv, EnvTypes', subs' \in Seq(SubRows), DOMAIN subs' = DOMAIN subs,
         \A s \in DOMAIN subs : SameButFlags(subs'[s], subs[s]),
         UNCHANGED <<cands, lane, runner>>,
         spent.crashes <= spent'.crashes, spent.lookups <= spent'.lookups
  PROVE  CertIInv'
<1> USE DEF SameButFlags
<1>1. RowTypes' BY DEF CertIInv, RowTypes
<1>2. RunnerTypes' BY DEF CertIInv, RunnerTypes
<1>3. Row' = Row /\ runner' = runner BY DEF Row
<1>4. StaleRows' = StaleRows /\ Len(subs') = Len(subs)
  <2>1. StaleRows' = StaleRows BY DEF StaleRows
  <2> QED BY <2>1 DEF CertIInv, RowTypes
<1>5. CandsBounded' BY <1>4 DEF CertIInv, CandsBounded, Resubmitting
<1>6. \A s \in DOMAIN subs : subs'[s].cand = subs[s].cand OBVIOUS
<1>7. runner.rows # {} => Row \in DOMAIN subs BY RowIsRead DEF CertIInv
<1>8. QueueOK' BY <1>3, <1>7 DEF CertIInv, QueueOK, AtWork, RunnerTypes
<1>9. DriftRows' BY <1>3, <1>7 DEF CertIInv, DriftRows, RunnerTypes
<1>10. spent.crashes \in Nat /\ spent'.crashes \in Nat /\ spent.lookups \in Nat /\ spent'.lookups \in Nat
  BY DEF CertIInv, EnvTypes
<1>11. InProcessing' BY <1>3, <1>10 DEF CertIInv, InProcessing, AtWork
<1>12. SingleIsDenied'
  <2> SUFFICES ASSUME runner.at \in {"run", "record"}, ~runner.dual, TaskOf(Row)' \in SelfImproving
               PROVE  spent'.lookups > 0
    BY <1>3 DEF SingleIsDenied
  <2>1. runner.rows # {} BY DEF CertIInv, QueueOK, AtWork
  <2>2. TaskOf(Row)' = TaskOf(Row) BY <1>3, <1>6, <1>7, <2>1 DEF TaskOf
  <2>3. spent.lookups > 0 BY <2>2 DEF CertIInv, SingleIsDenied
  <2> QED BY <2>3, <1>10
<1>13. VerdictConsistent' BY DEF CertIInv, VerdictConsistent
<1>14. PromotionIsEarned'
  <2> SUFFICES ASSUME NEW t \in Tasks, lane[t] = "mainline_candidate"
               PROVE  \E s \in SubsOf(t)' : /\ subs'[s].effect = "admit"
                                            /\ t \in SelfImproving => subs'[s].agreed \/ spent'.lookups > 0
    BY DEF PromotionIsEarned
  <2>1. PICK s \in SubsOf(t) : /\ subs[s].effect = "admit"
                               /\ t \in SelfImproving => subs[s].agreed \/ spent.lookups > 0
    BY DEF CertIInv, PromotionIsEarned
  <2>2. s \in DOMAIN subs /\ s \in SubsOf(t)' BY <1>6 DEF SubsOf, TaskOf
  <2>3. subs'[s].effect = "admit" BY <2>1, <2>2
  <2>4. ASSUME t \in SelfImproving PROVE subs'[s].agreed \/ spent'.lookups > 0
    BY <2>1, <2>2, <2>4, <1>10
  <2> QED BY <2>2, <2>3, <2>4
<1>15. SubmittedOnce' BY DEF CertIInv, SubmittedOnce
<1>16. StaleIsRecorded' BY <1>3, <1>10 DEF CertIInv, StaleIsRecorded
<1> QED BY <1>1, <1>2, <1>5, <1>8, <1>9, <1>11, <1>12, <1>13, <1>14, <1>15, <1>16 DEF CertIInv

\* A submission is appended together with its candidate.
LEMMA Enqueues ==
  ASSUME CertIInv, NEW cand \in Candidates,
         NEW k \in {c.key : c \in Clients} \cup (Tasks \X (1 .. MaxSuccesses)),
         ~HasKey(k), Len(subs) < MaxSubs, Enqueue(cand, k),
         EnvTypes', UNCHANGED <<lane, runner, spent>>
  PROVE  CertIInv'
<1> DEFINE n == Len(subs) + 1
           new == Pending(Len(cands) + 1, k)
<1>1. /\ cands \in Seq(Candidates) /\ subs \in Seq(SubRows)
      /\ Len(cands) \in Nat /\ Len(subs) \in Nat
      /\ DOMAIN cands = 1 .. Len(cands) /\ DOMAIN subs = 1 .. Len(subs)
  BY DEF CertIInv, RowTypes
<1>2. Len(cands) <= Len(subs) + Len(subs)
  <2>1. Cardinality(StaleRows) \in Nat /\ Cardinality(StaleRows) <= Len(subs)
    BY StaleCount DEF CertIInv
  <2> QED BY <1>1, <2>1 DEF CertIInv, CandsBounded
<1>3. Len(cands) + 1 \in 1 .. MaxSubs * 2
  <2>1. MaxSubs \in Nat BY CertAssumption
  <2> QED BY <1>1, <1>2, <2>1
<1>4. new \in SubRows
  BY <1>3 DEF SubRows, Pending
<1>5. /\ cands' = Append(cands, cand) /\ subs' = Append(subs, new)
  BY DEF Enqueue
<1> HIDE DEF new
<1>6. /\ cands' \in Seq(Candidates) /\ Len(cands') = Len(cands) + 1
      /\ \A i \in DOMAIN cands : i \in DOMAIN cands' /\ cands'[i] = cands[i]
      /\ cands'[Len(cands) + 1] = cand
      /\ Len(cands) + 1 \in DOMAIN cands'
  BY <1>1, <1>5, AppendProperties
<1>7. /\ subs' \in Seq(SubRows) /\ Len(subs') = n
      /\ DOMAIN subs' = DOMAIN subs \cup {n} /\ n \notin DOMAIN subs
      /\ \A s \in DOMAIN subs : subs'[s] = subs[s]
      /\ subs'[n] = new
  BY <1>1, <1>4, <1>5, AppendProperties
<1>8. /\ new.cand = Len(cands) + 1 /\ new.key = k /\ new.status = "pending"
      /\ new.effect = "none" /\ new.ref = "none"
  BY DEF new, Pending
<1>9. Row' = Row /\ runner' = runner BY DEF Row
<1>10. runner.rows # {} => Row \in DOMAIN subs BY RowIsRead DEF CertIInv
<1>11. RowTypes'
  <2>1. \A s \in DOMAIN subs' : subs'[s].cand \in DOMAIN cands'
    BY <1>6, <1>7, <1>8 DEF CertIInv, RowTypes
  <2> QED BY <1>6, <1>7, <2>1 DEF CertIInv, RowTypes
<1>12. RunnerTypes' BY <1>7 DEF CertIInv, RunnerTypes
<1>13. CandsBounded'
  <2>1. StaleRows' = StaleRows BY <1>7, <1>8 DEF StaleRows
  <2>2. Cardinality(StaleRows) \in Nat BY StaleCount DEF CertIInv
  <2>3. Len(cands') = Len(cands) + 1 /\ Len(subs') = Len(subs) + 1 BY <1>6, <1>7
  <2> QED BY <1>1, <2>1, <2>2, <2>3 DEF CertIInv, CandsBounded, Resubmitting
<1>14. QueueOK' BY <1>7, <1>9, <1>10 DEF CertIInv, QueueOK, AtWork, RunnerTypes
<1>15. DriftRows'
  <2>1. \A s \in runner.rows : subs'[s] = subs[s] BY <1>7 DEF CertIInv, RunnerTypes
  <2> QED BY <1>9, <1>10, <1>7, <2>1 DEF CertIInv, DriftRows
<1>16. InProcessing' BY <1>7, <1>8, <1>9 DEF CertIInv, InProcessing, AtWork
<1>17. \A s \in DOMAIN subs : TaskOf(s)' = TaskOf(s)
  BY <1>6, <1>7 DEF TaskOf, CertIInv, RowTypes
<1>18. SingleIsDenied'
  <2> SUFFICES ASSUME runner.at \in {"run", "record"}, ~runner.dual, TaskOf(Row)' \in SelfImproving
               PROVE  spent.lookups > 0
    BY <1>9 DEF SingleIsDenied
  <2>1. runner.rows # {} BY DEF CertIInv, QueueOK, AtWork
  <2>2. TaskOf(Row)' = TaskOf(Row)
    <3>1. PICK r \in DOMAIN subs : r = Row BY <2>1, <1>10
    <3>2. TaskOf(r)' = TaskOf(r) BY <1>17
    <3> QED BY <3>1, <3>2, <1>9 DEF TaskOf
  <2> QED BY <2>2 DEF CertIInv, SingleIsDenied
<1>19. VerdictConsistent' BY <1>7, <1>8 DEF CertIInv, VerdictConsistent
<1>20. PromotionIsEarned'
  <2> SUFFICES ASSUME NEW t \in Tasks, lane[t] = "mainline_candidate"
               PROVE  \E s \in SubsOf(t)' : /\ subs'[s].effect = "admit"
                                            /\ t \in SelfImproving => subs'[s].agreed \/ spent.lookups > 0
    BY DEF PromotionIsEarned
  <2>1. PICK s \in SubsOf(t) : /\ subs[s].effect = "admit"
                               /\ t \in SelfImproving => subs[s].agreed \/ spent.lookups > 0
    BY DEF CertIInv, PromotionIsEarned
  <2>2. s \in DOMAIN subs /\ TaskOf(s)' = t BY <1>17 DEF SubsOf
  <2>3. s \in SubsOf(t)' /\ subs'[s] = subs[s] BY <1>7, <2>2 DEF SubsOf
  <2> QED BY <2>1, <2>3
<1>21. SubmittedOnce' BY <1>7, <1>8 DEF CertIInv, SubmittedOnce, HasKey
<1>22. StaleIsRecorded' BY <1>7, <1>8, <1>9 DEF CertIInv, StaleIsRecorded
<1> QED
  BY <1>11, <1>12, <1>13, <1>14, <1>15, <1>16, <1>18, <1>19, <1>20, <1>21, <1>22 DEF CertIInv

-----------------------------------------------------------------------------
(* Requests, workers and other modules *)

\* What the world around the loop runner does.
World ==
  \/ Check \/ Request \/ WorkersRestart
  \/ \E t \in Tasks, byApi \in BOOLEAN : Succeed(t, byApi)
  \/ \E t \in Tasks : UpdateNode(t)

\* None of it disturbs what the runner has read.
LEMMA WorldKeeps == CertIInv /\ World => CertIInv'
<1> SUFFICES ASSUME CertIInv, World PROVE CertIInv' OBVIOUS
<1>0. EnvTypes /\ subs \in Seq(SubRows) BY DEF CertIInv, RowTypes
<1>1. ASSUME UNCHANGED <<cands, subs, lane, runner>>, EnvTypes',
             spent.crashes <= spent'.crashes, spent.lookups <= spent'.lookups
      PROVE  CertIInv'
  <2>1. \A s \in DOMAIN subs : SameButFlags(subs'[s], subs[s]) BY <1>1 DEF SameButFlags
  <2> QED BY <1>0, <1>1, <2>1, FlagsOnly
<1>2. ASSUME NEW t \in Tasks, subs' = Outdate(subs, t), UNCHANGED <<cands, lane, runner>>, EnvTypes',
             spent.crashes <= spent'.crashes, spent.lookups <= spent'.lookups
      PROVE  CertIInv'
  <2>1. PICK q : q = Outdate(subs, t) OBVIOUS
  <2>2. /\ q \in Seq(SubRows) /\ DOMAIN q = DOMAIN subs
        /\ \A s \in DOMAIN subs : SameButFlags(q[s], subs[s])
    BY <1>0, <2>1, OutdateRows
  <2> QED BY <1>2, <2>1, <2>2, FlagsOnly
<1>3. \A what \in {"changes", "patches", "crashes", "lookups"} : Spend(what) =>
        /\ spent' \in [changes : Nat, patches : Nat, crashes : Nat, lookups : Nat]
        /\ spent.crashes <= spent'.crashes /\ spent.lookups <= spent'.lookups
  BY <1>0 DEF Spend, EnvTypes
<1>4. /\ spent.crashes \in Nat /\ spent.lookups \in Nat
      /\ spent.crashes <= spent.crashes /\ spent.lookups <= spent.lookups
  BY <1>0 DEF EnvTypes
<1>5. ASSUME NEW c \in checks, ReadPolicy(c) PROVE CertIInv'
  <2>1. EnvTypes' BY <1>0, <1>5 DEF EnvTypes, ReadPolicy
  <2> QED BY <1>1, <1>4, <1>5, <2>1 DEF ReadPolicy
<1>6. ASSUME NEW c \in checks, InsertCandidate(c) PROVE CertIInv'
  <2>1. EnvTypes' BY <1>0, <1>6 DEF EnvTypes, InsertCandidate
  <2>2. CASE HasKey(AutoKey(c)) BY <1>1, <1>4, <1>6, <2>1, <2>2 DEF InsertCandidate
  <2>3. CASE ~HasKey(AutoKey(c))
    <3>1. c \in [task : Tasks, attempt : 1 .. MaxSuccesses, at : {"policy", "insert"}]
      BY <1>0, <1>6 DEF EnvTypes
    <3>2. /\ [task |-> c.task, blank |-> FALSE] \in Candidates
          /\ AutoKey(c) \in Tasks \X (1 .. MaxSuccesses)
      BY <3>1 DEF Candidates, AutoKey
    <3>3. Enqueue([task |-> c.task, blank |-> FALSE], AutoKey(c)) /\ Len(subs) < MaxSubs
      BY <1>6, <2>3 DEF InsertCandidate
    <3>4. UNCHANGED <<lane, runner, spent>> BY <1>6 DEF InsertCandidate
    <3> QED BY <2>1, <2>3, <3>2, <3>3, <3>4, Enqueues
  <2> QED BY <2>2, <2>3
<1>7. ASSUME NEW claim \in Clients, ApiSubmit(claim) PROVE CertIInv'
  <2>1. EnvTypes' BY <1>0, <1>7 DEF EnvTypes, ApiSubmit
  <2> QED BY <1>1, <1>4, <1>7, <2>1 DEF ApiSubmit
<1>8. ASSUME NEW r \in requests, ApiInsert(r) PROVE CertIInv'
  <2>1. EnvTypes' BY <1>0, <1>8 DEF EnvTypes, ApiInsert
  <2>2. CASE HasKey(r.key) BY <1>1, <1>4, <1>8, <2>1, <2>2 DEF ApiInsert
  <2>3. CASE ~HasKey(r.key)
    <3>1. r \in Clients BY <1>8 DEF ApiInsert
    <3>2. [task |-> r.task, blank |-> r.blank] \in Candidates
      BY <3>1, CertAssumption DEF Candidates
    <3>3. Enqueue([task |-> r.task, blank |-> r.blank], r.key) /\ Len(subs) < MaxSubs
      BY <1>8, <2>3 DEF ApiInsert
    <3>4. UNCHANGED <<lane, runner, spent>> BY <1>8 DEF ApiInsert
    <3> QED BY <2>1, <2>3, <3>1, <3>2, <3>3, <3>4, Enqueues
  <2> QED BY <2>2, <2>3
<1>9. ASSUME NEW r \in requests, PatchWrite(r) PROVE CertIInv'
  <2>1. EnvTypes' BY <1>0, <1>9 DEF EnvTypes, PatchWrite
  <2> QED BY <1>1, <1>4, <1>9, <2>1 DEF PatchWrite
<1>10. ASSUME NEW p \in Patches, PatchRead(p[1], p[2]) PROVE CertIInv'
  <2>1. p \in ({"enabled"} \X BOOLEAN) \cup ({"frequency"} \X Frequencies)
    BY CertAssumption
  <2>2. [policy EXCEPT ![p[1]] = p[2]] \in Policies
    <3>1. CASE p \in {"enabled"} \X BOOLEAN
      <4>1. p[1] = "enabled" /\ p[2] \in BOOLEAN BY <3>1
      <4> QED BY <1>0, <4>1 DEF EnvTypes, Policies
    <3>2. CASE p \in {"frequency"} \X Frequencies
      <4>1. p[1] = "frequency" /\ p[2] \in Frequencies BY <3>2
      <4> QED BY <1>0, <4>1 DEF EnvTypes, Policies
    <3> QED BY <2>1, <3>1, <3>2
  <2>3. EnvTypes' BY <1>0, <1>3, <1>10, <2>2 DEF EnvTypes, PatchRead
  <2>4. spent.crashes <= spent'.crashes /\ spent.lookups <= spent'.lookups
    BY <1>3, <1>10 DEF PatchRead
  <2> QED BY <1>1, <1>10, <2>3, <2>4 DEF PatchRead
<1>11. ASSUME NEW t \in Tasks, NEW byApi \in BOOLEAN, Succeed(t, byApi) PROVE CertIInv'
  <2>1. done[t] + 1 \in 1 .. MaxSuccesses
    <3>1. done[t] \in 0 .. MaxSuccesses /\ MaxSuccesses \in Nat BY <1>0, CertAssumption DEF EnvTypes
    <3>2. done[t] < MaxSuccesses BY <1>11 DEF Succeed
    <3> QED BY <3>1, <3>2
  <2>2. done' \in [Tasks -> 0 .. MaxSuccesses]
    BY <1>0, <1>11, <2>1 DEF EnvTypes, Succeed
  <2>3. checks' \subseteq [task : Tasks, attempt : 1 .. MaxSuccesses, at : {"policy", "insert"}]
    BY <1>0, <1>11, <2>1 DEF EnvTypes, Succeed
  <2>4. EnvTypes' BY <1>0, <1>11, <2>2, <2>3 DEF EnvTypes, Succeed
  <2> QED BY <1>2, <1>4, <1>11, <2>4 DEF Succeed
<1>12. ASSUME NEW t \in Tasks, UpdateNode(t) PROVE CertIInv'
  <2>1. /\ EnvTypes'
        /\ spent.crashes <= spent'.crashes /\ spent.lookups <= spent'.lookups
    BY <1>0, <1>3, <1>12 DEF EnvTypes, UpdateNode
  <2> QED BY <1>2, <1>12, <2>1 DEF UpdateNode
<1>13. ASSUME WorkersRestart PROVE CertIInv'
  <2>1. /\ EnvTypes'
        /\ spent.crashes <= spent'.crashes /\ spent.lookups <= spent'.lookups
    BY <1>0, <1>3, <1>13 DEF EnvTypes, WorkersRestart
  <2> QED BY <1>1, <1>13, <2>1 DEF WorkersRestart
<1> QED
  BY <1>5, <1>6, <1>7, <1>8, <1>9, <1>10, <1>11, <1>12, <1>13 DEF World, Check, Request

-----------------------------------------------------------------------------
(* The loop runner *)

\* What is left to show of a step of the runner, which never makes a row, never takes a
\* verdict back, and promotes a node on a row it admits.
LEMMA Moves ==
  ASSUME CertIInv, EnvTypes', RunnerTypes', subs' \in Seq(SubRows), DOMAIN subs' = DOMAIN subs,
         UNCHANGED cands, lane' \in [Tasks -> {"branch", "mainline_candidate"}],
         spent.lookups <= spent'.lookups,
         \A s \in DOMAIN subs :
           /\ subs'[s].cand = subs[s].cand /\ subs'[s].key = subs[s].key
           /\ subs[s].effect = "admit" => subs'[s].effect = "admit" /\ subs'[s].agreed = subs[s].agreed,
         \A t \in Tasks : \/ lane'[t] = lane[t]
                          \/ \E s \in SubsOf(t) : /\ subs'[s].effect = "admit"
                                                  /\ t \in SelfImproving => subs'[s].agreed \/ spent'.lookups > 0,
         CandsBounded', QueueOK', DriftRows', InProcessing', SingleIsDenied', VerdictConsistent',
         StaleIsRecorded'
  PROVE  CertIInv'
<1>1. RowTypes' BY DEF CertIInv, RowTypes
<1>2. spent.lookups \in Nat /\ spent'.lookups \in Nat BY DEF CertIInv, EnvTypes
<1>3. \A t : \A s \in SubsOf(t) : s \in DOMAIN subs /\ s \in SubsOf(t)' BY DEF SubsOf, TaskOf
<1>4. PromotionIsEarned'
  <2> SUFFICES ASSUME NEW t \in Tasks, lane'[t] = "mainline_candidate"
               PROVE  \E s \in SubsOf(t)' : /\ subs'[s].effect = "admit"
                                            /\ t \in SelfImproving => subs'[s].agreed \/ spent'.lookups > 0
    BY DEF PromotionIsEarned
  <2>1. CASE lane'[t] = lane[t]
    <3>1. PICK s \in SubsOf(t) : /\ subs[s].effect = "admit"
                                 /\ t \in SelfImproving => subs[s].agreed \/ spent.lookups > 0
      BY <2>1 DEF CertIInv, PromotionIsEarned
    <3>2. s \in DOMAIN subs /\ s \in SubsOf(t)' BY <1>3
    <3>3. subs'[s].effect = "admit" /\ subs'[s].agreed = subs[s].agreed BY <3>1, <3>2
    <3>4. ASSUME t \in SelfImproving PROVE subs'[s].agreed \/ spent'.lookups > 0
      BY <1>2, <3>1, <3>3, <3>4
    <3> QED BY <3>2, <3>3, <3>4
  <2>2. CASE lane'[t] # lane[t]
    <3>1. PICK s \in SubsOf(t) : /\ subs'[s].effect = "admit"
                                 /\ t \in SelfImproving => subs'[s].agreed \/ spent'.lookups > 0
      BY <2>2
    <3> QED BY <1>3, <3>1
  <2> QED BY <2>1, <2>2
<1>5. SubmittedOnce' BY DEF CertIInv, SubmittedOnce
<1> QED BY <1>1, <1>4, <1>5 DEF CertIInv

\* The runner is done with a phase or with its tick, and strands nothing.
LEMMA GoesIdle ==
  ASSUME CertIInv, EnvTypes', subs' \in Seq(SubRows), DOMAIN subs' = DOMAIN subs,
         UNCHANGED <<cands, lane>>, spent.lookups <= spent'.lookups,
         runner' \in {Idle, [Idle EXCEPT !.pass = 2], [Idle EXCEPT !.at = "drift"]},
         \A s \in DOMAIN subs :
           /\ subs'[s].cand = subs[s].cand /\ subs'[s].key = subs[s].key
           /\ subs'[s].status = subs[s].status /\ subs'[s].effect = subs[s].effect
           /\ subs'[s].ref = subs[s].ref /\ subs'[s].agreed = subs[s].agreed
           /\ subs'[s].status = "processing" => subs'[s].diverged \/ spent'.crashes > 0
           /\ subs'[s].ref = "stale" => subs'[s].recorded \/ spent'.crashes > 0
  PROVE  CertIInv'
<1>1. runner'.rows = {} /\ runner'.at \in {"sweep", "drift"} BY DEF Idle
<1>2. <<>> \in Seq(Outcomes) OBVIOUS
<1>3. RunnerTypes'
  <2>1. Idle \in [at : Stages, pass : {1, 2}, rows : SUBSET Nat, dual : BOOLEAN, res : Seq(Outcomes)]
    BY <1>2 DEF Idle, Stages
  <2>2. runner' \in [at : Stages, pass : {1, 2}, rows : SUBSET Nat, dual : BOOLEAN, res : Seq(Outcomes)]
    BY <2>1 DEF Stages
  <2> QED BY <1>1, <2>2 DEF RunnerTypes
<1>4. CandsBounded'
  <2>1. StaleRows' = StaleRows BY DEF StaleRows
  <2>2. Len(subs') = Len(subs) BY DEF CertIInv, RowTypes
  <2>3. Cardinality(StaleRows) \in Nat BY StaleCount DEF CertIInv
  <2>4. Len(cands) \in Nat /\ Len(subs) \in Nat BY DEF CertIInv, RowTypes
  <2>5. Len(cands) <= Len(subs) + Cardinality(StaleRows)
    BY <2>3, <2>4 DEF CertIInv, CandsBounded
  <2> QED BY <1>1, <2>1, <2>2, <2>3, <2>4, <2>5 DEF CandsBounded, Resubmitting
<1>5. QueueOK' /\ DriftRows' BY <1>1 DEF QueueOK, DriftRows, AtWork
<1>6. InProcessing' BY DEF InProcessing
<1>7. SingleIsDenied' BY <1>1 DEF SingleIsDenied
<1>8. StaleIsRecorded' BY DEF StaleIsRecorded
<1>9. VerdictConsistent' BY DEF CertIInv, VerdictConsistent
<1>10. lane' \in [Tasks -> {"branch", "mainline_candidate"}] BY DEF CertIInv, RowTypes
<1> QED BY <1>3, <1>4, <1>5, <1>6, <1>7, <1>8, <1>9, <1>10, Moves

InQueue == runner.at \in {"row", "mode", "run", "record"}

\* A row the queue still has is neither decided nor certified.
LEMMA Undecided ==
  ASSUME CertIInv, InQueue, runner.rows # {}
  PROVE  /\ Row \in runner.rows /\ Row \in DOMAIN subs
         /\ subs[Row].status \in {"pending", "processing"}
         /\ subs[Row].effect = "none" /\ subs[Row].ref = "none"
<1>1. Row \in runner.rows /\ Row \in DOMAIN subs BY RowIsRead DEF CertIInv
<1>2. subs[Row].status \in {"pending", "processing"}
  BY <1>1 DEF CertIInv, InQueue, QueueOK, AtWork
<1>3. subs[Row] \in SubRows BY <1>1, ElementOfSeq DEF CertIInv, RowTypes
<1> QED BY <1>1, <1>2, <1>3 DEF CertIInv, VerdictConsistent, SubRows

\* The queue is done with a row: it is decided or as it was, the others are as they were.
LEMMA TakesNextRow ==
  ASSUME CertIInv, InQueue, runner.rows # {}, NextRow,
         EnvTypes', subs' \in Seq(SubRows), DOMAIN subs' = DOMAIN subs,
         UNCHANGED cands, lane' \in [Tasks -> {"branch", "mainline_candidate"}],
         spent.lookups <= spent'.lookups, spent.crashes <= spent'.crashes,
         \A s \in DOMAIN subs : s # Row => SameButFlags(subs'[s], subs[s]),
         subs'[Row].cand = subs[Row].cand, subs'[Row].key = subs[Row].key,
         subs'[Row].status # "processing", subs'[Row].ref # "stale",
         subs'[Row].effect = "admit" <=> subs'[Row].status = "completed",
         subs'[Row].effect = "block" <=> subs'[Row].status = "failed",
         subs'[Row].effect = "admit" <=> subs'[Row].ref \in {"valid", "stale"},
         subs'[Row].effect = "block" <=> subs'[Row].ref = "rejected",
         \A t \in Tasks : \/ lane'[t] = lane[t]
                          \/ /\ t = TaskOf(Row) /\ subs'[Row].effect = "admit"
                             /\ t \in SelfImproving => subs'[Row].agreed \/ spent'.lookups > 0
  PROVE  CertIInv'
<1> USE DEF SameButFlags
<1>1. /\ Row \in runner.rows /\ Row \in DOMAIN subs
      /\ subs[Row].effect = "none" /\ subs[Row].ref = "none"
  BY Undecided
<1>2. runner'.at = "row" /\ runner'.rows = runner.rows \ {Row}
  BY DEF CertIInv, RunnerTypes, NextRow
<1>3. RunnerTypes'
  <2>1. <<>> \in Seq(Outcomes) OBVIOUS
  <2>2. runner' \in [at : Stages, pass : {1, 2}, rows : SUBSET Nat, dual : BOOLEAN, res : Seq(Outcomes)]
    BY <2>1 DEF CertIInv, RunnerTypes, NextRow, Stages
  <2> QED BY <1>2, <2>2 DEF CertIInv, RunnerTypes
<1>4. CandsBounded'
  <2>1. StaleRows' = StaleRows BY <1>1 DEF StaleRows
  <2>2. Len(subs') = Len(subs) BY DEF CertIInv, RowTypes
  <2>3. Cardinality(StaleRows) \in Nat BY StaleCount DEF CertIInv
  <2>4. Len(cands) \in Nat /\ Len(subs) \in Nat BY DEF CertIInv, RowTypes
  <2>5. Len(cands) <= Len(subs) + Cardinality(StaleRows)
    BY <2>3, <2>4 DEF CertIInv, CandsBounded
  <2> QED BY <1>2, <2>1, <2>2, <2>3, <2>4, <2>5 DEF CandsBounded, Resubmitting
<1>5. \A s \in runner.rows \ {Row} : subs[s].status = "pending"
  BY DEF CertIInv, InQueue, QueueOK, AtWork
<1>6. \A s \in runner.rows \ {Row} : subs'[s].status = "pending"
  BY <1>5 DEF CertIInv, RunnerTypes
<1>7. QueueOK' BY <1>2, <1>6 DEF QueueOK, AtWork
<1>8. DriftRows' BY <1>2 DEF DriftRows
<1>9. spent.crashes \in Nat /\ spent'.crashes \in Nat BY DEF CertIInv, EnvTypes
<1>10. InProcessing'
  <2> SUFFICES ASSUME NEW s \in DOMAIN subs, subs'[s].status = "processing"
               PROVE  subs'[s].diverged \/ spent'.crashes > 0
    BY DEF InProcessing
  <2>1. s # Row OBVIOUS
  <2>2. subs[s].diverged \/ spent.crashes > 0 BY <2>1 DEF CertIInv, InProcessing
  <2> QED BY <2>1, <2>2, <1>9
<1>11. SingleIsDenied' BY <1>2 DEF SingleIsDenied
<1>12. StaleIsRecorded'
  <2> SUFFICES ASSUME NEW s \in DOMAIN subs, subs'[s].ref = "stale"
               PROVE  subs'[s].recorded \/ spent'.crashes > 0
    BY DEF StaleIsRecorded
  <2>1. s # Row OBVIOUS
  <2>2. subs[s].recorded \/ spent.crashes > 0 BY <2>1 DEF CertIInv, StaleIsRecorded, InQueue
  <2> QED BY <2>1, <2>2, <1>9
<1>13. VerdictConsistent'
  <2> SUFFICES ASSUME NEW s \in DOMAIN subs
               PROVE  /\ subs'[s].effect = "admit" <=> subs'[s].status = "completed"
                      /\ subs'[s].effect = "block" <=> subs'[s].status = "failed"
                      /\ subs'[s].effect = "admit" <=> subs'[s].ref \in {"valid", "stale"}
                      /\ subs'[s].effect = "block" <=> subs'[s].ref = "rejected"
    BY DEF VerdictConsistent
  <2>1. CASE s = Row BY <2>1
  <2>2. CASE s # Row BY <2>2 DEF CertIInv, VerdictConsistent
  <2> QED BY <2>1, <2>2
<1>14. \A s \in DOMAIN subs :
         /\ subs'[s].cand = subs[s].cand /\ subs'[s].key = subs[s].key
         /\ subs[s].effect = "admit" => subs'[s].effect = "admit" /\ subs'[s].agreed = subs[s].agreed
  BY <1>1
<1>15. \A t \in Tasks : \/ lane'[t] = lane[t]
                        \/ \E s \in SubsOf(t) : /\ subs'[s].effect = "admit"
                                                /\ t \in SelfImproving => subs'[s].agreed \/ spent'.lookups > 0
  BY <1>1 DEF SubsOf
<1> QED BY <1>3, <1>4, <1>7, <1>8, <1>10, <1>11, <1>12, <1>13, <1>14, <1>15, Moves

\* The runner moves within a phase and writes nothing.
LEMMA MovesOn ==
  ASSUME CertIInv, EnvTypes', UNCHANGED <<cands, subs, lane>>, spent.lookups <= spent'.lookups,
         RunnerTypes', ~Resubmitting',
         QueueOK', DriftRows', InProcessing', SingleIsDenied', StaleIsRecorded'
  PROVE  CertIInv'
<1>1. CandsBounded'
  <2>1. StaleRows' = StaleRows BY DEF StaleRows
  <2>2. Cardinality(StaleRows) \in Nat BY StaleCount DEF CertIInv
  <2>3. Len(cands) \in Nat /\ Len(subs) \in Nat BY DEF CertIInv, RowTypes
  <2>4. Len(cands) <= Len(subs) + Cardinality(StaleRows)
    BY <2>2, <2>3 DEF CertIInv, CandsBounded
  <2> QED BY <2>1, <2>2, <2>3, <2>4 DEF CandsBounded
<1>2. VerdictConsistent' BY DEF CertIInv, VerdictConsistent
<1>3. subs' \in Seq(SubRows) /\ lane' \in [Tasks -> {"branch", "mainline_candidate"}]
  BY DEF CertIInv, RowTypes
<1> QED BY <1>1, <1>2, <1>3, Moves

\* One row is written.
LEMMA Writes ==
  ASSUME RowTypes, NEW r \in DOMAIN subs, NEW q \in SubRows, subs' = [subs EXCEPT ![r] = q]
  PROVE  /\ subs' \in Seq(SubRows) /\ DOMAIN subs' = DOMAIN subs /\ subs'[r] = q
         /\ \A s \in DOMAIN subs : s # r => subs'[s] = subs[s]
<1>1. subs \in Seq(SubRows) /\ r \in 1 .. Len(subs) BY DEF RowTypes
<1>2. subs' \in Seq(SubRows) BY <1>1, ExceptSeq
<1> QED BY <1>2

LEMMA SetStatusWrites ==
  ASSUME CertIInv, InQueue, runner.rows # {}, NEW st \in {"pending", "processing"} \cup Settled,
         SetStatus(st)
  PROVE  /\ subs' \in Seq(SubRows) /\ DOMAIN subs' = DOMAIN subs
         /\ subs'[Row] = [subs[Row] EXCEPT !.status = st]
         /\ \A s \in DOMAIN subs : s # Row => subs'[s] = subs[s]
<1>1. Row \in DOMAIN subs BY Undecided
<1>2. PICK r \in DOMAIN subs : r = Row BY <1>1
<1>3. subs[r] \in SubRows BY ElementOfSeq DEF CertIInv, RowTypes
<1>4. [subs[r] EXCEPT !.status = st] \in SubRows BY <1>3 DEF SubRows
<1>5. subs' = [subs EXCEPT ![r] = [subs[r] EXCEPT !.status = st]] BY <1>2 DEF SetStatus
<1> QED BY <1>2, <1>4, <1>5, Writes DEF CertIInv

\* The queue gives a row a final status that is no verdict.
LEMMA GivesUp ==
  ASSUME CertIInv, InQueue, runner.rows # {}, NEW st \in {"error", "timed_out", "blocked"},
         SetStatus(st), NextRow, EnvTypes', UNCHANGED <<cands, lane>>,
         spent.lookups <= spent'.lookups, spent.crashes <= spent'.crashes
  PROVE  CertIInv'
<1>1. /\ subs' \in Seq(SubRows) /\ DOMAIN subs' = DOMAIN subs
      /\ subs'[Row] = [subs[Row] EXCEPT !.status = st]
      /\ \A s \in DOMAIN subs : s # Row => subs'[s] = subs[s]
  BY SetStatusWrites DEF Settled
<1>2. /\ Row \in DOMAIN subs /\ subs[Row].effect = "none" /\ subs[Row].ref = "none"
  BY Undecided
<1>3. subs[Row] \in SubRows BY <1>2, ElementOfSeq DEF CertIInv, RowTypes
<1>4. /\ subs'[Row].status = st /\ subs'[Row].effect = "none" /\ subs'[Row].ref = "none"
      /\ subs'[Row].cand = subs[Row].cand /\ subs'[Row].key = subs[Row].key
  BY <1>1, <1>2, <1>3 DEF SubRows
<1>5. \A s \in DOMAIN subs : s # Row => SameButFlags(subs'[s], subs[s])
  BY <1>1 DEF SameButFlags
<1>6. lane' \in [Tasks -> {"branch", "mainline_candidate"}] BY DEF CertIInv, RowTypes
<1> QED BY <1>1, <1>4, <1>5, <1>6, TakesNextRow

\* Before the queue and after it nothing is in processing that is not stranded, and
\* nothing taken back that is not recorded.
LEMMA NothingPends ==
  ASSUME CertIInv, ~AtWork, runner.at # "invalidate"
  PROVE  \A s \in DOMAIN subs :
           /\ subs[s].status = "processing" => subs[s].diverged \/ spent.crashes > 0
           /\ subs[s].ref = "stale" => subs[s].recorded \/ spent.crashes > 0
BY DEF CertIInv, InProcessing, StaleIsRecorded

\* The runner ends a phase outside of a row.
LEMMA EndsPhase ==
  ASSUME CertIInv, ~AtWork, runner.at # "invalidate",
         UNCHANGED <<policy, done, cands, subs, lane, checks, requests, spent>>,
         runner' \in {Idle, [Idle EXCEPT !.pass = 2], [Idle EXCEPT !.at = "drift"]}
  PROVE  CertIInv'
<1>1. EnvTypes' BY DEF CertIInv, EnvTypes
<1>2. subs' \in Seq(SubRows) BY DEF CertIInv, RowTypes
<1>3. spent.lookups <= spent'.lookups BY DEF CertIInv, EnvTypes
<1> QED BY <1>1, <1>2, <1>3, NothingPends, GoesIdle

LEMMA SweepKeeps == CertIInv /\ Sweep => CertIInv'
<1> SUFFICES ASSUME CertIInv, Sweep PROVE CertIInv' OBVIOUS
<1>1. CASE Missed = {}
  <2>1. runner' = [runner EXCEPT !.at = "config"]
        /\ UNCHANGED <<policy, done, cands, subs, lane, checks, requests, spent>>
    BY <1>1 DEF Sweep
  <2>2. EnvTypes' /\ spent.lookups <= spent'.lookups BY <2>1 DEF CertIInv, EnvTypes
  <2>3. runner'.at = "config" /\ runner'.rows = {} /\ RunnerTypes'
    BY <2>1 DEF CertIInv, RunnerTypes, QueueOK, Stages, Sweep
  <2>4. /\ ~Resubmitting' /\ QueueOK' /\ DriftRows' /\ SingleIsDenied'
    BY <2>3 DEF Resubmitting, QueueOK, DriftRows, SingleIsDenied, AtWork
  <2>5. InProcessing' /\ StaleIsRecorded'
    BY <2>1, NothingPends DEF Sweep, AtWork, InProcessing, StaleIsRecorded
  <2> QED BY <2>1, <2>2, <2>3, <2>4, <2>5, MovesOn
<1>2. CASE Missed # {} BY <1>2, EndsPhase DEF Sweep, EndTick, AtWork
<1> QED BY <1>1, <1>2

LEMMA ReadConfigKeeps == CertIInv /\ ReadConfig => CertIInv'
<1> SUFFICES ASSUME CertIInv, ReadConfig PROVE CertIInv' OBVIOUS
<1>1. CASE policy.enabled
  <2>1. runner' = [runner EXCEPT !.at = "select", !.dual = policy.dual]
        /\ UNCHANGED <<policy, done, cands, subs, lane, checks, requests, spent>>
    BY <1>1 DEF ReadConfig
  <2>2. EnvTypes' /\ spent.lookups <= spent'.lookups BY <2>1 DEF CertIInv, EnvTypes
  <2>3. policy.dual \in BOOLEAN BY DEF CertIInv, EnvTypes, Policies
  <2>4. runner'.at = "select" /\ runner'.rows = {} /\ RunnerTypes'
    BY <2>1, <2>3 DEF CertIInv, RunnerTypes, QueueOK, Stages, ReadConfig
  <2>5. /\ ~Resubmitting' /\ QueueOK' /\ DriftRows' /\ SingleIsDenied'
    BY <2>4 DEF Resubmitting, QueueOK, DriftRows, SingleIsDenied, AtWork
  <2>6. InProcessing' /\ StaleIsRecorded'
    BY <2>1, NothingPends DEF ReadConfig, AtWork, InProcessing, StaleIsRecorded
  <2> QED BY <2>1, <2>2, <2>4, <2>5, <2>6, MovesOn
<1>2. CASE ~policy.enabled BY <1>2, EndsPhase DEF ReadConfig, AfterQueue, AtWork
<1> QED BY <1>1, <1>2

LEMMA SelectPendingKeeps == CertIInv /\ SelectPending => CertIInv'
<1> SUFFICES ASSUME CertIInv, SelectPending PROVE CertIInv' OBVIOUS
<1>1. CASE PendingRows # {}
  <2>1. runner' = [runner EXCEPT !.at = "row", !.rows = Oldest(PendingRows, Batch)]
        /\ UNCHANGED <<policy, done, cands, subs, lane, checks, requests, spent>>
    BY <1>1 DEF SelectPending
  <2>2. EnvTypes' /\ spent.lookups <= spent'.lookups BY <2>1 DEF CertIInv, EnvTypes
  <2>3. /\ Oldest(PendingRows, Batch) \subseteq DOMAIN subs
        /\ \A s \in Oldest(PendingRows, Batch) : subs[s].status = "pending"
    BY DEF Oldest, PendingRows
  <2>4. DOMAIN subs \subseteq Nat BY DEF CertIInv, RowTypes
  <2>5. runner'.at = "row" /\ runner'.rows = Oldest(PendingRows, Batch) /\ RunnerTypes'
    BY <2>1, <2>3, <2>4 DEF CertIInv, RunnerTypes, Stages
  <2>6. /\ ~Resubmitting' /\ QueueOK' /\ DriftRows' /\ SingleIsDenied'
    BY <2>1, <2>3, <2>5 DEF Resubmitting, QueueOK, DriftRows, SingleIsDenied, AtWork
  <2>7. InProcessing' /\ StaleIsRecorded'
    BY <2>1, NothingPends DEF SelectPending, AtWork, InProcessing, StaleIsRecorded
  <2> QED BY <2>1, <2>2, <2>5, <2>6, <2>7, MovesOn
<1>2. CASE PendingRows = {} BY <1>2, EndsPhase DEF SelectPending, AfterQueue, AtWork
<1> QED BY <1>1, <1>2

LEMMA TakeRowKeeps == CertIInv /\ TakeRow => CertIInv'
<1> SUFFICES ASSUME CertIInv, TakeRow PROVE CertIInv' OBVIOUS
<1>0. /\ runner.at = "row" /\ InQueue /\ ~AtWork /\ EnvTypes'
      /\ UNCHANGED <<policy, done, cands, lane, checks, requests, spent>>
      /\ spent.lookups <= spent'.lookups /\ spent.crashes <= spent'.crashes
  BY DEF CertIInv, EnvTypes, TakeRow, InQueue, AtWork
<1>1. CASE runner.rows = {}
  BY <1>0, <1>1, EndsPhase DEF TakeRow, AfterQueue
<1>2. CASE runner.rows # {} /\ cands[subs[Row].cand].blank
  <2>1. SetStatus("error") /\ NextRow BY <1>2 DEF TakeRow
  <2> QED BY <1>0, <1>2, <2>1, GivesUp
<1>3. CASE runner.rows # {} /\ ~cands[subs[Row].cand].blank /\ InGrace(Row)
  <2>1. NextRow /\ subs' = subs BY <1>3 DEF TakeRow
  <2>2. /\ Row \in runner.rows /\ Row \in DOMAIN subs
        /\ subs[Row].effect = "none" /\ subs[Row].ref = "none"
    BY <1>0, <1>3, Undecided
  <2>3. subs[Row].status = "pending" BY <1>0, <2>2 DEF CertIInv, QueueOK
  <2>4. subs' \in Seq(SubRows) /\ lane' \in [Tasks -> {"branch", "mainline_candidate"}]
    BY <1>0, <2>1 DEF CertIInv, RowTypes
  <2>5. \A s \in DOMAIN subs : SameButFlags(subs'[s], subs[s]) BY <2>1 DEF SameButFlags
  <2> QED BY <1>0, <1>3, <2>1, <2>2, <2>3, <2>4, <2>5, TakesNextRow
<1>4. CASE runner.rows # {} /\ ~cands[subs[Row].cand].blank /\ ~InGrace(Row)
  <2>1. SetStatus("processing") /\ runner' = [runner EXCEPT !.at = "mode"] BY <1>4 DEF TakeRow
  <2>2. /\ subs' \in Seq(SubRows) /\ DOMAIN subs' = DOMAIN subs
        /\ subs'[Row] = [subs[Row] EXCEPT !.status = "processing"]
        /\ \A s \in DOMAIN subs : s # Row => subs'[s] = subs[s]
    BY <1>0, <1>4, <2>1, SetStatusWrites
  <2>3. /\ Row \in runner.rows /\ Row \in DOMAIN subs
        /\ subs[Row].effect = "none" /\ subs[Row].ref = "none"
    BY <1>0, <1>4, Undecided
  <2>4. subs[Row] \in SubRows BY <2>3, ElementOfSeq DEF CertIInv, RowTypes
  <2>5. /\ subs'[Row].status = "processing" /\ subs'[Row].effect = "none" /\ subs'[Row].ref = "none"
        /\ subs'[Row].cand = subs[Row].cand /\ subs'[Row].key = subs[Row].key
    BY <2>2, <2>3, <2>4 DEF SubRows
  <2>6. runner'.at = "mode" /\ runner'.rows = runner.rows /\ Row' = Row /\ RunnerTypes'
    BY <2>1, <2>2 DEF CertIInv, RunnerTypes, Stages, Row
  <2>7. QueueOK'
    <3>1. \A s \in runner.rows \ {Row} : subs'[s].status = "pending"
      BY <1>0, <2>2 DEF CertIInv, QueueOK, RunnerTypes
    <3> QED BY <1>4, <2>5, <2>6, <3>1 DEF QueueOK
  <2>8. DriftRows' /\ SingleIsDenied' /\ ~Resubmitting' /\ AtWork'
    BY <2>6 DEF DriftRows, SingleIsDenied, Resubmitting, AtWork
  <2>9. InProcessing' BY <1>0, <2>2, <2>3, <2>6, <2>8, NothingPends DEF InProcessing
  <2>10. StaleIsRecorded' BY <1>0, <2>2, <2>3, <2>5, NothingPends DEF StaleIsRecorded
  <2>11. VerdictConsistent'
    <3>1. \A s \in DOMAIN subs : s # Row => subs'[s] = subs[s] BY <2>2
    <3>2. \A s \in DOMAIN subs : s # Row =>
            /\ subs'[s].effect = "admit" <=> subs'[s].status = "completed"
            /\ subs'[s].effect = "block" <=> subs'[s].status = "failed"
            /\ subs'[s].effect = "admit" <=> subs'[s].ref \in {"valid", "stale"}
            /\ subs'[s].effect = "block" <=> subs'[s].ref = "rejected"
      BY <3>1 DEF CertIInv, VerdictConsistent
    <3> QED BY <2>2, <2>5, <3>2 DEF VerdictConsistent
  <2>12. CandsBounded'
    <3>1. StaleRows' = StaleRows BY <2>2, <2>3, <2>5 DEF StaleRows
    <3>2. Len(subs') = Len(subs) BY <2>2 DEF CertIInv, RowTypes
    <3>3. ~Resubmitting BY <1>0 DEF Resubmitting
    <3> QED BY <1>0, <2>8, <3>1, <3>2, <3>3 DEF CertIInv, CandsBounded
  <2>13. \A s \in DOMAIN subs :
           /\ subs'[s].cand = subs[s].cand /\ subs'[s].key = subs[s].key
           /\ subs[s].effect = "admit" => subs'[s].effect = "admit" /\ subs'[s].agreed = subs[s].agreed
    BY <2>2, <2>3, <2>5
  <2>14. lane' \in [Tasks -> {"branch", "mainline_candidate"}] BY <1>0 DEF CertIInv, RowTypes
  <2> QED
    BY <1>0, <2>2, <2>6, <2>7, <2>8, <2>9, <2>10, <2>11, <2>12, <2>13, <2>14, Moves
<1> QED BY <1>1, <1>2, <1>3, <1>4

\* Between two statements about one row: the row stays the one in processing.
LEMMA StaysAtWork ==
  ASSUME CertIInv, AtWork, UNCHANGED <<policy, done, cands, subs, lane, checks, requests>>, EnvTypes',
         spent.lookups <= spent'.lookups, spent.crashes <= spent'.crashes,
         RunnerTypes', runner'.rows = runner.rows, AtWork', SingleIsDenied'
  PROVE  CertIInv'
<1>1. Row' = Row BY DEF Row
<1>2. runner.at \notin {"sweep", "config", "select", "drift", "row", "stale", "invalidate", "resubmit", "event"}
      /\ runner'.at \notin {"sweep", "config", "select", "drift", "row", "stale", "invalidate", "resubmit", "event"}
  BY DEF AtWork
<1>3. QueueOK' BY <1>1, <1>2 DEF CertIInv, QueueOK
<1>4. DriftRows' /\ ~Resubmitting' BY <1>2 DEF DriftRows, Resubmitting
<1>5. spent.crashes \in Nat /\ spent'.crashes \in Nat BY DEF CertIInv, EnvTypes
<1>6. InProcessing' BY <1>1, <1>5 DEF CertIInv, InProcessing
<1>7. StaleIsRecorded' BY <1>2, <1>5 DEF CertIInv, StaleIsRecorded
<1> QED BY <1>3, <1>4, <1>6, <1>7, MovesOn

LEMMA ChooseModeKeeps == CertIInv /\ ChooseMode => CertIInv'
<1> SUFFICES ASSUME CertIInv, ChooseMode PROVE CertIInv' OBVIOUS
<1>0. /\ runner.at = "mode" /\ InQueue /\ AtWork /\ runner.rows # {}
      /\ UNCHANGED <<policy, done, cands, lane, checks, requests>>
  BY DEF CertIInv, QueueOK, AtWork, ChooseMode, InQueue
<1>1. /\ spent' \in [changes : Nat, patches : Nat, crashes : Nat, lookups : Nat]
      /\ spent.lookups <= spent'.lookups /\ spent.crashes <= spent'.crashes
  BY DEF CertIInv, EnvTypes, ChooseMode, Spend
<1>2. EnvTypes' BY <1>0, <1>1 DEF CertIInv, EnvTypes
<1>3. CASE SetStatus("blocked") /\ NextRow BY <1>0, <1>1, <1>2, <1>3, GivesUp
<1>4. ASSUME runner' = [runner EXCEPT !.at = "run"], UNCHANGED subs,
             ~runner.dual /\ TaskOf(Row) \in SelfImproving => spent'.lookups > 0
      PROVE  CertIInv'
  <2>1. /\ runner'.at = "run" /\ runner'.rows = runner.rows /\ runner'.dual = runner.dual
        /\ RunnerTypes' /\ AtWork'
    BY <1>4 DEF CertIInv, RunnerTypes, Stages, AtWork
  <2>2. Row' = Row BY <2>1 DEF Row
  <2>3. TaskOf(Row)' = TaskOf(Row) BY <1>0, <1>4, <2>2 DEF TaskOf
  <2>4. SingleIsDenied' BY <1>4, <2>1, <2>3 DEF SingleIsDenied
  <2> QED BY <1>0, <1>1, <1>2, <1>4, <2>1, <2>4, StaysAtWork
<1>5. CASE ~runner.dual /\ TaskOf(Row) \in SelfImproving /\ Spend("lookups")
             /\ runner' = [runner EXCEPT !.at = "run"] /\ UNCHANGED subs
  <2>1. spent'.lookups > 0 BY <1>5 DEF CertIInv, EnvTypes, Spend
  <2> QED BY <1>4, <1>5, <2>1
<1>6. CASE ~(~runner.dual /\ TaskOf(Row) \in SelfImproving)
  BY <1>4, <1>6 DEF ChooseMode
<1> QED BY <1>3, <1>5, <1>6 DEF ChooseMode

LEMMA FormalizeKeeps == \A o \in Outcomes : CertIInv /\ Formalize(o) => CertIInv'
<1> SUFFICES ASSUME NEW o \in Outcomes, CertIInv, Formalize(o) PROVE CertIInv' OBVIOUS
<1>1. /\ runner.at = "run" /\ AtWork /\ runner.rows # {}
      /\ UNCHANGED <<policy, done, cands, subs, lane, checks, requests, spent>>
  BY DEF CertIInv, QueueOK, AtWork, Formalize
<1>2. EnvTypes' /\ spent.lookups <= spent'.lookups /\ spent.crashes <= spent'.crashes
  BY <1>1 DEF CertIInv, EnvTypes
<1>3. PICK res \in Seq(Outcomes) : \E at \in {"run", "record"} :
        runner' = [runner EXCEPT !.res = res, !.at = at]
  <2>1. Append(runner.res, o) \in Seq(Outcomes) BY DEF CertIInv, RunnerTypes
  <2> QED BY <2>1 DEF Formalize
<1>4. PICK at \in {"run", "record"} : runner' = [runner EXCEPT !.res = res, !.at = at] BY <1>3
<1>5. /\ runner'.at = at /\ runner'.rows = runner.rows /\ runner'.dual = runner.dual
      /\ RunnerTypes' /\ AtWork'
  BY <1>1, <1>4 DEF CertIInv, RunnerTypes, Stages, AtWork
<1>6. Row' = Row BY <1>5 DEF Row
<1>7. TaskOf(Row)' = TaskOf(Row) BY <1>1, <1>6 DEF TaskOf
<1>8. SingleIsDenied' BY <1>1, <1>5, <1>7 DEF CertIInv, SingleIsDenied
<1> QED BY <1>1, <1>2, <1>5, <1>8, StaysAtWork

LEMMA FourFields ==
  ASSUME NEW n, NEW f \in [1 .. n -> SubRows], NEW r \in 1 .. n, NEW a, NEW b, NEW c, NEW d
  PROVE  [f EXCEPT ![r].status = a, ![r].effect = b, ![r].ref = c, ![r].agreed = d]
           = [f EXCEPT ![r] = [f[r] EXCEPT !.status = a, !.effect = b, !.ref = c, !.agreed = d]]
OBVIOUS

\* A verdict is written to its row; of the others at most the flags change.
LEMMA ApplyWrites ==
  ASSUME CertIInv, runner.at = "record", NEW gate, Apply(gate)
  PROVE  /\ subs' \in Seq(SubRows) /\ DOMAIN subs' = DOMAIN subs
         /\ \A s \in DOMAIN subs : s # Row => SameButFlags(subs'[s], subs[s])
         /\ subs'[Row].cand = subs[Row].cand /\ subs'[Row].key = subs[Row].key
         /\ subs'[Row].status = (IF gate \in PassingGates THEN "completed" ELSE "failed")
         /\ subs'[Row].effect = (IF gate \in PassingGates THEN "admit" ELSE "block")
         /\ subs'[Row].ref = (IF gate \in PassingGates THEN "valid" ELSE "rejected")
         /\ subs'[Row].agreed = runner.dual
<1> DEFINE passed == gate \in PassingGates
           q == [subs[Row] EXCEPT !.status = IF passed THEN "completed" ELSE "failed",
                                  !.effect = IF passed THEN "admit" ELSE "block",
                                  !.ref = IF passed THEN "valid" ELSE "rejected",
                                  !.agreed = runner.dual]
<1>1. /\ InQueue /\ AtWork /\ runner.rows # {} BY DEF CertIInv, QueueOK, AtWork, InQueue
<1>2. Row \in DOMAIN subs BY <1>1, Undecided
<1>3. subs[Row] \in SubRows BY <1>2, ElementOfSeq DEF CertIInv, RowTypes
<1>4. runner.dual \in BOOLEAN BY DEF CertIInv, RunnerTypes
<1>5. /\ q \in SubRows /\ q.cand = subs[Row].cand /\ q.key = subs[Row].key
      /\ q.status = (IF passed THEN "completed" ELSE "failed")
      /\ q.effect = (IF passed THEN "admit" ELSE "block")
      /\ q.ref = (IF passed THEN "valid" ELSE "rejected")
      /\ q.agreed = runner.dual
  BY <1>3, <1>4 DEF SubRows, Settled
<1>6. \E w : /\ w = [subs EXCEPT ![Row] = q]
             /\ subs' = w \/ subs' = Outdate(w, TaskOf(Row))
  <2> DEFINE v == [subs EXCEPT ![Row].status = IF passed THEN "completed" ELSE "failed",
                               ![Row].effect = IF passed THEN "admit" ELSE "block",
                               ![Row].ref = IF passed THEN "valid" ELSE "rejected",
                               ![Row].agreed = runner.dual]
  <2>1. v = [subs EXCEPT ![Row] = q]
    <3>1. subs \in [1 .. Len(subs) -> SubRows] /\ Row \in 1 .. Len(subs)
      BY <1>2 DEF CertIInv, RowTypes
    <3> HIDE DEF passed
    <3> QED BY <3>1, <1>3, FourFields
  <2>2. subs' = v \/ subs' = Outdate(v, TaskOf(Row)) BY DEF Apply
  <2> HIDE DEF v, q
  <2> QED BY <2>1, <2>2
<1> HIDE DEF q
<1>8. PICK w : w = [subs EXCEPT ![Row] = q] /\ (subs' = w \/ subs' = Outdate(w, TaskOf(Row)))
  BY <1>6
<1>9. /\ w \in Seq(SubRows) /\ DOMAIN w = DOMAIN subs /\ w[Row] = q
      /\ \A s \in DOMAIN subs : s # Row => w[s] = subs[s]
  <2>1. subs \in Seq(SubRows) /\ Row \in 1 .. Len(subs) BY <1>2 DEF CertIInv, RowTypes
  <2>2. w \in Seq(SubRows) BY <1>5, <1>8, <2>1, ExceptSeq
  <2> QED BY <1>2, <1>8, <2>2
<1>10. /\ subs' \in Seq(SubRows) /\ DOMAIN subs' = DOMAIN subs
       /\ \A s \in DOMAIN subs : SameButFlags(subs'[s], w[s])
  <2>1. CASE subs' = w BY <1>9, <2>1 DEF SameButFlags
  <2>2. CASE subs' = Outdate(w, TaskOf(Row))
    <3>1. PICK t : t = TaskOf(Row) OBVIOUS
    <3>2. PICK z : z = Outdate(w, t) OBVIOUS
    <3>3. /\ z \in Seq(SubRows) /\ DOMAIN z = DOMAIN w
          /\ \A s \in DOMAIN w : SameButFlags(z[s], w[s])
      BY <1>9, <3>2, OutdateRows
    <3> QED BY <1>9, <2>2, <3>1, <3>2, <3>3
  <2> QED BY <1>8, <2>1, <2>2
<1>11. SameButFlags(subs'[Row], q) BY <1>2, <1>9, <1>10
<1>12. \A s \in DOMAIN subs : s # Row => SameButFlags(subs'[s], subs[s]) BY <1>9, <1>10
<1>13. /\ subs'[Row].cand = q.cand /\ subs'[Row].key = q.key /\ subs'[Row].status = q.status
       /\ subs'[Row].effect = q.effect /\ subs'[Row].ref = q.ref /\ subs'[Row].agreed = q.agreed
  BY <1>11 DEF SameButFlags
<1> QED BY <1>5, <1>10, <1>12, <1>13

\* With the row the node is promoted, and what rests on the node is out of date.
LEMMA ApplyKeeps ==
  ASSUME CertIInv, runner.at = "record", NEW gate, Apply(gate), NextRow,
         UNCHANGED <<policy, done, cands, checks, requests, spent>>
  PROVE  CertIInv'
<1> DEFINE passed == gate \in PassingGates
<1>0. EnvTypes' /\ spent.lookups <= spent'.lookups /\ spent.crashes <= spent'.crashes
  BY DEF CertIInv, EnvTypes
<1>1. /\ InQueue /\ AtWork /\ runner.rows # {} BY DEF CertIInv, QueueOK, AtWork, InQueue
<1>2. Row \in DOMAIN subs BY <1>1, Undecided
<1>3. /\ subs' \in Seq(SubRows) /\ DOMAIN subs' = DOMAIN subs
      /\ \A s \in DOMAIN subs : s # Row => SameButFlags(subs'[s], subs[s])
      /\ subs'[Row].cand = subs[Row].cand /\ subs'[Row].key = subs[Row].key
      /\ subs'[Row].status = (IF passed THEN "completed" ELSE "failed")
      /\ subs'[Row].effect = (IF passed THEN "admit" ELSE "block")
      /\ subs'[Row].ref = (IF passed THEN "valid" ELSE "rejected")
      /\ subs'[Row].agreed = runner.dual
  BY ApplyWrites
<1>4. \/ lane' = lane
      \/ passed /\ lane' = [lane EXCEPT ![TaskOf(Row)] = "mainline_candidate"]
  <2> DEFINE promotes == passed /\ lane[TaskOf(Row)] = "branch"
  <2>1. lane' = IF promotes THEN [lane EXCEPT ![TaskOf(Row)] = "mainline_candidate"] ELSE lane
    BY Zenon DEF Apply
  <2>2. CASE promotes BY <2>1, <2>2, Zenon
  <2>3. CASE ~promotes BY <2>1, <2>3, Zenon
  <2> QED BY <2>2, <2>3
<1>5. TaskOf(Row) \in Tasks
  <2>1. subs[Row].cand \in DOMAIN cands /\ cands \in Seq(Candidates)
    BY <1>2 DEF CertIInv, RowTypes
  <2>2. cands[subs[Row].cand] \in Candidates BY <2>1, ElementOfSeq
  <2> QED BY <2>2 DEF Candidates, TaskOf
<1>6. lane' \in [Tasks -> {"branch", "mainline_candidate"}]
  BY <1>4, <1>5 DEF CertIInv, RowTypes
<1>7. ASSUME NEW t \in Tasks
      PROVE  \/ lane'[t] = lane[t]
             \/ /\ t = TaskOf(Row) /\ subs'[Row].effect = "admit"
                /\ t \in SelfImproving => subs'[Row].agreed \/ spent'.lookups > 0
  <2>1. CASE lane' = lane BY <2>1
  <2>2. CASE passed /\ lane' = [lane EXCEPT ![TaskOf(Row)] = "mainline_candidate"]
    <3>1. t # TaskOf(Row) => lane'[t] = lane[t] BY <2>2 DEF CertIInv, RowTypes
    <3>2. subs'[Row].effect = "admit" /\ subs'[Row].agreed = runner.dual BY <1>3, <2>2
    <3>3. ASSUME t = TaskOf(Row), t \in SelfImproving PROVE subs'[Row].agreed \/ spent'.lookups > 0
      BY <3>2, <3>3 DEF CertIInv, SingleIsDenied
    <3> QED BY <3>1, <3>2, <3>3
  <2> QED BY <1>4, <2>1, <2>2
<1>8. /\ subs'[Row].cand = subs[Row].cand /\ subs'[Row].key = subs[Row].key
      /\ subs'[Row].status # "processing" /\ subs'[Row].ref # "stale"
      /\ subs'[Row].effect = "admit" <=> subs'[Row].status = "completed"
      /\ subs'[Row].effect = "block" <=> subs'[Row].status = "failed"
      /\ subs'[Row].effect = "admit" <=> subs'[Row].ref \in {"valid", "stale"}
      /\ subs'[Row].effect = "block" <=> subs'[Row].ref = "rejected"
  BY <1>3
<1> QED BY <1>0, <1>1, <1>3, <1>6, <1>7, <1>8, TakesNextRow

LEMMA RecordKeeps == CertIInv /\ Record => CertIInv'
<1> SUFFICES ASSUME CertIInv, Record PROVE CertIInv' OBVIOUS
<1>1. /\ runner.at = "record" /\ InQueue /\ AtWork /\ runner.rows # {}
      /\ UNCHANGED <<policy, done, cands, checks, requests, spent>>
  BY DEF CertIInv, QueueOK, AtWork, InQueue, Record
<1>2. EnvTypes' /\ spent.lookups <= spent'.lookups /\ spent.crashes <= spent'.crashes
  BY <1>1 DEF CertIInv, EnvTypes
<1>3. ASSUME NEW st \in {"error", "timed_out"}, SetStatus(st), NextRow, UNCHANGED lane PROVE CertIInv'
  BY <1>1, <1>2, <1>3, GivesUp
<1>4. subs[Row].ref = "none" BY <1>1, Undecided
<1>5. ASSUME NEW gate, Apply(gate), NextRow PROVE CertIInv' BY <1>1, <1>5, ApplyKeeps
<1> QED BY <1>3, <1>4, <1>5 DEF Record

LEMMA DivergenceKeeps == CertIInv /\ RecordDivergence => CertIInv'
<1> SUFFICES ASSUME CertIInv, RecordDivergence PROVE CertIInv' OBVIOUS
<1>1. /\ runner.at = "record" /\ InQueue /\ AtWork /\ runner.rows # {}
      /\ UNCHANGED <<policy, done, cands, lane, checks, requests, spent>>
  BY DEF CertIInv, QueueOK, AtWork, InQueue, RecordDivergence
<1>2. EnvTypes' /\ spent.lookups <= spent'.lookups BY <1>1 DEF CertIInv, EnvTypes
<1>3. Row \in DOMAIN subs /\ subs[Row].ref = "none" BY <1>1, Undecided
<1>4. PICK r \in DOMAIN subs : r = Row BY <1>3
<1>5. subs[r] \in SubRows BY ElementOfSeq DEF CertIInv, RowTypes
<1>6. [subs[r] EXCEPT !.diverged = TRUE] \in SubRows BY <1>5 DEF SubRows
<1>7. subs' = [subs EXCEPT ![r] = [subs[r] EXCEPT !.diverged = TRUE]]
  BY <1>4 DEF RecordDivergence
<1>8. /\ subs' \in Seq(SubRows) /\ DOMAIN subs' = DOMAIN subs
      /\ subs'[r] = [subs[r] EXCEPT !.diverged = TRUE]
      /\ \A s \in DOMAIN subs : s # r => subs'[s] = subs[s]
  BY <1>6, <1>7, Writes DEF CertIInv
<1>9. runner' = Idle BY DEF RecordDivergence, EndTick
<1>10. ASSUME NEW s \in DOMAIN subs
       PROVE  /\ subs'[s].cand = subs[s].cand /\ subs'[s].key = subs[s].key
              /\ subs'[s].status = subs[s].status /\ subs'[s].effect = subs[s].effect
              /\ subs'[s].ref = subs[s].ref /\ subs'[s].agreed = subs[s].agreed
              /\ subs'[s].status = "processing" => subs'[s].diverged \/ spent'.crashes > 0
              /\ subs'[s].ref = "stale" => subs'[s].recorded \/ spent'.crashes > 0
  <2>1. CASE s = r BY <1>3, <1>4, <1>5, <1>8, <2>1 DEF SubRows
  <2>2. CASE s # r
    <3>1. subs'[s] = subs[s] BY <1>8, <2>2
    <3> QED BY <1>1, <1>4, <2>2, <3>1 DEF CertIInv, InProcessing, StaleIsRecorded
  <2> QED BY <2>1, <2>2
<1> QED BY <1>1, <1>2, <1>8, <1>9, <1>10, GoesIdle

LEMMA SelectDriftedKeeps == CertIInv /\ SelectDrifted => CertIInv'
<1> SUFFICES ASSUME CertIInv, SelectDrifted PROVE CertIInv' OBVIOUS
<1> DEFINE drifted == {s \in DOMAIN subs : Drifted(s)}
<1>1. CASE drifted = {} BY <1>1, EndsPhase DEF SelectDrifted, EndTick, AtWork
<1>2. CASE drifted # {}
  <2>1. runner' = [runner EXCEPT !.at = "stale", !.rows = drifted]
        /\ UNCHANGED <<policy, done, cands, subs, lane, checks, requests, spent>>
    BY <1>2 DEF SelectDrifted
  <2>2. EnvTypes' /\ spent.lookups <= spent'.lookups BY <2>1 DEF CertIInv, EnvTypes
  <2>3. drifted \subseteq DOMAIN subs /\ \A s \in drifted : subs[s].ref = "valid" BY DEF Drifted
  <2>4. DOMAIN subs \subseteq Nat BY DEF CertIInv, RowTypes
  <2> HIDE DEF drifted
  <2>5. runner'.at = "stale" /\ runner'.rows = drifted /\ RunnerTypes'
    BY <2>1, <2>3, <2>4 DEF CertIInv, RunnerTypes, Stages
  <2>6. /\ ~Resubmitting' /\ QueueOK' /\ DriftRows' /\ SingleIsDenied'
    BY <1>2, <2>1, <2>3, <2>5 DEF Resubmitting, QueueOK, DriftRows, SingleIsDenied, AtWork
  <2>7. InProcessing' /\ StaleIsRecorded'
    BY <2>1, NothingPends DEF SelectDrifted, AtWork, InProcessing, StaleIsRecorded
  <2> QED BY <2>1, <2>2, <2>5, <2>6, <2>7, MovesOn
<1> QED BY <1>1, <1>2

\* One more certificate taken back makes up for the candidate Resubmit makes.
LEMMA MarkStaleKeeps == CertIInv /\ MarkStale => CertIInv'
<1> SUFFICES ASSUME CertIInv, MarkStale PROVE CertIInv' OBVIOUS
<1>1. /\ runner.at = "stale" /\ ~AtWork /\ runner.rows # {}
      /\ UNCHANGED <<policy, done, cands, lane, checks, requests, spent>>
      /\ runner' = [runner EXCEPT !.at = "invalidate"]
  BY DEF CertIInv, DriftRows, AtWork, MarkStale
<1>2. EnvTypes' /\ spent.lookups <= spent'.lookups BY <1>1 DEF CertIInv, EnvTypes
<1>3. Row \in runner.rows /\ Row \in DOMAIN subs /\ subs[Row].ref = "valid"
  BY <1>1, RowIsRead DEF CertIInv, DriftRows
<1>4. PICK r \in DOMAIN subs : r = Row BY <1>3
<1>5. subs[r] \in SubRows BY ElementOfSeq DEF CertIInv, RowTypes
<1>6. PICK q \in SubRows : q = [subs[r] EXCEPT !.ref = "stale"] BY <1>5 DEF SubRows
<1>7. subs' = [subs EXCEPT ![r] = q] BY <1>4, <1>6 DEF MarkStale
<1>8. /\ subs' \in Seq(SubRows) /\ DOMAIN subs' = DOMAIN subs /\ subs'[r] = q
      /\ \A s \in DOMAIN subs : s # r => subs'[s] = subs[s]
  BY <1>7, Writes DEF CertIInv
<1>9. /\ q.ref = "stale" /\ q.cand = subs[r].cand /\ q.key = subs[r].key /\ q.status = subs[r].status
      /\ q.effect = subs[r].effect /\ q.agreed = subs[r].agreed /\ q.diverged = subs[r].diverged
  BY <1>5, <1>6 DEF SubRows
<1>10. runner'.at = "invalidate" /\ runner'.rows = runner.rows /\ Row' = r /\ RunnerTypes'
  BY <1>1, <1>4, <1>8 DEF CertIInv, RunnerTypes, Stages, Row
<1>11. \A s \in runner.rows \ {r} : s \in DOMAIN subs /\ subs'[s].ref = "valid"
  BY <1>1, <1>8 DEF CertIInv, DriftRows, RunnerTypes
<1>12. DriftRows' BY <1>1, <1>8, <1>9, <1>10, <1>11 DEF DriftRows
<1>13. QueueOK' /\ SingleIsDenied' BY <1>10 DEF QueueOK, SingleIsDenied, AtWork
<1>14. \A s \in DOMAIN subs :
         /\ subs'[s].cand = subs[s].cand /\ subs'[s].key = subs[s].key
         /\ subs'[s].status = subs[s].status /\ subs'[s].diverged = subs[s].diverged
         /\ subs'[s].effect = subs[s].effect /\ subs'[s].agreed = subs[s].agreed
  BY <1>8, <1>9
<1>15. InProcessing' BY <1>1, <1>8, <1>14, NothingPends DEF InProcessing
<1>16. StaleIsRecorded' BY <1>1, <1>8, <1>10, NothingPends DEF StaleIsRecorded
<1>17. VerdictConsistent'
  <2> SUFFICES ASSUME NEW s \in DOMAIN subs
               PROVE  /\ subs'[s].effect = "admit" <=> subs'[s].status = "completed"
                      /\ subs'[s].effect = "block" <=> subs'[s].status = "failed"
                      /\ subs'[s].effect = "admit" <=> subs'[s].ref \in {"valid", "stale"}
                      /\ subs'[s].effect = "block" <=> subs'[s].ref = "rejected"
    BY <1>8 DEF VerdictConsistent
  <2>1. /\ subs[s].effect = "admit" <=> subs[s].status = "completed"
        /\ subs[s].effect = "block" <=> subs[s].status = "failed"
        /\ subs[s].effect = "admit" <=> subs[s].ref \in {"valid", "stale"}
        /\ subs[s].effect = "block" <=> subs[s].ref = "rejected"
    BY DEF CertIInv, VerdictConsistent
  <2>2. CASE s = r BY <1>3, <1>4, <1>8, <1>9, <2>1, <2>2
  <2>3. CASE s # r BY <1>8, <2>1, <2>3
  <2> QED BY <2>2, <2>3
<1>18. CandsBounded'
  <2>1. StaleRows' = StaleRows \cup {r} /\ r \notin StaleRows
    BY <1>3, <1>4, <1>8, <1>9 DEF StaleRows
  <2>2. PICK S : S = StaleRows OBVIOUS
  <2>3. IsFiniteSet(S) /\ Cardinality(S) \in Nat BY <2>2, StaleCount DEF CertIInv
  <2>4. Cardinality(S \cup {r}) = Cardinality(S) + 1 BY <2>1, <2>2, <2>3, FS_AddElement
  <2>5. Cardinality(StaleRows)' = Cardinality(S) + 1 BY <2>1, <2>2, <2>4
  <2>6. Len(subs') = Len(subs) /\ Len(subs) \in Nat /\ Len(cands) \in Nat
    BY <1>8 DEF CertIInv, RowTypes
  <2>7. Len(cands) <= Len(subs) + Cardinality(S)
    BY <1>1, <2>2 DEF CertIInv, CandsBounded, Resubmitting
  <2>8. Len(cands) + 1 <= Len(subs) + (Cardinality(S) + 1) BY <2>3, <2>6, <2>7
  <2> QED BY <1>1, <1>10, <2>5, <2>6, <2>8 DEF CandsBounded, Resubmitting
<1>19. lane' \in [Tasks -> {"branch", "mainline_candidate"}] BY <1>1 DEF CertIInv, RowTypes
<1> QED
  BY <1>1, <1>2, <1>8, <1>10, <1>12, <1>13, <1>14, <1>15, <1>16, <1>17, <1>18, <1>19, Moves

LEMMA InsertInvalidationKeeps == CertIInv /\ InsertInvalidation => CertIInv'
<1> SUFFICES ASSUME CertIInv, InsertInvalidation PROVE CertIInv' OBVIOUS
<1>1. /\ runner.at = "invalidate" /\ ~AtWork /\ runner.rows # {}
      /\ UNCHANGED <<policy, done, cands, lane, checks, requests, spent>>
      /\ runner' = [runner EXCEPT !.at = "resubmit"]
  BY DEF CertIInv, DriftRows, AtWork, InsertInvalidation
<1>2. EnvTypes' /\ spent.lookups <= spent'.lookups BY <1>1 DEF CertIInv, EnvTypes
<1>3. Row \in runner.rows /\ Row \in DOMAIN subs /\ subs[Row].ref = "stale"
  BY <1>1, RowIsRead DEF CertIInv, DriftRows
<1>4. PICK r \in DOMAIN subs : r = Row BY <1>3
<1>5. subs[r] \in SubRows BY ElementOfSeq DEF CertIInv, RowTypes
<1>6. PICK q \in SubRows : q = [subs[r] EXCEPT !.recorded = TRUE] BY <1>5 DEF SubRows
<1>7. subs' = [subs EXCEPT ![r] = q] BY <1>4, <1>6 DEF InsertInvalidation
<1>8. /\ subs' \in Seq(SubRows) /\ DOMAIN subs' = DOMAIN subs /\ subs'[r] = q
      /\ \A s \in DOMAIN subs : s # r => subs'[s] = subs[s]
  BY <1>7, Writes DEF CertIInv
<1>9. /\ q.recorded /\ q.ref = subs[r].ref /\ q.cand = subs[r].cand /\ q.key = subs[r].key
      /\ q.status = subs[r].status /\ q.effect = subs[r].effect /\ q.agreed = subs[r].agreed
      /\ q.diverged = subs[r].diverged
  BY <1>5, <1>6 DEF SubRows
<1>10. runner'.at = "resubmit" /\ runner'.rows = runner.rows /\ Row' = r /\ RunnerTypes'
  BY <1>1, <1>4, <1>8 DEF CertIInv, RunnerTypes, Stages, Row
<1>11. \A s \in DOMAIN subs :
         /\ subs'[s].cand = subs[s].cand /\ subs'[s].key = subs[s].key
         /\ subs'[s].status = subs[s].status /\ subs'[s].diverged = subs[s].diverged
         /\ subs'[s].effect = subs[s].effect /\ subs'[s].agreed = subs[s].agreed
         /\ subs'[s].ref = subs[s].ref
  BY <1>8, <1>9
<1>12. \A s \in runner.rows : s \in DOMAIN subs BY DEF CertIInv, RunnerTypes
<1>13. DriftRows'
  BY <1>1, <1>4, <1>10, <1>11, <1>12 DEF CertIInv, DriftRows
<1>14. QueueOK' /\ SingleIsDenied' BY <1>10 DEF QueueOK, SingleIsDenied, AtWork
<1>15. InProcessing' BY <1>1, <1>8, <1>11 DEF CertIInv, InProcessing
<1>16. StaleIsRecorded'
  <2> SUFFICES ASSUME NEW s \in DOMAIN subs, subs'[s].ref = "stale"
               PROVE  subs'[s].recorded \/ spent.crashes > 0
    BY <1>1, <1>8 DEF StaleIsRecorded
  <2>1. CASE s = r BY <1>8, <1>9, <2>1
  <2>2. CASE s # r BY <1>4, <1>8, <2>2 DEF CertIInv, StaleIsRecorded
  <2> QED BY <2>1, <2>2
<1>17. VerdictConsistent' BY <1>8, <1>11 DEF CertIInv, VerdictConsistent
<1>18. CandsBounded'
  <2>1. StaleRows' = StaleRows BY <1>8, <1>11 DEF StaleRows
  <2>2. Len(subs') = Len(subs) BY <1>8 DEF CertIInv, RowTypes
  <2> QED BY <1>1, <1>10, <2>1, <2>2 DEF CertIInv, CandsBounded, Resubmitting
<1>19. lane' \in [Tasks -> {"branch", "mainline_candidate"}] BY <1>1 DEF CertIInv, RowTypes
<1> QED
  BY <1>1, <1>2, <1>8, <1>10, <1>11, <1>13, <1>14, <1>15, <1>16, <1>17, <1>18, <1>19, Moves

LEMMA ResubmitKeeps == CertIInv /\ Resubmit => CertIInv'
<1> SUFFICES ASSUME CertIInv, Resubmit PROVE CertIInv' OBVIOUS
<1>1. /\ runner.at = "resubmit" /\ ~AtWork /\ runner.rows # {}
      /\ UNCHANGED <<policy, done, subs, lane, checks, requests, spent>>
      /\ runner' = [runner EXCEPT !.at = "event"]
  BY DEF CertIInv, DriftRows, AtWork, Resubmit
<1>2. EnvTypes' BY <1>1 DEF CertIInv, EnvTypes
<1>3. Row \in runner.rows /\ Row \in DOMAIN subs /\ subs[Row].ref = "stale"
  BY <1>1, RowIsRead DEF CertIInv, DriftRows
<1>4. cands \in Seq(Candidates) /\ cands[subs[Row].cand] \in Candidates
  <2>1. cands \in Seq(Candidates) /\ subs[Row].cand \in DOMAIN cands BY <1>3 DEF CertIInv, RowTypes
  <2> QED BY <2>1, ElementOfSeq
<1>5. /\ cands' \in Seq(Candidates)
      /\ Len(cands') \in Nat /\ Len(cands') <= Len(cands) + 1
      /\ \A i \in DOMAIN cands : i \in DOMAIN cands' /\ cands'[i] = cands[i]
  <2>1. CASE cands' = cands BY <1>4, <2>1
  <2>2. CASE cands' = Append(cands, cands[subs[Row].cand])
    <3>1. PICK c \in Candidates : c = cands[subs[Row].cand] BY <1>4
    <3>2. cands' = Append(cands, c) BY <2>2, <3>1
    <3> QED BY <1>4, <3>2, AppendProperties
  <2> QED BY <2>1, <2>2 DEF Resubmit
<1>6. RowTypes' BY <1>1, <1>5 DEF CertIInv, RowTypes
<1>7. runner'.at = "event" /\ runner'.rows = runner.rows /\ Row' = Row /\ RunnerTypes'
  BY <1>1 DEF CertIInv, RunnerTypes, Stages, Row
<1>8. CandsBounded'
  <2>1. StaleRows' = StaleRows BY <1>1 DEF StaleRows
  <2>2. Cardinality(StaleRows) \in Nat BY StaleCount DEF CertIInv
  <2>3. Len(cands) \in Nat /\ Len(subs) \in Nat BY DEF CertIInv, RowTypes
  <2>4. Len(cands) + 1 <= Len(subs) + Cardinality(StaleRows)
    BY <1>1 DEF CertIInv, CandsBounded, Resubmitting
  <2>5. ~Resubmitting' BY <1>7 DEF Resubmitting
  <2>6. Len(cands') <= Len(subs) + Cardinality(StaleRows) BY <1>5, <2>2, <2>3, <2>4
  <2> QED BY <1>1, <1>5, <2>1, <2>5, <2>6 DEF CandsBounded
<1>9. QueueOK' /\ SingleIsDenied' BY <1>7 DEF QueueOK, SingleIsDenied, AtWork
<1>10. DriftRows' BY <1>1, <1>7 DEF CertIInv, DriftRows
<1>11. InProcessing' /\ StaleIsRecorded'
  BY <1>1, NothingPends DEF InProcessing, StaleIsRecorded
<1>12. VerdictConsistent' /\ SubmittedOnce' BY <1>1 DEF CertIInv, VerdictConsistent, SubmittedOnce
<1>13. PromotionIsEarned'
  <2> SUFFICES ASSUME NEW t \in Tasks, lane[t] = "mainline_candidate"
               PROVE  \E s \in SubsOf(t)' : /\ subs[s].effect = "admit"
                                            /\ t \in SelfImproving => subs[s].agreed \/ spent.lookups > 0
    BY <1>1 DEF PromotionIsEarned
  <2>1. PICK s \in SubsOf(t) : /\ subs[s].effect = "admit"
                               /\ t \in SelfImproving => subs[s].agreed \/ spent.lookups > 0
    BY DEF CertIInv, PromotionIsEarned
  <2>2. s \in DOMAIN subs /\ TaskOf(s) = t BY DEF SubsOf
  <2>3. cands'[subs[s].cand] = cands[subs[s].cand] BY <1>5, <2>2 DEF CertIInv, RowTypes
  <2>4. s \in SubsOf(t)' BY <1>1, <2>2, <2>3 DEF SubsOf, TaskOf
  <2> QED BY <2>1, <2>4
<1> QED
  BY <1>2, <1>6, <1>7, <1>8, <1>9, <1>10, <1>11, <1>12, <1>13 DEF CertIInv

LEMMA DriftEventKeeps == CertIInv /\ DriftEvent => CertIInv'
<1> SUFFICES ASSUME CertIInv, DriftEvent PROVE CertIInv' OBVIOUS
<1>1. /\ runner.at = "event" /\ ~AtWork /\ runner.at # "invalidate" /\ runner.rows # {}
      /\ UNCHANGED <<policy, done, cands, lane, checks, requests, spent>>
  BY DEF CertIInv, DriftRows, AtWork, DriftEvent
<1>2. EnvTypes' /\ spent.lookups <= spent'.lookups BY <1>1 DEF CertIInv, EnvTypes
<1>3. DOMAIN subs = 1 .. Len(subs) /\ Len(subs) \in Nat BY DEF CertIInv, RowTypes
<1>4. DOMAIN subs' = DOMAIN subs BY DEF DriftEvent
<1>5. \A s \in DOMAIN subs : subs'[s] \in SubRows /\ SameButFlags(subs'[s], subs[s])
  <2> TAKE s \in DOMAIN subs
  <2> DEFINE b == subs[s].masked \/ (TaskOf(s) = TaskOf(Row) /\ subs[s].ref = "valid")
  <2>1. subs[s] \in SubRows BY ElementOfSeq DEF CertIInv, RowTypes
  <2>2. b \in BOOLEAN BY <2>1, Zenon DEF SubRows
  <2>3. subs'[s] = [subs[s] EXCEPT !.masked = b] BY Zenon DEF DriftEvent
  <2> HIDE DEF b
  <2> QED BY <2>1, <2>2, <2>3 DEF SubRows, SameButFlags
<1>6. subs' \in Seq(SubRows)
  <2>1. subs' = [s \in 1 .. Len(subs) |-> subs'[s]] BY <1>3 DEF DriftEvent
  <2>2. subs' \in [1 .. Len(subs) -> SubRows] BY <1>3, <1>5, <2>1
  <2> QED BY <1>3, <2>2
<1>7. CASE runner.rows = {Row}
  <2>1. runner' = Idle BY <1>7 DEF DriftEvent, EndTick
  <2>2. \A s \in DOMAIN subs :
          /\ subs'[s].cand = subs[s].cand /\ subs'[s].key = subs[s].key
          /\ subs'[s].status = subs[s].status /\ subs'[s].effect = subs[s].effect
          /\ subs'[s].ref = subs[s].ref /\ subs'[s].agreed = subs[s].agreed
          /\ subs'[s].status = "processing" => subs'[s].diverged \/ spent'.crashes > 0
          /\ subs'[s].ref = "stale" => subs'[s].recorded \/ spent'.crashes > 0
    BY <1>1, <1>5, NothingPends DEF SameButFlags
  <2> QED BY <1>1, <1>2, <1>4, <1>6, <2>1, <2>2, GoesIdle
<1>8. CASE runner.rows # {Row}
  <2>1. runner' = [runner EXCEPT !.at = "stale", !.rows = runner.rows \ {Row}]
    BY <1>8 DEF DriftEvent
  <2>2. runner'.at = "stale" /\ runner'.rows = runner.rows \ {Row} /\ RunnerTypes'
    BY <1>4, <2>1 DEF CertIInv, RunnerTypes, Stages
  <2>3. \A s \in runner.rows \ {Row} : subs'[s].ref = "valid"
    BY <1>1, <1>5 DEF CertIInv, DriftRows, RunnerTypes, SameButFlags
  <2>4. DriftRows' BY <1>1, <1>8, <2>2, <2>3 DEF DriftRows
  <2>5. QueueOK' /\ SingleIsDenied' BY <2>2 DEF QueueOK, SingleIsDenied, AtWork
  <2>6. InProcessing' /\ StaleIsRecorded'
    BY <1>1, <1>4, <1>5, NothingPends DEF InProcessing, StaleIsRecorded, SameButFlags
  <2>7. VerdictConsistent' BY <1>4, <1>5 DEF CertIInv, VerdictConsistent, SameButFlags
  <2>8. CandsBounded'
    <3>1. StaleRows' = StaleRows BY <1>4, <1>5 DEF StaleRows, SameButFlags
    <3>2. Len(subs') = Len(subs) BY <1>4, <1>6 DEF CertIInv, RowTypes
    <3> QED BY <1>1, <2>2, <3>1, <3>2 DEF CertIInv, CandsBounded, Resubmitting
  <2>9. \A s \in DOMAIN subs :
          /\ subs'[s].cand = subs[s].cand /\ subs'[s].key = subs[s].key
          /\ subs[s].effect = "admit" => subs'[s].effect = "admit" /\ subs'[s].agreed = subs[s].agreed
    BY <1>5 DEF SameButFlags
  <2>10. lane' \in [Tasks -> {"branch", "mainline_candidate"}] BY <1>1 DEF CertIInv, RowTypes
  <2> QED
    BY <1>1, <1>2, <1>4, <1>6, <2>2, <2>4, <2>5, <2>6, <2>7, <2>8, <2>9, <2>10, Moves
<1> QED BY <1>7, <1>8

LEMMA RestartKeeps == CertIInv /\ RunnerRestarts => CertIInv'
<1> SUFFICES ASSUME CertIInv, RunnerRestarts PROVE CertIInv' OBVIOUS
<1>1. /\ runner' = Idle /\ UNCHANGED <<policy, done, cands, subs, lane, checks, requests>>
      /\ spent' \in [changes : Nat, patches : Nat, crashes : Nat, lookups : Nat]
      /\ spent.lookups <= spent'.lookups /\ spent'.crashes > 0
  BY DEF CertIInv, EnvTypes, RunnerRestarts, Spend, EndTick
<1>2. EnvTypes' BY <1>1 DEF CertIInv, EnvTypes
<1>3. subs' \in Seq(SubRows) BY <1>1 DEF CertIInv, RowTypes
<1> QED BY <1>1, <1>2, <1>3, GoesIdle

-----------------------------------------------------------------------------
(* Theorems *)

LEMMA CertInitIInv == CertInit => CertIInv
<1> SUFFICES ASSUME CertInit PROVE CertIInv OBVIOUS
<1>1. EnvTypes BY CertAssumption DEF CertInit, EnvTypes
<1>2. RowTypes BY DEF CertInit, RowTypes
<1>3. <<>> \in Seq(Outcomes) OBVIOUS
<1>4. runner.at = "sweep" /\ runner.rows = {} /\ RunnerTypes
  BY <1>3 DEF CertInit, RunnerTypes, Idle, Stages
<1>5. CandsBounded
  <2>1. Cardinality(StaleRows) \in Nat BY <1>2, StaleCount
  <2>2. Len(cands) = 0 /\ Len(subs) = 0 BY DEF CertInit
  <2> QED BY <1>4, <2>1, <2>2 DEF CandsBounded, Resubmitting
<1>6. QueueOK /\ DriftRows /\ SingleIsDenied BY <1>4 DEF QueueOK, DriftRows, SingleIsDenied, AtWork
<1>7. InProcessing /\ VerdictConsistent /\ SubmittedOnce /\ StaleIsRecorded
  BY DEF CertInit, InProcessing, VerdictConsistent, SubmittedOnce, StaleIsRecorded
<1>8. PromotionIsEarned BY DEF CertInit, PromotionIsEarned
<1> QED BY <1>1, <1>2, <1>4, <1>5, <1>6, <1>7, <1>8 DEF CertIInv

LEMMA CertStep == CertIInv /\ [CertNext]_certVars => CertIInv'
<1> SUFFICES ASSUME CertIInv, [CertNext]_certVars PROVE CertIInv' OBVIOUS
<1>1. CASE UNCHANGED certVars
  <2>1. EnvTypes' BY <1>1 DEF CertIInv, EnvTypes, certVars
  <2>2. subs' \in Seq(SubRows) BY <1>1 DEF CertIInv, RowTypes, certVars
  <2>3. \A s \in DOMAIN subs : SameButFlags(subs'[s], subs[s]) BY <1>1 DEF SameButFlags, certVars
  <2>4. spent.crashes <= spent'.crashes /\ spent.lookups <= spent'.lookups
    BY <1>1 DEF CertIInv, EnvTypes, certVars
  <2> QED BY <1>1, <2>1, <2>2, <2>3, <2>4, FlagsOnly DEF certVars
<1>2. CASE Tick
  BY <1>2, SweepKeeps, ReadConfigKeeps, SelectPendingKeeps, TakeRowKeeps, ChooseModeKeeps, FormalizeKeeps,
     RecordKeeps, DivergenceKeeps, SelectDriftedKeeps, MarkStaleKeeps, InsertInvalidationKeeps,
     ResubmitKeeps, DriftEventKeeps
     DEF Tick
<1>3. CASE World BY <1>3, WorldKeeps
<1>4. CASE RunnerRestarts BY <1>4, RestartKeeps
<1> QED BY <1>1, <1>2, <1>3, <1>4 DEF CertNext, World

LEMMA CertIInvHolds == CertSpec => []CertIInv
BY CertInitIInv, CertStep, PTL DEF CertSpec

LEMMA CertIInvGives == CertIInv => CertInv
<1> SUFFICES ASSUME CertIInv PROVE CertInv OBVIOUS
<1>1. CertTypeOK
  <2>1. \A s \in DOMAIN subs : subs[s] \in SubRows BY ElementOfSeq DEF CertIInv, RowTypes
  <2> QED BY <2>1 DEF CertIInv, CertTypeOK, EnvTypes, RowTypes, RunnerTypes
<1>2. OnlyTheseStrand
  BY DEF CertIInv, InProcessing, OnlyTheseStrand, QueueOK
<1> QED BY <1>1, <1>2 DEF CertInv, CertIInv

\* Rows fit the schema and refer to rows that exist, the places a verdict is written to
\* agree, promotions are earned, a request is submitted once, only restarts and
\* disagreements strand a submission, and what is taken back is recorded: for every
\* number of tasks, clients, submissions and failures (tick.rs, main.rs of worker
\* dispatch, routes/certification.rs).
THEOREM CertificationSound == CertSpec => []CertInv
BY CertIInvHolds, CertIInvGives, PTL

Final ==
  \A s \in DOMAIN subs :
    /\ subs[s].status \in Settled => subs'[s].status = subs[s].status
    /\ subs[s].ref \in {"stale", "rejected"} => subs'[s].ref = subs[s].ref

\* The world around the runner adds rows and touches flags.
LEMMA WorldIsFinal == CertIInv /\ World => Final
<1> SUFFICES ASSUME CertIInv, World PROVE Final OBVIOUS
<1>1. subs \in Seq(SubRows) BY DEF CertIInv, RowTypes
<1>2. \/ subs' = subs
      \/ \E t \in Tasks : subs' = Outdate(subs, t)
      \/ \E new : subs' = Append(subs, new)
  BY DEF World, Check, Request, ReadPolicy, InsertCandidate, ApiSubmit, ApiInsert, PatchWrite, PatchRead,
         WorkersRestart, Succeed, UpdateNode, Enqueue
<1>3. CASE subs' = subs BY <1>3 DEF Final
<1>4. ASSUME NEW t \in Tasks, subs' = Outdate(subs, t) PROVE Final
  <2>1. PICK q : q = Outdate(subs, t) OBVIOUS
  <2>2. \A s \in DOMAIN subs : SameButFlags(q[s], subs[s]) BY <1>1, <2>1, OutdateRows
  <2> QED BY <1>4, <2>1, <2>2 DEF SameButFlags, Final
<1>5. ASSUME NEW new, subs' = Append(subs, new) PROVE Final
  BY <1>1, <1>5 DEF Final
<1> QED BY <1>2, <1>3, <1>4, <1>5

\* The queue decides what is undecided, drift takes back what is valid.
LEMMA TickIsFinal == CertIInv /\ (Tick \/ RunnerRestarts) => Final
<1> SUFFICES ASSUME CertIInv, Tick \/ RunnerRestarts PROVE Final OBVIOUS
<1>1. CASE subs' = subs BY <1>1 DEF Final
<1>2. ASSUME Row \in DOMAIN subs, subs[Row].status \notin Settled, subs[Row].ref \notin {"stale", "rejected"},
             \A s \in DOMAIN subs : s # Row => SameButFlags(subs'[s], subs[s])
      PROVE  Final
  BY <1>2 DEF Final, SameButFlags
<1>3. ASSUME InQueue, runner.rows # {},
             \A s \in DOMAIN subs : s # Row => SameButFlags(subs'[s], subs[s])
      PROVE  Final
  <2>1. /\ Row \in DOMAIN subs /\ subs[Row].ref = "none"
        /\ subs[Row].status \in {"pending", "processing"}
    BY <1>3, Undecided
  <2>2. subs[Row].status \notin Settled BY <2>1 DEF Settled
  <2> QED BY <1>2, <1>3, <2>1, <2>2
<1>4. ASSUME InQueue, runner.rows # {}, NEW st \in {"pending", "processing"} \cup Settled, SetStatus(st)
      PROVE  Final
  <2>1. \A s \in DOMAIN subs : s # Row => subs'[s] = subs[s] BY <1>4, SetStatusWrites
  <2> QED BY <1>3, <1>4, <2>1 DEF SameButFlags
<1>5. AtWork => runner.rows # {} /\ InQueue BY DEF CertIInv, QueueOK, AtWork, InQueue
<1>6. CASE TakeRow
  <2>1. InQueue BY <1>6 DEF TakeRow, InQueue
  <2>2. \/ subs' = subs
        \/ runner.rows # {} /\ \E st \in {"error", "processing"} : SetStatus(st)
    BY <1>6 DEF TakeRow
  <2> QED BY <1>1, <1>4, <2>1, <2>2 DEF Settled
<1>7. CASE ChooseMode BY <1>1, <1>4, <1>5, <1>7 DEF ChooseMode, AtWork, Settled
<1>8. CASE Record
  <2>1. runner.at = "record" /\ AtWork BY <1>8 DEF Record, AtWork
  <2>2. \/ subs' = subs
        \/ \E st \in {"timed_out", "error"} : SetStatus(st)
        \/ \E gate : Apply(gate)
    BY <1>8 DEF Record
  <2>3. ASSUME NEW gate, Apply(gate) PROVE Final
    BY <1>3, <1>5, <2>1, <2>3, ApplyWrites
  <2> QED BY <1>1, <1>4, <1>5, <2>1, <2>2, <2>3 DEF Settled
<1>9. CASE RecordDivergence
  <2>1. AtWork BY <1>9 DEF RecordDivergence, AtWork
  <2>2. \A s \in DOMAIN subs : s # Row => subs'[s] = subs[s] BY <1>9 DEF RecordDivergence
  <2> QED BY <1>3, <1>5, <2>1, <2>2 DEF SameButFlags
<1>10. CASE MarkStale
  <2>1. Row \in DOMAIN subs /\ subs[Row].ref = "valid"
    BY <1>10, RowIsRead DEF CertIInv, DriftRows, MarkStale
  <2>2. PICK r \in DOMAIN subs : r = Row BY <2>1
  <2>3. subs[r] \in SubRows BY ElementOfSeq DEF CertIInv, RowTypes
  <2>4. /\ \A s \in DOMAIN subs : s # r => subs'[s] = subs[s]
        /\ subs'[r] = [subs[r] EXCEPT !.ref = "stale"]
    BY <1>10, <2>2 DEF MarkStale
  <2>5. subs'[r].status = subs[r].status BY <2>3, <2>4 DEF SubRows
  <2> QED BY <2>1, <2>2, <2>4, <2>5 DEF Final
<1>11. CASE InsertInvalidation
  <2>1. Row \in DOMAIN subs BY <1>11, RowIsRead DEF CertIInv, DriftRows, InsertInvalidation
  <2>2. PICK r \in DOMAIN subs : r = Row BY <2>1
  <2>3. subs[r] \in SubRows BY ElementOfSeq DEF CertIInv, RowTypes
  <2>4. /\ \A s \in DOMAIN subs : s # r => subs'[s] = subs[s]
        /\ subs'[r] = [subs[r] EXCEPT !.recorded = TRUE]
    BY <1>11, <2>2 DEF InsertInvalidation
  <2>5. subs'[r].status = subs[r].status /\ subs'[r].ref = subs[r].ref BY <2>3, <2>4 DEF SubRows
  <2> QED BY <2>4, <2>5 DEF Final
<1>12. CASE DriftEvent
  <2>1. ASSUME NEW s \in DOMAIN subs PROVE subs'[s].status = subs[s].status /\ subs'[s].ref = subs[s].ref
    <3>1. subs[s] \in SubRows BY ElementOfSeq DEF CertIInv, RowTypes
    <3>2. PICK b : subs'[s] = [subs[s] EXCEPT !.masked = b] BY <1>12, Zenon DEF DriftEvent
    <3> QED BY <3>1, <3>2 DEF SubRows
  <2> QED BY <2>1 DEF Final
<1>13. CASE Sweep \/ ReadConfig \/ SelectPending \/ SelectDrifted \/ Resubmit \/ RunnerRestarts
            \/ \E o \in Outcomes : Formalize(o)
  BY <1>1, <1>13 DEF Sweep, ReadConfig, SelectPending, SelectDrifted, Resubmit, RunnerRestarts, Formalize
<1> QED
  BY <1>6, <1>7, <1>8, <1>9, <1>10, <1>11, <1>12, <1>13 DEF Tick

\* A settled submission is never processed again, and a certificate taken back or
\* rejected stays so: the queue works on what is pending, drift on what is valid, and
\* nobody else writes either column (process_certification_queue, detect_drift).
THEOREM VerdictsFinal == CertSpec => VerdictsAreFinal
<1>1. CertIInv /\ [CertNext]_certVars => [Final]_certVars
  BY WorldIsFinal, TickIsFinal DEF CertNext, World
<1>2. [][CertNext]_certVars /\ []CertIInv => [][Final]_certVars BY <1>1, PTL
<1>3. VerdictsAreFinal <=> [][Final]_certVars BY DEF VerdictsAreFinal, Final
<1> QED BY <1>2, <1>3, CertIInvHolds, PTL DEF CertSpec
=============================================================================
