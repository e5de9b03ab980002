--------------------------- MODULE PlanGateProofs ---------------------------
(***************************************************************************)
(* Proofs about PlanGate, for every policy, number of questions, set of    *)
(* drafts and dependency graph.                                            *)
(***************************************************************************)
EXTENDS PlanGate, TLAPS, FiniteSetTheorems

-----------------------------------------------------------------------------
(* The verdict.                                                            *)

LEMMA FourFinite ==
  ASSUME NEW w, NEW x, NEW y, NEW z
  PROVE  IsFiniteSet({w, x, y, z})
<1>1. IsFiniteSet({w})
  BY FS_Singleton
<1>2. IsFiniteSet({w} \cup {x})
  BY <1>1, FS_AddElement
<1>3. IsFiniteSet(({w} \cup {x}) \cup {y})
  BY <1>2, FS_AddElement
<1>4. IsFiniteSet((({w} \cup {x}) \cup {y}) \cup {z})
  BY <1>3, FS_AddElement
<1>5. (({w} \cup {x}) \cup {y}) \cup {z} = {w, x, y, z}
  OBVIOUS
<1> QED
  BY <1>4, <1>5

LEMMA SubScoresFinite == IsFiniteSet(SubScores) /\ Cardinality(SubScores) \in Nat
<1> DEFINE A == {{"objective_summarized"}, {"architecture_drafted"},
                 {"milestone_tree_created"}, {"acceptance_criteria_defined"}}
           B == {{"dependencies_acyclic", "dependencies_resolved"},
                 {"invariants_extracted", "invariants_holding"},
                 {"risks_identified"}, {"unresolved_questions_below_budget"}}
<1>1. IsFiniteSet(A) /\ IsFiniteSet(B)
  BY FourFinite
<1>2. SubScores = A \cup B
  BY DEF SubScores
<1>3. IsFiniteSet(SubScores)
  <2> HIDE DEF A, B
  <2> QED
    BY <1>1, <1>2, FS_Union
<1> QED
  BY <1>3, FS_CardinalityType

\* elaborate_plan combines a completeness score, a threshold, the existence of nodes,
\* the validation errors and two overrides.  All of it comes to this: the ten
\* conditions pass, the blocking questions are within the policy's budget and at most
\* five questions are open.  Score, threshold and nodes never matter.
THEOREM VerdictIsConjunction ==
  ASSUME NEW pass \in [Conditions -> BOOLEAN], NEW hasNodes \in BOOLEAN,
         NEW blocking \in Nat, NEW open \in Nat, NEW budget \in Int
  PROVE  Verdict(pass, hasNodes, blocking, open, budget)
           <=> /\ \A c \in Conditions : pass[c]
               /\ blocking <= budget
               /\ open <= 5
<1>1. Errors(pass, blocking, budget) = {}
        <=> (\A c \in Conditions : pass[c]) /\ blocking <= budget
  <2>1. ~(blocking > budget) <=> blocking <= budget
    OBVIOUS
  <2> QED
    BY <2>1 DEF Errors
<1>2. ASSUME \A c \in Conditions : pass[c]
      PROVE  10 * Score(pass) >= 6 * Cardinality(SubScores)
  <2>1. \A S \in SubScores : \A c \in S : pass[c]
    BY <1>2 DEF SubScores, Conditions
  <2>2. {S \in SubScores : \A c \in S : pass[c]} = SubScores
    BY <2>1
  <2>3. Score(pass) = Cardinality(SubScores)
    BY <2>2 DEF Score
  <2> QED
    BY <2>3, SubScoresFinite
<1>3. "dependencies_acyclic" \in Conditions
  BY DEF Conditions
<1> QED
  BY <1>1, <1>2, <1>3 DEF Verdict

\* The verdict of elaborate_plan and check_dispatch_gate agree: a gate that was
\* satisfied on these counts is one that lets work be dispatched, one that was left
\* open is not.
THEOREM VerdictIsDispatch ==
  ASSUME NEW pass \in [Conditions -> BOOLEAN], NEW hasNodes \in BOOLEAN,
         NEW blocking \in Nat, NEW open \in Nat, NEW budget \in Int
  PROVE  LET verdict == Verdict(pass, hasNodes, blocking, open, budget)
             status  == IF verdict THEN "satisfied" ELSE "open"
         IN DispatchAllowed(status, pass, blocking, budget) <=> verdict
BY DEF Verdict, DispatchAllowed

-----------------------------------------------------------------------------
(* The inductive invariant.                                                *)

LEMMA AtType ==
  ASSUME NEW s \in Steps, NEW b \in Budgets \cup {0}
  PROVE  At(s, b) \in Elaborations
<1>1. {} \in SUBSET Conditions /\ 0 \in Nat
  OBVIOUS
<1> QED
  BY <1>1 DEF At, Elaborations

LEMMA IdleType == Idle \in Elaborations /\ At("decompose", 0) \in Elaborations
BY AtType DEF Idle, Steps

LEMMA InitGateInv == PlanInit => GateInv
<1> SUFFICES ASSUME PlanInit PROVE GateInv
  OBVIOUS
<1>1. PlanTypeOK
  <2>1. elab \in Elaborations
    BY IdleType DEF PlanInit
  <2>2. count \in Counts
    BY PlanConstants DEF PlanInit, Counts
  <2> QED
    BY <2>1, <2>2 DEF PlanInit, PlanTypeOK, Artifacts
<1> USE DEF PlanInit, Idle, At
<1>2. SatisfiedHasEvidence /\ QuestionsGrow /\ DraftNeeded
  BY DEF SatisfiedHasEvidence, QuestionsGrow, DraftNeeded
<1>3. EvidenceStands /\ CountStands /\ VerdictStands
  BY DEF EvidenceStands, CountStands, VerdictStands, AfterEvidence, AfterQuestions
<1> QED
  BY <1>1, <1>2, <1>3 DEF GateInv

LEMMA CountType ==
  ASSUME PlanTypeOK
  PROVE  /\ Counted("requests", MaxRequests) => count' \in Counts
         /\ Counted("crashes", MaxCrashes)   => count' \in Counts
         /\ Counted("misreads", MaxCrashes)  => count' \in Counts
<1> USE DEF Counts, Counted
<1>1. count \in Counts
  BY DEF PlanTypeOK
<1>2. ASSUME Counted("requests", MaxRequests)
      PROVE  count' \in Counts
  <2>1. count.requests + 1 \in 0..MaxRequests
    BY <1>1, <1>2, PlanConstants
  <2> QED
    BY <1>1, <1>2, <2>1
<1>3. ASSUME Counted("crashes", MaxCrashes)
      PROVE  count' \in Counts
  <2>1. count.crashes + 1 \in 0..MaxCrashes
    BY <1>1, <1>3, PlanConstants
  <2> QED
    BY <1>1, <1>3, <2>1
<1>4. ASSUME Counted("misreads", MaxCrashes)
      PROVE  count' \in Counts
  <2>1. count.misreads + 1 \in 0..MaxCrashes
    BY <1>1, <1>4, PlanConstants
  <2> QED
    BY <1>1, <1>4, <2>1
<1> QED
  BY <1>2, <1>3, <1>4

\* Failed queries are counted, never forgotten.
LEMMA MisreadsGrow ==
  ASSUME PlanTypeOK, [PlanNext]_planVars
  PROVE  /\ count.misreads \in Nat /\ count'.misreads \in Nat
         /\ count.misreads <= count'.misreads
         /\ QueryFails => count'.misreads > 0
<1>1. count \in Counts /\ count.misreads \in Nat
  BY PlanConstants DEF PlanTypeOK, Counts
<1>2. CASE count' = count /\ ~QueryFails
  BY <1>1, <1>2
<1>3. CASE (Counted("requests", MaxRequests) \/ Counted("crashes", MaxCrashes)) /\ ~QueryFails
  BY <1>1, <1>3 DEF Counted, Counts
<1>4. CASE QueryFails
  BY <1>1, <1>4 DEF QueryFails, Counted, Counts
<1> QED
  BY <1>2, <1>3, <1>4
  DEF PlanNext, Elaborate, planVars, Begin, EnsurePlan, EnsureGate, CheckArtifacts,
     DraftArtifacts, DraftFails, ReadEvidence, CountBlocking, CountNodes, CheckGraph, Decide,
     WriteGate, Decompose, InsertGraph, ForceOverride, EndEarly, Converse, AddNode, AddEdge

LEMMA TypeStep == PlanTypeOK /\ [PlanNext]_planVars => PlanTypeOK'
<1> SUFFICES ASSUME PlanTypeOK, [PlanNext]_planVars PROVE PlanTypeOK'
  OBVIOUS
<1> USE DEF PlanTypeOK, Elaborations, db
<1>0. CASE UNCHANGED planVars
  BY <1>0 DEF planVars
<1>1. CASE Begin
  <2>1. edges \subseteq Nodes \X Nodes
    OBVIOUS
  <2>2. began' \in [blocking : Nat, open : Nat, edges : SUBSET (Nodes \X Nodes)]
    BY <1>1, <2>1 DEF Begin
  <2>3. elab' \in Elaborations
    BY <1>1, AtType DEF Begin, Steps
  <2> QED
    BY <1>1, <2>2, <2>3 DEF Begin
<1>2. CASE EnsurePlan
  BY <1>2 DEF EnsurePlan, Go, Steps
<1>3. CASE EnsureGate
  BY <1>3 DEF EnsureGate, Go, Steps
<1>4. CASE CheckArtifacts
  BY <1>4 DEF CheckArtifacts, Go, Steps
<1>5. CASE DraftArtifacts
  <2>1. artifacts' \subseteq Artifacts
    BY <1>5, PlanConstants DEF DraftArtifacts
  <2> QED
    BY <1>5, <2>1 DEF DraftArtifacts, Go, Steps
<1>6. CASE DraftFails
  BY <1>6 DEF DraftFails, Go, Steps
<1>7. CASE ReadEvidence
  <2>1. Evidence \subseteq Conditions
    BY DEF Evidence, Conditions
  <2> QED
    BY <1>7, <2>1 DEF ReadEvidence, Steps
<1>8. CASE CountBlocking
  BY <1>8 DEF CountBlocking, Conditions, Steps
<1>9. CASE CountNodes
  BY <1>9 DEF CountNodes, Steps
<1>10. CASE CheckGraph
  BY <1>10 DEF CheckGraph, Conditions, Steps
<1>11. CASE Decide
  BY <1>11 DEF Decide, Decided, Steps
<1>12. CASE WriteGate
  BY <1>12 DEF WriteGate, Go, Steps
<1>13. CASE Decompose
  BY <1>13 DEF Decompose, Go, Steps
<1>14. CASE InsertGraph
  <2>1. nodes' = Nodes /\ edges' \subseteq Nodes \X Nodes
    BY <1>14, PlanConstants DEF InsertGraph
  <2> QED
    BY <1>14, <2>1 DEF InsertGraph, Go, Steps
<1>15. CASE ForceOverride
  <2>1. elab' \in Elaborations
    BY <1>15, IdleType DEF ForceOverride
  <2>2. count' \in Counts
    BY <1>15, CountType DEF ForceOverride
  <2> QED
    BY <1>15, <2>1, <2>2 DEF ForceOverride
<1>16. CASE EndEarly
  BY <1>16, CountType, IdleType DEF EndEarly
<1>17. CASE QueryFails
  <2>1. {Decided(0), "open", "draft"} \subseteq Steps
    BY DEF Decided, Steps
  <2>2. elab.pass \cup {"dependencies_acyclic"} \in SUBSET Conditions
    BY DEF Conditions
  <2>3. elab' \in Elaborations
    BY <1>17, <2>1, <2>2 DEF QueryFails
  <2> QED
    BY <1>17, <2>3, CountType DEF QueryFails
<1>18. CASE Converse
  <2>1. questions' \in [blocking : Nat, other : Nat]
    BY <1>18, PlanConstants DEF Converse
  <2> QED
    BY <1>18, <2>1, CountType DEF Converse, Artifacts
<1>19. ASSUME NEW n \in Nodes, AddNode(n) PROVE PlanTypeOK'
  BY <1>19, CountType DEF AddNode
<1>20. ASSUME NEW e \in Edges, AddEdge(e) PROVE PlanTypeOK'
  <2>1. e \in Nodes \X Nodes
    BY <1>20, PlanConstants
  <2>2. e \in nodes \X nodes
    BY <1>20, <2>1 DEF AddEdge
  <2> QED
    BY <1>20, <2>2, CountType DEF AddEdge
<1> QED
  BY <1>0, <1>1, <1>2, <1>3, <1>4, <1>5, <1>6, <1>7, <1>8, <1>9, <1>10, <1>11, <1>12,
     <1>13, <1>14, <1>15, <1>16, <1>17, <1>18, <1>19, <1>20
  DEF PlanNext, Elaborate

\* For every policy, draft and graph the state is well typed: in particular every
\* edge joins nodes of the objective.
THEOREM PlanTypeCorrect == PlanSpec => []PlanTypeOK
<1>1. PlanInit => PlanTypeOK
  BY InitGateInv DEF GateInv
<1> QED
  BY <1>1, TypeStep, PTL DEF PlanSpec

-----------------------------------------------------------------------------
(* A satisfied gate stands on a whole plan and on the policy's budgets.    *)

\* Only a draft takes an artifact away, and none is made under a whole plan.
LEMMA ArtifactsGrow ==
  GateInv /\ [PlanNext]_planVars => artifacts \subseteq artifacts' \/ DraftArtifacts
<1> SUFFICES ASSUME GateInv, [PlanNext]_planVars
             PROVE  artifacts \subseteq artifacts' \/ DraftArtifacts
  OBVIOUS
<1> QED
  BY DEF PlanNext, Elaborate, planVars, db, Begin, EnsurePlan, EnsureGate, CheckArtifacts,
     DraftFails, ReadEvidence, CountBlocking, CountNodes, CheckGraph, Decide, WriteGate,
     Decompose, InsertGraph, ForceOverride, EndEarly, QueryFails, Converse, AddNode, AddEdge

LEMMA SummaryStays == [PlanNext]_planVars => summary' = summary
BY DEF PlanNext, Elaborate, planVars, db, Begin, EnsurePlan, EnsureGate, CheckArtifacts,
   DraftArtifacts, DraftFails, ReadEvidence, CountBlocking, CountNodes, CheckGraph, Decide,
   WriteGate, Decompose, InsertGraph, ForceOverride, EndEarly, QueryFails, Converse, AddNode, AddEdge

\* What a plan shows it goes on showing.
LEMMA EvidenceGrows ==
  ASSUME artifacts \subseteq artifacts', summary' = summary
  PROVE  Evidence \subseteq Evidence'
BY DEF Evidence

LEMMA QuestionsGrowStep == GateInv /\ [PlanNext]_planVars => QuestionsGrow'
<1> SUFFICES ASSUME GateInv, [PlanNext]_planVars PROVE QuestionsGrow'
  OBVIOUS
<1> USE DEF QuestionsGrow
<1>1. /\ questions \in [blocking : Nat, other : Nat]
      /\ began \in [blocking : Nat, open : Nat, edges : SUBSET (Nodes \X Nodes)]
      /\ QuestionsGrow
  BY DEF GateInv, PlanTypeOK
<1>2. CASE Begin
  BY <1>1, <1>2 DEF Begin, db
<1>3. CASE Converse
  <2>1. PICK ask \in Asks : questions' = [blocking |-> questions.blocking + ask.blocking,
                                          other |-> questions.other + ask.other]
    BY <1>3 DEF Converse
  <2>2. ask.blocking \in Nat /\ ask.other \in Nat
    BY PlanConstants
  <2>3. began' = began
    BY <1>3 DEF Converse
  <2> QED
    BY <1>1, <2>1, <2>2, <2>3
<1>4. CASE questions' = questions /\ began' = began
  BY <1>1, <1>4
<1> QED
  BY <1>2, <1>3, <1>4
  DEF PlanNext, Elaborate, planVars, db, EnsurePlan, EnsureGate, CheckArtifacts,
     DraftArtifacts, DraftFails, ReadEvidence, CountBlocking, CountNodes, CheckGraph,
     Decide, WriteGate, Decompose, InsertGraph, ForceOverride, EndEarly, QueryFails, AddNode,
     AddEdge

LEMMA DraftNeededStep == GateInv /\ [PlanNext]_planVars => DraftNeeded'
<1> SUFFICES ASSUME GateInv, [PlanNext]_planVars, elab'.step = "draft"
             PROVE  \/ ~({"architecture", "milestones"} \subseteq artifacts')
                    \/ count'.misreads > 0
  BY DEF DraftNeeded
<1>1. elab \in Elaborations /\ DraftNeeded
  BY DEF GateInv, PlanTypeOK
<1>9. /\ count.misreads \in Nat /\ count'.misreads \in Nat
      /\ count.misreads <= count'.misreads
      /\ QueryFails => count'.misreads > 0
  BY MisreadsGrow DEF GateInv
<1>2. CASE CheckArtifacts
  BY <1>1, <1>2 DEF CheckArtifacts, Go, Elaborations, db
<1>3. CASE artifacts' \subseteq artifacts \cup {"invariants"} /\ elab' = elab
  <2>1. CASE count.misreads > 0
    BY <1>9, <2>1
  <2>2. CASE ~({"architecture", "milestones"} \subseteq artifacts)
    BY <1>3, <2>2
  <2> QED
    BY <1>1, <1>3, <2>1, <2>2 DEF DraftNeeded
<1>4. CASE QueryFails
  BY <1>9, <1>4
<1>5. ~(Begin \/ ForceOverride \/ EndEarly)
  BY DEF Begin, ForceOverride, EndEarly, At, Idle
<1>6. ~(EnsurePlan \/ EnsureGate \/ DraftArtifacts \/ DraftFails \/ WriteGate
          \/ Decompose \/ InsertGraph)
  BY <1>1 DEF Go, EnsurePlan, EnsureGate, DraftArtifacts, DraftFails, WriteGate, Decompose,
     InsertGraph, Elaborations
<1>7. ~(ReadEvidence \/ CountBlocking \/ CountNodes \/ CheckGraph)
  BY <1>1 DEF ReadEvidence, CountBlocking, CountNodes, CheckGraph, Elaborations
<1>8. ~Decide
  BY <1>1 DEF Decide, Decided, Elaborations
<1> QED
  BY <1>2, <1>3, <1>4, <1>5, <1>6, <1>7, <1>8
  DEF PlanNext, Elaborate, planVars, db, Converse, AddNode, AddEdge

\* The steps of an elaboration that lead to one that has read its evidence.
LEMMA StepsAfterEvidence ==
  ASSUME GateInv, [PlanNext]_planVars, elab'.step \in AfterEvidence
  PROVE  \/ elab' = elab /\ artifacts \subseteq artifacts'
         \/ ReadEvidence \/ CountBlocking \/ CountNodes \/ CheckGraph \/ Decide
         \/ QueryFails
<1>1. elab \in Elaborations
  BY DEF GateInv, PlanTypeOK
<1>2. ~(Begin \/ ForceOverride \/ EndEarly)
  BY DEF Begin, ForceOverride, EndEarly, At, Idle, AfterEvidence
<1>3. ~(EnsurePlan \/ EnsureGate \/ WriteGate \/ Decompose \/ InsertGraph)
  BY <1>1 DEF Go, EnsurePlan, EnsureGate, WriteGate, Decompose, InsertGraph, Elaborations,
     AfterEvidence
<1>4. ~(CheckArtifacts \/ DraftArtifacts \/ DraftFails)
  BY <1>1 DEF Go, CheckArtifacts, DraftArtifacts, DraftFails, Elaborations, AfterEvidence
<1> QED
  BY <1>2, <1>3, <1>4
  DEF PlanNext, Elaborate, planVars, db, Converse, AddNode, AddEdge

\* Only the first step of an elaboration notes what there was when it began.
LEMMA EarlierBegan ==
  ASSUME [PlanNext]_planVars, elab'.step \in AfterEvidence
  PROVE  began' = began
<1>1. ~Begin
  BY DEF Begin, At, AfterEvidence
<1> QED
  BY <1>1 DEF PlanNext, Elaborate, planVars, EnsurePlan, EnsureGate, CheckArtifacts,
     DraftArtifacts, DraftFails, ReadEvidence, CountBlocking, CountNodes, CheckGraph, Decide,
     QueryFails, WriteGate, Decompose, InsertGraph, ForceOverride, EndEarly, Converse,
     AddNode, AddEdge

\* After the questions only the check of the graph adds a condition.
LEMMA LaterStep ==
  ASSUME elab \in Elaborations, CountNodes \/ CheckGraph \/ Decide \/ QueryFails,
         elab'.step \in AfterEvidence
  PROVE  /\ elab.step \in AfterQuestions /\ elab'.step # "questions"
         /\ elab'.blocking = elab.blocking
         /\ elab'.pass \subseteq elab.pass \cup {"dependencies_acyclic"}
<1> USE DEF AfterQuestions, AfterEvidence
<1>1. CASE CountNodes
  BY <1>1 DEF CountNodes, Elaborations
<1>2. CASE CheckGraph
  BY <1>2 DEF CheckGraph, Elaborations
<1>3. ASSUME NEW open \in Nat, elab.step = "open",
             \/ elab' = [elab EXCEPT !.step = Decided(open)]
             \/ elab' = [elab EXCEPT !.step = Decided(open), !.failed = TRUE]
      PROVE  /\ elab'.step # "questions" /\ elab'.blocking = elab.blocking
             /\ elab'.pass = elab.pass
  <2>1. Decided(open) # "questions"
    BY DEF Decided
  <2> QED
    BY <1>3, <2>1 DEF Elaborations
<1>4. CASE Decide
  BY <1>4 DEF Decide, Decided, Elaborations
<1>5. CASE QueryFails /\ elab.step = "graph"
  BY <1>5 DEF QueryFails, Elaborations
<1>6. CASE QueryFails /\ elab.step = "open"
  <2>1. elab' = [elab EXCEPT !.step = Decided(0), !.failed = TRUE]
    BY <1>6 DEF QueryFails
  <2> QED
    BY <1>3, <1>6, <2>1
<1>7. CASE QueryFails /\ elab.step = "artifacts"
  BY <1>7 DEF QueryFails, Elaborations
<1> QED
  BY <1>1, <1>2, <1>4, <1>5, <1>6, <1>7 DEF QueryFails

LEMMA EvidenceStandsStep == GateInv /\ [PlanNext]_planVars => EvidenceStands'
<1> SUFFICES ASSUME GateInv, [PlanNext]_planVars, elab'.step \in AfterEvidence
             PROVE  elab'.pass \ {"dependencies_acyclic", "unresolved_questions_below_budget"}
                      \subseteq Evidence'
  BY DEF EvidenceStands
<1>1. elab \in Elaborations /\ EvidenceStands
  BY DEF GateInv, PlanTypeOK
<1>2. CASE elab' = elab /\ artifacts \subseteq artifacts'
  BY <1>1, <1>2, SummaryStays, EvidenceGrows DEF EvidenceStands
<1>3. CASE ReadEvidence
  <2>1. Evidence' = Evidence
    BY <1>3 DEF ReadEvidence, db, Evidence
  <2> QED
    BY <1>1, <1>3, <2>1 DEF ReadEvidence, Elaborations
<1>4. CASE CountBlocking \/ CountNodes \/ CheckGraph \/ Decide \/ QueryFails
  <2>1. Evidence' = Evidence
    BY <1>4 DEF CountBlocking, CountNodes, CheckGraph, Decide, QueryFails, db, Evidence
  <2>2. elab.step \in AfterEvidence
    BY <1>1, <1>4, LaterStep DEF CountBlocking, AfterQuestions, AfterEvidence
  <2>3. elab'.pass \subseteq
          elab.pass \cup {"dependencies_acyclic", "unresolved_questions_below_budget"}
    <3>1. CASE CountBlocking
      BY <1>1, <3>1 DEF CountBlocking, Elaborations
    <3> QED
      BY <1>1, <1>4, <3>1, LaterStep
  <2> QED
    BY <1>1, <2>1, <2>2, <2>3 DEF EvidenceStands
<1> QED
  BY <1>2, <1>3, <1>4, StepsAfterEvidence

LEMMA CountStandsStep == GateInv /\ [PlanNext]_planVars => CountStands'
<1> SUFFICES ASSUME GateInv, [PlanNext]_planVars, elab'.step \in AfterEvidence
             PROVE  CountStands'
  BY DEF CountStands, AfterQuestions, AfterEvidence
<1> USE DEF AfterQuestions, AfterEvidence, CountStands
<1>1. /\ elab \in Elaborations /\ CountStands /\ QuestionsGrow
      /\ questions \in [blocking : Nat, other : Nat]
  BY DEF GateInv, PlanTypeOK
<1>2. began' = began
  BY EarlierBegan
<1>3. CASE elab' = elab
  BY <1>1, <1>2, <1>3
<1>4. CASE ReadEvidence
  BY <1>1, <1>4 DEF ReadEvidence, Evidence, Elaborations
<1>5. CASE CountBlocking
  BY <1>1, <1>2, <1>5 DEF CountBlocking, QuestionsGrow, Elaborations
<1>6. CASE CountNodes \/ CheckGraph \/ Decide \/ QueryFails
  <2>1. /\ elab.step \in AfterQuestions /\ elab'.step # "questions"
        /\ elab'.blocking = elab.blocking
        /\ elab'.pass \subseteq elab.pass \cup {"dependencies_acyclic"}
    BY <1>1, <1>6, LaterStep
  <2> QED
    BY <1>1, <1>2, <2>1
<1> QED
  BY <1>3, <1>4, <1>5, <1>6, StepsAfterEvidence

LEMMA BudgetIsInt ==
  ASSUME elab \in Elaborations
  PROVE  elab.budget \in Int
<1>1. elab.budget \in Budgets \cup {0}
  BY DEF Elaborations
<1>2. Budgets \cup {0} \subseteq Int
  BY PlanConstants
<1> QED
  BY <1>1, <1>2

\* A favourable verdict, in terms of what has been read.
LEMMA DecidedSatisfied ==
  ASSUME elab \in Elaborations, NEW open \in Nat, Decided(open) = "satisfied"
  PROVE  Conditions \subseteq elab.pass /\ elab.blocking <= elab.budget /\ open <= 5
<1> DEFINE pass == [c \in Conditions |-> c \in elab.pass]
<1>1. elab.blocking \in Nat /\ elab.hasNodes \in BOOLEAN /\ elab.budget \in Int
  BY BudgetIsInt DEF Elaborations
<1>2. pass \in [Conditions -> BOOLEAN]
  OBVIOUS
<1>3. Verdict(pass, elab.hasNodes, elab.blocking, open, elab.budget)
  BY DEF Decided
<1>4. (\A c \in Conditions : pass[c]) /\ elab.blocking <= elab.budget /\ open <= 5
  <2> HIDE DEF pass
  <2> QED
    BY <1>1, <1>2, <1>3, VerdictIsConjunction
<1> QED
  BY <1>4

LEMMA VerdictStandsStep == GateInv /\ [PlanNext]_planVars => VerdictStands'
<1> SUFFICES ASSUME GateInv, [PlanNext]_planVars, elab'.step = "satisfied"
             PROVE  /\ Conditions \subseteq elab'.pass
                    /\ elab'.blocking <= elab'.budget
                    /\ elab'.failed \/ began'.open <= 5
  BY DEF VerdictStands
<1>1. /\ elab \in Elaborations /\ VerdictStands /\ QuestionsGrow
      /\ questions \in [blocking : Nat, other : Nat]
      /\ began \in [blocking : Nat, open : Nat, edges : SUBSET (Nodes \X Nodes)]
  BY DEF GateInv, PlanTypeOK
<1>2. began' = began
  BY EarlierBegan DEF AfterEvidence
<1>3. CASE elab' = elab
  BY <1>1, <1>2, <1>3 DEF VerdictStands
<1>4. CASE Decide
  <2> DEFINE open == questions.blocking + questions.other
  <2>1. open \in Nat /\ Decided(open) = "satisfied"
    BY <1>1, <1>4 DEF Decide, Elaborations
  <2>2. Conditions \subseteq elab.pass /\ elab.blocking <= elab.budget /\ open <= 5
    BY <1>1, <2>1, DecidedSatisfied
  <2>3. elab'.pass = elab.pass /\ elab'.blocking = elab.blocking /\ elab'.budget = elab.budget
    BY <1>1, <1>4 DEF Decide, Elaborations
  <2> QED
    BY <1>1, <1>2, <2>2, <2>3 DEF QuestionsGrow
<1>5. CASE QueryFails
  <2>1. /\ elab.step = "open" /\ Decided(0) = "satisfied" /\ elab'.failed
        /\ elab'.pass = elab.pass /\ elab'.blocking = elab.blocking
        /\ elab'.budget = elab.budget
    BY <1>1, <1>5 DEF QueryFails, Elaborations
  <2> QED
    BY <1>1, <2>1, DecidedSatisfied
<1>6. ~(ReadEvidence \/ CountBlocking \/ CountNodes \/ CheckGraph)
  BY <1>1 DEF ReadEvidence, CountBlocking, CountNodes, CheckGraph, Elaborations
<1> QED
  BY <1>3, <1>4, <1>5, <1>6, StepsAfterEvidence DEF AfterEvidence

\* The verdict is written on evidence that still holds, and no draft is inserted
\* under a satisfied gate.
LEMMA SatisfiedHasEvidenceStep == GateInv /\ [PlanNext]_planVars => SatisfiedHasEvidence'
<1> DEFINE Whole(s, A, k) == /\ s /\ Artifacts \ {"architecture"} \subseteq A
                             /\ "architecture" \in A \/ k > 0
<1> SUFFICES ASSUME GateInv, [PlanNext]_planVars, gate' = "satisfied"
             PROVE  Whole(summary', artifacts', count'.misreads)
  BY DEF SatisfiedHasEvidence
<1>1. /\ elab \in Elaborations /\ SatisfiedHasEvidence /\ DraftNeeded /\ EvidenceStands
      /\ VerdictStands
  BY DEF GateInv, PlanTypeOK
<1>4. /\ count.misreads \in Nat /\ count'.misreads \in Nat
      /\ count.misreads <= count'.misreads
  BY MisreadsGrow DEF GateInv
<1>2. CASE gate = "satisfied"
  <2>1. Whole(summary, artifacts, count.misreads)
    BY <1>1, <1>2 DEF SatisfiedHasEvidence
  <2>2. CASE artifacts \subseteq artifacts'
    <3>1. "architecture" \in artifacts' \/ count'.misreads > 0
      <4>1. CASE "architecture" \in artifacts
        BY <2>2, <4>1
      <4>2. CASE count.misreads > 0
        BY <1>4, <4>2
      <4> QED
        BY <2>1, <4>1, <4>2
    <3>2. summary' /\ Artifacts \ {"architecture"} \subseteq artifacts'
      BY <2>1, <2>2, SummaryStays
    <3> QED
      BY <3>1, <3>2
  <2>3. CASE DraftArtifacts
    <3>1. elab.step = "draft" /\ count' = count /\ artifacts \ {"architecture"} \subseteq artifacts'
      BY <2>3 DEF DraftArtifacts, Go
    <3>2. count.misreads > 0
      BY <1>1, <2>1, <3>1 DEF DraftNeeded, Artifacts
    <3> QED
      BY <2>1, <3>1, <3>2, SummaryStays
  <2> QED
    BY <2>2, <2>3, ArtifactsGrow
<1>3. CASE gate # "satisfied"
  <2>1. WriteGate /\ elab.step = "satisfied"
    BY <1>3 DEF PlanNext, Elaborate, planVars, db, Begin, EnsurePlan, EnsureGate,
       CheckArtifacts, DraftArtifacts, DraftFails, ReadEvidence, CountBlocking, CountNodes,
       CheckGraph, Decide, WriteGate, Decompose, InsertGraph, ForceOverride, EndEarly,
       QueryFails, Converse, AddNode, AddEdge, Go
  <2>2. Conditions \ {"dependencies_acyclic", "unresolved_questions_below_budget"}
          \subseteq Evidence
    BY <1>1, <2>1 DEF VerdictStands, EvidenceStands, AfterEvidence
  <2>3. summary
    BY <2>2 DEF Conditions, Evidence
  <2>4. Artifacts \subseteq artifacts
    BY <2>2 DEF Conditions, Evidence, Artifacts
  <2> QED
    BY <2>1, <2>3, <2>4 DEF WriteGate, Artifacts
<1> QED
  BY <1>2, <1>3

LEMMA GateInvStep == GateInv /\ [PlanNext]_planVars => GateInv'
BY TypeStep, SatisfiedHasEvidenceStep, QuestionsGrowStep, DraftNeededStep,
   EvidenceStandsStep, CountStandsStep, VerdictStandsStep DEF GateInv

LEMMA GateInvariant == PlanSpec => []GateInv
BY InitGateInv, GateInvStep, PTL DEF PlanSpec

\* Whatever requests, early ends, failed statements and drafts come between: while
\* the gate is satisfied the plan has a summary and every kind of artifact (but for the
\* architecture, once a count of milestones has failed).
THEOREM SatisfiedGateHasEvidence == PlanSpec => []SatisfiedHasEvidence
<1>1. GateInv => SatisfiedHasEvidence
  BY DEF GateInv
<1> QED
  BY <1>1, GateInvariant, PTL

\* For every policy, read again by each elaboration: no gate is satisfied over more
\* questions, open when the elaboration began, than the budgets allow, unless the
\* query for open questions failed.
THEOREM SatisfiedWithinBudgets == PlanSpec => BudgetsRespected
<1> DEFINE Within == /\ began.blocking <= 3 /\ began.blocking <= elab.budget
                     /\ elab.failed \/ began.open <= 5
<1>1. ASSUME GateInv, elab.step = "satisfied"
      PROVE  Within
  <2>1. /\ elab.blocking \in Nat /\ elab.budget \in Int /\ began.blocking \in Nat
        /\ Conditions \subseteq elab.pass /\ elab.blocking <= elab.budget
        /\ elab.failed \/ began.open <= 5
    <3>1. elab \in Elaborations /\ VerdictStands
      BY <1>1 DEF GateInv, PlanTypeOK
    <3>2. began.blocking \in Nat
      BY <1>1 DEF GateInv, PlanTypeOK
    <3> QED
      BY <1>1, <3>1, <3>2, BudgetIsInt DEF Elaborations, VerdictStands
  <2>2. began.blocking <= elab.blocking /\ elab.blocking <= 3
    BY <1>1, <2>1 DEF GateInv, CountStands, AfterQuestions, AfterEvidence, Conditions
  <2> QED
    BY <2>1, <2>2
<1>2. GateInv /\ [PlanNext]_planVars
        => [elab.step = "satisfied" /\ gate' = "satisfied" => Within]_planVars
  BY <1>1
<1> QED
  BY <1>2, GateInvariant, PTL DEF PlanSpec, BudgetsRespected

=============================================================================
