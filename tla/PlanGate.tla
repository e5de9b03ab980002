------------------------------ MODULE PlanGate ------------------------------
(***************************************************************************)
(* The planning of one objective: elaborate_plan and decompose_plan        *)
(* (services/loop-runner/src/planning.rs) with the rules of                *)
(* packages/planning-engine/src/validation.rs.  An elaboration creates the *)
(* plan and its gate, has an agent draft the artifacts that are missing,   *)
(* reads the evidence one statement after the other and writes the gate's  *)
(* verdict, while requests ask questions and add nodes and edges.          *)
(***************************************************************************)
EXTENDS Integers, FiniteSets

CONSTANTS
  Nodes,       \* nodes that may exist
  Drafts,      \* the artifacts an agent's draft may hold: sets of Artifacts
  Graphs,      \* the edges an agent's decomposition may have
  Edges,       \* the edges a request may add
  Asks,        \* the numbers of blocking and other questions of one request
  Budgets,     \* unresolved_question_budget of the user policy (3 if it has none),
               \* read each time
  Depth,       \* how deep the query for cycles follows edges: 100 in the code
  MaxRequests, \* bound: requests
  MaxCrashes   \* bound: elaborations that end early, and failed queries

Artifacts == {"architecture", "milestones", "criteria", "invariants", "risks"}

ASSUME PlanConstants ==
  /\ Drafts \subseteq SUBSET Artifacts
  /\ \A E \in Graphs : E \subseteq {e \in Nodes \X Nodes : e[1] # e[2]}
  /\ Edges \subseteq Nodes \X Nodes
  /\ Asks \subseteq [blocking : Nat, other : Nat]
  /\ Budgets \subseteq Int /\ Budgets # {}
  /\ Depth \in Nat \ {0} /\ MaxRequests \in Nat /\ MaxCrashes \in Nat

VARIABLES
  summary,   \* whether the objective has a summary
  plan,      \* whether the plan and its gate have been created
  artifacts, \* the kinds of artifact the plan has
  questions, \* numbers of open questions: blocking and other
  nodes,     \* nodes of the objective
  edges,     \* node_edges
  gate,      \* plan_gates.current_status
  elab,      \* the elaboration in progress: its step and what it has read
  began,     \* history: the questions and edges there were when it began
  count      \* counts requests, early ends and failed queries, for the bounds

db == <<summary, plan, artifacts, questions, nodes, edges, gate>>
planVars == <<db, elab, began, count>>

-----------------------------------------------------------------------------
(* The rules: conditions, score, validation, verdict.                      *)

Conditions == {"objective_summarized", "architecture_drafted", "milestone_tree_created",
               "acceptance_criteria_defined", "dependencies_acyclic",
               "dependencies_resolved", "invariants_extracted", "invariants_holding",
               "risks_identified", "unresolved_questions_below_budget"}

\* The parts of CompletenessScore and the conditions each stands for.
SubScores == {{"objective_summarized"}, {"architecture_drafted"},
              {"milestone_tree_created"}, {"acceptance_criteria_defined"},
              {"dependencies_acyclic", "dependencies_resolved"},
              {"invariants_extracted", "invariants_holding"},
              {"risks_identified"}, {"unresolved_questions_below_budget"}}

\* score_plan_completeness, in eighths.
Score(pass) == Cardinality({S \in SubScores : \A c \in S : pass[c]})

\* Mistake: only the entries are looked at.
ErrorsOfEntries(pass, blocking, budget) == {c \in Conditions : ~pass[c]}

\* validate_plan: the conditions with an error.  The count is compared with the
\* policy's budget, whatever the condition entry says.
Errors(pass, blocking, budget) ==
  {c \in Conditions : ~pass[c]} \cup
  {c \in {"unresolved_questions_below_budget"} : blocking > budget}

\* The gate's verdict: a score of at least 0.6, or nodes, and no error, no cycle
\* found, at most five open questions.
Verdict(pass, hasNodes, blocking, open, budget) ==
  /\ 10 * Score(pass) >= 6 * Cardinality(SubScores) \/ hasNodes
  /\ Errors(pass, blocking, budget) = {}
  /\ pass["dependencies_acyclic"]
  /\ open <= 5

\* check_dispatch_gate: whether a gate of that status lets work be dispatched.
DispatchAllowed(status, pass, blocking, budget) ==
  \/ status = "satisfied" /\ Errors(pass, blocking, budget) = {}
  \/ status = "overridden"

\* The recursive query of elaborate_plan: edges are followed to edges, to a
\* bounded depth, and each row keeps the ends of its own edge.
DepChain(E) ==
  LET rows[k \in 1..Depth] ==
        IF k = 1 THEN E
        ELSE LET before == rows[k - 1]
             IN before \cup {e \in E : \E d \in before : e[1] = d[2]}
  IN rows[Depth]
QueryFindsCycle(E) == \E e \in DepChain(E) : e[1] = e[2]

\* Reference: in an acyclic graph every set of nodes has one that waits for none
\* of the others, or of itself.
Acyclic(E) == \A S \in SUBSET Nodes \ {{}} :
                \E n \in S : \A p \in S : <<p, n>> \notin E

-----------------------------------------------------------------------------
Steps == {"idle", "plan", "gate", "artifacts", "draft", "evidence", "questions", "nodes",
          "graph", "open", "satisfied", "unsatisfied", "decompose", "insert"}
Elaborations == [step : Steps, budget : Budgets \cup {0}, pass : SUBSET Conditions,
                 blocking : Nat, hasNodes : BOOLEAN, failed : BOOLEAN]
At(step, budget) == [step |-> step, budget |-> budget, pass |-> {}, blocking |-> 0,
                     hasNodes |-> FALSE, failed |-> FALSE]
Idle == At("idle", 0)

PlanInit ==
  /\ summary \in BOOLEAN
  /\ artifacts \in {{}, {"architecture"}}   \* an objective may come with one
  /\ plan = FALSE
  /\ questions = [blocking |-> 0, other |-> 0]
  /\ nodes = {} /\ edges = {}
  /\ gate = "none"
  /\ elab = Idle
  /\ began = [blocking |-> 0, open |-> 0, edges |-> {}]
  /\ count = [requests |-> 0, crashes |-> 0, misreads |-> 0]

Go(from, to) == elab.step = from /\ elab' = [elab EXCEPT !.step = to]

\* The policy is read first.
Begin ==
  /\ elab.step = "idle"
  /\ \E b \in Budgets : elab' = At("plan", b)
  /\ began' = [blocking |-> questions.blocking,
               open |-> questions.blocking + questions.other, edges |-> edges]
  /\ UNCHANGED <<db, count>>

EnsurePlan ==
  /\ Go("plan", "gate")
  /\ plan' = TRUE
  /\ UNCHANGED <<summary, artifacts, questions, nodes, edges, gate, began, count>>

EnsureGate ==
  /\ Go("gate", "artifacts")
  /\ gate' = IF gate = "none" THEN "open" ELSE gate
  /\ UNCHANGED <<summary, plan, artifacts, questions, nodes, edges, began, count>>

\* Mistake: a draft is asked for each time.
DraftAlways ==
  /\ Go("artifacts", "draft")
  /\ UNCHANGED <<db, began, count>>

\* Without an architecture or milestones a draft is asked for.
CheckArtifacts ==
  /\ Go("artifacts", IF {"architecture", "milestones"} \subseteq artifacts
                     THEN "evidence" ELSE "draft")
  /\ UNCHANGED <<db, began, count>>

\* The agent's draft, whatever it lacks, or the complete fallback is inserted in
\* one transaction; its architecture replaces the one before.
DraftArtifacts ==
  /\ Go("draft", "evidence")
  /\ \E draft \in Drafts \cup {Artifacts} :
       artifacts' = draft \cup (artifacts \ {"architecture"})
  /\ UNCHANGED <<summary, plan, questions, nodes, edges, gate, began, count>>

\* The insertion fails, is rolled back, and the evaluation goes on.
DraftFails ==
  /\ Go("draft", "evidence")
  /\ UNCHANGED <<db, began, count>>

\* Conditions 1 to 4, 7 and 9 (6 and 8 are constantly passed).  No other step
\* takes artifacts away, so the statements that read them are one step.
Evidence ==
  {"dependencies_resolved", "invariants_holding"}
    \cup (IF summary THEN {"objective_summarized"} ELSE {})
    \cup (IF "architecture" \in artifacts THEN {"architecture_drafted"} ELSE {})
    \cup (IF "milestones" \in artifacts THEN {"milestone_tree_created"} ELSE {})
    \cup (IF "criteria" \in artifacts THEN {"acceptance_criteria_defined"} ELSE {})
    \cup (IF "invariants" \in artifacts THEN {"invariants_extracted"} ELSE {})
    \cup (IF "risks" \in artifacts THEN {"risks_identified"} ELSE {})

ReadEvidence ==
  /\ elab.step = "evidence"
  /\ elab' = [elab EXCEPT !.step = "questions", !.pass = Evidence]
  /\ UNCHANGED <<db, began, count>>

\* Mistake: questions of every severity count.
CountQuestions ==
  LET asked == questions.blocking + questions.other IN
  /\ elab.step = "questions"
  /\ elab' = [elab EXCEPT !.step = "nodes", !.blocking = asked,
                !.pass = IF asked <= 3
                         THEN @ \cup {"unresolved_questions_below_budget"} ELSE @]
  /\ UNCHANGED <<db, began, count>>

\* Condition 10 compares the blocking questions with 3, not with the policy.
CountBlocking ==
  /\ elab.step = "questions"
  /\ elab' = [elab EXCEPT !.step = "nodes", !.blocking = questions.blocking,
                !.pass = IF questions.blocking <= 3
                         THEN @ \cup {"unresolved_questions_below_budget"} ELSE @]
  /\ UNCHANGED <<db, began, count>>

CountNodes ==
  /\ elab.step = "nodes"
  /\ elab' = [elab EXCEPT !.step = "graph", !.hasNodes = nodes # {}]
  /\ UNCHANGED <<db, began, count>>

CheckGraph ==
  /\ elab.step = "graph"
  /\ elab' = [elab EXCEPT !.step = "open",
                !.pass = IF QueryFindsCycle(edges) THEN @
                         ELSE @ \cup {"dependencies_acyclic"}]
  /\ UNCHANGED <<db, began, count>>

Decided(open) ==
  LET pass == [c \in Conditions |-> c \in elab.pass] IN
  IF Verdict(pass, elab.hasNodes, elab.blocking, open, elab.budget)
  THEN "satisfied" ELSE "unsatisfied"

\* The open questions are counted, and the verdict is decided.
Decide ==
  /\ elab.step = "open"
  /\ elab' = [elab EXCEPT !.step = Decided(questions.blocking + questions.other)]
  /\ UNCHANGED <<db, began, count>>

\* The verdict is written.  The runner goes on to decomposition or tries again.
WriteGate ==
  /\ \/ Go("satisfied", "decompose") /\ gate' = "satisfied"
     \/ Go("unsatisfied", "idle")    /\ gate' = "open"
  /\ UNCHANGED <<summary, plan, artifacts, questions, nodes, edges, began, count>>

\* decompose_plan: an agent's graph, once, if the objective has no node when it is
\* asked; the edges come after the gate.
Decompose ==
  /\ Go("decompose", IF nodes = {} THEN "insert" ELSE "idle")
  /\ UNCHANGED <<db, began, count>>

\* Mistake: the edges are inserted before the nodes, in a transaction of their own.
InsertEdgesOnly ==
  /\ Go("insert", "idle")
  /\ \E E \in Graphs : edges' = edges \cup E
  /\ UNCHANGED <<summary, plan, artifacts, questions, nodes, gate, began, count>>

InsertGraph ==
  /\ Go("insert", "idle")
  /\ nodes' = Nodes
  /\ \E E \in Graphs : edges' = edges \cup E
  /\ UNCHANGED <<summary, plan, artifacts, questions, gate, began, count>>

-----------------------------------------------------------------------------
(* The environment.                                                        *)

Counted(what, limit) == /\ count[what] < limit
                        /\ count' = [count EXCEPT ![what] = @ + 1]

\* check_plan_gates gives up on the gate and forces the cycle to decomposition.
ForceOverride ==
  /\ elab.step = "idle" /\ elab' = At("decompose", 0)
  /\ Counted("requests", MaxRequests)
  /\ UNCHANGED <<db, began>>

\* A statement fails, or the runner restarts; the next tick begins again.
EndEarly ==
  /\ elab.step # "idle" /\ elab' = Idle
  /\ Counted("crashes", MaxCrashes)
  /\ UNCHANGED <<db, began>>

\* The queries for milestones, for cycles and for open questions take an error for
\* zero rows.
QueryFails ==
  /\ \/ elab.step = "artifacts" /\ elab' = [elab EXCEPT !.step = "draft", !.failed = TRUE]
     \/ elab.step = "graph" /\ elab' = [elab EXCEPT !.step = "open", !.failed = TRUE,
                                        !.pass = @ \cup {"dependencies_acyclic"}]
     \/ elab.step = "open" /\ elab' = [elab EXCEPT !.step = Decided(0), !.failed = TRUE]
  /\ Counted("misreads", MaxCrashes)
  /\ UNCHANGED <<db, began>>

\* A conversation yields questions and maybe constraints, which become invariants:
\* a request's once there is a plan, an extract's (never blocking) between two
\* elaborations.  Nothing ever answers a question.
Converse ==
  /\ Counted("requests", MaxRequests)
  /\ \E ask \in Asks :
       /\ plan \/ (elab.step = "idle" /\ ask.blocking = 0)
       /\ questions' = [blocking |-> questions.blocking + ask.blocking,
                        other |-> questions.other + ask.other]
  /\ artifacts' \in {artifacts, artifacts \cup {"invariants"}}
  /\ UNCHANGED <<summary, plan, nodes, edges, gate, elab, began>>

\* POST /nodes, or a milestone bridged to a node after the decomposition.
AddNode(n) ==
  /\ n \notin nodes
  /\ Counted("requests", MaxRequests)
  /\ nodes' = nodes \cup {n}
  /\ UNCHANGED <<summary, plan, artifacts, questions, edges, gate, elab, began>>

\* POST /node-edges checks that the nodes exist (a foreign key) and nothing else.
AddEdge(e) ==
  /\ e \in Edges /\ {e[1], e[2]} \subseteq nodes
  /\ Counted("requests", MaxRequests)
  /\ edges' = edges \cup {e}
  /\ UNCHANGED <<summary, plan, artifacts, questions, nodes, gate, elab, began>>

Elaborate ==
  \/ Begin \/ EnsurePlan \/ EnsureGate \/ CheckArtifacts \/ DraftArtifacts
  \/ DraftFails \/ ReadEvidence \/ CountBlocking \/ CountNodes \/ CheckGraph
  \/ Decide \/ WriteGate \/ Decompose \/ InsertGraph

PlanNext ==
  \/ Elaborate \/ ForceOverride \/ EndEarly \/ QueryFails \/ Converse
  \/ \E n \in Nodes : AddNode(n)
  \/ \E e \in Edges : AddEdge(e)

PlanSpec == PlanInit /\ [][PlanNext]_planVars

\* The runner elaborates the plan tick after tick.
PlanFairSpec == PlanSpec /\ WF_planVars(Elaborate)

-----------------------------------------------------------------------------
(* Properties.                                                             *)

Counts == [requests : 0..MaxRequests, crashes : 0..MaxCrashes, misreads : 0..MaxCrashes]

PlanTypeOK ==
  /\ summary \in BOOLEAN /\ plan \in BOOLEAN
  /\ artifacts \subseteq Artifacts
  /\ questions \in [blocking : Nat, other : Nat]
  /\ nodes \subseteq Nodes /\ edges \subseteq nodes \X nodes
  /\ gate \in {"none", "open", "satisfied"}
  /\ elab \in Elaborations
  /\ began \in [blocking : Nat, open : Nat, edges : SUBSET (Nodes \X Nodes)]
  /\ count \in Counts

\* A satisfied gate stands on a whole plan: however often drafts are made, fail or
\* replace one another, nothing takes an artifact from under it; except that after a
\* failed count of milestones a draft without an architecture may replace it.
SatisfiedHasEvidence ==
  gate = "satisfied" => /\ summary /\ Artifacts \ {"architecture"} \subseteq artifacts
                        /\ "architecture" \in artifacts \/ count.misreads > 0

\* No elaboration satisfies the gate if more questions were open when it began than
\* the policy, condition 10 and the cap on open questions allow, although it reads
\* them one statement at a time; unless the query for open questions failed.
BudgetsRespected ==
  [][elab.step = "satisfied" /\ gate' = "satisfied" =>
       /\ began.blocking <= 3 /\ began.blocking <= elab.budget
       /\ elab.failed \/ began.open <= 5]_planVars

\* A whole plan with few questions and no node that waits for itself opens the gate
\* in the end, and again after every evaluation that fails.
PlanReady ==
  /\ summary /\ artifacts = Artifacts
  /\ questions.blocking <= 3 /\ \A b \in Budgets : questions.blocking <= b
  /\ questions.blocking + questions.other <= 5
  /\ \A n \in Nodes : <<n, n>> \notin edges
GateOpens == <>[]PlanReady => <>[](gate = "satisfied")

-----------------------------------------------------------------------------
(* The inductive invariant behind SatisfiedHasEvidence and BudgetsRespected. *)

\* Questions are never taken back.
QuestionsGrow ==
  /\ began.blocking <= questions.blocking
  /\ began.open <= questions.blocking + questions.other

\* A draft is asked for only while something is missing, so never under a
\* satisfied gate, unless the milestones were misread.
DraftNeeded ==
  elab.step = "draft" =>
    ~({"architecture", "milestones"} \subseteq artifacts) \/ count.misreads > 0

\* What an elaboration has read of the plan still holds.
AfterEvidence == {"questions", "nodes", "graph", "open", "satisfied"}
EvidenceStands ==
  elab.step \in AfterEvidence =>
    elab.pass \ {"dependencies_acyclic", "unresolved_questions_below_budget"} \subseteq Evidence

\* What it has read of the questions is no less than there was when it began.
AfterQuestions == AfterEvidence \ {"questions"}
CountStands ==
  /\ elab.step = "questions" => "unresolved_questions_below_budget" \notin elab.pass
  /\ elab.step \in AfterQuestions =>
       /\ began.blocking <= elab.blocking
       /\ "unresolved_questions_below_budget" \in elab.pass => elab.blocking <= 3

\* What a favourable verdict stands on.
VerdictStands ==
  elab.step = "satisfied" =>
    /\ Conditions \subseteq elab.pass
    /\ elab.blocking <= elab.budget
    /\ elab.failed \/ began.open <= 5

GateInv ==
  /\ PlanTypeOK /\ SatisfiedHasEvidence
  /\ QuestionsGrow /\ DraftNeeded /\ EvidenceStands /\ CountStands /\ VerdictStands

-----------------------------------------------------------------------------
(* What the documentation claims, and TLC refutes; see the README.         *)

\* docs/GATED_EXECUTION_AND_PLANNING.md:55: condition 5, "blocking dependencies do
\* not form a cycle": no elaboration that began with a cycle satisfies the gate.
GateMeansAcyclic ==
  [][elab.step = "satisfied" /\ gate' = "satisfied" =>
       elab.failed \/ Acyclic(began.edges)]_planVars

=============================================================================
