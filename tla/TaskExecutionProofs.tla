------------------------ MODULE TaskExecutionProofs ------------------------
(***************************************************************************)
(* Proofs about TaskExecution, for every set of nodes, every dependency    *)
(* graph, every number of executors and every bound.                       *)
(***************************************************************************)
EXTENDS TaskExecution, TLAPS, SequenceTheorems, FiniteSetTheorems

-----------------------------------------------------------------------------
(* Type correctness.                                                       *)

\* The count of running attempts is a number, so the tick's slots are too.
LEMMA RunningCountType ==
  RunningCount \in Nat
<1> DEFINE T == {r \in Nodes \X (1..MaxAttempts) : r[2] \in LiveWorkerAttempts(r[1])}
<1>1. IsFiniteSet(Nodes \X (1..MaxAttempts))
  <2>1. IsFiniteSet(Nodes) /\ MaxAttempts \in Int
    BY ConstantsAssumption DEF ConstantsAssumption
  <2>2. IsFiniteSet(1..MaxAttempts)
    BY <2>1, FS_Interval
  <2> QED
    BY <2>1, <2>2, FS_Product
<1>2. T \subseteq Nodes \X (1..MaxAttempts)
  OBVIOUS
<1>3. IsFiniteSet(T)
  BY <1>1, <1>2, FS_Subset
<1> QED
  BY <1>3, FS_CardinalityType DEF RunningCount

\* Closing the running attempts of a task keeps its rows well typed.
LEMMA ClosedAttemptsType ==
  ASSUME NEW s \in Seq(Attempt)
  PROVE  [i \in DOMAIN s |-> IF s[i].status = "running"
                             THEN [s[i] EXCEPT !.status = "succeeded"] ELSE s[i]]
         \in Seq(Attempt)
<1> DEFINE t == [i \in DOMAIN s |-> IF s[i].status = "running"
                             THEN [s[i] EXCEPT !.status = "succeeded"] ELSE s[i]]
<1>1. /\ DOMAIN s = 1..Len(s) /\ Len(s) \in Nat
      /\ \A i \in DOMAIN s : s[i] \in Attempt
  BY ElementOfSeq, LenProperties
<1>2. \A i \in DOMAIN s : t[i] \in Attempt
  BY <1>1 DEF Attempt, AttemptStatuses, Owners
<1>3. t \in [1..Len(s) -> Attempt]
  BY <1>1, <1>2
<1> QED
  BY <1>1, <1>3, SeqDef

\* Recording a result in one attempt keeps a task's rows well typed.
LEMMA RecordedAttemptType ==
  ASSUME NEW s \in Seq(Attempt), NEW i, NEW result \in AttemptStatuses
  PROVE  [s EXCEPT ![i].status = result] \in Seq(Attempt)
<1> DEFINE t == [s EXCEPT ![i].status = result]
<1>1. /\ DOMAIN s = 1..Len(s) /\ Len(s) \in Nat
      /\ \A j \in DOMAIN s : s[j] \in Attempt
  BY ElementOfSeq, LenProperties
<1>2. DOMAIN t = DOMAIN s /\ \A j \in DOMAIN s : t[j] \in Attempt
  BY <1>1 DEF Attempt, Owners
<1>3. t \in [1..Len(s) -> Attempt]
  BY <1>1, <1>2
<1> QED
  BY <1>1, <1>3, SeqDef

LEMMA InitTypeOK == Init => TypeOK
<1> SUFFICES ASSUME Init PROVE TypeOK
  OBVIOUS
<1> USE ConstantsAssumption DEF ConstantsAssumption, Init
<1>1. DbType
  BY DEF DbType, Statuses, Lifecycles
<1>2. RunnerType
  BY DEF RunnerType, IdleRunner
<1>3. ExecType
  BY DEF ExecType, Placed, Activity, Free
<1> QED
  BY <1>1, <1>2, <1>3 DEF TypeOK

-----------------------------------------------------------------------------
(* How an activity moves keeps it an activity.                             *)

LEMMA MovedActivity ==
  ASSUME ExecType, NEW e \in Executors, NEW pc \in WorkerPcs \cup WakingPcs,
         NodeOf(e) \in Nodes, Goto(e, pc)
  PROVE  ExecType'
  BY DEF ExecType, Placed, Activity, NodeOf, Goto

LEMMA EndedActivity ==
  ASSUME ExecType, NEW e \in Executors, Exit(e)
  PROVE  ExecType'
<1>1. Free \in Activity /\ Placed(Free)
  BY DEF Free, Activity, Placed
<1> QED
  BY <1>1 DEF ExecType, Exit

LEMMA ReplacedActivity ==
  ASSUME ExecType, NEW e \in Executors, NEW x \in Activity, Placed(x),
         exec' = [exec EXCEPT ![e] = x]
  PROVE  ExecType'
  BY DEF ExecType, Placed

LEMMA PlacedWorker ==
  ASSUME ExecType, NEW e \in Executors,
         exec[e].pc \in WorkerPcs \cup {"unblock", "relabel"}
  PROVE  NodeOf(e) \in Nodes
  BY DEF ExecType, Placed, NodeOf, WorkerPcs

\* Every step keeps the types of the tables ...
LEMMA DbStep == TypeOK /\ [Next]_vars => DbType'
<1> SUFFICES ASSUME TypeOK, [Next]_vars PROVE DbType'
  OBVIOUS
<1>0. DbType /\ RunnerType /\ ExecType
  BY DEF TypeOK
<1> USE <1>0, ConstantsAssumption DEF ConstantsAssumption, DbType, Statuses, Lifecycles
<1>1. CASE UNCHANGED db
  BY <1>1 DEF db
<1>2. CASE CreateTask
  <2>1. Cardinality(Tasks) + 1 \in Nat
    <3>1. IsFiniteSet(Tasks)
      BY FS_Subset DEF Tasks
    <3> QED
      BY <3>1, FS_CardinalityType
  <2>2. runner.node \in Nodes
    BY <1>2 DEF CreateTask, RunnerType
  <2> QED
    <3>1. created' \in [Nodes -> Nat]
      BY <1>2, <2>1, <2>2 DEF CreateTask
    <3>2. status' \in [Nodes -> Statuses] /\ lifecycle' \in [Nodes -> Lifecycles]
      BY <1>2, <2>2 DEF CreateTask
    <3>3. budget' \in [Nodes -> 0..RetryBudget]
      BY <1>2, <2>2 DEF CreateTask
    <3> QED
      BY <1>2, <3>1, <3>2, <3>3 DEF CreateTask
<1>3. CASE DispatchQueued
  <2>1. Started("loop-runner") \in Attempt
    BY DEF Started, Attempt, Owners, AttemptStatuses
  <2>2. ASSUME NEW n \in Nodes
        PROVE  Append(attempts[n], Started("loop-runner")) \in Seq(Attempt)
    BY <2>1, AppendProperties
  <2>3. runner.batch \subseteq Nodes
    BY DEF RunnerType
  <2>4. attempts' \in [Nodes -> Seq(Attempt)]
    <3>1. attempts' = attempts
          \/ \E n \in Nodes : attempts' = [attempts EXCEPT ![n] =
                                          Append(attempts[n], Started("loop-runner"))]
      BY <1>3, <2>3 DEF DispatchQueued, db
    <3> QED
      BY <3>1, <2>2
  <2>5. status' \in [Nodes -> Statuses] /\ lifecycle' \in [Nodes -> Lifecycles]
    BY <1>3, <2>3 DEF DispatchQueued, db
  <2>6. journal' \subseteq Nodes /\ UNCHANGED <<budget, created, gate>>
    BY <1>3, <2>3 DEF DispatchQueued, db
  <2> QED
    BY <2>4, <2>5, <2>6
<1>4. CASE EvaluateGate
  BY <1>4 DEF EvaluateGate
<1>5. ASSUME NEW e \in Executors, Executor(e) PROVE DbType'
  <2>0. exec[e].pc \in WorkerPcs \cup {"unblock", "relabel"} => NodeOf(e) \in Nodes
    BY PlacedWorker
  <2> USE <2>0 DEF At, WorkerPcs
  <2>1. CASE InsertAttempt(e)
    <3>1. Started("worker-dispatch") \in Attempt
      BY DEF Started, Attempt, Owners, AttemptStatuses
    <3>2. ASSUME NEW n \in Nodes
          PROVE  Append(attempts[n], Started("worker-dispatch")) \in Seq(Attempt)
      BY <3>1, AppendProperties
    <3> QED
      BY <2>1, <3>2 DEF InsertAttempt, db
  <2>2. ASSUME NEW result \in Results, Finish(e, result) PROVE DbType'
    <3>1. attempts' \in [Nodes -> Seq(Attempt)]
      BY <2>2, RecordedAttemptType DEF Finish, Results, AttemptStatuses
    <3> QED
      BY <2>2, <3>1 DEF Finish, Results
  <2>3. CASE Retry(e)
    <3>1. ASSUME NEW n \in Nodes, budget[n] > 0 PROVE budget[n] - 1 \in 0..RetryBudget
      BY <3>1
    <3> QED
      BY <2>3, <3>1 DEF Retry, db
  <2>4. CASE Exhaust(e)
    BY <2>4 DEF Exhaust
  <2>5. ASSUME NEW result \in {"succeeded", "failed"}, FinishVerify(e, result)
        PROVE  DbType'
    BY <2>5 DEF FinishVerify
  <2>6. CASE CompleteVerify(e)
    BY <2>6 DEF CompleteVerify
  <2>7. CASE WakeTask(e)
    <3>1. exec[e].todo \subseteq Nodes
      BY DEF ExecType, Activity
    <3> QED
      BY <2>7, <3>1 DEF WakeTask
  <2>8. CASE RelabelNode(e)
    BY <2>8 DEF RelabelNode
  <2>9. CASE UNCHANGED db
    BY <2>9, <1>1
  <2> QED
    BY <1>5, <2>1, <2>2, <2>3, <2>4, <2>5, <2>6, <2>7, <2>8, <2>9
       DEF Executor, Guard, AcquireWorkspace, NoWorkspace, ReadIndex, ReadBudget, Unblock
<1>6. ASSUME NEW n \in Nodes, ApiComplete(n) PROVE DbType'
  <2>1. attempts' \in [Nodes -> Seq(Attempt)]
    BY <1>6, ClosedAttemptsType DEF ApiComplete, CloseAttempts
  <2> QED
    BY <1>6, <2>1 DEF ApiComplete, Request
<1>7. ASSUME NEW n \in Nodes, ApiPatch(n) PROVE DbType'
  BY <1>7 DEF ApiPatch, Request
<1>8. ASSUME NEW n \in Nodes, ApiCompleteAttempt(n) PROVE DbType'
  <2>1. attempts' \in [Nodes -> Seq(Attempt)]
    <3>1. PICK i \in DOMAIN attempts[n], result \in {"succeeded", "failed", "cancelled"} :
            attempts' = [attempts EXCEPT ![n][i].status = result]
      BY <1>8 DEF ApiCompleteAttempt
    <3>2. [attempts[n] EXCEPT ![i].status = result] \in Seq(Attempt)
      BY RecordedAttemptType DEF AttemptStatuses
    <3> QED
      BY <3>1, <3>2
  <2> QED
    BY <1>8, <2>1 DEF ApiCompleteAttempt, Request
<1> QED
  BY <1>1, <1>2, <1>3, <1>4, <1>5, <1>6, <1>7, <1>8
     DEF Next, vars, Runner, Api, Crash, CheckDeps, SelectQueued, CountSlots,
         SpawnExecutors, Spawn, WorkerCrash, RunnerCrash, ActivityFails, Failure

\* ... of the activities ...
LEMMA ExecStep == TypeOK /\ [Next]_vars => ExecType'
<1> SUFFICES ASSUME TypeOK, [Next]_vars PROVE ExecType'
  OBVIOUS
<1>0. DbType /\ RunnerType /\ ExecType
  BY DEF TypeOK
<1> USE <1>0
<1>1. CASE UNCHANGED exec
  BY <1>1 DEF ExecType
<1>2. CASE SpawnExecutors
  <2> DEFINE On(n) == [Free EXCEPT !.pc = "guard", !.node = n]
  <2>1. PICK S \in SUBSET Nodes : Spawn(S)
    BY <1>2 DEF SpawnExecutors
  <2>2. PICK by \in [S -> {e \in Executors : exec[e].pc = "free"}] :
                  exec' = [e \in Executors |-> IF \E n \in S : by[n] = e
                                               THEN On(CHOOSE n \in S : by[n] = e)
                                               ELSE exec[e]]
    BY <2>1 DEF Spawn
  <2>3. \A n \in Nodes : On(n) \in Activity /\ Placed(On(n))
    BY DEF Free, Activity, Placed, WorkerPcs
  <2>4. ASSUME NEW e \in Executors, \E n \in S : by[n] = e
        PROVE  (CHOOSE n \in S : by[n] = e) \in Nodes
    BY <2>4
  <2> HIDE DEF On
  <2> QED
    BY <2>2, <2>3, <2>4 DEF ExecType, Placed
<1>3. ASSUME NEW e \in Executors, Executor(e) PROVE ExecType'
  <2>0. exec[e].pc \in WorkerPcs \cup {"unblock", "relabel"} => NodeOf(e) \in Nodes
    BY PlacedWorker
  <2>1. CASE Exit(e)
    BY <2>1, EndedActivity
  <2>2. ASSUME NEW pc \in WorkerPcs \cup WakingPcs, NodeOf(e) \in Nodes, Goto(e, pc)
        PROVE  ExecType'
    BY <2>2, MovedActivity
  <2> USE DEF At, WorkerPcs, WakingPcs
  <2>3. CASE Guard(e) \/ AcquireWorkspace(e) \/ NoWorkspace(e)
    BY <2>0, <2>1, <2>2, <2>3 DEF Guard, AcquireWorkspace, NoWorkspace
  <2>4. CASE ReadIndex(e)
    <3>1. Len(attempts[NodeOf(e)]) + 1 \in Nat
      BY <2>0, <2>4, LenProperties DEF ReadIndex, DbType
    <3> DEFINE x == [exec[e] EXCEPT !.pc = "insert", !.idx = Len(attempts[NodeOf(e)]) + 1]
    <3>2. x \in Activity /\ Placed(x)
      BY <2>0, <2>4, <3>1 DEF ReadIndex, ExecType, Placed, Activity, NodeOf
    <3>3. exec' = [exec EXCEPT ![e] = x]
      BY <2>4 DEF ReadIndex, ExecType
    <3> QED
      BY <3>2, <3>3, ReplacedActivity
  <2>5. CASE InsertAttempt(e)
    BY <2>0, <2>1, <2>2, <2>5 DEF InsertAttempt
  <2>6. ASSUME NEW result \in Results, Finish(e, result) PROVE ExecType'
    BY <2>0, <2>1, <2>2, <2>6 DEF Finish, Results
  <2>7. CASE ReadBudget(e) \/ Retry(e) \/ Exhaust(e)
    BY <2>0, <2>1, <2>2, <2>7 DEF ReadBudget, Retry, Exhaust
  <2>8. ASSUME NEW result \in {"succeeded", "failed"}, FinishVerify(e, result)
        PROVE  ExecType'
    BY <2>0, <2>1, <2>2, <2>8 DEF FinishVerify
  <2>9. CASE CompleteVerify(e)
    BY <2>1, <2>9 DEF CompleteVerify
  <2>10. CASE Unblock(e)
    <3> DEFINE woken == {n \in Succs(NodeOf(e)) : status[n] = "queued" /\ ~Unmet(n)}
               x     == [exec[e] EXCEPT !.pc = "wake", !.node = NoNode,
                                        !.idx = 0, !.todo = woken]
    <3>1. woken \subseteq Nodes
      BY DEF Succs
    <3>2. exec' = [exec EXCEPT ![e] = IF woken = {} THEN Free ELSE x]
      BY <2>10 DEF Unblock
    <3> HIDE DEF woken
    <3>3. x \in Activity /\ Placed(x)
      BY <3>1 DEF ExecType, Placed, Activity
    <3>4. CASE woken = {}
      BY <2>1, <3>2, <3>4 DEF Exit
    <3>5. CASE woken # {}
      BY <3>2, <3>3, <3>5, ReplacedActivity
    <3> QED
      BY <3>4, <3>5
  <2>11. CASE WakeTask(e)
    BY <2>11 DEF WakeTask, ExecType, Placed, Activity
  <2>12. CASE RelabelNode(e)
    BY <2>12 DEF RelabelNode, ExecType, Placed, Activity, Free
  <2> QED
    BY <1>3, <2>3, <2>4, <2>5, <2>6, <2>7, <2>8, <2>9, <2>10, <2>11, <2>12 DEF Executor
<1>4. ASSUME NEW n \in Nodes, ThenUnblock(n) PROVE ExecType'
  <2>1. PICK e \in Executors :
          exec' = [exec EXCEPT ![e].pc = "unblock", ![e].node = n, ![e].kind = "api"]
    BY <1>4 DEF ThenUnblock
  <2> DEFINE x == [exec[e] EXCEPT !.pc = "unblock", !.node = n, !.kind = "api"]
  <2>2. x \in Activity /\ Placed(x)
    BY <1>4 DEF ExecType, Placed, Activity, WakingPcs
  <2>3. exec' = [exec EXCEPT ![e] = x]
    BY <2>1 DEF ExecType
  <2> QED
    BY <2>2, <2>3, ReplacedActivity
<1>5. CASE WorkerCrash
  BY <1>5 DEF WorkerCrash, ExecType, Placed, Activity, Free
<1>6. ASSUME NEW e \in Executors, ActivityFails(e) PROVE ExecType'
  BY <1>6, EndedActivity DEF ActivityFails
<1> QED
  BY <1>1, <1>2, <1>3, <1>4, <1>5, <1>6
     DEF Next, vars, local, Runner, Api, Crash, CheckDeps, CreateTask, SelectQueued,
         DispatchQueued, EvaluateGate, CountSlots, RunnerCrash, ApiComplete, ApiPatch,
         ApiCompleteAttempt

\* ... and of everything else.
LEMMA TypeStep == TypeOK /\ [Next]_vars => TypeOK'
<1> SUFFICES ASSUME TypeOK, [Next]_vars PROVE TypeOK'
  OBVIOUS
<1>1. RunnerType'
  <2>1. CASE UNCHANGED runner
    BY <2>1 DEF TypeOK, RunnerType
  <2>2. ASSUME NEW n \in Nodes, CheckDeps(n) PROVE RunnerType'
    BY <2>2 DEF RunnerType, CheckDeps, Unmet, IdleRunner
  <2>3. CASE runner' = IdleRunner
    BY <2>3 DEF RunnerType, IdleRunner
  <2>4. CASE SelectQueued
    BY <2>4 DEF RunnerType, SelectQueued, IdleRunner
  <2>5. CASE DispatchQueued
    BY <2>5 DEF TypeOK, RunnerType, DispatchQueued, IdleRunner
  <2> QED
    BY <2>1, <2>2, <2>3, <2>4, <2>5
       DEF Next, vars, local, Runner, CreateTask, EvaluateGate, Api, Crash, CountSlots,
           SpawnExecutors, Spawn, Executor, Guard, AcquireWorkspace, NoWorkspace,
           ReadIndex, InsertAttempt, Finish, ReadBudget, Retry, Exhaust, FinishVerify,
           CompleteVerify, Unblock, WakeTask, RelabelNode, Otherwise, ApiComplete,
           ApiPatch, ApiCompleteAttempt, Request, RunnerCrash, WorkerCrash, ActivityFails
<1>2. slots' \in {-1} \cup 0..MaxAgents
  <2>1. CASE slots' = slots \/ slots' = -1
    BY <2>1 DEF TypeOK
  <2>2. CASE CountSlots
    <3>1. MaxAgents \in Nat
      BY ConstantsAssumption DEF ConstantsAssumption
    <3> QED
      BY <2>2, <3>1, RunningCountType DEF CountSlots
  <2> QED
    BY <2>1, <2>2
       DEF Next, vars, local, Runner, CheckDeps, CreateTask, SelectQueued, DispatchQueued,
           EvaluateGate, Api, Crash, SpawnExecutors, Spawn, Executor, Guard,
           AcquireWorkspace, NoWorkspace, ReadIndex, InsertAttempt, Finish, ReadBudget,
           Retry, Exhaust, FinishVerify, CompleteVerify, Unblock, WakeTask, RelabelNode,
           Otherwise, ApiComplete, ApiPatch, ApiCompleteAttempt, Request, RunnerCrash,
           WorkerCrash, ActivityFails
<1>3. apiCalls' \in 0..MaxApi /\ crashes' \in 0..MaxCrashes
  <2>0. /\ MaxApi \in Nat /\ MaxCrashes \in Nat
        /\ apiCalls \in 0..MaxApi /\ crashes \in 0..MaxCrashes
    BY ConstantsAssumption DEF ConstantsAssumption, TypeOK
  <2>1. CASE UNCHANGED bounds
    BY <2>0, <2>1 DEF bounds
  <2>2. CASE Request
    BY <2>0, <2>2 DEF Request
  <2>3. CASE Failure
    BY <2>0, <2>3 DEF Failure
  <2> QED
    BY <2>1, <2>2, <2>3
       DEF Next, vars, Runner, CheckDeps, CreateTask, SelectQueued, DispatchQueued,
           EvaluateGate, Api, Crash, CountSlots, SpawnExecutors, Spawn, Executor, Guard,
           AcquireWorkspace, NoWorkspace, ReadIndex, InsertAttempt, Finish, ReadBudget,
           Retry, Exhaust, FinishVerify, CompleteVerify, Unblock, WakeTask, RelabelNode,
           Otherwise, ApiComplete, ApiPatch, ApiCompleteAttempt, RunnerCrash,
           WorkerCrash, ActivityFails
<1> QED
  BY <1>1, <1>2, <1>3, DbStep, ExecStep DEF TypeOK

\* The tables, the loop runner and every activity keep their types.
THEOREM TypeCorrect == Spec => []TypeOK
  BY InitTypeOK, TypeStep, PTL DEF Spec

-----------------------------------------------------------------------------
(* Work follows the dependency order.                                      *)

LEMMA InitOrderInv == Init => OrderInv
<1> SUFFICES ASSUME Init PROVE OrderInv
  OBVIOUS
<1>1. OrderRespected
  BY DEF Init, OrderRespected, Working, Attempted, Free, WorkerPcs
<1>2. NotDoneBeforeStart /\ OnlyVerifyFails
  BY DEF Init, NotDoneBeforeStart, OnlyVerifyFails, Complete, Free
<1>3. RowsExist
  BY ConstantsAssumption
     DEF ConstantsAssumption, Init, RowsExist, Free, IdleRunner
<1> QED
  BY <1>1, <1>2, <1>3, InitTypeOK DEF OrderInv

\* No step takes a completed node back, the verification node excepted: the only
\* unconditional write of another lifecycle is ApiPatch's, and a task it accepts
\* is queued, whose node is not complete, or failed, which only Verify is.
LEMMA CompletionStep ==
  ASSUME OrderInv, [Next]_vars, NEW n \in Nodes \ {Verify}, Complete(n)
  PROVE  Complete(n)'
<1>0. DbType /\ RunnerType /\ ExecType
  BY DEF OrderInv, TypeOK
<1> USE <1>0 DEF Complete, DbType
<1>1. CASE UNCHANGED lifecycle
  BY <1>1
<1>2. CASE CreateTask
  BY <1>2 DEF CreateTask
<1>3. CASE DispatchQueued
  BY <1>3 DEF DispatchQueued, db
<1>4. ASSUME NEW e \in Executors, Executor(e) PROVE Complete(n)'
  <2>1. ASSUME NEW result \in Results, Finish(e, result) PROVE Complete(n)'
    BY <2>1 DEF Finish
  <2>2. CASE CompleteVerify(e)
    BY <2>2 DEF CompleteVerify
  <2>3. CASE RelabelNode(e)
    BY <2>3 DEF RelabelNode
  <2> QED
    BY <1>1, <1>4, <2>1, <2>2, <2>3
       DEF Executor, Guard, AcquireWorkspace, NoWorkspace, ReadIndex, InsertAttempt,
           ReadBudget, Retry, Exhaust, FinishVerify, Unblock, WakeTask, db
<1>5. ASSUME NEW m \in Nodes, ApiComplete(m) PROVE Complete(n)'
  BY <1>5 DEF ApiComplete
<1>6. ASSUME NEW m \in Nodes, ApiPatch(m) PROVE Complete(n)'
  <2>1. status[m] = "queued" \/ status[m] = "failed"
    BY <1>6 DEF ApiPatch
  <2>2. m # n
    BY <2>1 DEF OrderInv, NotDoneBeforeStart, OnlyVerifyFails
  <2> QED
    BY <1>6, <2>2 DEF ApiPatch
<1>7. ASSUME NEW m \in Nodes, ApiCompleteAttempt(m) PROVE Complete(n)'
  BY <1>7 DEF ApiCompleteAttempt
<1> QED
  BY <1>1, <1>2, <1>3, <1>4, <1>5, <1>6, <1>7
     DEF Next, vars, db, Runner, Api, Crash, CheckDeps, SelectQueued, EvaluateGate,
         CountSlots, SpawnExecutors, Spawn, WorkerCrash, RunnerCrash, ActivityFails,
         Failure

\* So dependencies that are met stay met: Verify is nobody's predecessor.
LEMMA MetStep ==
  ASSUME OrderInv, [Next]_vars, NEW n \in Nodes, ~Unmet(n)
  PROVE  ~Unmet(n)'
<1>1. \A p \in Preds(n) : p \in Nodes \ {Verify} /\ Complete(p)
  BY VerifyIsSink DEF Unmet, Preds
<1>2. \A p \in Preds(n) : Complete(p)'
  BY <1>1, CompletionStep
<1> QED
  BY <1>2 DEF Unmet, Preds

\* A step puts a worker on a node only if the node was ready ...
LEMMA WorkStep ==
  ASSUME OrderInv, [Next]_vars, NEW n \in Nodes, Working(n)'
  PROVE  Working(n) \/ ~Unmet(n)
<1>0. ExecType
  BY DEF OrderInv, TypeOK
<1> USE <1>0 DEF Working, ExecType
<1>1. CASE UNCHANGED exec
  BY <1>1
<1>2. CASE SpawnExecutors
  <2>1. PICK S \in SUBSET Nodes : Spawn(S)
    BY <1>2 DEF SpawnExecutors
  <2>2. PICK e \in Executors : exec'[e].pc \in WorkerPcs /\ exec'[e].node = n
    OBVIOUS
  <2>3. PICK by \in [S -> {x \in Executors : exec[x].pc = "free"}] :
             exec' = [x \in Executors |->
                        IF \E m \in S : by[m] = x
                        THEN [Free EXCEPT !.pc = "guard", !.node = CHOOSE m \in S : by[m] = x]
                        ELSE exec[x]]
    BY <2>1 DEF Spawn
  <2>4. CASE \E m \in S : by[m] = e
    <3>1. n \in S
      BY <2>2, <2>3, <2>4 DEF Free
    <3> QED
      BY <2>1, <3>1 DEF Spawn, Ready
  <2>5. CASE ~ \E m \in S : by[m] = e
    BY <2>2, <2>3, <2>5
  <2> QED
    BY <2>4, <2>5
<1>3. ASSUME NEW e \in Executors, Executor(e) PROVE Working(n)
  <2>a. CASE Exit(e)
    BY <2>a DEF Exit, Free, WorkerPcs
  <2>b. ASSUME NEW pc, Goto(e, pc), exec[e].pc \in WorkerPcs PROVE Working(n)
    <3>1. PICK f \in Executors : exec'[f].pc \in WorkerPcs /\ exec'[f].node = n
      OBVIOUS
    <3>2. exec'[f].node = exec[f].node /\ (f # e => exec'[f].pc = exec[f].pc)
      BY <2>b DEF Goto, Activity
    <3> QED
      BY <2>b, <3>1, <3>2
  <2> USE DEF At, WorkerPcs, WakingPcs
  <2>1. CASE Guard(e) \/ AcquireWorkspace(e) \/ NoWorkspace(e)
    BY <2>a, <2>b, <2>1 DEF Guard, AcquireWorkspace, NoWorkspace
  <2>2. CASE ReadIndex(e)
    BY <2>2 DEF ReadIndex, Activity
  <2>3. ASSUME NEW result \in Results, Finish(e, result) PROVE Working(n)
    BY <2>a, <2>b, <2>3 DEF Finish, Results
  <2>4. CASE InsertAttempt(e) \/ ReadBudget(e) \/ Retry(e) \/ Exhaust(e)
    BY <2>a, <2>b, <2>4 DEF InsertAttempt, ReadBudget, Retry, Exhaust
  <2>5. ASSUME NEW result \in {"succeeded", "failed"}, FinishVerify(e, result)
        PROVE  Working(n)
    BY <2>a, <2>b, <2>5 DEF FinishVerify
  <2>6. CASE CompleteVerify(e)
    BY <2>a, <2>6 DEF CompleteVerify
  <2> USE DEF Free
  <2>7. CASE Unblock(e)
    BY <2>7 DEF Unblock
  <2>8. CASE WakeTask(e)
    BY <2>8 DEF WakeTask
  <2>9. CASE RelabelNode(e)
    BY <2>9 DEF RelabelNode
  <2> QED
    BY <1>3, <2>1, <2>2, <2>3, <2>4, <2>5, <2>6, <2>7, <2>8, <2>9 DEF Executor
<1>4. ASSUME NEW m \in Nodes, ThenUnblock(m) PROVE Working(n)
  BY <1>4 DEF ThenUnblock, WorkerPcs
<1>5. CASE WorkerCrash
  BY <1>5 DEF WorkerCrash, Free, WorkerPcs
<1>6. ASSUME NEW e \in Executors, ActivityFails(e) PROVE Working(n)
  BY <1>6 DEF ActivityFails, Exit, Free, WorkerPcs
<1> QED
  BY <1>1, <1>2, <1>3, <1>4, <1>5, <1>6
     DEF Next, vars, local, Runner, Api, Crash, CheckDeps, CreateTask, SelectQueued,
         DispatchQueued, EvaluateGate, CountSlots, RunnerCrash, ApiComplete, ApiPatch,
         ApiCompleteAttempt

\* ... and a worker's attempt is begun only where a worker is.
LEMMA AttemptStep ==
  ASSUME OrderInv, [Next]_vars, NEW n \in Nodes, Attempted(n)'
  PROVE  Attempted(n) \/ Working(n)
<1>0. DbType /\ RunnerType /\ ExecType
  BY DEF OrderInv, TypeOK
<1> DEFINE Owned(s) == \E i \in DOMAIN s : s[i].owner = "worker-dispatch"
<1>1. attempts[n] \in Seq(Attempt) /\ DOMAIN attempts[n] = 1..Len(attempts[n])
      /\ Len(attempts[n]) \in Nat /\ \A i \in DOMAIN attempts[n] : attempts[n][i] \in Attempt
  BY <1>0, LenProperties, ElementOfSeq DEF DbType
<1>2. Owned(attempts'[n]) /\ attempts \in [Nodes -> Seq(Attempt)]
  BY <1>0 DEF Attempted, DbType
<1>3. Owned(attempts[n]) => Attempted(n)
  BY DEF Attempted
<1>4. CASE UNCHANGED attempts
  BY <1>2, <1>3, <1>4
<1>5. CASE DispatchQueued
  <2>1. CASE attempts'[n] = Append(attempts[n], Started("loop-runner"))
    <3>1. /\ Len(attempts'[n]) = Len(attempts[n]) + 1
          /\ DOMAIN attempts'[n] = 1..Len(attempts[n]) + 1
          /\ attempts'[n][Len(attempts[n]) + 1] = Started("loop-runner")
          /\ \A i \in 1..Len(attempts[n]) : attempts'[n][i] = attempts[n][i]
      <4>1. Started("loop-runner") \in Attempt
        BY DEF Started, Attempt, Owners, AttemptStatuses
      <4> QED
        BY <1>1, <2>1, <4>1, AppendProperties
    <3>2. PICK i \in 1..Len(attempts[n]) + 1 : attempts'[n][i].owner = "worker-dispatch"
      BY <1>2, <3>1
    <3>3. i # Len(attempts[n]) + 1
      BY <3>1, <3>2 DEF Started
    <3> QED
      BY <1>1, <1>3, <3>1, <3>2, <3>3
  <2>2. CASE attempts'[n] = attempts[n]
    BY <1>2, <1>3, <2>2
  <2> QED
    BY <1>2, <1>5, <2>1, <2>2 DEF DispatchQueued, db
<1>6. ASSUME NEW e \in Executors, InsertAttempt(e) PROVE Attempted(n) \/ Working(n)
  <2>1. CASE NodeOf(e) = n
    BY <1>6, <2>1 DEF InsertAttempt, At, NodeOf, Working, WorkerPcs
  <2>2. CASE NodeOf(e) # n
    <3>1. attempts'[n] = attempts[n]
      BY <1>2, <1>6, <2>2 DEF InsertAttempt, db
    <3> QED
      BY <1>2, <1>3, <3>1
  <2> QED
    BY <2>1, <2>2
<1>7. ASSUME NEW e \in Executors, NEW result, Finish(e, result)
      PROVE  Attempted(n) \/ Working(n)
  <2>1. CASE NodeOf(e) = n
    BY <1>7, <2>1 DEF Finish, At, NodeOf, Working, WorkerPcs
  <2>2. CASE NodeOf(e) # n
    <3>1. attempts'[n] = attempts[n]
      BY <1>2, <1>7, <2>2 DEF Finish
    <3> QED
      BY <1>2, <1>3, <3>1
  <2> QED
    BY <2>1, <2>2
<1>8. ASSUME NEW m \in Nodes, ApiComplete(m) \/ ApiCompleteAttempt(m)
      PROVE  Attempted(n) \/ Working(n)
  <2>1. DOMAIN attempts'[n] = DOMAIN attempts[n]
        /\ \A i \in DOMAIN attempts[n] : attempts'[n][i].owner = attempts[n][i].owner
    <3>1. CASE ApiComplete(m)
      BY <1>1, <1>2, <3>1 DEF ApiComplete, CloseAttempts, Attempt
    <3>2. CASE ApiCompleteAttempt(m)
      <4>1. PICK i \in DOMAIN attempts[m], result \in {"succeeded", "failed", "cancelled"} :
              attempts' = [attempts EXCEPT ![m][i].status = result]
        BY <3>2 DEF ApiCompleteAttempt
      <4> QED
        BY <1>1, <1>2, <4>1 DEF Attempt
    <3> QED
      BY <1>8, <3>1, <3>2
  <2> QED
    BY <1>2, <1>3, <2>1
<1> QED
  BY <1>4, <1>5, <1>6, <1>7, <1>8
     DEF OrderInv, Next, vars, db, Runner, Api, Crash, CheckDeps, CreateTask, SelectQueued,
         EvaluateGate, CountSlots, SpawnExecutors, Spawn, Executor, Guard,
         AcquireWorkspace, NoWorkspace, ReadIndex, ReadBudget, Retry, Exhaust,
         FinishVerify, CompleteVerify, Unblock, WakeTask, RelabelNode, ApiPatch,
         WorkerCrash, RunnerCrash, ActivityFails, Failure

LEMMA OrderRespectedStep == OrderInv /\ [Next]_vars => OrderRespected'
<1> SUFFICES ASSUME OrderInv, [Next]_vars, NEW n \in Nodes, (Working(n) \/ Attempted(n))'
             PROVE  ~Unmet(n)'
  BY DEF OrderRespected
<1>1. Working(n) \/ Attempted(n) => ~Unmet(n)
  BY DEF OrderInv, OrderRespected
<1>2. ~Unmet(n)
  BY <1>1, WorkStep, AttemptStep
<1> QED
  BY <1>2, MetStep

\* Rows exist for what activities work on, and still do after a step.
LEMMA RowsExistStep == OrderInv /\ [Next]_vars => RowsExist'
<1> SUFFICES ASSUME OrderInv, [Next]_vars PROVE RowsExist'
  OBVIOUS
<1>0. DbType /\ RunnerType /\ ExecType /\ RowsExist
  BY DEF OrderInv, TypeOK
<1> DEFINE Row(n) == status[n] # "absent"
<1>1. ASSUME NEW n \in Nodes, Row(n) PROVE Row(n)'
  <2> USE <1>0, <1>1 DEF DbType
  <2>1. CASE UNCHANGED status
    BY <2>1
  <2>2. CASE CreateTask
    BY <2>2 DEF CreateTask
  <2>3. CASE DispatchQueued
    BY <2>3 DEF DispatchQueued, db
  <2>4. ASSUME NEW e \in Executors, Executor(e) PROVE Row(n)'
    <3>1. ASSUME NEW result \in Results, Finish(e, result) PROVE Row(n)'
      BY <3>1 DEF Finish, Results
    <3>2. ASSUME NEW result \in {"succeeded", "failed"}, FinishVerify(e, result)
          PROVE  Row(n)'
      BY <3>2 DEF FinishVerify
    <3>3. CASE Retry(e) \/ Exhaust(e)
      BY <3>3 DEF Retry, Exhaust, db
    <3>4. CASE WakeTask(e)
      BY <3>4 DEF WakeTask
    <3> QED
      BY <2>1, <2>4, <3>1, <3>2, <3>3, <3>4
         DEF db, Executor, Guard, AcquireWorkspace, NoWorkspace, ReadIndex, InsertAttempt,
             ReadBudget, CompleteVerify, Unblock, RelabelNode
  <2>5. ASSUME NEW m \in Nodes, ApiComplete(m) \/ ApiPatch(m) \/ ApiCompleteAttempt(m)
        PROVE  Row(n)'
    BY <2>5 DEF ApiComplete, ApiPatch, ApiCompleteAttempt
  <2> QED
    BY <2>1, <2>2, <2>3, <2>4, <2>5
       DEF Next, vars, db, Runner, Api, Crash, CheckDeps, SelectQueued, EvaluateGate,
           CountSlots, SpawnExecutors, Spawn, WorkerCrash, RunnerCrash, ActivityFails,
           Failure
<1>2. ASSUME NEW f \in Executors, NEW n \in Nodes, n = exec'[f].node \/ n \in exec'[f].todo
      PROVE  Row(n)'
  <2> USE <1>0 DEF ExecType, Activity
  <2>1. CASE n = exec[f].node \/ n \in exec[f].todo
    BY <1>1, <2>1 DEF RowsExist
  <2>2. CASE ~(n = exec[f].node \/ n \in exec[f].todo)
    <3> USE <1>2, <2>2, ConstantsAssumption DEF ConstantsAssumption, Free
    <3>1. ASSUME NEW S \in SUBSET Nodes, Spawn(S) PROVE Row(n)'
      <4>1. PICK by \in [S -> {x \in Executors : exec[x].pc = "free"}] :
               exec' = [x \in Executors |->
                          IF \E m \in S : by[m] = x
                          THEN [Free EXCEPT !.pc = "guard", !.node = CHOOSE m \in S : by[m] = x]
                          ELSE exec[x]]
        BY <3>1 DEF Spawn
      <4>2. n \in S
        BY <4>1
      <4> QED
        BY <1>1, <3>1, <4>2 DEF Spawn, Ready
    <3>2. ASSUME NEW e \in Executors, Unblock(e) PROVE Row(n)'
      <4>1. status[n] = "queued"
        BY <3>2 DEF Unblock
      <4> QED
        BY <1>1, <4>1
    <3>3. ASSUME NEW e \in Executors, WakeTask(e) PROVE Row(n)'
      BY <3>3 DEF WakeTask
    <3>4. ASSUME NEW m \in Nodes, ThenUnblock(m), Row(m)' PROVE Row(n)'
      BY <3>4 DEF ThenUnblock
    <3>5. ASSUME NEW e \in Executors,
                 Exit(e) \/ RelabelNode(e) \/ ReadIndex(e) \/ \E pc : Goto(e, pc)
          PROVE  Row(n)'
      <4>1. CASE Exit(e)
        BY <4>1 DEF Exit
      <4>2. ASSUME NEW pc, Goto(e, pc) PROVE Row(n)'
        BY <4>2 DEF Goto
      <4>3. CASE ReadIndex(e)
        BY <4>3 DEF ReadIndex
      <4>4. CASE RelabelNode(e)
        <5>1. exec' = [exec EXCEPT ![e] = IF exec[e].todo = {} THEN Free
                                          ELSE [exec[e] EXCEPT !.pc = "wake", !.node = NoNode]]
          BY <4>4 DEF RelabelNode
        <5>2. f = e
          BY <5>1
        <5> QED
          BY <5>1, <5>2
      <4> QED
        BY <3>5, <4>1, <4>2, <4>3, <4>4
    <3>6. CASE WorkerCrash
      BY <3>6 DEF WorkerCrash
    <3>7. exec' # exec
      OBVIOUS
    <3>8. ASSUME NEW m \in Nodes, ApiComplete(m) \/ ApiCompleteAttempt(m) PROVE Row(n)'
      <4>1. ThenUnblock(m) /\ status'[m] = "succeeded"
        BY <1>0, <3>7, <3>8 DEF ApiComplete, ApiCompleteAttempt, DbType
      <4> QED
        BY <3>4, <4>1
    <3>9. ASSUME NEW e \in Executors, Executor(e) PROVE Row(n)'
      BY <3>2, <3>3, <3>5, <3>9
         DEF Executor, Guard, AcquireWorkspace, NoWorkspace, InsertAttempt, Finish, Results,
             ReadBudget, Retry, Exhaust, FinishVerify, CompleteVerify
    <3> QED
      BY <3>1, <3>5, <3>6, <3>7, <3>8, <3>9
         DEF Next, vars, local, Runner, Api, Crash, CheckDeps, CreateTask, SelectQueued,
             DispatchQueued, EvaluateGate, CountSlots, SpawnExecutors, RunnerCrash, ApiPatch,
             ActivityFails
  <2> QED
    BY <2>1, <2>2
<1>3. ASSUME runner'.pc = "create" PROVE status'[runner'.node] = "absent"
  <2>1. ASSUME NEW n \in Nodes, CheckDeps(n) PROVE status'[runner'.node] = "absent"
    BY <2>1 DEF CheckDeps, IdleRunner, db
  <2>2. CASE SelectQueued \/ CreateTask \/ DispatchQueued \/ RunnerCrash
    <3>1. runner' # IdleRunner
      BY <1>3 DEF IdleRunner
    <3>2. CASE SelectQueued
      <4>1. PICK B : runner' = [IdleRunner EXCEPT !.pc = "dispatch", !.batch = B]
        BY <3>2 DEF SelectQueued
      <4> QED
        BY <1>3, <4>1 DEF IdleRunner
    <3>3. CASE DispatchQueued
      BY <1>0, <1>3, <3>1, <3>3 DEF DispatchQueued, RunnerType
    <3> QED
      BY <2>2, <3>1, <3>2, <3>3 DEF CreateTask, RunnerCrash
  <2>3. CASE UNCHANGED runner
    <3>1. runner.node \in Nodes /\ status[runner.node] = "absent"
      BY <1>0, <1>3, <2>3 DEF RunnerType, RowsExist
    <3> DEFINE n == runner.node
    <3>2. \A e \in Executors : n # exec[e].node /\ n \notin exec[e].todo
      BY <1>0, <3>1 DEF RowsExist
    <3>3. CASE UNCHANGED status
      BY <2>3, <3>1, <3>3
    <3>4. ASSUME NEW e \in Executors, Executor(e) PROVE status'[n] = "absent"
      BY <1>0, <3>1, <3>2, <3>4
         DEF DbType, NodeOf, db, Executor, Guard, AcquireWorkspace, NoWorkspace, ReadIndex,
             InsertAttempt, Finish, ReadBudget, Retry, Exhaust, FinishVerify,
             CompleteVerify, Unblock, WakeTask, RelabelNode
    <3>5. ASSUME NEW m \in Nodes, ApiComplete(m) \/ ApiPatch(m) \/ ApiCompleteAttempt(m)
          PROVE  status'[n] = "absent"
      BY <1>0, <3>1, <3>5 DEF DbType, ApiComplete, ApiPatch, ApiCompleteAttempt
    <3>6. CASE CreateTask \/ DispatchQueued
      BY <1>0, <1>3, <2>3, <3>6 DEF CreateTask, DispatchQueued, IdleRunner, RunnerType
    <3> QED
      BY <2>3, <3>1, <3>3, <3>4, <3>5, <3>6
         DEF Next, vars, db, Runner, Api, Crash, CheckDeps, SelectQueued, EvaluateGate,
             CountSlots, SpawnExecutors, Spawn, WorkerCrash, RunnerCrash, ActivityFails,
             Failure
  <2> QED
    BY <2>1, <2>2, <2>3
       DEF Next, vars, local, Runner, Api, Crash, EvaluateGate, CountSlots,
           SpawnExecutors, Spawn, Executor, Guard, AcquireWorkspace, NoWorkspace,
           ReadIndex, InsertAttempt, Finish, ReadBudget, Retry, Exhaust, FinishVerify,
           CompleteVerify, Unblock, WakeTask, RelabelNode, Otherwise, ApiComplete,
           ApiPatch, ApiCompleteAttempt, Request, WorkerCrash, ActivityFails
<1> QED
  BY <1>2, <1>3 DEF RowsExist

LEMMA NotDoneStep == OrderInv /\ [Next]_vars => NotDoneBeforeStart'
<1> SUFFICES ASSUME OrderInv, [Next]_vars, NEW n \in Nodes \ {Verify},
                    status'[n] \in {"absent", "queued"}
             PROVE  ~Complete(n)'
  BY DEF NotDoneBeforeStart
<1>0. DbType /\ RunnerType /\ ExecType /\ NotDoneBeforeStart /\ OnlyVerifyFails /\ RowsExist
  BY DEF OrderInv, TypeOK
<1> USE <1>0 DEF DbType, Complete, NotDoneBeforeStart
<1>1. CASE UNCHANGED <<status, lifecycle>>
  BY <1>1
<1>2. CASE CreateTask
  <2>1. runner.node \in Nodes /\ status[runner.node] = "absent"
    BY <1>2 DEF CreateTask, RunnerType, RowsExist
  <2> QED
    BY <1>2, <2>1 DEF CreateTask
<1>3. CASE DispatchQueued
  BY <1>3 DEF DispatchQueued, db
<1>4. ASSUME NEW e \in Executors, Executor(e) PROVE ~Complete(n)'
  <2>1. ASSUME NEW result \in Results, Finish(e, result) PROVE ~Complete(n)'
    BY <2>1 DEF Finish, Results
  <2>2. ASSUME NEW result \in {"succeeded", "failed"}, FinishVerify(e, result)
        PROVE  ~Complete(n)'
    BY <2>2 DEF FinishVerify
  <2>3. CASE Retry(e) \/ Exhaust(e)
    BY <2>3 DEF Retry, Exhaust, db
  <2>4. CASE CompleteVerify(e)
    BY <2>4 DEF CompleteVerify, OnlyVerifyFails, At, NodeOf
  <2>5. CASE WakeTask(e)
    BY <2>5 DEF WakeTask
  <2>6. CASE RelabelNode(e)
    BY <2>6 DEF RelabelNode
  <2> QED
    BY <1>1, <1>4, <2>1, <2>2, <2>3, <2>4, <2>5, <2>6
       DEF db, Executor, Guard, AcquireWorkspace, NoWorkspace, ReadIndex, InsertAttempt,
           ReadBudget, Unblock
<1>5. ASSUME NEW m \in Nodes, ApiComplete(m) \/ ApiCompleteAttempt(m) PROVE ~Complete(n)'
  BY <1>5 DEF ApiComplete, ApiCompleteAttempt
<1>6. ASSUME NEW m \in Nodes, ApiPatch(m) PROVE ~Complete(n)'
  BY <1>6 DEF ApiPatch
<1> QED
  BY <1>1, <1>2, <1>3, <1>4, <1>5, <1>6
     DEF Next, vars, db, Runner, Api, Crash, CheckDeps, SelectQueued, EvaluateGate,
         CountSlots, SpawnExecutors, Spawn, WorkerCrash, RunnerCrash, ActivityFails, Failure

LEMMA OnlyVerifyFailsStep == OrderInv /\ [Next]_vars => OnlyVerifyFails'
<1> SUFFICES ASSUME OrderInv, [Next]_vars PROVE OnlyVerifyFails'
  OBVIOUS
<1>0. DbType /\ RunnerType /\ ExecType /\ OnlyVerifyFails
  BY DEF OrderInv, TypeOK
<1>1. ASSUME NEW n \in Nodes, status'[n] = "failed" PROVE n = Verify
  <2> USE <1>0, <1>1 DEF DbType, OnlyVerifyFails
  <2>1. CASE UNCHANGED status
    BY <2>1
  <2>2. CASE CreateTask
    BY <2>2 DEF CreateTask
  <2>3. CASE DispatchQueued
    BY <2>3 DEF DispatchQueued, db
  <2>4. ASSUME NEW e \in Executors, Executor(e) PROVE n = Verify
    <3>1. ASSUME NEW result \in Results, Finish(e, result) PROVE n = Verify
      BY <3>1 DEF Finish, Results
    <3>2. ASSUME NEW result \in {"succeeded", "failed"}, FinishVerify(e, result)
          PROVE  n = Verify
      BY <3>2 DEF FinishVerify, At, NodeOf
    <3>3. CASE Retry(e) \/ Exhaust(e)
      BY <3>3 DEF Retry, Exhaust, db
    <3>4. CASE WakeTask(e)
      BY <3>4 DEF WakeTask
    <3> QED
      BY <2>1, <2>4, <3>1, <3>2, <3>3, <3>4
         DEF db, Executor, Guard, AcquireWorkspace, NoWorkspace, ReadIndex, InsertAttempt,
             ReadBudget, CompleteVerify, Unblock, RelabelNode
  <2>5. ASSUME NEW m \in Nodes, ApiComplete(m) \/ ApiPatch(m) \/ ApiCompleteAttempt(m)
        PROVE  n = Verify
    BY <2>5 DEF ApiComplete, ApiPatch, ApiCompleteAttempt
  <2> QED
    BY <2>1, <2>2, <2>3, <2>4, <2>5
       DEF Next, vars, db, Runner, Api, Crash, CheckDeps, SelectQueued, EvaluateGate,
           CountSlots, SpawnExecutors, Spawn, WorkerCrash, RunnerCrash, ActivityFails,
           Failure
<1>2. ASSUME NEW f \in Executors, exec'[f].pc \in {"verify", "verified"}
      PROVE  exec'[f].node = Verify
  <2> USE <1>0, <1>2 DEF OnlyVerifyFails, ExecType, Activity
  <2>1. CASE UNCHANGED exec
    BY <2>1
  <2>2. CASE SpawnExecutors
    <3>1. PICK S \in SUBSET Nodes : Spawn(S)
      BY <2>2 DEF SpawnExecutors
    <3>2. PICK by \in [S -> {x \in Executors : exec[x].pc = "free"}] :
             exec' = [x \in Executors |->
                        IF \E m \in S : by[m] = x
                        THEN [Free EXCEPT !.pc = "guard", !.node = CHOOSE m \in S : by[m] = x]
                        ELSE exec[x]]
      BY <3>1 DEF Spawn
    <3> QED
      BY <3>2 DEF Free
  <2>3. ASSUME NEW e \in Executors, Exit(e) PROVE exec'[f].node = Verify
    BY <2>3 DEF Exit, Free
  <2>4. ASSUME NEW e \in Executors, NEW pc, Goto(e, pc),
               pc \in {"verify", "verified"} => NodeOf(e) = Verify
        PROVE  exec'[f].node = Verify
    BY <2>4 DEF Goto, NodeOf
  <2>5. ASSUME NEW e \in Executors, Executor(e) PROVE exec'[f].node = Verify
    <3>1. CASE Guard(e)
      BY <2>3, <2>4, <3>1 DEF Guard
    <3>2. ASSUME NEW result \in Results, Finish(e, result) PROVE exec'[f].node = Verify
      BY <2>3, <2>4, <3>2 DEF Finish, Results
    <3>3. ASSUME NEW result \in {"succeeded", "failed"}, FinishVerify(e, result)
          PROVE  exec'[f].node = Verify
      BY <2>3, <2>4, <3>3 DEF FinishVerify, At, NodeOf
    <3>4. CASE ReadIndex(e)
      BY <3>4 DEF ReadIndex
    <3>5. CASE Unblock(e)
      BY <3>5 DEF Unblock, Free
    <3>6. CASE WakeTask(e)
      <4>1. PICK m \in exec[e].todo :
               exec' = [exec EXCEPT ![e].pc = "relabel", ![e].node = m,
                                    ![e].todo = @ \ {m}]
        BY <3>6 DEF WakeTask
      <4> QED
        BY <4>1
    <3>7. CASE RelabelNode(e)
      <4>1. exec' = [exec EXCEPT ![e] = IF exec[e].todo = {} THEN Free
                                        ELSE [exec[e] EXCEPT !.pc = "wake", !.node = NoNode]]
        BY <3>7 DEF RelabelNode
      <4>2. CASE f # e
        BY <4>1, <4>2
      <4>3. CASE f = e
        BY <4>1, <4>3 DEF Free
      <4> QED
        BY <4>2, <4>3
    <3> QED
      BY <2>3, <2>4, <2>5, <3>1, <3>2, <3>3, <3>4, <3>5, <3>6, <3>7
         DEF Executor, AcquireWorkspace, NoWorkspace, InsertAttempt, ReadBudget, Retry,
             Exhaust, CompleteVerify
  <2>6. ASSUME NEW m \in Nodes, ThenUnblock(m) PROVE exec'[f].node = Verify
    BY <2>6 DEF ThenUnblock
  <2>7. CASE WorkerCrash
    BY <2>7 DEF WorkerCrash, Free
  <2> QED
    BY <2>1, <2>2, <2>3, <2>5, <2>6, <2>7
       DEF Next, vars, local, Runner, Api, Crash, CheckDeps, CreateTask, SelectQueued,
           DispatchQueued, EvaluateGate, CountSlots, RunnerCrash, ApiComplete, ApiPatch,
           ApiCompleteAttempt, ActivityFails
<1> QED
  BY <1>1, <1>2 DEF OnlyVerifyFails

LEMMA OrderInvStep == OrderInv /\ [Next]_vars => OrderInv'
<1>1. OrderInv /\ [Next]_vars => TypeOK'
  BY TypeStep DEF OrderInv
<1> QED
  BY <1>1, OrderRespectedStep, NotDoneStep, OnlyVerifyFailsStep, RowsExistStep DEF OrderInv

LEMMA OrderInvCorrect == Spec => []OrderInv
  BY InitOrderInv, OrderInvStep, PTL DEF Spec

\* For every dependency graph: no worker is or was at work on a node before all
\* the nodes it depends on were complete.
THEOREM DependenciesRespected == Spec => []OrderRespected
<1>1. OrderInv => OrderRespected
  BY DEF OrderInv
<1> QED
  BY <1>1, OrderInvCorrect, PTL

\* A completed node never becomes incomplete, the verification node excepted.
THEOREM CompletionFinal == Spec => CompletionIsFinal
<1>1. OrderInv /\ [Next]_vars => [\A n \in Nodes \ {Verify} : Complete(n) => Complete(n)']_vars
  BY CompletionStep
<1> QED
  BY <1>1, OrderInvCorrect, PTL DEF Spec, CompletionIsFinal

-----------------------------------------------------------------------------
(* How activities move, and what becomes of the rows of attempts.          *)

\* A step of an executor changes that activity only, and moves no worker to
\* another node.
LEMMA OneActivityMoves ==
  ASSUME TypeOK, NEW e \in Executors, Executor(e)
  PROVE  \E x : /\ exec' = [exec EXCEPT ![e] = x]
                /\ x.pc \in WorkerPcs => exec[e].pc \in WorkerPcs /\ x.node = exec[e].node
<1> DEFINE Moved(x) == /\ exec' = [exec EXCEPT ![e] = x]
                       /\ x.pc \in WorkerPcs => exec[e].pc \in WorkerPcs /\ x.node = exec[e].node
<1> SUFFICES \E x : Moved(x)
  OBVIOUS
<1>0. exec \in [Executors -> Activity]
  BY DEF TypeOK, ExecType
<1>1. CASE Exit(e)
  <2>1. Moved(Free)
    BY <1>1 DEF Exit, Free, WorkerPcs
  <2> QED
    BY <2>1
<1>2. ASSUME NEW pc, Goto(e, pc), pc \in WorkerPcs => exec[e].pc \in WorkerPcs
      PROVE  \E x : Moved(x)
  <2>1. Moved([exec[e] EXCEPT !.pc = pc])
    BY <1>0, <1>2 DEF Goto, Activity
  <2> QED
    BY <2>1
<1> USE DEF At, WorkerPcs, WakingPcs
<1>3. CASE Guard(e) \/ AcquireWorkspace(e) \/ NoWorkspace(e)
  BY <1>1, <1>2, <1>3 DEF Guard, AcquireWorkspace, NoWorkspace
<1>4. CASE ReadIndex(e)
  <2> DEFINE i == Len(attempts[NodeOf(e)]) + 1
             x == [exec[e] EXCEPT !.pc = "insert", !.idx = i]
  <2>1. exec' = [exec EXCEPT ![e].pc = "insert", ![e].idx = i]
    BY <1>4 DEF ReadIndex
  <2> HIDE DEF i
  <2>2. exec' = [exec EXCEPT ![e] = x]
    BY <1>0, <2>1
  <2>3. x.node = exec[e].node /\ exec[e].pc \in WorkerPcs
    BY <1>0, <1>4 DEF ReadIndex, Activity
  <2>4. Moved(x)
    BY <2>2, <2>3
  <2> QED
    BY <2>4
<1>5. ASSUME NEW result \in Results, Finish(e, result) PROVE \E x : Moved(x)
  BY <1>1, <1>2, <1>5 DEF Finish, Results
<1>6. CASE InsertAttempt(e) \/ ReadBudget(e) \/ Retry(e) \/ Exhaust(e)
  BY <1>1, <1>2, <1>6 DEF InsertAttempt, ReadBudget, Retry, Exhaust
<1>7. ASSUME NEW result \in {"succeeded", "failed"}, FinishVerify(e, result)
      PROVE  \E x : Moved(x)
  BY <1>1, <1>2, <1>7 DEF FinishVerify
<1>8. CASE CompleteVerify(e)
  BY <1>1, <1>8 DEF CompleteVerify
<1>9. CASE Unblock(e)
  <2> DEFINE woken == {n \in Succs(NodeOf(e)) : status[n] = "queued" /\ ~Unmet(n)}
             x     == [exec[e] EXCEPT !.pc = "wake", !.node = NoNode,
                                      !.idx = 0, !.todo = woken]
  <2>1. exec' = [exec EXCEPT ![e] = IF woken = {} THEN Free ELSE x]
    BY <1>9 DEF Unblock
  <2> HIDE DEF woken
  <2>2. exec[e] \in Activity /\ x.pc = "wake"
    BY <1>0 DEF Activity
  <2>3. CASE woken = {}
    BY <1>1, <2>1, <2>3 DEF Exit
  <2>4. CASE woken # {}
    <3>1. Moved(x)
      BY <2>1, <2>2, <2>4
    <3> QED
      BY <3>1
  <2> QED
    BY <2>3, <2>4
<1>10. CASE WakeTask(e)
  <2>1. PICK m : exec' = [exec EXCEPT ![e].pc = "relabel", ![e].node = m, ![e].todo = @ \ {m}]
    BY <1>10 DEF WakeTask
  <2>2. Moved([exec[e] EXCEPT !.pc = "relabel", !.node = m, !.todo = @ \ {m}])
    BY <1>0, <2>1 DEF Activity
  <2> QED
    BY <2>2
<1>11. CASE RelabelNode(e)
  <2> DEFINE x == [exec[e] EXCEPT !.pc = "wake", !.node = NoNode]
  <2>1. exec' = [exec EXCEPT ![e] = IF exec[e].todo = {} THEN Free ELSE x]
    BY <1>11 DEF RelabelNode
  <2>2. x.pc = "wake"
    BY <1>0 DEF Activity
  <2>3. CASE exec[e].todo = {}
    BY <1>1, <2>1, <2>3 DEF Exit
  <2>4. CASE exec[e].todo # {}
    <3>1. Moved(x)
      BY <2>1, <2>2, <2>4
    <3> QED
      BY <3>1
  <2> QED
    BY <2>3, <2>4
<1> QED
  BY <1>3, <1>4, <1>5, <1>6, <1>7, <1>8, <1>9, <1>10, <1>11 DEF Executor

\* The rows of a task, with one more.
LEMMA AppendedRow ==
  ASSUME NEW s \in Seq(Attempt), NEW o \in Owners
  PROVE  LET t == Append(s, Started(o)) IN
         /\ DOMAIN s = 1..Len(s) /\ Len(s) \in Nat
         /\ Len(t) = Len(s) + 1 /\ DOMAIN t = 1..Len(s) + 1
         /\ t[Len(s) + 1] = Started(o)
         /\ \A i \in DOMAIN s : i \in DOMAIN t /\ t[i] = s[i]
<1>1. Started(o) \in Attempt
  BY DEF Started, Attempt, AttemptStatuses
<1>2. DOMAIN s = 1..Len(s) /\ Len(s) \in Nat
  BY LenProperties
<1> QED
  BY <1>1, <1>2, AppendProperties

\* Rows of attempts are never deleted, and never change hands.
LEMMA RowsStay ==
  ASSUME TypeOK, [Next]_vars, NEW n \in Nodes, NEW i \in DOMAIN attempts[n]
  PROVE  i \in DOMAIN attempts'[n] /\ attempts'[n][i].owner = attempts[n][i].owner
<1> DEFINE Kept == i \in DOMAIN attempts'[n] /\ attempts'[n][i].owner = attempts[n][i].owner
<1>0. DbType /\ RunnerType /\ ExecType
  BY DEF TypeOK
<1>1. /\ attempts \in [Nodes -> Seq(Attempt)] /\ attempts[n] \in Seq(Attempt)
      /\ attempts[n][i] \in Attempt
  BY <1>0, ElementOfSeq, LenProperties DEF DbType
<1>2. CASE attempts'[n] = attempts[n]
  BY <1>2
<1>3. ASSUME NEW o \in Owners, attempts'[n] = Append(attempts[n], Started(o)) PROVE Kept
  BY <1>1, <1>3, AppendedRow
<1>4. ASSUME NEW result, NEW j, attempts'[n] = [attempts[n] EXCEPT ![j].status = result]
      PROVE  Kept
  BY <1>1, <1>4 DEF Attempt
<1>5. CASE UNCHANGED attempts
  BY <1>5
<1>6. CASE DispatchQueued
  <2>1. attempts'[n] \in {attempts[n], Append(attempts[n], Started("loop-runner"))}
    BY <1>1, <1>6 DEF DispatchQueued, db
  <2> QED
    BY <1>2, <1>3, <2>1 DEF Owners
<1>7. ASSUME NEW e \in Executors, InsertAttempt(e) PROVE Kept
  <2>1. attempts'[n] \in {attempts[n], Append(attempts[n], Started("worker-dispatch"))}
    BY <1>1, <1>7 DEF InsertAttempt, db
  <2> QED
    BY <1>2, <1>3, <2>1 DEF Owners
<1>8. ASSUME NEW e \in Executors, NEW result, Finish(e, result) PROVE Kept
  <2>1. attempts' = [attempts EXCEPT ![NodeOf(e)][exec[e].idx].status = result]
    BY <1>8 DEF Finish
  <2>2. CASE n = NodeOf(e)
    BY <1>1, <1>4, <2>1, <2>2
  <2>3. CASE n # NodeOf(e)
    BY <1>1, <1>2, <2>1, <2>3
  <2> QED
    BY <2>2, <2>3
<1>9. ASSUME NEW m \in Nodes, ApiComplete(m) PROVE Kept
  BY <1>1, <1>9 DEF ApiComplete, CloseAttempts, Attempt
<1>10. ASSUME NEW m \in Nodes, ApiCompleteAttempt(m) PROVE Kept
  <2>1. PICK j \in DOMAIN attempts[m], result \in {"succeeded", "failed", "cancelled"} :
          attempts' = [attempts EXCEPT ![m][j].status = result]
    BY <1>10 DEF ApiCompleteAttempt
  <2>2. CASE n = m
    BY <1>1, <1>4, <2>1, <2>2
  <2>3. CASE n # m
    BY <1>1, <1>2, <2>1, <2>3
  <2> QED
    BY <2>2, <2>3
<1> QED
  BY <1>5, <1>6, <1>7, <1>8, <1>9, <1>10
     DEF Next, vars, db, Runner, Api, Crash, CheckDeps, CreateTask, SelectQueued,
         EvaluateGate, CountSlots, SpawnExecutors, Spawn, Executor, Guard,
         AcquireWorkspace, NoWorkspace, ReadIndex, ReadBudget, Retry, Exhaust,
         FinishVerify, CompleteVerify, Unblock, WakeTask, RelabelNode, ApiPatch,
         WorkerCrash, RunnerCrash, ActivityFails, Failure

\* An activity reaches "insert" by ReadIndex and "invoke" by InsertAttempt only.
LEMMA InvokeMoves ==
  ASSUME TypeOK, [Next]_vars, NEW f \in Executors, exec'[f].pc \in {"insert", "invoke"}
  PROVE  exec'[f] = exec[f] \/ ReadIndex(f) \/ InsertAttempt(f)
<1> DEFINE Moves == exec'[f] = exec[f] \/ ReadIndex(f) \/ InsertAttempt(f)
<1>0. exec \in [Executors -> Activity]
  BY DEF TypeOK, ExecType
<1>1. ASSUME NEW e \in Executors, Exit(e) PROVE Moves
  BY <1>0, <1>1 DEF Exit, Free
<1>2. ASSUME NEW e \in Executors, NEW pc, Goto(e, pc), pc \notin {"insert", "invoke"}
      PROVE  Moves
  BY <1>0, <1>2 DEF Goto, Activity
<1>3. CASE SpawnExecutors
  <2>1. PICK S \in SUBSET Nodes : Spawn(S)
    BY <1>3 DEF SpawnExecutors
  <2>2. PICK by \in [S -> {x \in Executors : exec[x].pc = "free"}] :
           exec' = [x \in Executors |->
                      IF \E m \in S : by[m] = x
                      THEN [Free EXCEPT !.pc = "guard", !.node = CHOOSE m \in S : by[m] = x]
                      ELSE exec[x]]
    BY <2>1 DEF Spawn
  <2> QED
    BY <2>2 DEF Free
<1>4. ASSUME NEW e \in Executors, Executor(e) PROVE Moves
  <2>1. CASE Guard(e) \/ AcquireWorkspace(e) \/ NoWorkspace(e)
    BY <1>1, <1>2, <2>1 DEF Guard, AcquireWorkspace, NoWorkspace
  <2>2. CASE ReadIndex(e)
    BY <1>0, <2>2 DEF ReadIndex
  <2>3. CASE InsertAttempt(e)
    BY <1>0, <2>3 DEF InsertAttempt, Exit, Goto
  <2>4. ASSUME NEW result \in Results, Finish(e, result) PROVE Moves
    BY <1>1, <1>2, <2>4 DEF Finish, Results
  <2>5. CASE ReadBudget(e) \/ Retry(e) \/ Exhaust(e)
    BY <1>1, <1>2, <2>5 DEF ReadBudget, Retry, Exhaust
  <2>6. ASSUME NEW result \in {"succeeded", "failed"}, FinishVerify(e, result) PROVE Moves
    BY <1>1, <1>2, <2>6 DEF FinishVerify
  <2>7. CASE CompleteVerify(e)
    BY <1>1, <2>7 DEF CompleteVerify
  <2>8. CASE Unblock(e)
    BY <1>0, <2>8 DEF Unblock, Activity, Free
  <2>9. CASE WakeTask(e)
    BY <1>0, <2>9 DEF WakeTask, Activity
  <2>10. CASE RelabelNode(e)
    BY <1>0, <2>10 DEF RelabelNode, Activity, Free
  <2> QED
    BY <1>4, <2>1, <2>2, <2>3, <2>4, <2>5, <2>6, <2>7, <2>8, <2>9, <2>10 DEF Executor
<1>5. ASSUME NEW m \in Nodes, ThenUnblock(m) PROVE Moves
  BY <1>0, <1>5 DEF ThenUnblock, Activity
<1>6. CASE WorkerCrash
  BY <1>6 DEF WorkerCrash, Free
<1>7. CASE UNCHANGED exec
  BY <1>7
<1> QED
  BY <1>1, <1>3, <1>4, <1>5, <1>6, <1>7
     DEF Next, vars, local, Runner, Api, Crash, CheckDeps, CreateTask, SelectQueued,
         DispatchQueued, EvaluateGate, CountSlots, RunnerCrash, ApiComplete, ApiPatch,
         ApiCompleteAttempt, ActivityFails

\* A row of attempts changes its status when its executor finishes, or when a
\* request reports it while it runs.
LEMMA StatusMoves ==
  ASSUME TypeOK, [Next]_vars, NEW n \in Nodes, NEW i \in DOMAIN attempts[n]
  PROVE  \/ attempts'[n][i].status = attempts[n][i].status
         \/ \E e \in Executors, result \in Results :
              Finish(e, result) /\ NodeOf(e) = n /\ exec[e].idx = i
              /\ attempts'[n][i].status = result
         \/ /\ attempts[n][i].status = "running"
            /\ attempts'[n][i].status \in {"succeeded", "failed", "cancelled"}
<1> DEFINE Kept == attempts'[n][i].status = attempts[n][i].status
           Finished == \E e \in Executors, result \in Results :
              Finish(e, result) /\ NodeOf(e) = n /\ exec[e].idx = i
              /\ attempts'[n][i].status = result
           Reported == /\ attempts[n][i].status = "running"
                       /\ attempts'[n][i].status \in {"succeeded", "failed", "cancelled"}
<1> SUFFICES Kept \/ Finished \/ Reported
  OBVIOUS
<1>0. DbType /\ RunnerType /\ ExecType
  BY DEF TypeOK
<1>1. /\ attempts \in [Nodes -> Seq(Attempt)] /\ attempts[n] \in Seq(Attempt)
      /\ attempts[n][i] \in Attempt
  BY <1>0, ElementOfSeq, LenProperties DEF DbType
<1>2. CASE attempts'[n] = attempts[n]
  BY <1>2
<1>3. ASSUME NEW o \in Owners, attempts'[n] = Append(attempts[n], Started(o)) PROVE Kept
  BY <1>1, <1>3, AppendedRow
<1>5. CASE UNCHANGED attempts
  BY <1>5
<1>6. CASE DispatchQueued
  <2>1. attempts'[n] \in {attempts[n], Append(attempts[n], Started("loop-runner"))}
    BY <1>1, <1>6 DEF DispatchQueued, db
  <2> QED
    BY <1>2, <1>3, <2>1 DEF Owners
<1>7. ASSUME NEW e \in Executors, InsertAttempt(e) PROVE Kept
  <2>1. attempts'[n] \in {attempts[n], Append(attempts[n], Started("worker-dispatch"))}
    BY <1>1, <1>7 DEF InsertAttempt, db
  <2> QED
    BY <1>2, <1>3, <2>1 DEF Owners
<1>8. ASSUME NEW e \in Executors, NEW result \in Results, Finish(e, result)
      PROVE  Kept \/ Finished
  <2>1. attempts' = [attempts EXCEPT ![NodeOf(e)][exec[e].idx].status = result]
    BY <1>8 DEF Finish
  <2>2. CASE n = NodeOf(e) /\ i = exec[e].idx
    <3>1. attempts'[n][i].status = result
      BY <1>1, <2>1, <2>2 DEF Attempt
    <3> QED
      BY <1>8, <2>2, <3>1
  <2>3. CASE ~(n = NodeOf(e) /\ i = exec[e].idx)
    BY <1>1, <2>1, <2>3
  <2> QED
    BY <2>2, <2>3
<1>9. ASSUME NEW m \in Nodes, ApiComplete(m) PROVE Kept \/ Reported
  BY <1>1, <1>9 DEF ApiComplete, CloseAttempts, Attempt
<1>10. ASSUME NEW m \in Nodes, ApiCompleteAttempt(m) PROVE Kept \/ Reported
  <2>1. PICK j \in DOMAIN attempts[m], result \in {"succeeded", "failed", "cancelled"} :
          /\ attempts[m][j].status = "running"
          /\ attempts' = [attempts EXCEPT ![m][j].status = result]
    BY <1>10 DEF ApiCompleteAttempt
  <2>2. CASE n = m /\ i = j
    BY <1>1, <2>1, <2>2 DEF Attempt
  <2>3. CASE ~(n = m /\ i = j)
    BY <1>1, <2>1, <2>3
  <2> QED
    BY <2>2, <2>3
<1> HIDE DEF Kept, Finished, Reported
<1> QED
  BY <1>5, <1>6, <1>7, <1>8, <1>9, <1>10
     DEF Next, vars, db, Runner, Api, Crash, CheckDeps, CreateTask, SelectQueued,
         EvaluateGate, CountSlots, SpawnExecutors, Spawn, Executor, Guard,
         AcquireWorkspace, NoWorkspace, ReadIndex, ReadBudget, Retry, Exhaust,
         FinishVerify, CompleteVerify, Unblock, WakeTask, RelabelNode, ApiPatch,
         WorkerCrash, RunnerCrash, ActivityFails, Failure

\* A new row is the next one of its task: the runner's, or that of the executor
\* that inserts it.
LEMMA NewRows ==
  ASSUME TypeOK, [Next]_vars, NEW n \in Nodes,
         NEW i \in DOMAIN attempts'[n], i \notin DOMAIN attempts[n]
  PROVE  /\ i = Len(attempts[n]) + 1
         /\ \/ attempts'[n][i] = Started("loop-runner")
            \/ /\ attempts'[n][i] = Started("worker-dispatch")
               /\ \E e \in Executors : /\ InsertAttempt(e) /\ NodeOf(e) = n
                                       /\ exec[e].idx \notin DOMAIN attempts[n]
                                       /\ Goto(e, "invoke")
<1>0. DbType /\ RunnerType /\ ExecType
  BY DEF TypeOK
<1>1. attempts \in [Nodes -> Seq(Attempt)] /\ attempts[n] \in Seq(Attempt)
  BY <1>0 DEF DbType
<1>2. attempts'[n] # attempts[n]
  OBVIOUS
<1>3. ASSUME NEW o \in Owners, attempts'[n] = Append(attempts[n], Started(o))
      PROVE  i = Len(attempts[n]) + 1 /\ attempts'[n][i] = Started(o)
  BY <1>1, <1>3, AppendedRow
<1>4. CASE DispatchQueued
  <2>1. attempts'[n] = Append(attempts[n], Started("loop-runner"))
    BY <1>1, <1>2, <1>4 DEF DispatchQueued, db
  <2> QED
    BY <1>3, <2>1 DEF Owners
<1>5. ASSUME NEW e \in Executors, InsertAttempt(e)
      PROVE  /\ i = Len(attempts[n]) + 1 /\ attempts'[n][i] = Started("worker-dispatch")
             /\ NodeOf(e) = n /\ exec[e].idx \notin DOMAIN attempts[n] /\ Goto(e, "invoke")
  <2>1. /\ NodeOf(e) = n /\ exec[e].idx \notin DOMAIN attempts[n] /\ Goto(e, "invoke")
        /\ attempts'[n] = Append(attempts[n], Started("worker-dispatch"))
    BY <1>1, <1>2, <1>5 DEF InsertAttempt, db
  <2> QED
    BY <1>3, <2>1 DEF Owners
<1>6. ASSUME NEW e \in Executors, NEW result, Finish(e, result) PROVE FALSE
  BY <1>1, <1>6 DEF Finish
<1>7. ASSUME NEW m \in Nodes, ApiComplete(m) PROVE FALSE
  BY <1>1, <1>7 DEF ApiComplete, CloseAttempts
<1>8. ASSUME NEW m \in Nodes, ApiCompleteAttempt(m) PROVE FALSE
  <2>1. PICK j \in DOMAIN attempts[m], result \in {"succeeded", "failed", "cancelled"} :
          attempts' = [attempts EXCEPT ![m][j].status = result]
    BY <1>8 DEF ApiCompleteAttempt
  <2> QED
    BY <1>1, <2>1
<1> QED
  BY <1>2, <1>4, <1>5, <1>6, <1>7, <1>8
     DEF Next, vars, db, Runner, Api, Crash, CheckDeps, CreateTask, SelectQueued,
         EvaluateGate, CountSlots, SpawnExecutors, Spawn, Executor, Guard,
         AcquireWorkspace, NoWorkspace, ReadIndex, ReadBudget, Retry, Exhaust,
         FinishVerify, CompleteVerify, Unblock, WakeTask, RelabelNode, ApiPatch,
         WorkerCrash, RunnerCrash, ActivityFails, Failure

-----------------------------------------------------------------------------
(* An attempt has one executor.                                            *)

\* What OneExecutorPerAttempt rests on: an index that was read is the next one or
\* is taken by now, and only the executor of an attempt makes it fail retryably.
DrivenAttempts ==
  \A e \in Executors :
    /\ At(e, "insert") => exec[e].idx \in 1..Len(attempts[NodeOf(e)]) + 1
    /\ At(e, "invoke") => attempts[NodeOf(e)][exec[e].idx].status # "failed_retryable"

AttemptInv == TypeOK /\ OneExecutorPerAttempt /\ DrivenAttempts

\* The rows of a task are a finite sequence.
LEMMA AttemptRows ==
  ASSUME TypeOK, NEW n \in Nodes
  PROVE  /\ attempts[n] \in Seq(Attempt) /\ DOMAIN attempts[n] = 1..Len(attempts[n])
         /\ Len(attempts[n]) \in Nat /\ IsFiniteSet(DOMAIN attempts[n])
<1>1. attempts[n] \in Seq(Attempt)
  BY DEF TypeOK, DbType
<1>2. DOMAIN attempts[n] = 1..Len(attempts[n]) /\ Len(attempts[n]) \in Nat
  BY <1>1, LenProperties
<1>3. IsFiniteSet(1..Len(attempts[n]))
  BY <1>2, FS_Interval
<1> QED
  BY <1>1, <1>2, <1>3

\* An executor that is at an attempt after a step was there, or has just inserted
\* the row.
LEMMA InvokeRow ==
  ASSUME AttemptInv, [Next]_vars, NEW e \in Executors, exec'[e].pc = "invoke"
  PROVE  \/ exec'[e] = exec[e] /\ At(e, "invoke") /\ NodeOf(e) \in Nodes
         \/ /\ exec' = [exec EXCEPT ![e].pc = "invoke"] /\ At(e, "insert")
            /\ NodeOf(e) \in Nodes /\ exec'[e].node = NodeOf(e) /\ exec'[e].idx = exec[e].idx
            /\ exec[e].idx = Len(attempts[NodeOf(e)]) + 1
            /\ exec[e].idx \in DOMAIN attempts'[NodeOf(e)]
            /\ attempts'[NodeOf(e)][exec[e].idx] = Started("worker-dispatch")
<1>0. TypeOK /\ exec \in [Executors -> Activity] /\ ExecType
  BY DEF AttemptInv, TypeOK, ExecType
<1>1. exec'[e] = exec[e] \/ InsertAttempt(e)
  <2>1. CASE ReadIndex(e)
    BY <1>0, <2>1 DEF ReadIndex, Activity
  <2> QED
    BY <1>0, <2>1, InvokeMoves
<1>2. CASE exec'[e] = exec[e]
  BY <1>0, <1>2, PlacedWorker DEF At, WorkerPcs
<1>3. CASE InsertAttempt(e) /\ exec'[e] # exec[e]
  <2>1. At(e, "insert") /\ NodeOf(e) \in Nodes
    BY <1>0, <1>3, PlacedWorker DEF InsertAttempt, At, WorkerPcs
  <2>2. /\ exec[e].idx \notin DOMAIN attempts[NodeOf(e)] /\ Goto(e, "invoke")
        /\ attempts' = [attempts EXCEPT ![NodeOf(e)] = Append(@, Started("worker-dispatch"))]
    BY <1>0, <1>3 DEF InsertAttempt, Exit, Free
  <2>3. /\ DOMAIN attempts[NodeOf(e)] = 1..Len(attempts[NodeOf(e)])
        /\ Len(attempts[NodeOf(e)]) \in Nat
    BY <1>0, <2>1, AttemptRows
  <2>4. exec[e].idx = Len(attempts[NodeOf(e)]) + 1
    BY <2>1, <2>2, <2>3 DEF AttemptInv, DrivenAttempts
  <2>5. attempts'[NodeOf(e)] = Append(attempts[NodeOf(e)], Started("worker-dispatch"))
    BY <1>0, <2>1, <2>2 DEF TypeOK, DbType
  <2>6. /\ exec[e].idx \in DOMAIN attempts'[NodeOf(e)]
        /\ attempts'[NodeOf(e)][exec[e].idx] = Started("worker-dispatch")
    BY <1>0, <2>1, <2>3, <2>4, <2>5, AttemptRows, AppendedRow DEF Owners
  <2>7. exec'[e].node = NodeOf(e) /\ exec'[e].idx = exec[e].idx
    BY <1>0, <2>2 DEF Goto, Activity, NodeOf
  <2> QED
    BY <2>1, <2>2, <2>4, <2>6, <2>7 DEF Goto
<1> QED
  BY <1>1, <1>2, <1>3

\* Two executors come to one index only if both insert it, and the row of the first
\* is there when the second tries.
LEMMA OneExecutorStep == AttemptInv /\ [Next]_vars => OneExecutorPerAttempt'
<1> SUFFICES ASSUME AttemptInv, [Next]_vars, NEW e \in Executors, exec'[e].pc = "invoke"
             PROVE  /\ exec'[e].idx \in DOMAIN attempts'[exec'[e].node]
                    /\ attempts'[exec'[e].node][exec'[e].idx].owner = "worker-dispatch"
                    /\ \A f \in Executors \ {e} :
                         exec'[f].pc = "invoke" /\ exec'[f].node = exec'[e].node
                           => exec'[f].idx # exec'[e].idx
  BY DEF OneExecutorPerAttempt, At, NodeOf
<1>0. TypeOK /\ exec \in [Executors -> Activity]
  BY DEF AttemptInv, TypeOK, ExecType
<1>1. CASE exec'[e] = exec[e] /\ At(e, "invoke") /\ NodeOf(e) \in Nodes
  <2>1. /\ exec[e].idx \in DOMAIN attempts[NodeOf(e)]
        /\ attempts[NodeOf(e)][exec[e].idx].owner = "worker-dispatch"
    BY <1>1 DEF AttemptInv, OneExecutorPerAttempt
  <2>2. /\ exec[e].idx \in DOMAIN attempts'[NodeOf(e)]
        /\ attempts'[NodeOf(e)][exec[e].idx].owner = "worker-dispatch"
    BY <1>0, <1>1, <2>1, RowsStay
  <2>3. ASSUME NEW f \in Executors \ {e}, exec'[f].pc = "invoke",
               exec'[f].node = exec'[e].node
        PROVE  exec'[f].idx # exec'[e].idx
    <3>1. CASE exec'[f] = exec[f] /\ At(f, "invoke")
      BY <1>1, <2>3, <3>1 DEF AttemptInv, OneExecutorPerAttempt, NodeOf
    <3>2. CASE exec'[f].idx = Len(attempts[NodeOf(f)]) + 1 /\ exec'[f].node = NodeOf(f)
      <4>1. DOMAIN attempts[NodeOf(e)] = 1..Len(attempts[NodeOf(e)])
            /\ Len(attempts[NodeOf(e)]) \in Nat
        BY <1>0, <1>1, AttemptRows
      <4> QED
        BY <1>1, <2>1, <2>3, <3>2, <4>1 DEF NodeOf
    <3> QED
      BY <2>3, <3>1, <3>2, InvokeRow
  <2> QED
    BY <1>1, <2>2, <2>3 DEF NodeOf
<1>2. CASE /\ exec' = [exec EXCEPT ![e].pc = "invoke"] /\ At(e, "insert")
           /\ NodeOf(e) \in Nodes /\ exec'[e].node = NodeOf(e) /\ exec'[e].idx = exec[e].idx
           /\ exec[e].idx = Len(attempts[NodeOf(e)]) + 1
           /\ exec[e].idx \in DOMAIN attempts'[NodeOf(e)]
           /\ attempts'[NodeOf(e)][exec[e].idx] = Started("worker-dispatch")
  <2>1. ASSUME NEW f \in Executors \ {e}, exec'[f].pc = "invoke",
               exec'[f].node = exec'[e].node
        PROVE  exec'[f].idx # exec'[e].idx
    <3>1. exec'[f] = exec[f] /\ At(f, "invoke") /\ NodeOf(f) = NodeOf(e)
      BY <1>0, <1>2, <2>1 DEF At, NodeOf
    <3>2. exec[f].idx \in DOMAIN attempts[NodeOf(f)]
      BY <3>1 DEF AttemptInv, OneExecutorPerAttempt
    <3>3. DOMAIN attempts[NodeOf(e)] = 1..Len(attempts[NodeOf(e)])
          /\ Len(attempts[NodeOf(e)]) \in Nat
      BY <1>0, <1>2, AttemptRows
    <3> QED
      BY <1>2, <3>1, <3>2, <3>3
  <2> QED
    BY <1>2, <2>1 DEF Started
<1> QED
  BY <1>1, <1>2, InvokeRow

\* An index stays the next one or becomes taken; an attempt with an executor is
\* made to fail by that executor only, which then leaves it.
LEMMA DrivenStep == AttemptInv /\ [Next]_vars => DrivenAttempts'
<1> SUFFICES ASSUME AttemptInv, [Next]_vars, NEW e \in Executors
             PROVE  /\ exec'[e].pc = "insert" =>
                         exec'[e].idx \in 1..Len(attempts'[exec'[e].node]) + 1
                    /\ exec'[e].pc = "invoke" =>
                         attempts'[exec'[e].node][exec'[e].idx].status # "failed_retryable"
  BY DEF DrivenAttempts, At, NodeOf
<1>0. TypeOK /\ TypeOK' /\ exec \in [Executors -> Activity] /\ ExecType
  BY TypeStep DEF AttemptInv, TypeOK, ExecType
<1>1. ASSUME exec'[e].pc = "insert"
      PROVE  exec'[e].idx \in 1..Len(attempts'[exec'[e].node]) + 1
  <2> DEFINE n == NodeOf(e)
  <2>1. CASE exec'[e] = exec[e]
    <3>1. At(e, "insert") /\ n \in Nodes
      BY <1>0, <1>1, <2>1, PlacedWorker DEF At, WorkerPcs
    <3>2. exec[e].idx \in 1..Len(attempts[n]) + 1
      BY <3>1 DEF AttemptInv, DrivenAttempts
    <3>3. /\ Len(attempts[n]) \in Nat /\ Len(attempts'[n]) \in Nat
          /\ DOMAIN attempts[n] = 1..Len(attempts[n])
          /\ DOMAIN attempts'[n] = 1..Len(attempts'[n])
      <4>1. attempts'[n] \in Seq(Attempt)
        BY <1>0, <3>1 DEF TypeOK, DbType
      <4> QED
        BY <1>0, <3>1, <4>1, AttemptRows, LenProperties
    <3>4. Len(attempts[n]) <= Len(attempts'[n])
      <4>1. Len(attempts[n]) \in DOMAIN attempts[n] => Len(attempts[n]) \in DOMAIN attempts'[n]
        BY <1>0, <3>1, RowsStay
      <4> QED
        BY <3>3, <4>1
    <3> QED
      BY <2>1, <3>2, <3>3, <3>4 DEF NodeOf
  <2>2. CASE ReadIndex(e)
    <3>1. n \in Nodes
      BY <1>0, <2>2, PlacedWorker DEF ReadIndex, At, WorkerPcs
    <3>2. Len(attempts[n]) \in Nat
      BY <1>0, <3>1, AttemptRows
    <3>3. exec'[e].idx = Len(attempts[n]) + 1 /\ exec'[e].node = n /\ attempts' = attempts
      BY <1>0, <2>2 DEF ReadIndex, Activity, NodeOf, db
    <3> QED
      BY <3>2, <3>3
  <2>3. CASE InsertAttempt(e)
    BY <1>0, <1>1, <2>3 DEF InsertAttempt, Exit, Goto, Free, Activity
  <2> QED
    BY <1>0, <1>1, <2>1, <2>2, <2>3, InvokeMoves
<1>2. ASSUME exec'[e].pc = "invoke"
      PROVE  attempts'[exec'[e].node][exec'[e].idx].status # "failed_retryable"
  <2>1. CASE exec'[e] = exec[e] /\ At(e, "invoke") /\ NodeOf(e) \in Nodes
    <3>1. exec[e].idx \in DOMAIN attempts[NodeOf(e)]
          /\ attempts[NodeOf(e)][exec[e].idx].status # "failed_retryable"
      BY <2>1 DEF AttemptInv, OneExecutorPerAttempt, DrivenAttempts
    <3>2. ASSUME NEW f \in Executors, NEW result \in Results, Finish(f, result),
                 NodeOf(f) = NodeOf(e), exec[f].idx = exec[e].idx
          PROVE  FALSE
      <4>1. f = e
        BY <2>1, <3>2 DEF AttemptInv, OneExecutorPerAttempt, Finish
      <4>2. exec'[f].pc # "invoke"
        <5>1. Exit(f) \/ Goto(f, "unblock") \/ Goto(f, "budget")
          BY <3>2 DEF Finish, Results
        <5> QED
          BY <1>0, <5>1 DEF Exit, Goto, Free, Activity
      <4> QED
        BY <1>2, <4>1, <4>2
    <3>3. attempts'[NodeOf(e)][exec[e].idx].status # "failed_retryable"
      BY <1>0, <2>1, <3>1, <3>2, StatusMoves
    <3> QED
      BY <2>1, <3>3 DEF NodeOf
  <2>2. CASE /\ exec'[e].node = NodeOf(e) /\ exec'[e].idx = exec[e].idx
             /\ attempts'[NodeOf(e)][exec[e].idx] = Started("worker-dispatch")
    BY <2>2 DEF Started
  <2> QED
    BY <1>2, <2>1, <2>2, InvokeRow
<1> QED
  BY <1>1, <1>2

\* So the invariant holds in every reachable state.
LEMMA AttemptInvariant == Spec => [](OrderInv /\ AttemptInv)
<1>1. Init => AttemptInv
  BY InitTypeOK DEF AttemptInv, Init, OneExecutorPerAttempt, DrivenAttempts, At, Free
<1>2. AttemptInv /\ [Next]_vars => AttemptInv'
  BY TypeStep, OneExecutorStep, DrivenStep DEF AttemptInv
<1> QED
  BY <1>1, <1>2, InitOrderInv, OrderInvStep, PTL DEF Spec

\* However executors of one task race for the next index, no two of them ever
\* drive the same attempt, and none drives a row of the loop runner's.
THEOREM OneExecutor == Spec => []OneExecutorPerAttempt
<1>1. AttemptInv => OneExecutorPerAttempt
  BY DEF AttemptInv
<1> QED
  BY <1>1, AttemptInvariant, PTL

-----------------------------------------------------------------------------
(* Attempts are not left behind.                                           *)

\* An executor leaves its attempt by recording a result, or by a failure.
LEMMA InvokeLeaves ==
  ASSUME TypeOK, [Next]_vars, crashes' = crashes,
         NEW e \in Executors, At(e, "invoke"), exec'[e] # exec[e]
  PROVE  \E result \in Results : Finish(e, result)
<1> DEFINE Finished == \E result \in Results : Finish(e, result)
<1>0. exec \in [Executors -> Activity] /\ crashes \in Nat
  BY ConstantsAssumption DEF ConstantsAssumption, TypeOK, ExecType
<1>1. ASSUME NEW S \in SUBSET Nodes, Spawn(S) PROVE FALSE
  <2>2. PICK by \in [S -> {x \in Executors : exec[x].pc = "free"}] :
           exec' = [x \in Executors |->
                      IF \E m \in S : by[m] = x
                      THEN [Free EXCEPT !.pc = "guard", !.node = CHOOSE m \in S : by[m] = x]
                      ELSE exec[x]]
    BY <1>1 DEF Spawn
  <2> QED
    BY <2>2 DEF At
<1>2. ASSUME NEW f \in Executors, Executor(f) PROVE Finished
  <2>1. PICK x : exec' = [exec EXCEPT ![f] = x]
    BY <1>2, OneActivityMoves
  <2>2. e = f
    BY <1>0, <2>1
  <2> QED
    BY <1>2, <2>2
       DEF At, Executor, Guard, AcquireWorkspace, NoWorkspace, ReadIndex, InsertAttempt,
           ReadBudget, Retry, Exhaust, FinishVerify, CompleteVerify, Unblock, WakeTask,
           RelabelNode
<1>3. ASSUME NEW m \in Nodes, ThenUnblock(m) PROVE FALSE
  BY <1>0, <1>3 DEF ThenUnblock, At, Free
<1>4. CASE Failure
  BY <1>0, <1>4 DEF Failure
<1>5. exec' # exec
  OBVIOUS
<1> QED
  BY <1>1, <1>2, <1>3, <1>4, <1>5
     DEF Next, vars, local, Runner, Api, Crash, CheckDeps, CreateTask, SelectQueued,
         DispatchQueued, EvaluateGate, CountSlots, SpawnExecutors, RunnerCrash, WorkerCrash,
         ActivityFails, ApiComplete, ApiPatch, ApiCompleteAttempt

\* Failures are counted and never forgotten.
LEMMA CrashesCount ==
  ASSUME TypeOK, [Next]_vars, crashes' = 0
  PROVE  crashes = 0
<1>0. crashes \in Nat
  BY ConstantsAssumption DEF ConstantsAssumption, TypeOK
<1>1. crashes' = crashes \/ Failure
  BY DEF Next, vars, bounds, Runner, Api, Crash, CheckDeps, CreateTask, SelectQueued,
         DispatchQueued, EvaluateGate, CountSlots, SpawnExecutors, Spawn, RunnerCrash,
         WorkerCrash, ActivityFails, ApiComplete, ApiPatch, ApiCompleteAttempt, Request,
         Executor, Guard, AcquireWorkspace, NoWorkspace, ReadIndex, InsertAttempt, Finish,
         ReadBudget, Retry, Exhaust, FinishVerify, CompleteVerify, Unblock, WakeTask,
         RelabelNode, Otherwise
<1> QED
  BY <1>0, <1>1 DEF Failure

\* An attempt that runs after a step ran before it, under an executor that did not
\* finish it, or is new.
LEMMA NoOrphanStep == AttemptInv /\ NoOrphanAttempt /\ [Next]_vars => NoOrphanAttempt'
<1> SUFFICES ASSUME AttemptInv, NoOrphanAttempt, [Next]_vars, crashes' = 0,
                    NEW n \in Nodes, NEW i \in DOMAIN attempts'[n],
                    attempts'[n][i].status = "running",
                    attempts'[n][i].owner = "worker-dispatch"
             PROVE  \E e \in Executors : exec'[e].pc = "invoke" /\ exec'[e].node = n
                                         /\ exec'[e].idx = i
  BY DEF NoOrphanAttempt, LiveWorkerAttempts, At, NodeOf
<1>0. TypeOK /\ exec \in [Executors -> Activity] /\ crashes = 0
  BY CrashesCount DEF AttemptInv, TypeOK, ExecType
<1>1. CASE i \in DOMAIN attempts[n]
  <2>1. ASSUME NEW result \in Results PROVE result # "running"
    BY DEF Results
  <2>2. attempts[n][i].status = "running"
    BY <1>0, <1>1, <2>1, StatusMoves
  <2>3. attempts[n][i].owner = "worker-dispatch"
    BY <1>0, <1>1, RowsStay
  <2>4. PICK e \in Executors : At(e, "invoke") /\ NodeOf(e) = n /\ exec[e].idx = i
    BY <1>0, <1>1, <2>2, <2>3 DEF NoOrphanAttempt, LiveWorkerAttempts
  <2>5. CASE exec'[e] = exec[e]
    BY <2>4, <2>5 DEF At, NodeOf
  <2>6. CASE exec'[e] # exec[e]
    <3>1. PICK result \in Results : Finish(e, result)
      BY <1>0, <2>4, <2>6, InvokeLeaves
    <3>2. attempts'[n][i].status = result
      <4>1. attempts[n] \in Seq(Attempt) /\ attempts[n][i] \in Attempt
        BY <1>0, <1>1, AttemptRows, ElementOfSeq
      <4> QED
        BY <1>0, <1>1, <2>4, <3>1, <4>1 DEF Finish, TypeOK, DbType, Attempt
    <3> QED
      BY <2>1, <3>2
  <2> QED
    BY <2>5, <2>6
<1>2. CASE i \notin DOMAIN attempts[n]
  <2>1. /\ i = Len(attempts[n]) + 1
        /\ \/ attempts'[n][i] = Started("loop-runner")
           \/ \E e \in Executors : /\ InsertAttempt(e) /\ NodeOf(e) = n
                                   /\ exec[e].idx \notin DOMAIN attempts[n]
                                   /\ Goto(e, "invoke")
    BY <1>0, <1>2, NewRows
  <2>2. PICK e \in Executors : /\ InsertAttempt(e) /\ NodeOf(e) = n
                               /\ exec[e].idx \notin DOMAIN attempts[n]
                               /\ Goto(e, "invoke")
    BY <2>1 DEF Started
  <2>3. exec[e].idx \in 1..Len(attempts[n]) + 1
    BY <2>2 DEF AttemptInv, DrivenAttempts, InsertAttempt
  <2>4. exec[e].idx = i
    BY <1>0, <2>1, <2>2, <2>3, AttemptRows
  <2>5. exec'[e].pc = "invoke" /\ exec'[e].node = n /\ exec'[e].idx = i
    BY <1>0, <2>2, <2>4 DEF Goto, Activity, NodeOf
  <2> QED
    BY <2>5
<1> QED
  BY <1>1, <1>2

\* As long as no process failed, every running attempt of worker dispatch has the
\* executor that will finish it.
THEOREM NoOrphans == Spec => []NoOrphanAttempt
<1>1. Init => NoOrphanAttempt
  <2>1. ASSUME Init, NEW n \in Nodes PROVE LiveWorkerAttempts(n) = {}
    BY <2>1 DEF Init, LiveWorkerAttempts
  <2> QED
    BY <2>1 DEF NoOrphanAttempt
<1>2. Spec => []AttemptInv
  BY AttemptInvariant, PTL
<1> QED
  BY <1>1, <1>2, NoOrphanStep, PTL DEF Spec

-----------------------------------------------------------------------------
(* Retries are paid for.                                                   *)

\* Failures are finite in number, and stay.
LEMMA FailuresStay ==
  ASSUME AttemptInv, [Next]_vars, NEW n \in Nodes
  PROVE  /\ IsFiniteSet(Failures(n)) /\ IsFiniteSet(Failures(n)')
         /\ Failures(n) \subseteq Failures(n)'
<1>0. TypeOK /\ TypeOK'
  BY TypeStep DEF AttemptInv
<1>1. IsFiniteSet(Failures(n)) /\ IsFiniteSet(Failures(n)')
  <2>1. IsFiniteSet(DOMAIN attempts[n]) /\ IsFiniteSet(DOMAIN attempts'[n])
    <3>1. attempts'[n] \in Seq(Attempt)
      BY <1>0 DEF TypeOK, DbType
    <3>2. DOMAIN attempts'[n] = 1..Len(attempts'[n]) /\ Len(attempts'[n]) \in Nat
      BY <3>1, LenProperties
    <3> QED
      BY <1>0, <3>2, AttemptRows, FS_Interval
  <2>2. /\ Failures(n) \subseteq DOMAIN attempts[n]
        /\ Failures(n)' \subseteq DOMAIN attempts'[n]
    BY DEF Failures
  <2> QED
    BY <2>1, <2>2, FS_Subset
<1>2. ASSUME NEW i \in Failures(n) PROVE i \in Failures(n)'
  <2>1. i \in DOMAIN attempts[n] /\ attempts[n][i].status = "failed_retryable"
    BY DEF Failures
  <2>2. i \in DOMAIN attempts'[n]
    BY <1>0, <2>1, RowsStay
  <2>3. ASSUME NEW e \in Executors, NEW result \in Results, Finish(e, result),
               NodeOf(e) = n, exec[e].idx = i
        PROVE  FALSE
    BY <2>1, <2>3 DEF AttemptInv, DrivenAttempts, Finish
  <2>4. attempts'[n][i].status = "failed_retryable"
    BY <1>0, <2>1, <2>3, StatusMoves
  <2> QED
    BY <2>2, <2>4 DEF Failures
<1> QED
  BY <1>1, <1>2

\* A failure that is recorded is one more.
LEMMA FailureRecorded ==
  ASSUME AttemptInv, NEW e \in Executors, Finish(e, "failed_retryable"),
         NEW n \in Nodes, NodeOf(e) = n, NEW i, exec[e].idx = i
  PROVE  i \notin Failures(n) /\ i \in Failures(n)'
<1>2. i \in DOMAIN attempts[n] /\ attempts[n][i].status # "failed_retryable"
  BY DEF AttemptInv, OneExecutorPerAttempt, DrivenAttempts, Finish
<1>3. attempts[n] \in Seq(Attempt) /\ attempts[n][i] \in Attempt
  BY <1>2, AttemptRows, ElementOfSeq DEF AttemptInv
<1>4. i \in DOMAIN attempts'[n] /\ attempts'[n][i].status = "failed_retryable"
  BY <1>2, <1>3 DEF Finish, AttemptInv, TypeOK, DbType, Attempt
<1> QED
  BY <1>2, <1>4 DEF Failures

\* An executor comes to owe a retry by recording a failure.
LEMMA OwingMoves ==
  ASSUME TypeOK, [Next]_vars, NEW n \in Nodes, NEW f \in Owing(n)'
  PROVE  f \in Owing(n) \/ (Finish(f, "failed_retryable") /\ NodeOf(f) = n)
<1> DEFINE Owed == exec[f].pc \in {"budget", "retry", "exhaust"} /\ exec[f].node = n
           Came == Finish(f, "failed_retryable") /\ NodeOf(f) = n
<1>0. exec \in [Executors -> Activity]
  BY DEF TypeOK, ExecType
<1>1. f \in Executors /\ exec'[f].pc \in {"budget", "retry", "exhaust"} /\ exec'[f].node = n
  BY DEF Owing, NodeOf
<1> SUFFICES Owed \/ Came
  BY <1>1 DEF Owing, NodeOf
<1>2. CASE exec'[f] = exec[f]
  BY <1>1, <1>2
<1>3. CASE exec'[f].pc \in {"free", "guard", "unblock"}
  BY <1>1, <1>3
<1>4. ASSUME NEW S \in SUBSET Nodes, Spawn(S) PROVE Owed \/ Came
  <2>2. PICK by \in [S -> {x \in Executors : exec[x].pc = "free"}] :
           exec' = [x \in Executors |->
                      IF \E m \in S : by[m] = x
                      THEN [Free EXCEPT !.pc = "guard", !.node = CHOOSE m \in S : by[m] = x]
                      ELSE exec[x]]
    BY <1>4 DEF Spawn
  <2>3. exec'[f] = exec[f] \/ exec'[f].pc = "guard"
    BY <1>1, <2>2 DEF Free
  <2> QED
    BY <1>2, <1>3, <2>3
<1>5. ASSUME NEW e \in Executors, Executor(e) PROVE Owed \/ Came
  <2>1. PICK x : exec' = [exec EXCEPT ![e] = x]
    BY <1>5, OneActivityMoves
  <2>2. CASE f # e
    BY <1>0, <1>1, <1>2, <2>1, <2>2
  <2>3. CASE f = e
    <3>1. CASE Exit(e)
      BY <1>0, <1>1, <1>3, <2>3, <3>1 DEF Exit, Free
    <3>2. ASSUME NEW pc, Goto(e, pc) PROVE exec'[f].pc = pc /\ exec'[f].node = exec[f].node
      BY <1>0, <1>1, <2>3, <3>2 DEF Goto, Activity
    <3>3. CASE Guard(e) \/ AcquireWorkspace(e) \/ NoWorkspace(e)
      BY <1>1, <3>1, <3>2, <3>3 DEF Guard, AcquireWorkspace, NoWorkspace
    <3>4. CASE ReadIndex(e)
      BY <1>0, <1>1, <2>3, <3>4 DEF ReadIndex, Activity
    <3>5. CASE InsertAttempt(e) \/ Retry(e) \/ Exhaust(e) \/ CompleteVerify(e)
      BY <1>1, <3>1, <3>2, <3>5 DEF InsertAttempt, Retry, Exhaust, CompleteVerify
    <3>6. CASE ReadBudget(e)
      BY <1>1, <2>3, <3>2, <3>6 DEF ReadBudget, At
    <3>7. ASSUME NEW result \in Results, Finish(e, result) PROVE Owed \/ Came
      <4>1. CASE result = "failed_retryable"
        <5>1. Goto(e, "budget")
          BY <3>7, <4>1 DEF Finish
        <5> QED
          BY <1>1, <2>3, <3>2, <3>7, <4>1, <5>1 DEF NodeOf
      <4>2. CASE result # "failed_retryable"
        <5>1. Exit(e) \/ Goto(e, "unblock")
          BY <3>7, <4>2 DEF Finish, Results
        <5> QED
          BY <1>1, <3>1, <3>2, <5>1
      <4> QED
        BY <4>1, <4>2
    <3>8. ASSUME NEW result \in {"succeeded", "failed"}, FinishVerify(e, result)
          PROVE  Owed \/ Came
      <4>1. Exit(e) \/ Goto(e, "verified")
        BY <3>8 DEF FinishVerify
      <4> QED
        BY <1>1, <3>1, <3>2, <4>1
    <3>9. CASE Unblock(e)
      BY <1>0, <1>1, <2>3, <3>9 DEF Unblock, Activity, Free
    <3>10. CASE WakeTask(e)
      BY <1>0, <1>1, <2>3, <3>10 DEF WakeTask, Activity
    <3>11. CASE RelabelNode(e)
      BY <1>0, <1>1, <2>3, <3>11 DEF RelabelNode, Activity, Free
    <3> QED
      BY <1>5, <3>3, <3>4, <3>5, <3>6, <3>7, <3>8, <3>9, <3>10, <3>11 DEF Executor
  <2> QED
    BY <2>2, <2>3
<1>6. ASSUME NEW m \in Nodes, ThenUnblock(m) PROVE Owed \/ Came
  <2>1. exec'[f] = exec[f] \/ exec'[f].pc = "unblock"
    BY <1>0, <1>1, <1>6 DEF ThenUnblock, Activity
  <2> QED
    BY <1>2, <1>3, <2>1
<1>7. CASE Crash
  <2>1. exec'[f] = exec[f] \/ exec'[f].pc = "free"
    BY <1>0, <1>1, <1>7 DEF Crash, WorkerCrash, RunnerCrash, ActivityFails, Exit, Free
  <2> QED
    BY <1>2, <1>3, <2>1
<1>8. CASE UNCHANGED exec
  BY <1>2, <1>8
<1> HIDE DEF Owed, Came
<1> QED
  BY <1>4, <1>5, <1>6, <1>7, <1>8
     DEF Next, vars, local, Runner, Api, CheckDeps, CreateTask, SelectQueued,
         DispatchQueued, EvaluateGate, CountSlots, SpawnExecutors, ApiComplete, ApiPatch,
         ApiCompleteAttempt

\* The budget of a task that exists is spent by Retry only.
LEMMA BudgetMoves ==
  ASSUME OrderInv, [Next]_vars, NEW n \in Nodes, status[n] # "absent",
         budget'[n] # budget[n]
  PROVE  \E e \in Owing(n) : /\ Retry(e) /\ e \notin Owing(n)'
                             /\ budget[n] > 0 /\ budget'[n] = budget[n] - 1
<1>0. DbType /\ RunnerType /\ ExecType /\ RowsExist
  BY DEF OrderInv, TypeOK
<1>1. CASE CreateTask
  BY <1>0, <1>1 DEF CreateTask, DbType, RunnerType, RowsExist
<1>2. ASSUME NEW e \in Executors, Retry(e)
      PROVE  e \in Owing(n) /\ e \notin Owing(n)' /\ budget[n] > 0 /\ budget'[n] = budget[n] - 1
  <2>1. NodeOf(e) = n /\ budget[n] > 0 /\ budget'[n] = budget[n] - 1
    BY <1>0, <1>2 DEF Retry, DbType, db
  <2>2. exec[e].pc = "retry" /\ exec'[e].pc = "free"
    BY <1>0, <1>2 DEF Retry, At, Exit, Free, ExecType
  <2> QED
    BY <2>1, <2>2 DEF Owing
<1> QED
  BY <1>1, <1>2
     DEF Next, vars, db, Runner, Api, Crash, CheckDeps, SelectQueued, DispatchQueued,
         EvaluateGate, CountSlots, SpawnExecutors, Spawn, RunnerCrash, WorkerCrash,
         ActivityFails, Failure, ApiComplete, ApiPatch, ApiCompleteAttempt, Request,
         Executor, Guard, AcquireWorkspace, NoWorkspace, ReadIndex, InsertAttempt, Finish,
         ReadBudget, Exhaust, FinishVerify, CompleteVerify, Unblock, WakeTask, RelabelNode

\* A task comes to exist by CreateTask only.
LEMMA NewTask ==
  ASSUME OrderInv, [Next]_vars, NEW n \in Nodes, status[n] = "absent", status'[n] # "absent"
  PROVE  CreateTask /\ budget'[n] = RetryBudget
<1>0. DbType /\ RunnerType /\ ExecType /\ RowsExist
  BY DEF OrderInv, TypeOK
<1>1. CASE CreateTask
  BY <1>0, <1>1 DEF CreateTask, DbType, RunnerType
<1>2. CASE DispatchQueued
  BY <1>0, <1>2 DEF DispatchQueued, DbType, db
<1>3. ASSUME NEW e \in Executors, Executor(e) PROVE FALSE
  <2>1. n # NodeOf(e) /\ n \notin exec[e].todo
    BY <1>0 DEF RowsExist, NodeOf
  <2> QED
    BY <1>0, <1>3, <2>1
       DEF DbType, db, Executor, Guard, AcquireWorkspace, NoWorkspace, ReadIndex,
           InsertAttempt, Finish, ReadBudget, Retry, Exhaust, FinishVerify, CompleteVerify,
           Unblock, WakeTask, RelabelNode
<1>4. ASSUME NEW m \in Nodes, ApiComplete(m) \/ ApiPatch(m) \/ ApiCompleteAttempt(m)
      PROVE  FALSE
  BY <1>0, <1>4 DEF DbType, ApiComplete, ApiPatch, ApiCompleteAttempt
<1> QED
  BY <1>1, <1>2, <1>3, <1>4
     DEF Next, vars, db, Runner, Api, Crash, CheckDeps, SelectQueued, EvaluateGate,
         CountSlots, SpawnExecutors, Spawn, WorkerCrash, RunnerCrash, ActivityFails, Failure

\* A failure is recorded before the retry it pays for is owed; a retry takes a unit
\* of the budget and ends what was owed for it.
LEMMA BudgetStep ==
  OrderInv /\ AttemptInv /\ BudgetPaysForFailures /\ [Next]_vars => BudgetPaysForFailures'
<1> SUFFICES ASSUME OrderInv, AttemptInv, BudgetPaysForFailures, [Next]_vars,
                    NEW n \in Nodes, status'[n] # "absent"
             PROVE  RetryBudget - budget'[n] + Cardinality(Owing(n)')
                      <= Cardinality(Failures(n)')
  BY DEF BudgetPaysForFailures
<1> DEFINE O == Owing(n)
           F == Failures(n)
<1>0. TypeOK /\ RetryBudget \in Nat /\ IsFiniteSet(Executors)
  BY ConstantsAssumption DEF ConstantsAssumption, AttemptInv
<1>1. /\ IsFiniteSet(F) /\ IsFiniteSet(F') /\ F \subseteq F'
      /\ Cardinality(F) \in Nat /\ Cardinality(F') \in Nat
      /\ Cardinality(F) <= Cardinality(F')
  <2>1. IsFiniteSet(F) /\ IsFiniteSet(F') /\ F \subseteq F'
    BY FailuresStay
  <2> HIDE DEF F
  <2> QED
    BY <2>1, FS_Subset, FS_CardinalityType
<1>2. /\ IsFiniteSet(O) /\ IsFiniteSet(O')
      /\ Cardinality(O) \in Nat /\ Cardinality(O') \in Nat
  <2>1. O \subseteq Executors /\ O' \subseteq Executors
    BY DEF Owing
  <2> HIDE DEF O
  <2> QED
    BY <1>0, <2>1, FS_Subset, FS_CardinalityType
<1>3. budget[n] \in Nat /\ budget'[n] \in Nat
  BY <1>0, TypeStep DEF TypeOK, DbType
<1>4. \A f \in O' : f \in O \/ (Finish(f, "failed_retryable") /\ NodeOf(f) = n)
  BY <1>0, OwingMoves
<1>5. CASE status[n] = "absent"
  <2>1. budget'[n] = RetryBudget
    BY <1>5, NewTask
  <2>2. O' = {}
    <3>1. ASSUME NEW f \in Executors, Finish(f, "failed_retryable") PROVE ~CreateTask
      BY <1>0, <3>1 DEF Finish, CreateTask, Exit, Goto, TypeOK, ExecType, Activity, At
    <3>2. O = {}
      BY <1>5 DEF OrderInv, RowsExist, Owing, NodeOf
    <3>3. O' \subseteq Executors
      BY DEF Owing
    <3> QED
      BY <1>4, <1>5, <3>1, <3>2, <3>3, NewTask
  <2>3. Cardinality(O') = 0
    BY <2>2, FS_EmptySet
  <2> QED
    BY <1>0, <1>1, <2>1, <2>3
<1>6. CASE status[n] # "absent"
  <2>1. RetryBudget - budget[n] + Cardinality(O) <= Cardinality(F)
    BY <1>6 DEF BudgetPaysForFailures
  <2>2. ASSUME NEW e \in Executors, Finish(e, "failed_retryable"), NodeOf(e) = n
        PROVE  RetryBudget - budget'[n] + Cardinality(O') <= Cardinality(F')
    <3> DEFINE i == exec[e].idx
    <3>1. budget' = budget
      BY <2>2 DEF Finish
    <3>2. i \notin F /\ i \in F'
      BY <2>2, FailureRecorded
    <3> HIDE DEF i
    <3>3. ASSUME NEW f \in O', f # e PROVE f \in O
      <4>1. exec'[f] = exec[f] /\ f \in Executors
        BY <1>0, <2>2, <3>3 DEF Finish, Exit, Goto, TypeOK, ExecType, Owing
      <4> QED
        BY <4>1 DEF Owing, NodeOf
    <3>4. O' \subseteq O \cup {e}
      BY <3>3
    <3> HIDE DEF O, F
    <3>5. Cardinality(O') <= Cardinality(O) + 1
      <4>1. IsFiniteSet(O \cup {e}) /\ Cardinality(O \cup {e}) <= Cardinality(O) + 1
        <5>1. IsFiniteSet(O)
          BY <1>2
        <5>2. /\ IsFiniteSet(O \cup {e})
              /\ Cardinality(O \cup {e}) = IF e \in O THEN Cardinality(O) ELSE Cardinality(O) + 1
          BY <5>1, FS_AddElement
        <5> QED
          BY <1>2, <5>2
      <4>2. Cardinality(O') <= Cardinality(O \cup {e}) /\ Cardinality(O \cup {e}) \in Nat
        BY <3>4, <4>1, FS_Subset, FS_CardinalityType
      <4> QED
        BY <1>2, <4>1, <4>2
    <3>6. Cardinality(F) + 1 <= Cardinality(F')
      <4> DEFINE G == F \cup {i}
      <4>1. IsFiniteSet(G) /\ Cardinality(G) = Cardinality(F) + 1
        BY <1>1, <3>2, FS_AddElement
      <4>2. G \subseteq F'
        BY <1>1, <3>2
      <4>3. Cardinality(G) <= Cardinality(F')
        BY <1>1, <4>2, FS_Subset
      <4> QED
        BY <4>1, <4>3
    <3> QED
      BY <1>0, <1>1, <1>2, <1>3, <2>1, <3>1, <3>5, <3>6
  <2>3. CASE ~ \E e \in Executors : Finish(e, "failed_retryable") /\ NodeOf(e) = n
    <3>1. O' \subseteq O
      <4>1. O' \subseteq Executors
        BY DEF Owing
      <4> QED
        BY <1>4, <2>3, <4>1
    <3> SUFFICES RetryBudget - budget'[n] + Cardinality(O') <= Cardinality(F')
      OBVIOUS
    <3> HIDE DEF O, F
    <3>2. CASE budget'[n] = budget[n]
      <4>1. Cardinality(O') <= Cardinality(O)
        BY <1>2, <3>1, FS_Subset
      <4> QED
        BY <1>0, <1>1, <1>2, <1>3, <2>1, <3>2, <4>1
    <3>3. CASE budget'[n] # budget[n]
      <4>1. PICK e \in O : e \notin O' /\ budget[n] > 0 /\ budget'[n] = budget[n] - 1
        BY <1>6, <3>3, BudgetMoves DEF O
      <4>2. IsFiniteSet(O \ {e}) /\ Cardinality(O \ {e}) = Cardinality(O) - 1
        BY <1>2, FS_RemoveElement
      <4>3. O' \subseteq O \ {e}
        BY <3>1, <4>1
      <4>4. Cardinality(O') <= Cardinality(O) - 1
        BY <4>2, <4>3, FS_Subset
      <4> QED
        BY <1>0, <1>1, <1>2, <1>3, <2>1, <4>1, <4>4
    <3> QED
      BY <3>2, <3>3
  <2> QED
    BY <2>2, <2>3
<1> QED
  BY <1>5, <1>6

\* Racing executors never spend one failure twice: every unit of budget a task has
\* spent, and every one an executor is about to spend, has a failed attempt of its
\* own.
THEOREM BudgetPaid == Spec => []BudgetPaysForFailures
<1>1. Init => BudgetPaysForFailures
  BY DEF Init, BudgetPaysForFailures
<1> QED
  BY <1>1, AttemptInvariant, BudgetStep, PTL DEF Spec

=============================================================================
