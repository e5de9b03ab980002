------------------------ MODULE TaskRefinementProofs ------------------------
(***************************************************************************)
(* Proofs that TaskExecution implements OrderedWork, its promise to the    *)
(* objective, and TaskLife, which the cycle engine is built on: for every  *)
(* dependency graph, every number of executors and every bound.            *)
(***************************************************************************)
EXTENDS TaskExecutionProofs

-----------------------------------------------------------------------------
(* Who is at work after a step.                                            *)

\* So it puts no node to work, and takes its own node, if any, out of work.
LEMMA ExecutorWork ==
  ASSUME TypeOK, NEW e \in Executors, Executor(e), NEW n \in Nodes
  PROVE  /\ Working(n)' => Working(n)
         /\ Working(n) /\ n # NodeOf(e) => Working(n)'
<1>0. exec \in [Executors -> Activity]
  BY DEF TypeOK, ExecType
<1>1. PICK x : /\ exec' = [exec EXCEPT ![e] = x]
               /\ x.pc \in WorkerPcs => exec[e].pc \in WorkerPcs /\ x.node = exec[e].node
  BY OneActivityMoves
<1>2. ASSUME Working(n)' PROVE Working(n)
  <2>1. PICK f \in Executors : exec'[f].pc \in WorkerPcs /\ exec'[f].node = n
    BY <1>2 DEF Working
  <2>2. exec[f].pc \in WorkerPcs /\ exec[f].node = n
    BY <1>0, <1>1, <2>1
  <2> QED
    BY <2>2 DEF Working
<1>3. ASSUME Working(n), n # NodeOf(e) PROVE Working(n)'
  <2>1. PICK f \in Executors : exec[f].pc \in WorkerPcs /\ exec[f].node = n
    BY <1>3 DEF Working
  <2>2. exec'[f] = exec[f]
    BY <1>0, <1>1, <1>3, <2>1 DEF NodeOf
  <2> QED
    BY <2>1, <2>2 DEF Working
<1> QED
  BY <1>2, <1>3

\* Rows of attempts stay, so what was attempted stays attempted.
LEMMA AttemptedStays ==
  ASSUME TypeOK, [Next]_vars, NEW n \in Nodes, Attempted(n)
  PROVE  Attempted(n)'
  BY RowsStay DEF Attempted

\* What a tick of worker dispatch takes up are ready tasks.
LEMMA SpawnWork ==
  ASSUME ExecType, NEW S \in SUBSET Nodes, Spawn(S), NEW n \in Nodes
  PROVE  Working(n)' <=> Working(n) \/ n \in S
<1>1. PICK by \in [S -> {x \in Executors : exec[x].pc = "free"}] :
         exec' = [x \in Executors |->
                    IF \E m \in S : by[m] = x
                    THEN [Free EXCEPT !.pc = "guard", !.node = CHOOSE m \in S : by[m] = x]
                    ELSE exec[x]]
         /\ \A m, k \in S : by[m] = by[k] => m = k
  BY DEF Spawn
<1>2. ASSUME n \in S PROVE Working(n)'
  <2>1. exec'[by[n]].pc = "guard" /\ exec'[by[n]].node = n /\ by[n] \in Executors
    <3>1. by[n] \in Executors /\ \E m \in S : by[m] = by[n]
      BY <1>1, <1>2
    <3>2. (CHOOSE m \in S : by[m] = by[n]) = n
      BY <1>1, <1>2
    <3>3. exec'[by[n]] = [Free EXCEPT !.pc = "guard",
                                      !.node = CHOOSE m \in S : by[m] = by[n]]
      BY <1>1, <3>1
    <3> QED
      BY <3>1, <3>2, <3>3 DEF Free
  <2> QED
    BY <2>1 DEF Working, WorkerPcs
<1>3. ASSUME Working(n) PROVE Working(n)'
  <2>1. PICK f \in Executors : exec[f].pc \in WorkerPcs /\ exec[f].node = n
    BY <1>3 DEF Working
  <2>2. exec'[f] = exec[f]
    BY <1>1, <2>1 DEF WorkerPcs
  <2> QED
    BY <2>1, <2>2 DEF Working
<1>4. ASSUME Working(n)' PROVE Working(n) \/ n \in S
  <2>1. PICK f \in Executors : exec'[f].pc \in WorkerPcs /\ exec'[f].node = n
    BY <1>4 DEF Working
  <2>2. CASE \E m \in S : by[m] = f
    BY <1>1, <2>1, <2>2 DEF Free
  <2>3. CASE ~ \E m \in S : by[m] = f
    BY <1>1, <2>1, <2>3 DEF Working
  <2> QED
    BY <2>2, <2>3
<1> QED
  BY <1>2, <1>3, <1>4

\* What ends activities puts no node to work ...
LEMMA EndedWork ==
  ASSUME NEW n \in Nodes, ExecType,
         \A f \in Executors : exec'[f] = exec[f] \/ exec'[f].pc \notin WorkerPcs
  PROVE  Working(n)' => Working(n)
  BY DEF Working

\* ... nor does the activity of a request.
LEMMA RequestWork ==
  ASSUME ExecType, NEW m \in Nodes, ThenUnblock(m), NEW n \in Nodes
  PROVE  Working(n)' <=> Working(n)
<1>1. PICK e \in Executors : /\ exec[e] = Free
                             /\ exec' = [exec EXCEPT ![e].pc = "unblock", ![e].node = m,
                                                     ![e].kind = "api"]
  BY DEF ThenUnblock
<1>2. \A f \in Executors : f # e => exec'[f] = exec[f]
  BY <1>1 DEF ExecType
<1>3. exec[e].pc \notin WorkerPcs /\ exec'[e].pc \notin WorkerPcs
  BY <1>1 DEF ExecType, Activity, Free, WorkerPcs
<1> QED
  BY <1>2, <1>3 DEF Working

-----------------------------------------------------------------------------
(* Task execution implements OrderedWork.                                  *)

\* A step of task execution is a step of OrderedWork, or leaves it alone.
LEMMA OrderedWorkStep ==
  ASSUME OrderInv, [Next]_vars
  PROVE  [Promise!Next]_(Promise!vars)
<1> DEFINE W == {n \in Nodes : Working(n)}
           D == {n \in Nodes : Complete(n)}
<1>0. TypeOK /\ DbType /\ RunnerType /\ ExecType
  BY DEF OrderInv, TypeOK
<1>1. CASE UNCHANGED <<W, D>>
  BY <1>1 DEF Promise!vars
<1>2. CASE W' \subseteq W /\ D' = D
  <2>1. W' = W \ (W \ W') /\ W \ W' \in SUBSET Nodes
    BY <1>2
  <2>2. Promise!Leave(W \ W')
    BY <1>2, <2>1 DEF Promise!Leave
  <2> QED
    BY <2>1, <2>2 DEF Promise!Next
<1>3. ASSUME NEW S \in SUBSET Nodes, Spawn(S) PROVE Promise!Next \/ UNCHANGED <<W, D>>
  <2>1. W' = W \cup S
    BY <1>0, <1>3, SpawnWork
  <2>2. D' = D
    BY <1>3 DEF Spawn, db, Complete
  <2>3. \A n \in S : Promise!Predecessors(n) \subseteq D
    BY <1>3 DEF Spawn, Ready, Unmet, Preds, Promise!Predecessors
  <2>4. S # {} => Promise!Start(S)
    BY <2>1, <2>2, <2>3 DEF Promise!Start
  <2> QED
    BY <2>1, <2>2, <2>4 DEF Promise!Next
<1>4. ASSUME NEW n \in Nodes, D' = D \cup {n}, W' \in {W, W \ {n}} PROVE Promise!Next
  BY <1>4 DEF Promise!Next, Promise!Report
<1>5. ASSUME NEW e \in Executors, Executor(e) PROVE [Promise!Next]_(Promise!vars)
  <2>1. W' \in {W, W \ {NodeOf(e)}}
    BY <1>0, <1>5, ExecutorWork
  <2>2. CASE D' = D
    BY <1>2, <2>1, <2>2
  <2> USE <1>0 DEF DbType, Complete
  <2>3. ASSUME NEW result \in Results, Finish(e, result)
        PROVE  NodeOf(e) \in Nodes /\ D' \in {D, D \cup {NodeOf(e)}}
    BY <2>3, PlacedWorker DEF Finish, At, WorkerPcs
  <2>4. CASE CompleteVerify(e)
    <3>1. NodeOf(e) \in Nodes /\ D' = D \cup {NodeOf(e)}
      BY <2>4, PlacedWorker DEF CompleteVerify, At, WorkerPcs
    <3> QED
      BY <1>4, <2>1, <3>1
  <2>5. CASE RelabelNode(e)
    <3>1. D' = D
      BY <2>5 DEF RelabelNode
    <3> QED
      BY <2>2, <3>1
  <2>6. CASE UNCHANGED lifecycle
    BY <2>2, <2>6
  <2> QED
    BY <1>4, <1>5, <2>1, <2>2, <2>3, <2>4, <2>5, <2>6
       DEF db, Executor, Guard, AcquireWorkspace, NoWorkspace, ReadIndex, InsertAttempt,
           ReadBudget, Retry, Exhaust, FinishVerify, Unblock, WakeTask
<1>6. CASE CreateTask \/ DispatchQueued
  <2>1. D' = D
    <3>1. CASE CreateTask
      BY <1>0, <3>1 DEF CreateTask, DbType, Complete
    <3>2. CASE DispatchQueued
      BY <1>0, <3>2 DEF DispatchQueued, DbType, Complete, db
    <3> QED
      BY <1>6, <3>1, <3>2
  <2>2. W' = W
    BY <1>6 DEF CreateTask, DispatchQueued, Working
  <2> QED
    BY <1>1, <2>1, <2>2
<1>7. ASSUME NEW n \in Nodes, ApiComplete(n) PROVE Promise!Next
  <2>1. D' = D \cup {n}
    BY <1>0, <1>7 DEF ApiComplete, DbType, Complete
  <2>2. W' = W
    BY <1>0, <1>7, RequestWork DEF ApiComplete
  <2> QED
    BY <1>4, <2>1, <2>2
<1>8. ASSUME NEW n \in Nodes, ApiPatch(n) PROVE [Promise!Next]_(Promise!vars)
  <2>1. W' = W
    BY <1>8 DEF ApiPatch, Working
  <2>2. CASE n = Verify
    <3>1. D' = D \ {n}
      BY <1>0, <1>8 DEF ApiPatch, DbType, Complete
    <3>2. Promise!Successors(n) = {}
      BY <2>2, VerifyIsSink DEF Promise!Successors
    <3>3. Promise!Reopen(n)
      BY <2>1, <3>1, <3>2 DEF Promise!Reopen
    <3> QED
      BY <3>3 DEF Promise!Next
  <2>3. CASE n # Verify
    <3>1. ~Complete(n)
      BY <1>8, <2>3 DEF OrderInv, NotDoneBeforeStart, OnlyVerifyFails, ApiPatch
    <3>2. D' = D
      BY <1>0, <1>8, <3>1 DEF ApiPatch, DbType, Complete
    <3> QED
      BY <1>1, <2>1, <3>2
  <2> QED
    BY <2>2, <2>3
<1>9. ASSUME NEW n \in Nodes, ApiCompleteAttempt(n) PROVE [Promise!Next]_(Promise!vars)
  <2>1. W' = W
    <3>1. CASE ThenUnblock(n)
      BY <1>0, <3>1, RequestWork
    <3>2. CASE UNCHANGED exec
      BY <3>2 DEF Working
    <3> QED
      BY <1>9, <3>1, <3>2 DEF ApiCompleteAttempt
  <2>2. D' = D \cup {n} \/ D' = D
    BY <1>0, <1>9 DEF ApiCompleteAttempt, DbType, Complete
  <2> QED
    BY <1>1, <1>4, <2>1, <2>2
<1>10. CASE Crash
  <2>1. D' = D
    BY <1>10 DEF Crash, WorkerCrash, RunnerCrash, ActivityFails, Failure, db, Complete
  <2>2. \A f \in Executors : exec'[f] = exec[f] \/ exec'[f].pc \notin WorkerPcs
    BY <1>0, <1>10
       DEF Crash, WorkerCrash, RunnerCrash, ActivityFails, Exit, Free, WorkerPcs, ExecType
  <2>3. W' \subseteq W
    BY <1>0, <2>2, EndedWork
  <2> QED
    BY <1>2, <2>1, <2>3
<1>11. CASE UNCHANGED <<lifecycle, exec>>
  <2>1. W' = W /\ D' = D
    BY <1>11 DEF Working, Complete
  <2> QED
    BY <1>1, <2>1
<1> QED
  BY <1>1, <1>3, <1>5, <1>6, <1>7, <1>8, <1>9, <1>10, <1>11
     DEF Next, vars, db, local, Runner, Api, CheckDeps, SelectQueued, EvaluateGate,
         CountSlots, SpawnExecutors, Promise!vars

\* For every dependency graph and every number of executors, executing the tasks
\* of an objective keeps what OrderedWork promises, step by step.
THEOREM OrderKept == Spec => KeepsOrder
<1>1. Init => Promise!Init
  BY DEF Init, Promise!Init, Working, Complete, Free, WorkerPcs
<1>2. OrderInv /\ [Next]_vars => [Promise!Next]_(Promise!vars)
  BY OrderedWorkStep
<1> QED
  BY <1>1, <1>2, OrderInvCorrect, PTL DEF Spec, KeepsOrder, Promise!Spec

-----------------------------------------------------------------------------
(* Task execution implements TaskLife.                                     *)

\* What activities have read of the dependencies is still so when they use it:
\* the runner that creates a task running, and the one that wakes a task, do it
\* for a node whose predecessors are complete, however late.
ReadsStillHold ==
  /\ runner.pc = "create" /\ ~runner.unmet => ~Unmet(runner.node)
  /\ \A e \in Executors : \A n \in exec[e].todo : ~Unmet(n)

\* It is inductive together with OrderInv, by which dependencies once met stay met.
LEMMA ReadsStep ==
  OrderInv /\ ReadsStillHold /\ [Next]_vars => ReadsStillHold'
<1> SUFFICES ASSUME OrderInv, ReadsStillHold, [Next]_vars PROVE ReadsStillHold'
  OBVIOUS
<1>0. TypeOK /\ DbType /\ RunnerType /\ ExecType
  BY DEF OrderInv, TypeOK
<1>1. ASSUME runner'.pc = "create", ~runner'.unmet PROVE ~Unmet(runner.node)'
  <2>1. CASE UNCHANGED runner
    <3> DEFINE n == runner.node
    <3>1. n \in Nodes /\ ~Unmet(n)
      BY <1>0, <1>1, <2>1 DEF ReadsStillHold, RunnerType
    <3>2. \A m \in Nodes : ~Unmet(m) => ~Unmet(m)'
      BY MetStep
    <3> QED
      BY <2>1, <3>1, <3>2 DEF Unmet, Preds, Complete
  <2>2. ASSUME NEW n \in Nodes, CheckDeps(n) PROVE ~Unmet(runner.node)'
    <3>1. ~Unmet(n) /\ runner'.node = n
      BY <1>1, <2>2 DEF CheckDeps, IdleRunner, Unmet
    <3>2. ~Unmet(n)'
      BY <3>1, MetStep
    <3> QED
      BY <3>1, <3>2 DEF Unmet, Preds, Complete
  <2>3. CASE runner' = IdleRunner
    BY <1>1, <2>3 DEF IdleRunner
  <2>4. CASE SelectQueued
    BY <1>1, <2>4 DEF SelectQueued, IdleRunner
  <2>5. CASE DispatchQueued
    <3>1. runner' # IdleRunner
      BY <1>1 DEF IdleRunner
    <3> QED
      BY <1>0, <1>1, <2>5, <3>1 DEF DispatchQueued, RunnerType
  <2> QED
    BY <2>1, <2>2, <2>3, <2>4, <2>5
       DEF Next, vars, local, Runner, CreateTask, EvaluateGate, Api, Crash, CountSlots,
           SpawnExecutors, Spawn, Executor, Guard, AcquireWorkspace, NoWorkspace,
           ReadIndex, InsertAttempt, Finish, ReadBudget, Retry, Exhaust, FinishVerify,
           CompleteVerify, Unblock, WakeTask, RelabelNode, Otherwise, ApiComplete,
           ApiPatch, ApiCompleteAttempt, Request, RunnerCrash, WorkerCrash, ActivityFails
<1>2. ASSUME NEW f \in Executors, NEW n \in exec'[f].todo PROVE ~Unmet(n)'
  <2> USE <1>0 DEF ExecType, Activity
  <2>1. CASE n \in exec[f].todo
    BY <2>1, MetStep DEF ReadsStillHold
  <2>2. CASE n \notin exec[f].todo
    <3> USE <1>2, <2>2 DEF Free
    <3>1. ASSUME NEW e \in Executors, Unblock(e) PROVE ~Unmet(n)'
      <4>1. n \in Nodes /\ ~Unmet(n)
        BY <3>1 DEF Unblock, Succs
      <4> QED
        BY <4>1, MetStep
    <3>2. ASSUME NEW e \in Executors, WakeTask(e) PROVE FALSE
      BY <3>2 DEF WakeTask
    <3>3. ASSUME NEW e \in Executors, RelabelNode(e) PROVE FALSE
      BY <3>3 DEF RelabelNode
    <3>4. ASSUME NEW e \in Executors, Exit(e) \/ ReadIndex(e) \/ \E pc : Goto(e, pc)
          PROVE  FALSE
      BY <3>4 DEF Exit, ReadIndex, Goto
    <3>5. ASSUME NEW m \in Nodes, ThenUnblock(m) PROVE FALSE
      BY <3>5 DEF ThenUnblock
    <3>6. CASE WorkerCrash
      BY <3>6 DEF WorkerCrash
    <3>7. CASE SpawnExecutors
      <4>1. PICK S \in SUBSET Nodes : Spawn(S)
        BY <3>7 DEF SpawnExecutors
      <4>2. PICK by \in [S -> {x \in Executors : exec[x].pc = "free"}] :
               exec' = [x \in Executors |->
                          IF \E m \in S : by[m] = x
                          THEN [Free EXCEPT !.pc = "guard", !.node = CHOOSE m \in S : by[m] = x]
                          ELSE exec[x]]
        BY <4>1 DEF Spawn
      <4> QED
        BY <4>2
    <3>8. CASE UNCHANGED exec
      BY <3>8
    <3>9. ASSUME NEW e \in Executors, Executor(e) PROVE ~Unmet(n)'
      BY <3>1, <3>2, <3>3, <3>4, <3>9
         DEF Executor, Guard, AcquireWorkspace, NoWorkspace, InsertAttempt, Finish, Results,
             ReadBudget, Retry, Exhaust, FinishVerify, CompleteVerify
    <3> QED
      BY <3>4, <3>5, <3>6, <3>7, <3>8, <3>9
         DEF Next, vars, local, Runner, Api, Crash, CheckDeps, CreateTask, SelectQueued,
             DispatchQueued, EvaluateGate, CountSlots, RunnerCrash, ApiComplete, ApiPatch,
             ApiCompleteAttempt, ActivityFails
  <2> QED
    BY <2>1, <2>2
<1> QED
  BY <1>1, <1>2 DEF ReadsStillHold, Unmet, Preds, Complete

\* So both hold in every reachable state.
LEMMA ReadsInvariant == Spec => [](OrderInv /\ ReadsStillHold)
<1>1. Init => ReadsStillHold
  BY DEF Init, ReadsStillHold, IdleRunner, Free
<1> QED
  BY <1>1, InitOrderInv, OrderInvStep, ReadsStep, PTL DEF Spec

\* The nodes whose workers may still report: a step of an executor takes at most
\* its own node out of them, and puts none in.
LEMMA ExecutorBegun ==
  ASSUME OrderInv, [Next]_vars, NEW e \in Executors, Executor(e)
  PROVE  LET B == {n \in Nodes : Working(n) \/ Attempted(n)}
         IN B' \in {B, B \ {NodeOf(e)}}
<1> DEFINE B == {n \in Nodes : Working(n) \/ Attempted(n)}
<1>0. TypeOK
  BY DEF OrderInv
<1>1. ASSUME NEW n \in Nodes, n \in B' PROVE n \in B
  BY <1>0, <1>1, ExecutorWork, AttemptStep
<1>2. ASSUME NEW n \in Nodes, n \in B, n # NodeOf(e) PROVE n \in B'
  BY <1>0, <1>2, ExecutorWork, AttemptedStays
<1> QED
  BY <1>1, <1>2

\* A step of task execution is a step of TaskLife, or leaves it alone.
LEMMA TaskLifeStep ==
  ASSUME OrderInv, ReadsStillHold, [Next]_vars
  PROVE  [Life!LifeNext]_(Life!lifeVars)
<1> DEFINE C == {n \in Nodes : Complete(n)}
           B == {n \in Nodes : Working(n) \/ Attempted(n)}
<1>0. TypeOK /\ DbType /\ RunnerType /\ ExecType
  BY DEF OrderInv, TypeOK
<1>a. \A n \in Nodes : (Life!Waits(n) <=> Unmet(n))
  BY DEF Life!Waits, Life!Before, Unmet, Preds
<1>b. CASE UNCHANGED <<status, C, B, gate>>
  BY <1>b DEF Life!lifeVars
<1>c. CASE UNCHANGED <<status, C, gate>> /\ B' \subseteq B
  <2>1. B' = B \ (B \ B') /\ B \ B' \in SUBSET Nodes
    BY <1>c
  <2>2. Life!Leave(B \ B')
    BY <1>c, <2>1 DEF Life!Leave
  <2> QED
    BY <2>1, <2>2 DEF Life!LifeNext
<1>d. ASSUME UNCHANGED <<attempts, exec>> PROVE B' = B
  BY <1>d DEF Working, Attempted
<1>1. CASE CreateTask
  <2> DEFINE n == runner.node
             s == IF runner.unmet THEN "queued" ELSE "running"
  <2>1. n \in Nodes /\ status[n] = "absent"
    BY <1>0, <1>1 DEF CreateTask, RunnerType, OrderInv, RowsExist
  <2>2. s = "queued" \/ (s = "running" /\ ~Unmet(n))
    BY <1>1 DEF CreateTask, ReadsStillHold
  <2>3. C' = C
    BY <1>0, <1>1, <2>1 DEF CreateTask, DbType, Complete
  <2>4. B' = B
    BY <1>1, <1>d DEF CreateTask
  <2>5. status' = [status EXCEPT ![n] = s] /\ UNCHANGED gate
    BY <1>1 DEF CreateTask
  <2> HIDE DEF n, s
  <2>6. Life!Create(n)
    BY <1>a, <2>1, <2>2, <2>3, <2>4, <2>5 DEF Life!Create, Life!SetStatus
  <2> QED
    BY <2>1, <2>6 DEF Life!LifeNext
<1>2. CASE DispatchQueued
  <2>1. PICK n \in Nodes :
           /\ \/ UNCHANGED db
              \/ /\ status[n] = "queued" /\ status' = [status EXCEPT ![n] = "running"]
                 /\ attempts' = [attempts EXCEPT ![n] = Append(@, Started("loop-runner"))]
                 /\ lifecycle' = IF lifecycle[n] \in {"proposed", "queued"}
                                 THEN [lifecycle EXCEPT ![n] = "running"] ELSE lifecycle
                 /\ UNCHANGED gate
           /\ UNCHANGED exec
    BY <1>0, <1>2 DEF DispatchQueued, RunnerType
  <2>2. CASE UNCHANGED db
    BY <1>b, <2>1, <2>2 DEF db, Working, Attempted, Complete
  <2>3. CASE ~UNCHANGED db
    <3>1. C' = C
      BY <1>0, <2>1, <2>3 DEF DbType, Complete
    <3>2. \A m \in Nodes : Working(m)' <=> Working(m)
      BY <2>1 DEF Working
    <3>3. \A m \in Nodes : Attempted(m) => Attempted(m)'
      BY <1>0, AttemptedStays
    <3>4. ASSUME NEW m \in Nodes, Attempted(m)' PROVE Attempted(m)
      <4>1. PICK i \in DOMAIN attempts'[m] : attempts'[m][i].owner = "worker-dispatch"
        BY <3>4 DEF Attempted
      <4>2. CASE m = n
        <5>1. attempts[n] \in Seq(Attempt) /\ "loop-runner" \in Owners
          BY <1>0 DEF DbType, Owners
        <5>2. attempts'[n] = Append(attempts[n], Started("loop-runner"))
          BY <1>0, <2>1, <2>3 DEF DbType
        <5>3. i \in DOMAIN attempts[n] \/ i = Len(attempts[n]) + 1
          BY <4>1, <4>2, <5>1, <5>2, AppendedRow
        <5>4. i # Len(attempts[n]) + 1
          BY <4>1, <4>2, <5>1, <5>2, AppendedRow DEF Started
        <5> QED
          BY <4>1, <4>2, <5>1, <5>2, <5>3, <5>4, AppendedRow DEF Attempted
      <4>3. CASE m # n
        BY <1>0, <2>1, <2>3, <4>1, <4>3 DEF Attempted, DbType
      <4> QED
        BY <4>2, <4>3
    <3>5. B' = B
      BY <3>2, <3>3, <3>4
    <3>6. Life!Dispatch(n)
      BY <2>1, <2>3, <3>1, <3>5 DEF Life!Dispatch, Life!SetStatus
    <3> QED
      BY <3>6 DEF Life!LifeNext
  <2> QED
    BY <2>2, <2>3
<1>3. CASE EvaluateGate
  <2>1. C' = C /\ B' = B /\ gate' \in {"open", "satisfied"} /\ UNCHANGED status
    BY <1>3, <1>d DEF EvaluateGate, local, Complete
  <2>2. Life!Evaluate(gate')
    BY <2>1 DEF Life!Evaluate
  <2> QED
    BY <2>1, <2>2 DEF Life!LifeNext
<1>4. ASSUME NEW S \in SUBSET Nodes, Spawn(S) PROVE [Life!LifeNext]_(Life!lifeVars)
  <2>1. UNCHANGED <<status, attempts, lifecycle, gate>> /\ C' = C
    BY <1>4 DEF Spawn, db, Complete
  <2>2. B' = B \cup S
    BY <1>0, <1>4, <2>1, SpawnWork DEF Attempted
  <2>3. \A n \in S : status[n] = "running" /\ ~Life!Waits(n)
                     /\ gate \in {"satisfied", "overridden"}
    BY <1>4, <1>a DEF Spawn, Ready
  <2>4. CASE S = {}
    BY <1>b, <2>1, <2>2, <2>4
  <2>5. CASE S # {}
    <3>1. Life!Begin(S)
      BY <2>1, <2>2, <2>3, <2>5 DEF Life!Begin
    <3> QED
      BY <3>1 DEF Life!LifeNext
  <2> QED
    BY <2>4, <2>5
<1>5. ASSUME NEW e \in Executors, Executor(e) PROVE [Life!LifeNext]_(Life!lifeVars)
  <2> DEFINE n == NodeOf(e)
  <2>1. B' \in {B, B \ {n}}
    BY <1>5, ExecutorBegun
  <2>2. exec[e].pc \in WorkerPcs => n \in B
    BY <1>0, PlacedWorker DEF Working, NodeOf
  <2>3. ASSUME NEW s \in Life!Outcomes \cup {"running"}, exec[e].pc \in WorkerPcs,
               s = "failed" => n = Verify, status' = [status EXCEPT ![n] = s],
               C' \in IF s = "succeeded" THEN {C, C \cup {n}} ELSE {C}, UNCHANGED gate
        PROVE  Life!LifeNext
    <3>1. n \in B /\ n \in Nodes
      BY <2>2, <2>3
    <3>2. Life!Record(n, s)
      BY <2>1, <2>3, <3>1 DEF Life!Record, Life!SetStatus
    <3> QED
      BY <3>1, <3>2 DEF Life!LifeNext
  <2> HIDE DEF n
  <2>4. CASE UNCHANGED <<status, gate>> /\ C' = C
    BY <1>c, <2>1, <2>4
  <2>5. UNCHANGED lifecycle => C' = C
    BY DEF Complete
  <2>6. CASE UNCHANGED db
    BY <2>4, <2>5, <2>6 DEF db
  <2>7. CASE InsertAttempt(e)
    BY <2>4, <2>5, <2>7 DEF InsertAttempt, db
  <2>8. ASSUME NEW result \in Results, Finish(e, result) PROVE Life!LifeNext
    <3>1. C' \in IF result = "succeeded" THEN {C, C \cup {n}} ELSE {C}
      <4>1. CASE result = "succeeded" /\ lifecycle[n] = "running"
        <5>1. lifecycle' = [lifecycle EXCEPT ![n] = "completed"]
          BY <2>8, <4>1 DEF Finish, n
        <5>2. n \in Nodes
          BY <1>0, <2>8, PlacedWorker DEF Finish, At, WorkerPcs, n
        <5>3. C' = C \cup {n}
          BY <1>0, <5>1, <5>2 DEF DbType, Complete
        <5> QED
          BY <4>1, <5>3
      <4>2. CASE ~(result = "succeeded" /\ lifecycle[n] = "running")
        BY <2>5, <2>8, <4>2 DEF Finish, n
      <4> QED
        BY <4>1, <4>2
    <3>2. exec[e].pc \in WorkerPcs /\ status' = [status EXCEPT ![n] = result] /\ UNCHANGED gate
      BY <2>8 DEF Finish, At, WorkerPcs, n
    <3>3. result \in Life!Outcomes /\ result # "failed"
      BY DEF Results, Life!Outcomes
    <3> QED
      BY <2>3, <3>1, <3>2, <3>3
  <2>9. CASE Retry(e) /\ ~UNCHANGED db
    <3>1. status' = [status EXCEPT ![n] = "running"] /\ UNCHANGED <<lifecycle, gate>>
      BY <2>9 DEF Retry, n
    <3>2. exec[e].pc \in WorkerPcs
      BY <2>9 DEF Retry, At, WorkerPcs
    <3> QED
      BY <2>3, <2>5, <3>1, <3>2
  <2>10. CASE Exhaust(e)
    <3>1. /\ status' = [status EXCEPT ![n] = "failed_permanent"]
          /\ UNCHANGED <<lifecycle, gate>>
      BY <2>10 DEF Exhaust, n
    <3>2. exec[e].pc \in WorkerPcs /\ "failed_permanent" \in Life!Outcomes
      BY <2>10 DEF Exhaust, At, WorkerPcs, Life!Outcomes
    <3> QED
      BY <2>3, <2>5, <3>1, <3>2
  <2>11. ASSUME NEW result \in {"succeeded", "failed"}, FinishVerify(e, result)
         PROVE  Life!LifeNext
    <3>1. status' = [status EXCEPT ![n] = result] /\ UNCHANGED <<lifecycle, gate>>
      BY <2>11 DEF FinishVerify, n
    <3>2. exec[e].pc \in WorkerPcs /\ n = Verify
      BY <2>11 DEF FinishVerify, At, WorkerPcs, OrderInv, OnlyVerifyFails, NodeOf, n
    <3>3. result \in Life!Outcomes
      BY DEF Life!Outcomes
    <3> QED
      BY <2>3, <2>5, <3>1, <3>2, <3>3
  <2>12. CASE CompleteVerify(e)
    <3>1. n = Verify /\ n \in B /\ n \in Nodes
      BY <2>2, <2>12 DEF CompleteVerify, At, WorkerPcs, OrderInv, OnlyVerifyFails, NodeOf, n
    <3>2. C' = C \cup {n}
      BY <1>0, <2>12, <3>1 DEF CompleteVerify, DbType, Complete, n
    <3>3. UNCHANGED <<status, gate>>
      BY <2>12 DEF CompleteVerify
    <3>4. Life!Mark
      BY <2>1, <3>1, <3>2, <3>3 DEF Life!Mark
    <3> QED
      BY <3>4 DEF Life!LifeNext
  <2>13. CASE WakeTask(e)
    <3>1. PICK m \in exec[e].todo : /\ status' = [status EXCEPT ![m] = "running"]
                                    /\ UNCHANGED <<lifecycle, attempts, gate>>
      BY <2>13 DEF WakeTask
    <3>2. m \in Nodes /\ status[m] # "absent" /\ ~Life!Waits(m)
      BY <1>0, <1>a DEF ExecType, Activity, OrderInv, RowsExist, ReadsStillHold
    <3>3. B' = B
      <4>1. PICK x : /\ exec' = [exec EXCEPT ![e] = x]
                     /\ x.pc \in WorkerPcs => exec[e].pc \in WorkerPcs
        BY <1>0, <1>5, OneActivityMoves
      <4>2. exec[e].pc \notin WorkerPcs
        BY <2>13 DEF WakeTask, At, WorkerPcs
      <4>3. \A k \in Nodes : Working(k)' <=> Working(k)
        BY <1>0, <4>1, <4>2 DEF Working, ExecType
      <4> QED
        BY <3>1, <4>3 DEF Attempted
    <3>4. Life!Wake(m)
      BY <2>5, <3>1, <3>2, <3>3 DEF Life!Wake, Life!SetStatus
    <3> QED
      BY <3>2, <3>4 DEF Life!LifeNext
  <2>14. CASE RelabelNode(e)
    <3>1. C' = C /\ UNCHANGED <<status, gate>>
      BY <1>0, <2>14 DEF RelabelNode, DbType, Complete
    <3> QED
      BY <2>4, <3>1
  <2> QED
    BY <1>5, <2>6, <2>7, <2>8, <2>9, <2>10, <2>11, <2>12, <2>13, <2>14
       DEF Executor, Guard, AcquireWorkspace, NoWorkspace, ReadIndex, ReadBudget, Unblock
<1>e. ASSUME NEW m \in Nodes, ThenUnblock(m) \/ UNCHANGED exec,
             ApiComplete(m) \/ ApiCompleteAttempt(m)
      PROVE  B' = B
  <2>1. \A n \in Nodes : Working(n)' <=> Working(n)
    <3>1. CASE ThenUnblock(m)
      BY <1>0, <3>1, RequestWork
    <3>2. CASE UNCHANGED exec
      BY <3>2 DEF Working
    <3> QED
      BY <1>e, <3>1, <3>2
  <2>2. \A n \in Nodes : Attempted(n) => Attempted(n)'
    BY <1>0, AttemptedStays
  <2>3. ASSUME NEW n \in Nodes, n \in B' PROVE n \in B
    BY <2>1, <2>3, AttemptStep
  <2> QED
    BY <2>1, <2>2, <2>3
<1>6. ASSUME NEW n \in Nodes, ApiComplete(n) PROVE Life!LifeNext
  <2>1. B' = B
    BY <1>6, <1>e DEF ApiComplete
  <2>2. C' = C \cup {n}
    BY <1>0, <1>6 DEF ApiComplete, DbType, Complete
  <2>3. Life!Report(n)
    BY <1>6, <2>1, <2>2 DEF ApiComplete, Request, Life!Report, Life!SetStatus
  <2> QED
    BY <2>3 DEF Life!LifeNext
<1>7. ASSUME NEW n \in Nodes, ApiCompleteAttempt(n) PROVE [Life!LifeNext]_(Life!lifeVars)
  <2>1. B' = B
    BY <1>7, <1>e DEF ApiCompleteAttempt
  <2>2. CASE status[n] = "running"
    <3>1. /\ status' = [status EXCEPT ![n] = "succeeded"]
          /\ lifecycle' = [lifecycle EXCEPT ![n] = "done"] /\ UNCHANGED gate
      BY <1>7, <2>2 DEF ApiCompleteAttempt, Request
    <3>2. C' = C \cup {n}
      BY <1>0, <3>1 DEF DbType, Complete
    <3>3. Life!Report(n)
      BY <2>1, <2>2, <3>1, <3>2 DEF Life!Report, Life!SetStatus
    <3> QED
      BY <3>3 DEF Life!LifeNext
  <2>3. CASE status[n] # "running"
    <3>1. UNCHANGED <<status, lifecycle, gate>>
      BY <1>7, <2>3 DEF ApiCompleteAttempt, Request
    <3> QED
      BY <1>b, <2>1, <3>1 DEF Complete
  <2> QED
    BY <2>2, <2>3
<1>8. ASSUME NEW n \in Nodes, ApiPatch(n) PROVE Life!LifeNext
  <2>1. B' = B /\ UNCHANGED gate
    BY <1>8, <1>d DEF ApiPatch, Request
  <2>2. n # Verify => ~Complete(n)
    BY <1>8 DEF OrderInv, NotDoneBeforeStart, OnlyVerifyFails, ApiPatch
  <2>t. PICK t \in {<<"queued", "running">>, <<"failed", "queued">>} :
           /\ status[n] = t[1] /\ status' = [status EXCEPT ![n] = t[2]]
           /\ lifecycle' = [lifecycle EXCEPT ![n] = t[2]]
    BY <1>8 DEF ApiPatch
  <2>3. CASE t = <<"queued", "running">>
    <3>1. /\ status[n] = "queued" /\ status' = [status EXCEPT ![n] = "running"]
          /\ lifecycle' = [lifecycle EXCEPT ![n] = "running"]
      BY <2>t, <2>3
    <3>2. C' = C \ {n}
      BY <1>0, <3>1 DEF DbType, Complete
    <3>3. C' \in {C, C \ ({n} \cap {Verify})}
      BY <2>2, <3>2
    <3>4. Life!Dispatch(n)
      BY <2>1, <3>1, <3>3 DEF Life!Dispatch, Life!SetStatus
    <3> QED
      BY <3>4 DEF Life!LifeNext
  <2>4. CASE t = <<"failed", "queued">>
    <3>1. /\ status[n] = "failed" /\ status' = [status EXCEPT ![n] = "queued"]
          /\ lifecycle' = [lifecycle EXCEPT ![n] = "queued"]
      BY <2>t, <2>4
    <3>2. n = Verify
      BY <3>1 DEF OrderInv, OnlyVerifyFails
    <3>3. C' = C \ {Verify}
      BY <1>0, <3>1, <3>2 DEF DbType, Complete
    <3>4. Life!Requeue
      BY <2>1, <3>1, <3>2, <3>3 DEF Life!Requeue, Life!SetStatus
    <3> QED
      BY <3>4 DEF Life!LifeNext
  <2> QED
    BY <2>3, <2>4
<1>9. CASE Crash
  <2>1. UNCHANGED <<status, gate, attempts, lifecycle>>
    BY <1>9 DEF Crash, WorkerCrash, RunnerCrash, ActivityFails, Failure, db
  <2>2. \A f \in Executors : exec'[f] = exec[f] \/ exec'[f].pc \notin WorkerPcs
    BY <1>0, <1>9
       DEF Crash, WorkerCrash, RunnerCrash, ActivityFails, Exit, Free, WorkerPcs, ExecType
  <2>3. B' \subseteq B
    BY <1>0, <2>1, <2>2, EndedWork DEF Attempted
  <2> QED
    BY <1>c, <2>1, <2>3 DEF Complete
<1>10. CASE UNCHANGED <<db, exec>>
  BY <1>b, <1>10 DEF db, Working, Attempted, Complete
<1> QED
  BY <1>1, <1>2, <1>3, <1>4, <1>5, <1>6, <1>7, <1>8, <1>9, <1>10
     DEF Next, vars, local, Runner, Api, CheckDeps, SelectQueued, CountSlots,
         SpawnExecutors, Life!lifeVars

\* What the cycle engine assumes of tasks is what task execution does, for every
\* dependency graph and every number of executors.
THEOREM LifeImplemented == Spec => TaskLifeHolds
<1>1. Init => Life!LifeInit
  BY DEF Init, Life!LifeInit, Working, Attempted, Complete, Free, WorkerPcs
<1>2. OrderInv /\ ReadsStillHold /\ [Next]_vars => [Life!LifeNext]_(Life!lifeVars)
  BY TaskLifeStep
<1> QED
  BY <1>1, <1>2, ReadsInvariant, PTL DEF Spec, TaskLifeHolds, Life!LifeSpec

=============================================================================
