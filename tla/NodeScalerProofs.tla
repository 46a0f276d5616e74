-------------------------- MODULE NodeScalerProofs --------------------------
(***************************************************************************)
(* Theorems of NodeScaler, for every set of nodes and Jobs, every limit,   *)
(* every demand and every set of faults but those a theorem excludes:      *)
(*   - its variables have their types;                                     *)
(*   - the worker status is consistent with itself: the effective count    *)
(*     adds up, the legacy mirror is the first operation, and no pending   *)
(*     count claims more than there are operations;                        *)
(*   - the operations keep up with the Jobs they stand for: none is        *)
(*     dropped under a running Job, no running Job is lost, and none is    *)
(*     tracked twice;                                                      *)
(*   - a worker is paid for once: as long as every reconcile writes its    *)
(*     status, no Job fails or is collected, no node flaps and no          *)
(*     operation times out, the workers there are and those on their way   *)
(*     neither exceed nor fall below every target the demand ever had, and *)
(*     workers never join and leave at the same time.  Reads of Jobs may   *)
(*     fail, and creations of Jobs.                                        *)
(***************************************************************************)
EXTENDS NodeScaler, FiniteSetTheorems, FunctionTheorems, SequenceTheorems, TLAPS

-----------------------------------------------------------------------------
(* The planner's operators.                                                *)

LEMMA CountOpsType ==
  ASSUME NEW ops \in Seq(Op), NEW type
  PROVE  CountOps(ops, type) \in Nat
<1>1. DOMAIN ops = 1..Len(ops) /\ Len(ops) \in Nat
  OBVIOUS
<1>2. IsFiniteSet(DOMAIN ops)
  BY <1>1, FS_Interval
<1>3. IsFiniteSet({i \in DOMAIN ops : ops[i].type = type})
  BY <1>2, FS_Subset
<1>4. QED
  BY <1>3, FS_CardinalityType DEF CountOps

LEMMA EmptySeqType == <<>> \in Seq(Op)
OBVIOUS

LEMMA LegacyOfType ==
  ASSUME NEW ops \in Seq(Op)
  PROVE  LegacyOf(ops) \in Op \union {NoOp}
<1>1. CASE ops = <<>>
  BY <1>1 DEF LegacyOf
<1>2. CASE ops # <<>>
  <2>1. ops[1] \in Op
    BY <1>2
  <2>2. QED
    BY <1>2, <2>1 DEF LegacyOf
<1>3. QED
  BY <1>1, <1>2

LEMMA ActiveOperationsType ==
  ASSUME NEW s \in Status
  PROVE  ActiveOperations(s) \in Seq(Op)
<1>1. s.ops \in Seq(Op) /\ s.legacy \in Op \union {NoOp}
  BY DEF Status
<1>2. CASE s.legacy # NoOp
  <2>1. <<s.legacy>> \in Seq(Op)
    BY <1>1, <1>2
  <2>2. QED
    BY <1>1, <2>1, EmptySeqType DEF ActiveOperations
<1>3. CASE s.legacy = NoOp
  BY <1>1, <1>3, EmptySeqType DEF ActiveOperations
<1>4. QED
  BY <1>2, <1>3

LEMMA ReadyCountType ==
  Cardinality(ReadyNodes) \in Nat
<1>1. IsFiniteSet(Nodes)
  BY NodesAssumption, FS_Union DEF Nodes
<1>2. IsFiniteSet(ReadyNodes)
  BY <1>1, FS_Subset DEF ReadyNodes
<1>3. QED
  BY <1>2, FS_CardinalityType

LEMMA InFlightType ==
  ASSUME NEW current \in Status, NEW observed \in Nat
  PROVE  /\ InFlight(current, observed).create \in Nat
         /\ InFlight(current, observed).delete \in Nat
<1> DEFINE creates == CountOps(ActiveOperations(current), "create")
           deletes == CountOps(ActiveOperations(current), "delete")
<1>1. creates \in Nat /\ deletes \in Nat
  BY ActiveOperationsType, CountOpsType
<1>2. current.observed \in Nat
  BY DEF Status
<1> HIDE DEF creates, deletes
<1>3. /\ Completed(current, observed).create \in 0..creates
      /\ Completed(current, observed).delete \in 0..deletes
  BY <1>1, <1>2 DEF Completed, minInt32, creates, deletes
<1>4. QED
  BY <1>1, <1>3 DEF InFlight, creates, deletes

LEMMA LimitType ==
  ASSUME NEW n \in Int
  PROVE  Limit(n) \in Nat \ {0}
BY DEF Limit

LEMMA BatchSizeType == BatchSize \in Nat \ {0}
BY LimitsAssumption, LimitType DEF BatchSize, maxInt32

LEMMA WorkersType ==
  ASSUME NEW current \in Status, NEW observed \in Nat, NEW goal \in Nat,
         NEW unschedulable \in Nat
  PROVE  /\ WorkersToCreate(current, observed, goal) \in Nat
         /\ WorkersToDelete(current, observed, goal, unschedulable) \in Nat
<1>1. /\ InFlight(current, observed).create \in Nat
      /\ InFlight(current, observed).delete \in Nat
  BY InFlightType
<1>2. /\ Limit(MaxConcurrentCreateOps) \in Nat \ {0}
      /\ Limit(MaxConcurrentDeleteOps) \in Nat \ {0}
  BY LimitType, LimitsAssumption
<1>3. QED
  BY <1>1, <1>2, BatchSizeType DEF WorkersToCreate, WorkersToDelete, minInt32, maxInt32

LEMMA EnsureWorkersType ==
  ASSUME NEW current \in Status, NEW observed \in Nat,
         NEW creates \in Nat, NEW deletes \in Nat
  PROVE  EnsureWorkers(current, observed, creates, deletes) \in Status
<1> DEFINE pendingCreate == InFlight(current, observed).create + creates
           pendingDelete == InFlight(current, observed).delete + deletes
           ops == ActiveOperations(current)
<1>1. EnsureWorkers(current, observed, creates, deletes) =
        [observed |-> observed, pendingCreate |-> pendingCreate,
         pendingDelete |-> pendingDelete,
         effective |-> observed + pendingCreate - pendingDelete,
         ops |-> ops, legacy |-> LegacyOf(ops)]
  BY DEF EnsureWorkers
<1>2. pendingCreate \in Nat /\ pendingDelete \in Nat
  BY InFlightType
<1>3. ops \in Seq(Op) /\ LegacyOf(ops) \in Op \union {NoOp}
  BY ActiveOperationsType, LegacyOfType
<1> HIDE DEF pendingCreate, pendingDelete, ops
<1>4. QED
  BY <1>1, <1>2, <1>3 DEF Status

LEMMA RollbackType ==
  ASSUME NEW s \in Status, NEW type, NEW count \in Nat
  PROVE  Rollback(s, type, count) \in Status
<1> DEFINE pendingCreate == IF type = "create"
             THEN s.pendingCreate - minInt32(s.pendingCreate, count)
             ELSE s.pendingCreate
           pendingDelete == IF type = "delete"
             THEN s.pendingDelete - minInt32(s.pendingDelete, count)
             ELSE s.pendingDelete
           rolled == [s EXCEPT !.pendingCreate = pendingCreate,
                               !.pendingDelete = pendingDelete]
<1>1. Rollback(s, type, count) = [rolled EXCEPT !.effective = Effective(rolled)]
  BY DEF Rollback
<1>2. pendingCreate \in Nat /\ pendingDelete \in Nat
  BY DEF Status, minInt32
<1> HIDE DEF pendingCreate, pendingDelete
<1>3. rolled \in Status
  BY <1>2 DEF Status
<1> HIDE DEF rolled
<1>4. Effective(rolled) \in Int
  BY <1>3 DEF Status, Effective
<1>5. QED
  BY <1>1, <1>3, <1>4 DEF Status

LEMMA WithOpsType ==
  ASSUME NEW s \in Status, NEW ops \in Seq(Op)
  PROVE  WithOps(s, ops) \in Status
BY LegacyOfType DEF WithOps, Status

LEMMA MergePatchType ==
  ASSUME NEW stored \in Status, NEW from \in Status, NEW to \in Status
  PROVE  MergePatch(stored, from, to) \in Status
<1>1. MergeMirror(stored.legacy, from.legacy, to.legacy) \in Op \union {NoOp}
  <2>1. {stored.legacy, from.legacy, to.legacy} \subseteq Op \union {NoOp}
    BY DEF Status
  <2>2. CASE NoOp \in {stored.legacy, from.legacy, to.legacy}
    BY <2>1, <2>2 DEF MergeMirror, MergeField
  <2>3. CASE NoOp \notin {stored.legacy, from.legacy, to.legacy}
    BY <2>1, <2>3 DEF MergeMirror, MergeField, Op
  <2>4. QED
    BY <2>2, <2>3
<1>2. QED
  BY <1>1 DEF MergePatch, MergeField, Status

LEMMA EmptyStatusType == EmptyStatus \in Status
BY EmptySeqType DEF EmptyStatus, Status

-----------------------------------------------------------------------------
(* Type correctness.  It needs to know where in the loops a reconcile is:  *)
(* an operation is left to examine, or a Job left to start.                *)

ControlOK ==
  /\ pc = "examine" => todo # <<>> /\ started = 0
  /\ pc = "start" => started < Wanted

TypeInv == TypeOK /\ ControlOK

LEMMA HeadTailType ==
  ASSUME NEW ops \in Seq(Op), ops # <<>>
  PROVE  Head(ops) \in Op /\ Tail(ops) \in Seq(Op)
OBVIOUS

LEMMA AdvancedType ==
  ASSUME NEW op \in Op
  PROVE  Advanced(op) \in Op
BY DEF Advanced, Op, Phases

\* Returning from a reconcile resets its local state to a well-typed one.
LEMMA ReturnType ==
  ASSUME Return
  PROVE  /\ pc' = "idle" /\ base' \in Status /\ plan' \in Status /\ listed' \subseteq Nodes
         /\ todo' \in Seq(Op) /\ kept' \in Seq(Op)
         /\ createBudget' \in Nat /\ deleteBudget' \in Nat
         /\ toCreate' \in Nat /\ toDelete' \in Nat /\ started' \in Nat
BY EmptyStatusType, EmptySeqType DEF Return

LEMMA TypeInit == Init => TypeInv
<1> SUFFICES ASSUME Init PROVE TypeInv
  OBVIOUS
<1>1. nodes \in [Nodes -> NodeStates]
  BY DEF Init, NodeStates
<1>2. jobs \in [JobIds -> [type : OpTypes, node : Nodes, state : JobStates]]
  BY DEF Init, OpTypes, JobStates, Nodes
<1>3. 0 \in 0..MaxRetargets
  BY LimitsAssumption
<1>4. TypeOK
  <2>1. target \in Targets /\ retargets \in 0..MaxRetargets /\ expired \subseteq JobIds
    BY <1>3 DEF Init
  <2>2. /\ status \in Status /\ cached \in Status /\ base \in Status /\ plan \in Status
    BY EmptyStatusType DEF Init
  <2>3. /\ unseen \subseteq JobIds /\ dirty \in BOOLEAN /\ listed \subseteq Nodes
        /\ pc \in {"idle", "examine", "start", "patch"}
    BY DEF Init
  <2>4. /\ todo \in Seq(Op) /\ kept \in Seq(Op)
        /\ createBudget \in Nat /\ deleteBudget \in Nat
        /\ toCreate \in Nat /\ toDelete \in Nat /\ started \in Nat
    BY EmptySeqType DEF Init
  <2>5. QED
    BY <1>1, <1>2, <2>1, <2>2, <2>3, <2>4 DEF TypeOK
<1>5. ControlOK
  BY DEF Init, ControlOK
<1>6. QED
  BY <1>4, <1>5 DEF TypeInv

LEMMA TypePlan == TypeInv /\ Plan => TypeInv'
<1> SUFFICES ASSUME TypeInv, Plan PROVE TypeInv'
  OBVIOUS
<1>1. PICK unschedulable \in UnschedulableCounts : PlanSeeing(unschedulable)
  BY DEF Plan
<1> DEFINE observed == Cardinality(ReadyNodes)
           ops == ActiveOperations(cached)
           creates == WorkersToCreate(cached, observed, target)
           deletes == WorkersToDelete(cached, observed, target, unschedulable)
<1>2. cached \in Status /\ observed \in Nat /\ target \in Nat /\ unschedulable \in Nat
  BY ReadyCountType, DemandAssumption DEF TypeInv, TypeOK
<1>3. ops \in Seq(Op) /\ creates \in Nat /\ deletes \in Nat
  BY <1>2, ActiveOperationsType, WorkersType
<1>4. EnsureWorkers(cached, observed, creates, deletes) \in Status
  BY <1>2, <1>3, EnsureWorkersType
<1>5. cached.observed \in Nat
  BY <1>2 DEF Status
<1>6. ReadyNodes \subseteq Nodes
  BY DEF ReadyNodes
<1>7. /\ base' = cached /\ plan' = EnsureWorkers(cached, observed, creates, deletes)
      /\ listed' = ReadyNodes /\ todo' = ops /\ kept' = <<>>
      /\ createBudget' = maxInt32(observed - cached.observed, 0)
      /\ deleteBudget' = maxInt32(cached.observed - observed, 0)
      /\ toCreate' = creates /\ toDelete' = deletes /\ started' = 0
      /\ pc' = IF ops # <<>> THEN "examine"
               ELSE IF creates + deletes > 0 THEN "start" ELSE "patch"
  BY <1>1 DEF PlanSeeing
<1> HIDE DEF observed, ops, creates, deletes
<1>8. createBudget' \in Nat /\ deleteBudget' \in Nat
  BY <1>2, <1>5, <1>7 DEF maxInt32
<1>9. TypeOK'
  BY <1>2, <1>3, <1>4, <1>6, <1>7, <1>8, EmptySeqType DEF Plan, TypeInv, TypeOK, clusterVars
<1>10. ControlOK'
  BY <1>3, <1>7 DEF ControlOK, Wanted
<1>11. QED
  BY <1>9, <1>10 DEF TypeInv

\* One round of the examination loop, whatever it does with the operation.
LEMMA TypeExamined ==
  ASSUME TypeInv, NEW s \in Status, NEW remaining \in Seq(Op), pc = "examine",
         Examined(s, remaining), createBudget' \in Nat, deleteBudget' \in Nat
  PROVE  TypeInv'
<1>1. todo # <<>> /\ started = 0 /\ todo \in Seq(Op)
  BY DEF TypeInv, TypeOK, ControlOK
<1>2. todo' \in Seq(Op) /\ kept' \in Seq(Op)
  BY <1>1, HeadTailType DEF Examined
<1>3. plan' \in Status /\ pc' \in {"idle", "examine", "start", "patch"}
  BY WithOpsType DEF Examined
<1>4. TypeOK'
  BY <1>2, <1>3 DEF Examined, TypeInv, TypeOK, clusterVars, apiVars
<1>5. ControlOK'
  <2>1. started' = 0 /\ Wanted' = Wanted /\ Wanted \in Nat
    BY <1>1 DEF Examined, Wanted, TypeInv, TypeOK
  <2>2. QED
    BY <2>1 DEF Examined, ControlOK
<1>6. QED
  BY <1>4, <1>5 DEF TypeInv

\* What the examination loop reads is well typed.
LEMMA ExamineReads ==
  ASSUME TypeInv, pc = "examine"
  PROVE  /\ Head(todo) \in Op /\ Advanced(Head(todo)) \in Op
         /\ plan \in Status /\ kept \in Seq(Op)
         /\ Rollback(plan, Head(todo).type, 1) \in Status
         /\ Append(kept, Advanced(Head(todo))) \in Seq(Op)
<1>1. todo # <<>> /\ todo \in Seq(Op) /\ plan \in Status /\ kept \in Seq(Op)
  BY DEF TypeInv, TypeOK, ControlOK
<1>2. Head(todo) \in Op /\ Advanced(Head(todo)) \in Op
  BY <1>1, HeadTailType, AdvancedType
<1>3. Rollback(plan, Head(todo).type, 1) \in Status
  BY <1>1, RollbackType
<1>4. Append(kept, Advanced(Head(todo))) \in Seq(Op)
  BY <1>1, <1>2
<1>5. QED
  BY <1>1, <1>2, <1>3, <1>4

LEMMA TypeExamineLost == TypeInv /\ ExamineLost => TypeInv'
<1> SUFFICES ASSUME TypeInv, ExamineLost PROVE TypeInv'
  OBVIOUS
<1>1. createBudget' \in Nat /\ deleteBudget' \in Nat
  BY DEF ExamineLost, TypeInv, TypeOK
<1>2. pc = "examine" /\ Examined(Rollback(plan, Head(todo).type, 1), kept)
  BY DEF ExamineLost
<1>3. QED
  BY <1>1, <1>2, ExamineReads, TypeExamined

LEMMA TypeExamineObserved == TypeInv /\ ExamineObserved => TypeInv'
<1> SUFFICES ASSUME TypeInv, ExamineObserved PROVE TypeInv'
  OBVIOUS
<1> DEFINE op == Head(todo)
<1>1. pc = "examine" /\ Examined(plan, kept) /\ Observable(Advanced(op))
  BY DEF ExamineObserved
<1>2. Advanced(op).type = op.type /\ op.type \in OpTypes
  BY <1>1, ExamineReads DEF Advanced, Op
<1>3. createBudget \in Nat /\ deleteBudget \in Nat
  BY DEF TypeInv, TypeOK
<1>4. /\ createBudget' = IF op.type = "create" THEN createBudget - 1 ELSE createBudget
      /\ deleteBudget' = IF op.type = "delete" THEN deleteBudget - 1 ELSE deleteBudget
  BY DEF ExamineObserved
<1>5. IF op.type = "create" THEN createBudget > 0 ELSE deleteBudget > 0
  BY <1>1, <1>2 DEF Observable, Budget
<1> HIDE DEF op
<1>6. createBudget' \in Nat /\ deleteBudget' \in Nat
  BY <1>2, <1>3, <1>4, <1>5 DEF OpTypes
<1>7. QED
  BY <1>1, <1>6, ExamineReads, TypeExamined

LEMMA TypeExamineTimedOut == TypeInv /\ ExamineTimedOut => TypeInv'
<1> SUFFICES ASSUME TypeInv, ExamineTimedOut PROVE TypeInv'
  OBVIOUS
<1>1. createBudget' \in Nat /\ deleteBudget' \in Nat
  BY DEF ExamineTimedOut, TypeInv, TypeOK
<1>2. pc = "examine" /\ Examined(Rollback(plan, Head(todo).type, 1), kept)
  BY DEF ExamineTimedOut
<1>3. QED
  BY <1>1, <1>2, ExamineReads, TypeExamined

LEMMA TypeExamineKept == TypeInv /\ ExamineKept => TypeInv'
<1> SUFFICES ASSUME TypeInv, ExamineKept PROVE TypeInv'
  OBVIOUS
<1>1. createBudget' \in Nat /\ deleteBudget' \in Nat
  BY DEF ExamineKept, TypeInv, TypeOK
<1>2. pc = "examine" /\ Examined(plan, Append(kept, Advanced(Head(todo))))
  BY DEF ExamineKept
<1>3. QED
  BY <1>1, <1>2, ExamineReads, TypeExamined

LEMMA KindType == Kind \in OpTypes
BY DEF Kind, OpTypes

LEMMA TypeStartSkipped == TypeInv /\ StartSkipped => TypeInv'
<1> SUFFICES ASSUME TypeInv, StartSkipped PROVE TypeInv'
  OBVIOUS
<1>1. plan' \in Status
  BY RollbackType DEF StartSkipped, TypeInv, TypeOK
<1>2. /\ started' = started + 1 /\ toCreate' = toCreate /\ toDelete' = toDelete
      /\ pc' = IF started + 1 < Wanted THEN "start" ELSE "patch"
  BY DEF StartSkipped
<1>3. TypeOK'
  BY <1>1, <1>2 DEF StartSkipped, TypeInv, TypeOK, clusterVars, apiVars
<1>4. ControlOK'
  BY <1>2 DEF ControlOK, Wanted
<1>5. QED
  BY <1>3, <1>4 DEF TypeInv

\* The operation of a Job that is created, and the cluster afterwards.
LEMMA CreateJobType ==
  ASSUME TypeInv, NEW j \in JobIds, NEW n \in Nodes, CreateJob(j, n)
  PROVE  /\ [type |-> Kind, node |-> n, job |-> j, phase |-> "Running"] \in Op
         /\ jobs' \in [JobIds -> [type : OpTypes, node : Nodes, state : JobStates]]
<1>1. [type |-> Kind, node |-> n, job |-> j, phase |-> "Running"] \in Op
  BY KindType DEF Op, Phases
<1>2. [type |-> Kind, node |-> n, state |-> "running"]
        \in [type : OpTypes, node : Nodes, state : JobStates]
  BY KindType DEF JobStates
<1>3. /\ jobs \in [JobIds -> [type : OpTypes, node : Nodes, state : JobStates]]
      /\ jobs' = [jobs EXCEPT ![j] = [type |-> Kind, node |-> n, state |-> "running"]]
  BY DEF CreateJob, TypeInv, TypeOK
<1>4. QED
  BY <1>1, <1>2, <1>3

LEMMA TypeStartJob ==
  ASSUME TypeInv, NEW j \in JobIds, NEW n \in Nodes, StartJob(j, n)
  PROVE  TypeInv'
<1> DEFINE op == [type |-> Kind, node |-> n, job |-> j, phase |-> "Running"]
<1>1. /\ CreateJob(j, n)
      /\ plan' = WithOps(plan, Append(plan.ops, op))
  BY DEF StartJob
<1>2. /\ op \in Op
      /\ jobs' \in [JobIds -> [type : OpTypes, node : Nodes, state : JobStates]]
  BY <1>1, CreateJobType
<1> HIDE DEF op
<1>3. plan \in Status /\ plan.ops \in Seq(Op)
  BY DEF TypeInv, TypeOK, Status
<1>4. plan' \in Status
  <2>1. Append(plan.ops, op) \in Seq(Op)
    BY <1>2, <1>3
  <2>2. QED
    BY <1>1, <1>3, <2>1, WithOpsType
<1>5. /\ started' = started + 1 /\ toCreate' = toCreate /\ toDelete' = toDelete
      /\ pc' = IF started + 1 < Wanted THEN "start" ELSE "patch"
      /\ unseen' = IF "stale" \in Faults THEN unseen \union {j} ELSE unseen
  BY DEF StartJob
<1>6. UNCHANGED <<nodes, target, retargets, expired>>
  BY <1>1 DEF CreateJob
<1>7. TypeOK'
  BY <1>2, <1>4, <1>5, <1>6 DEF StartJob, TypeInv, TypeOK
<1>8. ControlOK'
  BY <1>5 DEF ControlOK, Wanted
<1>9. QED
  BY <1>7, <1>8 DEF TypeInv

\* A failed Job creation leaves the reconcile well typed.
LEMMA StartErrorType ==
  ASSUME TypeInv, pc = "start", StartError
  PROVE  /\ pc' \in {"idle", "patch"}
         /\ base' \in Status /\ plan' \in Status /\ listed' \subseteq Nodes
         /\ todo' \in Seq(Op) /\ kept' \in Seq(Op)
         /\ createBudget' \in Nat /\ deleteBudget' \in Nat
         /\ toCreate' \in Nat /\ toDelete' \in Nat /\ started' \in Nat
<1>1. CASE started = 0
  BY <1>1, ReturnType DEF StartError
<1>2. CASE started # 0
  <2>1. plan \in Status /\ Wanted - started \in Nat
    BY DEF TypeInv, TypeOK, ControlOK, Wanted
  <2>2. Rollback(plan, Kind, Wanted - started) \in Status
    BY <2>1, RollbackType
  <2>3. /\ plan' = Rollback(plan, Kind, Wanted - started) /\ pc' = "patch"
        /\ UNCHANGED <<base, listed, todo, kept, createBudget, deleteBudget,
                       toCreate, toDelete, started>>
    BY <1>2 DEF StartError
  <2>4. QED
    BY <2>2, <2>3 DEF TypeInv, TypeOK
<1>3. QED
  BY <1>1, <1>2

LEMMA TypeStartRejected == TypeInv /\ StartRejected => TypeInv'
<1> SUFFICES ASSUME TypeInv, StartRejected PROVE TypeInv'
  OBVIOUS
<1>1. pc = "start" /\ StartError /\ UNCHANGED <<clusterVars, apiVars>>
  BY DEF StartRejected
<1>2. TypeOK'
  BY <1>1, StartErrorType DEF TypeInv, TypeOK, clusterVars, apiVars
<1>3. ControlOK'
  BY <1>1, StartErrorType DEF ControlOK
<1>4. QED
  BY <1>2, <1>3 DEF TypeInv

LEMMA TypeStartLostReply ==
  ASSUME TypeInv, NEW j \in JobIds, NEW n \in Nodes, StartLostReply(j, n)
  PROVE  TypeInv'
<1>1. pc = "start" /\ CreateJob(j, n) /\ StartError /\ UNCHANGED apiVars
  BY DEF StartLostReply, CreateJob
<1>2. jobs' \in [JobIds -> [type : OpTypes, node : Nodes, state : JobStates]]
  BY <1>1, CreateJobType
<1>3. UNCHANGED <<nodes, target, retargets, expired>>
  BY <1>1 DEF CreateJob
<1>4. TypeOK'
  BY <1>1, <1>2, <1>3, StartErrorType DEF TypeInv, TypeOK, apiVars
<1>5. ControlOK'
  BY <1>1, StartErrorType DEF ControlOK
<1>6. QED
  BY <1>4, <1>5 DEF TypeInv

LEMMA TypePatch == TypeInv /\ Patch => TypeInv'
<1> SUFFICES ASSUME TypeInv, Patch PROVE TypeInv'
  OBVIOUS
<1>1. Return /\ UNCHANGED <<clusterVars, unseen, dirty>>
  BY DEF Patch
<1>2. status' \in Status
  BY MergePatchType DEF Patch, TypeInv, TypeOK
<1>3. cached' \in Status
  BY <1>2 DEF Patch, TypeInv, TypeOK
<1>4. TypeOK'
  BY <1>1, <1>2, <1>3, ReturnType DEF TypeInv, TypeOK, clusterVars
<1>5. ControlOK'
  BY <1>1, ReturnType DEF ControlOK
<1>6. QED
  BY <1>4, <1>5 DEF TypeInv

LEMMA TypeAbandon == TypeInv /\ Abandon => TypeInv'
<1> SUFFICES ASSUME TypeInv, Abandon PROVE TypeInv'
  OBVIOUS
<1>1. Return /\ UNCHANGED <<clusterVars, apiVars>>
  BY DEF Abandon
<1>2. TypeOK'
  BY <1>1, ReturnType DEF TypeInv, TypeOK, clusterVars, apiVars
<1>3. ControlOK'
  BY <1>1, ReturnType DEF ControlOK
<1>4. QED
  BY <1>2, <1>3 DEF TypeInv

\* The environment never touches the reconcile.
LEMMA TypeJobStep ==
  ASSUME TypeInv, NEW j \in JobIds, JobStep(j)
  PROVE  TypeInv'
<1>1. \/ /\ jobs' = [jobs EXCEPT ![j].state = "complete"] /\ nodes' = nodes
      \/ /\ jobs' = jobs
         /\ \E n \in Nodes, state \in NodeStates : nodes' = [nodes EXCEPT ![n] = state]
  <2>1. CASE NodeJoins(j)
    BY <2>1 DEF NodeJoins, NodeStates, Nodes
  <2>2. CASE NodeRemoved(j)
    <3>1. jobs[j].node \in Nodes
      BY DEF TypeInv, TypeOK
    <3>2. QED
      BY <2>2, <3>1 DEF NodeRemoved, NodeStates
  <2>3. CASE JobCompletes(j)
    BY <2>3 DEF JobCompletes, JobEnds
  <2>4. QED
    BY <2>1, <2>2, <2>3 DEF JobStep
<1>2. nodes' \in [Nodes -> NodeStates]
  BY <1>1 DEF TypeInv, TypeOK
<1>3. jobs' \in [JobIds -> [type : OpTypes, node : Nodes, state : JobStates]]
  BY <1>1 DEF TypeInv, TypeOK, JobStates
<1>4. UNCHANGED <<target, retargets, expired, apiVars, reconcileVars>>
  BY DEF JobStep, NodeJoins, NodeRemoved, JobCompletes, JobEnds
<1>5. TypeOK'
  BY <1>2, <1>3, <1>4 DEF TypeInv, TypeOK, apiVars, reconcileVars
<1>6. ControlOK'
  BY <1>4 DEF TypeInv, ControlOK, Wanted, reconcileVars
<1>7. QED
  BY <1>5, <1>6 DEF TypeInv

LEMMA TypeJobEnds ==
  ASSUME TypeInv, NEW j \in JobIds, NEW state \in JobStates, JobEnds(j, state)
  PROVE  TypeInv'
<1>1. jobs' \in [JobIds -> [type : OpTypes, node : Nodes, state : JobStates]]
  BY DEF JobEnds, TypeInv, TypeOK
<1>2. TypeOK'
  BY <1>1 DEF JobEnds, TypeInv, TypeOK, apiVars, reconcileVars
<1>3. ControlOK'
  BY DEF JobEnds, TypeInv, ControlOK, Wanted, reconcileVars
<1>4. QED
  BY <1>2, <1>3 DEF TypeInv

LEMMA TypeEnvironment == TypeInv /\ Environment => TypeInv'
<1> SUFFICES ASSUME TypeInv, Environment PROVE TypeInv'
  OBVIOUS
<1>1. ASSUME NEW j \in JobIds, JobStep(j) PROVE TypeInv'
  BY <1>1, TypeJobStep
<1>2. ASSUME NEW j \in JobIds, JobFails(j) PROVE TypeInv'
  BY <1>2, TypeJobEnds DEF JobFails, JobStates
<1>3. ASSUME NEW j \in JobIds, JobReaped(j) PROVE TypeInv'
  BY <1>3, TypeJobEnds DEF JobReaped, JobStates
<1>4. ASSUME NEW j \in JobIds, Expires(j) PROVE TypeInv'
  <2>1. TypeOK'
    BY <1>4 DEF Expires, TypeInv, TypeOK, apiVars, reconcileVars
  <2>2. ControlOK'
    BY <1>4 DEF Expires, TypeInv, ControlOK, Wanted, reconcileVars
  <2>3. QED
    BY <2>1, <2>2 DEF TypeInv
<1>5. ASSUME NEW n \in Nodes, NodeFlaps(n) PROVE TypeInv'
  <2>1. nodes' \in [Nodes -> NodeStates]
    BY <1>5 DEF NodeFlaps, TypeInv, TypeOK, NodeStates
  <2>2. TypeOK'
    BY <1>5, <2>1 DEF NodeFlaps, TypeInv, TypeOK, apiVars, reconcileVars
  <2>3. ControlOK'
    BY <1>5 DEF NodeFlaps, TypeInv, ControlOK, Wanted, reconcileVars
  <2>4. QED
    BY <2>2, <2>3 DEF TypeInv
<1>6. CASE Retarget
  <2>1. target' \in Targets /\ retargets' \in 0..MaxRetargets /\ dirty' \in BOOLEAN
    BY <1>6, LimitsAssumption DEF Retarget, TypeInv, TypeOK
  <2>2. TypeOK'
    BY <1>6, <2>1 DEF Retarget, TypeInv, TypeOK, reconcileVars
  <2>3. ControlOK'
    BY <1>6 DEF Retarget, TypeInv, ControlOK, Wanted, reconcileVars
  <2>4. QED
    BY <2>2, <2>3 DEF TypeInv
<1>7. CASE InformerSyncs
  <2>1. TypeOK'
    BY <1>7 DEF InformerSyncs, TypeInv, TypeOK, clusterVars, reconcileVars
  <2>2. ControlOK'
    BY <1>7 DEF InformerSyncs, TypeInv, ControlOK, Wanted, reconcileVars
  <2>3. QED
    BY <2>1, <2>2 DEF TypeInv
<1>8. QED
  BY <1>1, <1>2, <1>3, <1>4, <1>5, <1>6, <1>7 DEF Environment

LEMMA TypeNext == TypeInv /\ [Next]_vars => TypeInv'
<1> SUFFICES ASSUME TypeInv, [Next]_vars PROVE TypeInv'
  OBVIOUS
<1>1. CASE Reconcile
  BY <1>1, TypePlan, TypeExamineLost, TypeExamineObserved, TypeExamineTimedOut,
     TypeExamineKept, TypeStartSkipped, TypeStartJob, TypeStartRejected, TypePatch
  DEF Reconcile
<1>2. ASSUME NEW j \in JobIds, NEW n \in Nodes, StartLostReply(j, n) PROVE TypeInv'
  BY <1>2, TypeStartLostReply
<1>3. CASE Abandon
  BY <1>3, TypeAbandon
<1>4. CASE Environment
  BY <1>4, TypeEnvironment
<1>5. CASE UNCHANGED vars
  <2>1. TypeOK'
    BY <1>5 DEF vars, clusterVars, apiVars, reconcileVars, TypeInv, TypeOK
  <2>2. ControlOK'
    BY <1>5 DEF vars, reconcileVars, TypeInv, ControlOK, Wanted
  <2>3. QED
    BY <2>1, <2>2 DEF TypeInv
<1>6. QED
  BY <1>1, <1>2, <1>3, <1>4, <1>5 DEF Next

\* Every state the node scaler reaches is well typed: whatever the Jobs, the
\* nodes and the faults do, no pending count and no budget becomes negative.
THEOREM TypeCorrect == Spec => []TypeOK
<1>1. TypeInv => TypeOK
  BY DEF TypeInv
<1>2. QED
  BY <1>1, TypeInit, TypeNext, PTL DEF Spec

-----------------------------------------------------------------------------
(* The status and the plan, each consistent with itself.                   *)

Consistent(s) == s.effective = Effective(s) /\ s.legacy = LegacyOf(s.ops)

LEMMA ConsistentOps ==
  ASSUME NEW s \in Status, Consistent(s)
  PROVE  ActiveOperations(s) = s.ops
<1>1. CASE s.ops = <<>>
  BY <1>1 DEF Consistent, LegacyOf, ActiveOperations
<1>2. CASE s.ops # <<>>
  BY <1>2 DEF ActiveOperations
<1>3. QED
  BY <1>1, <1>2

LEMMA EmptyStatusConsistent == Consistent(EmptyStatus) /\ EmptyStatus.ops = <<>>
BY DEF Consistent, EmptyStatus, Effective, LegacyOf

LEMMA EnsureWorkersConsistent ==
  ASSUME NEW current \in Status, NEW observed, NEW creates, NEW deletes
  PROVE  /\ Consistent(EnsureWorkers(current, observed, creates, deletes))
         /\ EnsureWorkers(current, observed, creates, deletes).ops = ActiveOperations(current)
BY DEF EnsureWorkers, Consistent, Effective

\* A rollback changes the pending counts and the effective count alone.
LEMMA RollbackKeeps ==
  ASSUME NEW s \in Status, NEW type, NEW count \in Nat
  PROVE  /\ Rollback(s, type, count).effective = Effective(Rollback(s, type, count))
         /\ Rollback(s, type, count).ops = s.ops
         /\ Rollback(s, type, count).legacy = s.legacy
         /\ Rollback(s, type, count).observed = s.observed
<1> DEFINE pendingCreate == IF type = "create"
             THEN s.pendingCreate - minInt32(s.pendingCreate, count)
             ELSE s.pendingCreate
           pendingDelete == IF type = "delete"
             THEN s.pendingDelete - minInt32(s.pendingDelete, count)
             ELSE s.pendingDelete
           rolled == [s EXCEPT !.pendingCreate = pendingCreate,
                               !.pendingDelete = pendingDelete]
           result == [rolled EXCEPT !.effective = Effective(rolled)]
<1>1. Rollback(s, type, count) = result
  BY DEF Rollback
<1> HIDE DEF pendingCreate, pendingDelete
<1>2. /\ DOMAIN rolled = DOMAIN s /\ rolled.ops = s.ops /\ rolled.legacy = s.legacy
      /\ rolled.observed = s.observed
      /\ DOMAIN s = {"observed", "pendingCreate", "pendingDelete", "effective",
                     "ops", "legacy"}
  BY DEF Status
<1> HIDE DEF rolled
<1>3. /\ result.effective = Effective(rolled) /\ result.ops = s.ops
      /\ result.legacy = s.legacy /\ result.observed = rolled.observed
      /\ result.pendingCreate = rolled.pendingCreate
      /\ result.pendingDelete = rolled.pendingDelete
  BY <1>2
<1>4. result.effective = Effective(result)
  BY <1>3 DEF Effective
<1>5. QED
  BY <1>1, <1>2, <1>3, <1>4

LEMMA RollbackConsistent ==
  ASSUME NEW s \in Status, NEW type, NEW count \in Nat, Consistent(s)
  PROVE  Consistent(Rollback(s, type, count)) /\ Rollback(s, type, count).ops = s.ops
BY RollbackKeeps DEF Consistent

LEMMA WithOpsConsistent ==
  ASSUME NEW s \in Status, NEW ops \in Seq(Op), Consistent(s)
  PROVE  Consistent(WithOps(s, ops)) /\ WithOps(s, ops).ops = ops
BY DEF WithOps, Consistent, Status, Effective

\* A patch against an up-to-date object writes the plan whole.
LEMMA MergePatchCurrent ==
  ASSUME NEW s \in Status, NEW to \in Status
  PROVE  MergePatch(s, s, to) = to
<1>1. MergeMirror(s.legacy, s.legacy, to.legacy) = to.legacy
  <2>1. {s.legacy, to.legacy} \subseteq Op \union {NoOp}
    BY DEF Status
  <2>2. CASE NoOp \in {s.legacy, to.legacy}
    BY <2>2 DEF MergeMirror, MergeField
  <2>3. CASE NoOp \notin {s.legacy, to.legacy}
    BY <2>1, <2>3 DEF MergeMirror, MergeField, Op
  <2>4. QED
    BY <2>2, <2>3
<1>2. QED
  BY <1>1 DEF MergePatch, MergeField, Status

-----------------------------------------------------------------------------
(* Without staleness the informer and the API server agree whenever a      *)
(* reconcile reads, and the object it patches is the one it read.          *)

ConsistentInv ==
  /\ cached = status /\ dirty = FALSE /\ unseen = {}
  /\ pc # "idle" => base = status
  /\ Consistent(status) /\ Consistent(plan)

LEMMA ConsistentInit == Init => ConsistentInv
BY EmptyStatusConsistent DEF Init, ConsistentInv

LEMMA ConsistentPlan == TypeInv /\ ConsistentInv /\ Plan => ConsistentInv'
<1> SUFFICES ASSUME TypeInv, ConsistentInv, Plan PROVE ConsistentInv'
  OBVIOUS
<1>1. PICK unschedulable \in UnschedulableCounts : PlanSeeing(unschedulable)
  BY DEF Plan
<1>2. Consistent(plan')
  BY <1>1, EnsureWorkersConsistent DEF PlanSeeing, TypeInv, TypeOK
<1>3. base' = cached
  BY <1>1 DEF PlanSeeing
<1>4. UNCHANGED <<status, cached, unseen>> /\ dirty' = FALSE
  BY DEF Plan
<1>5. QED
  BY <1>2, <1>3, <1>4 DEF ConsistentInv, Consistent

LEMMA ConsistentExamined ==
  ASSUME TypeInv, ConsistentInv, NEW s \in Status, NEW remaining \in Seq(Op),
         pc = "examine", Consistent(s), Examined(s, remaining)
  PROVE  ConsistentInv'
<1>1. Consistent(plan')
  BY WithOpsConsistent DEF Examined
<1>2. UNCHANGED <<status, cached, unseen, dirty, base>>
  BY DEF Examined, apiVars
<1>3. QED
  BY <1>1, <1>2 DEF ConsistentInv, Consistent

LEMMA ConsistentExamine ==
  TypeInv /\ ConsistentInv
  /\ (ExamineLost \/ ExamineObserved \/ ExamineTimedOut \/ ExamineKept) => ConsistentInv'
<1> SUFFICES ASSUME TypeInv, ConsistentInv,
                    ExamineLost \/ ExamineObserved \/ ExamineTimedOut \/ ExamineKept
             PROVE  ConsistentInv'
  OBVIOUS
<1>1. pc = "examine"
  BY DEF ExamineLost, ExamineObserved, ExamineTimedOut, ExamineKept
<1>2. Consistent(plan) /\ Consistent(Rollback(plan, Head(todo).type, 1))
  BY <1>1, ExamineReads, RollbackConsistent DEF ConsistentInv
<1>3. CASE ExamineLost
  BY <1>1, <1>2, <1>3, ExamineReads, ConsistentExamined DEF ExamineLost
<1>4. CASE ExamineObserved
  BY <1>1, <1>2, <1>4, ExamineReads, ConsistentExamined DEF ExamineObserved
<1>5. CASE ExamineTimedOut
  BY <1>1, <1>2, <1>5, ExamineReads, ConsistentExamined DEF ExamineTimedOut
<1>6. CASE ExamineKept
  BY <1>1, <1>2, <1>6, ExamineReads, ConsistentExamined DEF ExamineKept
<1>7. QED
  BY <1>3, <1>4, <1>5, <1>6

\* A step of the reconcile that leaves the status alone.
LEMMA ConsistentStep ==
  ASSUME ConsistentInv, Consistent(plan'), pc' # "idle" => pc # "idle" /\ base' = base,
         UNCHANGED <<status, cached, unseen, dirty>>
  PROVE  ConsistentInv'
BY DEF ConsistentInv, Consistent

LEMMA ConsistentReturn ==
  ASSUME Return
  PROVE  Consistent(plan') /\ pc' = "idle"
BY EmptyStatusConsistent DEF Return

LEMMA ConsistentStartSkipped == TypeInv /\ ConsistentInv /\ StartSkipped => ConsistentInv'
<1> SUFFICES ASSUME TypeInv, ConsistentInv, StartSkipped PROVE ConsistentInv'
  OBVIOUS
<1>1. Consistent(plan')
  BY RollbackConsistent DEF StartSkipped, ConsistentInv, TypeInv, TypeOK
<1>2. QED
  BY <1>1, ConsistentStep DEF StartSkipped, apiVars

LEMMA ConsistentStartJob ==
  ASSUME "stale" \notin Faults, TypeInv, ConsistentInv,
         NEW j \in JobIds, NEW n \in Nodes, StartJob(j, n)
  PROVE  ConsistentInv'
<1> DEFINE op == [type |-> Kind, node |-> n, job |-> j, phase |-> "Running"]
<1>1. CreateJob(j, n) /\ plan' = WithOps(plan, Append(plan.ops, op))
  BY DEF StartJob
<1>2. op \in Op
  BY <1>1, CreateJobType
<1> HIDE DEF op
<1>3. plan \in Status /\ plan.ops \in Seq(Op)
  BY DEF TypeInv, TypeOK, Status
<1>4. Append(plan.ops, op) \in Seq(Op)
  BY <1>2, <1>3
<1>5. Consistent(plan')
  BY <1>1, <1>3, <1>4, WithOpsConsistent DEF ConsistentInv
<1>6. pc = "start" /\ base' = base /\ UNCHANGED <<status, cached, unseen, dirty>>
  BY <1>1 DEF StartJob, CreateJob
<1>7. QED
  BY <1>5, <1>6, ConsistentStep

LEMMA ConsistentStartError ==
  ASSUME TypeInv, ConsistentInv, pc = "start", StartError,
         UNCHANGED <<status, cached, unseen, dirty>>
  PROVE  ConsistentInv'
<1>1. CASE started = 0
  BY <1>1, ConsistentReturn, ConsistentStep DEF StartError
<1>2. CASE started # 0
  <2>1. plan \in Status /\ Wanted - started \in Nat
    BY DEF TypeInv, TypeOK, ControlOK, Wanted
  <2>2. Consistent(plan') /\ base' = base
    BY <1>2, <2>1, RollbackConsistent DEF StartError, ConsistentInv
  <2>3. QED
    BY <2>2, ConsistentStep
<1>3. QED
  BY <1>1, <1>2

LEMMA ConsistentPatch == TypeInv /\ ConsistentInv /\ Patch => ConsistentInv' /\ status' = plan
<1> SUFFICES ASSUME TypeInv, ConsistentInv, Patch PROVE ConsistentInv' /\ status' = plan
  OBVIOUS
<1>1. pc = "patch" /\ base = status /\ dirty = FALSE
  BY DEF Patch, ConsistentInv
<1>2. status' = plan /\ cached' = plan
  BY <1>1, MergePatchCurrent DEF Patch, TypeInv, TypeOK
<1>3. Consistent(plan') /\ pc' = "idle" /\ UNCHANGED <<unseen, dirty>>
  BY ConsistentReturn DEF Patch
<1>4. QED
  BY <1>2, <1>3 DEF ConsistentInv, Consistent

LEMMA ConsistentEnvironment ==
  ASSUME "stale" \notin Faults, ConsistentInv, Environment
  PROVE  ConsistentInv'
<1>1. CASE UNCHANGED <<apiVars, reconcileVars>>
  BY <1>1 DEF ConsistentInv, apiVars, reconcileVars, Consistent
<1>2. ASSUME NEW j \in JobIds, JobStep(j) \/ JobFails(j) \/ JobReaped(j) \/ Expires(j)
      PROVE  UNCHANGED <<apiVars, reconcileVars>>
  BY <1>2 DEF JobStep, NodeJoins, NodeRemoved, JobCompletes, JobFails, JobReaped,
              JobEnds, Expires
<1>3. ASSUME NEW n \in Nodes, NodeFlaps(n) PROVE UNCHANGED <<apiVars, reconcileVars>>
  BY <1>3 DEF NodeFlaps
<1>4. CASE Retarget
  <2>1. dirty' = FALSE
    BY <1>4 DEF Retarget, ConsistentInv
  <2>2. QED
    BY <1>4, <2>1 DEF Retarget, ConsistentInv, reconcileVars, Consistent
<1>5. ~InformerSyncs
  BY DEF InformerSyncs, ConsistentInv
<1>6. QED
  BY <1>1, <1>2, <1>3, <1>4, <1>5 DEF Environment

LEMMA ConsistentNext ==
  ASSUME "stale" \notin Faults, TypeInv, ConsistentInv, [Next]_vars
  PROVE  ConsistentInv'
<1>1. CASE Reconcile
  BY <1>1, ConsistentPlan, ConsistentExamine, ConsistentStartSkipped, ConsistentStartJob,
     ConsistentStartError, ConsistentPatch
  DEF Reconcile, StartRejected, apiVars
<1>2. ASSUME NEW j \in JobIds, NEW n \in Nodes, StartLostReply(j, n) PROVE ConsistentInv'
  BY <1>2, ConsistentStartError DEF StartLostReply, CreateJob, apiVars
<1>3. CASE Abandon
  BY <1>3, ConsistentReturn, ConsistentStep DEF Abandon, apiVars
<1>4. CASE Environment
  BY <1>4, ConsistentEnvironment
<1>5. CASE UNCHANGED vars
  BY <1>5 DEF vars, apiVars, reconcileVars, ConsistentInv, Consistent
<1>6. QED
  BY <1>1, <1>2, <1>3, <1>4, <1>5 DEF Next

\* The pending, effective and observed counts of the stored status always add
\* up, through plans, rollbacks, skipped and partial starts, failed patches,
\* lost replies and crashes, unless a reconcile reads a stale informer.
THEOREM EffectiveCorrect ==
  ASSUME "stale" \notin Faults
  PROVE  Spec => []EffectiveAddsUp
<1>1. Init => TypeInv /\ ConsistentInv
  BY TypeInit, ConsistentInit
<1>2. TypeInv /\ ConsistentInv /\ [Next]_vars => TypeInv' /\ ConsistentInv'
  BY TypeNext, ConsistentNext
<1>3. ConsistentInv => EffectiveAddsUp
  BY DEF ConsistentInv, Consistent, EffectiveAddsUp
<1>4. QED
  BY <1>1, <1>2, <1>3, PTL DEF Spec

\* Under the same condition the legacy mirror of the stored status is its
\* first active operation, so a finished operation is never read back.
THEOREM LegacyCorrect ==
  ASSUME "stale" \notin Faults
  PROVE  Spec => []LegacyMirrorsFirst
<1>1. Init => TypeInv /\ ConsistentInv
  BY TypeInit, ConsistentInit
<1>2. TypeInv /\ ConsistentInv /\ [Next]_vars => TypeInv' /\ ConsistentInv'
  BY TypeNext, ConsistentNext
<1>3. ConsistentInv => LegacyMirrorsFirst
  BY DEF ConsistentInv, Consistent, LegacyMirrorsFirst
<1>4. QED
  BY <1>1, <1>2, <1>3, PTL DEF Spec

-----------------------------------------------------------------------------
(* Counting the operations that are in a set.                              *)

CountIn(ops, set) == Cardinality({i \in DOMAIN ops : ops[i] \in set})
In(op, set) == IF op \in set THEN 1 ELSE 0
OfType(type) == {op \in Op : op.type = type}

LEMMA CountInFinite ==
  ASSUME NEW ops \in Seq(Op), NEW set
  PROVE  /\ IsFiniteSet({i \in DOMAIN ops : ops[i] \in set})
         /\ CountIn(ops, set) \in Nat
<1>1. IsFiniteSet(DOMAIN ops)
  <2>1. DOMAIN ops = 1..Len(ops) /\ Len(ops) \in Nat
    OBVIOUS
  <2>2. QED
    BY <2>1, FS_Interval
<1> DEFINE counted == {i \in DOMAIN ops : ops[i] \in set}
<1>2. IsFiniteSet(counted)
  BY <1>1, FS_Subset
<1>3. QED
  BY <1>2, FS_CardinalityType DEF CountIn

LEMMA CountInEmpty == \A set : CountIn(<<>>, set) = 0
<1> SUFFICES ASSUME NEW set PROVE CountIn(<<>>, set) = 0
  OBVIOUS
<1>1. {i \in DOMAIN <<>> : <<>>[i] \in set} = {}
  OBVIOUS
<1>2. QED
  BY <1>1, FS_EmptySet DEF CountIn

LEMMA CountInAppend ==
  ASSUME NEW ops \in Seq(Op), NEW op \in Op, NEW set
  PROVE  CountIn(Append(ops, op), set) = CountIn(ops, set) + In(op, set)
<1> DEFINE longer == Append(ops, op)
           before == {i \in DOMAIN ops : ops[i] \in set}
           after == {i \in DOMAIN longer : longer[i] \in set}
           last == Len(ops) + 1
<1>1. /\ DOMAIN ops = 1..Len(ops) /\ Len(ops) \in Nat /\ last \notin DOMAIN ops
      /\ DOMAIN longer = DOMAIN ops \union {last}
      /\ \A i \in DOMAIN ops : longer[i] = ops[i]
      /\ longer[last] = op
  OBVIOUS
<1>2. IsFiniteSet(before) /\ last \notin before
  BY <1>1, CountInFinite
<1> HIDE DEF longer, last
<1>3. after = IF op \in set THEN before \union {last} ELSE before
  <2>1. \A i : i \in after <=> i \in before \/ (i = last /\ op \in set)
    BY <1>1
  <2> HIDE DEF before, after
  <2>2. op \in set => after = before \union {last}
    BY <2>1
  <2>3. op \notin set => after = before
    BY <2>1
  <2>4. QED
    BY <2>2, <2>3
<1>4. Cardinality(before) \in Nat
  BY <1>2, FS_CardinalityType
<1>5. Cardinality(after) = Cardinality(before) + In(op, set)
  <2> HIDE DEF before, after
  <2>1. Cardinality(before \union {last}) = Cardinality(before) + 1
    BY <1>2, FS_AddElement
  <2>2. QED
    BY <1>3, <1>4, <2>1 DEF In
<1>6. QED
  BY <1>5 DEF CountIn, longer

LEMMA CountInHeadTail ==
  ASSUME NEW ops \in Seq(Op), ops # <<>>, NEW set
  PROVE  CountIn(ops, set) = In(Head(ops), set) + CountIn(Tail(ops), set)
<1> DEFINE rest == Tail(ops)
           all == {i \in DOMAIN ops : ops[i] \in set}
           tail == {i \in DOMAIN rest : rest[i] \in set}
           shift == [i \in tail |-> i + 1]
<1>1. /\ Len(ops) \in Nat \ {0} /\ DOMAIN ops = 1..Len(ops) /\ Head(ops) = ops[1]
      /\ DOMAIN rest = 1..(Len(ops) - 1) /\ rest \in Seq(Op)
      /\ \A i \in 1..(Len(ops) - 1) : rest[i] = ops[i + 1]
  OBVIOUS
<1>2. \A i \in DOMAIN rest : i + 1 \in DOMAIN ops \ {1} /\ ops[i + 1] = rest[i] /\ i \in Nat
  BY <1>1
<1>3. \A i \in DOMAIN ops \ {1} : i - 1 \in DOMAIN rest /\ rest[i - 1] = ops[i] /\ i \in Nat
  BY <1>1
<1>4. IsFiniteSet(all) /\ IsFiniteSet(tail)
  BY <1>1, CountInFinite
<1>5. 1 \in DOMAIN ops
  BY <1>1
<1> HIDE DEF rest
<1>6. shift \in [tail -> all \ {1}]
  BY <1>2
<1>7. \A i, k \in tail : shift[i] = shift[k] => i = k
  BY <1>2
<1>8. \A k \in all \ {1} : \E i \in tail : shift[i] = k
  <2> SUFFICES ASSUME NEW k \in all \ {1} PROVE \E i \in tail : shift[i] = k
    OBVIOUS
  <2>1. k - 1 \in tail /\ (k - 1) + 1 = k
    BY <1>3
  <2>2. QED
    BY <2>1
<1> HIDE DEF shift
<1>9. ExistsBijection(tail, all \ {1})
  BY <1>6, <1>7, <1>8, Fun_IsBij DEF ExistsBijection
<1>10. Cardinality(all \ {1}) = Cardinality(tail)
  BY <1>4, <1>9, FS_Bijection
<1>11. Cardinality(all) \in Nat /\ Cardinality(tail) \in Nat
  BY <1>4, FS_CardinalityType
<1>12. Cardinality(all \ {1}) = IF 1 \in all THEN Cardinality(all) - 1 ELSE Cardinality(all)
  BY <1>4, FS_RemoveElement
<1>13. 1 \in all <=> Head(ops) \in set
  BY <1>1, <1>5
<1>14. Cardinality(all) = In(Head(ops), set) + Cardinality(tail)
  BY <1>10, <1>11, <1>12, <1>13 DEF In
<1>15. QED
  BY <1>14 DEF CountIn, rest

\* The number of operations of a type is such a count.
LEMMA CountOpsIn ==
  ASSUME NEW ops \in Seq(Op), NEW type
  PROVE  CountOps(ops, type) = CountIn(ops, OfType(type))
<1>1. \A i \in DOMAIN ops : ops[i] \in Op
  OBVIOUS
<1>2. {i \in DOMAIN ops : ops[i].type = type} = {i \in DOMAIN ops : ops[i] \in OfType(type)}
  BY <1>1 DEF OfType
<1>3. QED
  BY <1>2 DEF CountOps, CountIn

Is(op, type) == IF op.type = type THEN 1 ELSE 0

LEMMA IsIn ==
  ASSUME NEW op \in Op, NEW type
  PROVE  Is(op, type) = In(op, OfType(type))
BY DEF Is, In, OfType

LEMMA CountEmpty == \A type : CountOps(<<>>, type) = 0
BY CountOpsIn, CountInEmpty, EmptySeqType

LEMMA CountAppend ==
  ASSUME NEW ops \in Seq(Op), NEW op \in Op, NEW type
  PROVE  CountOps(Append(ops, op), type) = CountOps(ops, type) + Is(op, type)
<1> DEFINE longer == Append(ops, op)
<1>1. longer \in Seq(Op)
  OBVIOUS
<1>2. CountIn(longer, OfType(type)) = CountIn(ops, OfType(type)) + In(op, OfType(type))
  BY CountInAppend
<1> HIDE DEF longer
<1>3. /\ CountOps(longer, type) = CountIn(longer, OfType(type))
      /\ CountOps(ops, type) = CountIn(ops, OfType(type))
  BY <1>1, CountOpsIn
<1>4. QED
  BY <1>2, <1>3, IsIn DEF longer

LEMMA CountHeadTail ==
  ASSUME NEW ops \in Seq(Op), ops # <<>>, NEW type
  PROVE  CountOps(ops, type) = Is(Head(ops), type) + CountOps(Tail(ops), type)
<1> DEFINE head == Head(ops)
           rest == Tail(ops)
<1>1. head \in Op /\ rest \in Seq(Op)
  BY HeadTailType
<1>2. CountIn(ops, OfType(type)) = In(head, OfType(type)) + CountIn(rest, OfType(type))
  BY CountInHeadTail
<1> HIDE DEF head, rest
<1>3. /\ CountOps(ops, type) = CountIn(ops, OfType(type))
      /\ CountOps(rest, type) = CountIn(rest, OfType(type))
      /\ Is(head, type) = In(head, OfType(type))
  BY <1>1, CountOpsIn, IsIn
<1>4. QED
  BY <1>2, <1>3 DEF head, rest

-----------------------------------------------------------------------------
(* The pending counts never exceed the operations they stand for.  In the  *)
(* loop, an operation still to examine counts unless the change of the     *)
(* Ready count pays for it; afterwards, a worker still to start counts.    *)

Planned(type) == IF type = "create" THEN toCreate ELSE toDelete
Pending(s, type) == IF type = "create" THEN s.pendingCreate ELSE s.pendingDelete
Unstarted(type) == IF pc = "start" /\ Kind = type THEN Wanted - started ELSE 0

Unpaid(type) ==
  CountOps(kept, type) + CountOps(todo, type)
    - minInt32(CountOps(todo, type), Budget(type))

PendingInv ==
  /\ toCreate = 0 \/ toDelete = 0
  /\ \A type \in OpTypes :
       /\ Pending(status, type) <= CountOps(status.ops, type)
       /\ pc = "examine" => Pending(plan, type) - Planned(type) <= Unpaid(type)
       /\ pc \in {"start", "patch"} =>
            Pending(plan, type) - Unstarted(type) <= CountOps(plan.ops, type)

LEMMA PendingType ==
  ASSUME NEW s \in Status, NEW type
  PROVE  Pending(s, type) \in Nat
BY DEF Status, Pending

LEMMA EmptyPending == \A type : Pending(EmptyStatus, type) = 0
BY DEF EmptyStatus, Pending

LEMMA RollbackPending ==
  ASSUME NEW s \in Status, NEW t \in OpTypes, NEW count \in Nat, NEW type \in OpTypes
  PROVE  Pending(Rollback(s, t, count), type) =
           IF type = t THEN Pending(s, type) - minInt32(Pending(s, type), count)
                       ELSE Pending(s, type)
<1> DEFINE pendingCreate == IF t = "create"
             THEN s.pendingCreate - minInt32(s.pendingCreate, count)
             ELSE s.pendingCreate
           pendingDelete == IF t = "delete"
             THEN s.pendingDelete - minInt32(s.pendingDelete, count)
             ELSE s.pendingDelete
           rolled == [s EXCEPT !.pendingCreate = pendingCreate,
                               !.pendingDelete = pendingDelete]
           result == [rolled EXCEPT !.effective = Effective(rolled)]
<1>1. Rollback(s, t, count) = result
  BY DEF Rollback
<1> HIDE DEF pendingCreate, pendingDelete
<1>2. rolled.pendingCreate = pendingCreate /\ rolled.pendingDelete = pendingDelete
  BY DEF Status
<1> HIDE DEF rolled
<1>3. /\ result.pendingCreate = rolled.pendingCreate
      /\ result.pendingDelete = rolled.pendingDelete
  OBVIOUS
<1> HIDE DEF result
<1>4. QED
  BY <1>1, <1>2, <1>3 DEF Pending, pendingCreate, pendingDelete, OpTypes

LEMMA WithOpsPending ==
  ASSUME NEW s \in Status, NEW ops, NEW type
  PROVE  Pending(WithOps(s, ops), type) = Pending(s, type)
BY DEF WithOps, Pending, Status

LEMMA PendingInit == Init => PendingInv
<1> SUFFICES ASSUME Init PROVE PendingInv
  OBVIOUS
<1>1. /\ pc = "idle" /\ status = EmptyStatus /\ EmptyStatus.ops = <<>> /\ toCreate = 0
  BY EmptyStatusConsistent DEF Init
<1>2. QED
  BY <1>1, CountEmpty, EmptyPending DEF PendingInv

\* A plan never creates and deletes at once.
LEMMA OneWay ==
  ASSUME NEW current \in Status, NEW observed \in Nat, NEW goal \in Nat, NEW unschedulable
  PROVE  \/ WorkersToCreate(current, observed, goal) = 0
         \/ WorkersToDelete(current, observed, goal, unschedulable) = 0
<1>1. /\ InFlight(current, observed).create \in Nat
      /\ InFlight(current, observed).delete \in Nat
  BY InFlightType
<1>2. QED
  BY <1>1 DEF WorkersToCreate, WorkersToDelete

LEMMA PendingPlan == TypeInv /\ ConsistentInv /\ PendingInv /\ Plan => PendingInv'
<1> SUFFICES ASSUME TypeInv, ConsistentInv, PendingInv, Plan PROVE PendingInv'
  OBVIOUS
<1>1. PICK unschedulable \in UnschedulableCounts : PlanSeeing(unschedulable)
  BY DEF Plan
<1> DEFINE observed == Cardinality(ReadyNodes)
           ops == ActiveOperations(cached)
           creates == WorkersToCreate(cached, observed, target)
           deletes == WorkersToDelete(cached, observed, target, unschedulable)
<1>2. /\ cached \in Status /\ observed \in Nat /\ target \in Nat
      /\ unschedulable \in Nat /\ cached.observed \in Nat
  BY ReadyCountType, DemandAssumption DEF TypeInv, TypeOK, Status
<1>3. ops \in Seq(Op) /\ creates \in Nat /\ deletes \in Nat /\ (creates = 0 \/ deletes = 0)
  BY <1>2, ActiveOperationsType, WorkersType, OneWay
<1>4. /\ todo' = ops /\ kept' = <<>> /\ toCreate' = creates /\ toDelete' = deletes
      /\ createBudget' = maxInt32(observed - cached.observed, 0)
      /\ deleteBudget' = maxInt32(cached.observed - observed, 0)
      /\ plan' = EnsureWorkers(cached, observed, creates, deletes) /\ started' = 0
      /\ pc' = IF ops # <<>> THEN "examine"
               ELSE IF creates + deletes > 0 THEN "start" ELSE "patch"
  BY <1>1 DEF PlanSeeing
<1>5. status' = status
  BY DEF Plan
<1>6. /\ plan'.ops = ops
      /\ plan'.pendingCreate = InFlight(cached, observed).create + creates
      /\ plan'.pendingDelete = InFlight(cached, observed).delete + deletes
  BY <1>4 DEF EnsureWorkers
<1>7. /\ CountOps(ops, "create") \in Nat /\ CountOps(ops, "delete") \in Nat
      /\ CountOps(<<>>, "create") = 0 /\ CountOps(<<>>, "delete") = 0
  BY <1>3, CountOpsType, CountEmpty
<1>8. /\ InFlight(cached, observed).create
           = CountOps(ops, "create") - minInt32(CountOps(ops, "create"), createBudget')
      /\ InFlight(cached, observed).delete
           = CountOps(ops, "delete") - minInt32(CountOps(ops, "delete"), deleteBudget')
  <2> DEFINE c == CountOps(ops, "create")
             d == CountOps(ops, "delete")
  <2>1. /\ InFlight(cached, observed).create = c - Completed(cached, observed).create
        /\ InFlight(cached, observed).delete = d - Completed(cached, observed).delete
    BY DEF InFlight
  <2>2. /\ Completed(cached, observed).create =
             IF observed > cached.observed THEN minInt32(c, observed - cached.observed) ELSE 0
        /\ Completed(cached, observed).delete =
             IF observed < cached.observed THEN minInt32(d, cached.observed - observed) ELSE 0
    BY DEF Completed
  <2> HIDE DEF c, d, observed
  <2>3. c \in Nat /\ d \in Nat
    BY <1>7 DEF c, d
  <2>4. /\ Completed(cached, observed).create = minInt32(c, createBudget')
        /\ Completed(cached, observed).delete = minInt32(d, deleteBudget')
    BY <1>2, <1>4, <2>2, <2>3 DEF minInt32, maxInt32
  <2>5. QED
    BY <2>1, <2>4 DEF c, d
<1>9. createBudget' \in Nat /\ deleteBudget' \in Nat
  BY <1>2, <1>4 DEF maxInt32
<1> HIDE DEF observed, ops, creates, deletes
<1>10. \A type \in OpTypes : pc' = "examine" =>
         Pending(plan', type) - Planned(type)' <= Unpaid(type)'
  BY <1>3, <1>4, <1>6, <1>7, <1>8, <1>9
  DEF OpTypes, Pending, Planned, Unpaid, Budget, minInt32
<1>11. \A type \in OpTypes : pc' \in {"start", "patch"} =>
         Pending(plan', type) - Unstarted(type)' <= CountOps(plan'.ops, type)
  <2> SUFFICES ASSUME pc' \in {"start", "patch"}, NEW type \in OpTypes
               PROVE  Pending(plan', type) - Unstarted(type)' <= CountOps(plan'.ops, type)
    OBVIOUS
  <2>1. /\ ops = <<>> /\ InFlight(cached, observed).create = 0
        /\ InFlight(cached, observed).delete = 0
    BY <1>4, <1>7, <1>8, <1>9 DEF minInt32
  <2>2. CountOps(plan'.ops, type) = 0
    BY <1>6, <2>1, CountEmpty
  <2>3. pc' = "start" <=> creates + deletes > 0
    BY <1>4, <2>1
  <2>4. Pending(plan', type) = IF type = "create" THEN creates ELSE deletes
    BY <1>3, <1>6, <2>1 DEF Pending
  <2>5. Unstarted(type)' = IF pc' = "start" /\ (IF creates > 0 THEN "create" ELSE "delete") = type
                             THEN creates + deletes ELSE 0
    BY <1>3, <1>4 DEF Unstarted, Kind, Wanted
  <2>6. QED
    BY <1>3, <2>2, <2>3, <2>4, <2>5 DEF OpTypes
<1>12. QED
  BY <1>3, <1>4, <1>5, <1>10, <1>11 DEF PendingInv

LEMMA PendingExamined ==
  ASSUME TypeInv, PendingInv, pc = "examine",
         NEW s \in Status, NEW remaining \in Seq(Op), Examined(s, remaining),
         \A type \in OpTypes :
           Pending(s, type) - Planned(type) <=
             CountOps(remaining, type) + CountOps(Tail(todo), type)
               - minInt32(CountOps(Tail(todo), type), Budget(type)'),
         createBudget' \in Nat, deleteBudget' \in Nat
  PROVE  PendingInv'
<1>1. /\ todo' = Tail(todo) /\ kept' = remaining /\ started = 0
      /\ UNCHANGED <<status, toCreate, toDelete, started>>
  BY DEF Examined, apiVars, TypeInv, ControlOK
<1>2. toCreate \in Nat /\ toDelete \in Nat
  BY DEF TypeInv, TypeOK
<1>3. CASE Tail(todo) # <<>>
  <2>1. plan' = s /\ pc' = "examine"
    BY <1>3 DEF Examined
  <2>2. QED
    BY <1>1, <2>1 DEF PendingInv, Planned, Unpaid
<1>4. CASE Tail(todo) = <<>>
  <2>1. /\ plan' = WithOps(s, remaining)
        /\ pc' = IF Wanted > 0 THEN "start" ELSE "patch"
    BY <1>4 DEF Examined
  <2>2. plan'.ops = remaining /\ \A type : Pending(plan', type) = Pending(s, type)
    BY <2>1, WithOpsPending DEF WithOps, Status
  <2>3. ASSUME NEW type \in OpTypes
        PROVE  Pending(plan', type) - Unstarted(type)' <= CountOps(plan'.ops, type)
    <3>1. CountOps(Tail(todo), type) = 0 /\ CountOps(remaining, type) \in Nat
      BY <1>4, CountEmpty, CountOpsType
    <3>2. Budget(type)' \in Nat
      BY DEF Budget
    <3>3. Pending(s, type) - Planned(type) <= CountOps(remaining, type)
      BY <3>1, <3>2 DEF minInt32
    <3>4. Unstarted(type)' = Planned(type)
      BY <1>1, <1>2, <2>1 DEF Unstarted, Planned, Wanted, Kind, OpTypes, PendingInv
    <3>5. QED
      BY <2>2, <3>3, <3>4
  <2>4. QED
    BY <1>1, <2>1, <2>3 DEF PendingInv
<1>5. QED
  BY <1>3, <1>4

LEMMA PendingExamine ==
  TypeInv /\ PendingInv
  /\ (ExamineLost \/ ExamineObserved \/ ExamineTimedOut \/ ExamineKept) => PendingInv'
<1> SUFFICES ASSUME TypeInv, PendingInv,
                    ExamineLost \/ ExamineObserved \/ ExamineTimedOut \/ ExamineKept
             PROVE  PendingInv'
  OBVIOUS
<1> DEFINE op == Head(todo)
<1>1. pc = "examine"
  BY DEF ExamineLost, ExamineObserved, ExamineTimedOut, ExamineKept
<1>2. /\ op \in Op /\ op.type \in OpTypes /\ Advanced(op) \in Op /\ Advanced(op).type = op.type
      /\ plan \in Status /\ Rollback(plan, op.type, 1) \in Status /\ kept \in Seq(Op)
      /\ Append(kept, Advanced(op)) \in Seq(Op)
  BY <1>1, ExamineReads DEF Advanced, Op
<1>3. todo # <<>> /\ todo \in Seq(Op) /\ Tail(todo) \in Seq(Op)
  BY <1>1, HeadTailType DEF TypeInv, TypeOK, ControlOK
<1>4. /\ createBudget \in Nat /\ deleteBudget \in Nat /\ toCreate \in Nat /\ toDelete \in Nat
  BY DEF TypeInv, TypeOK
<1> DEFINE Left(type) == CountOps(Tail(todo), type)
           Held(type) == CountOps(kept, type)
<1>5. ASSUME NEW type \in OpTypes
      PROVE  /\ Left(type) \in Nat /\ Held(type) \in Nat /\ Is(op, type) \in {0, 1}
             /\ Budget(type) \in Nat /\ Pending(plan, type) \in Nat /\ Planned(type) \in Nat
             /\ CountOps(todo, type) = Is(op, type) + Left(type)
             /\ Pending(plan, type) - Planned(type) <=
                  Held(type) + Is(op, type) + Left(type)
                    - minInt32(Is(op, type) + Left(type), Budget(type))
  <2>1. Left(type) \in Nat /\ Held(type) \in Nat
    BY <1>2, <1>3, CountOpsType
  <2>2. CountOps(todo, type) = Is(op, type) + Left(type)
    BY <1>3, CountHeadTail
  <2>3. Pending(plan, type) - Planned(type) <= Unpaid(type)
    BY <1>1 DEF PendingInv
  <2>4. /\ Budget(type) \in Nat /\ Pending(plan, type) \in Nat /\ Planned(type) \in Nat
        /\ Is(op, type) \in {0, 1}
    BY <1>2, <1>4, PendingType DEF Budget, Planned, Is
  <2> HIDE DEF Left, Held, op
  <2>5. Unpaid(type) = Held(type) + Is(op, type) + Left(type)
          - minInt32(Is(op, type) + Left(type), Budget(type))
    BY <2>1, <2>2, <2>4 DEF Unpaid, Held, minInt32
  <2>6. QED
    BY <2>1, <2>2, <2>3, <2>4, <2>5
<1> HIDE DEF op, Left, Held
<1>6. CASE ExamineLost \/ ExamineTimedOut
  <2>1. /\ Examined(Rollback(plan, op.type, 1), kept) /\ UNCHANGED <<createBudget, deleteBudget>>
    BY <1>6 DEF ExamineLost, ExamineTimedOut, op
  <2>2. ASSUME NEW type \in OpTypes
        PROVE  Pending(Rollback(plan, op.type, 1), type) - Planned(type) <=
                 Held(type) + Left(type) - minInt32(Left(type), Budget(type)')
    <3>1. Pending(Rollback(plan, op.type, 1), type) =
            IF type = op.type THEN Pending(plan, type) - minInt32(Pending(plan, type), 1)
                              ELSE Pending(plan, type)
      BY <1>2, RollbackPending
    <3>2. Is(op, type) = IF type = op.type THEN 1 ELSE 0
      BY DEF Is
    <3>3. Budget(type)' = Budget(type)
      BY <2>1 DEF Budget
    <3>4. QED
      BY <1>5, <3>1, <3>2, <3>3 DEF minInt32
  <2>3. QED
    BY <1>1, <1>2, <1>4, <2>1, <2>2, PendingExamined DEF Left, Held
<1>7. CASE ExamineObserved
  <2>1. /\ Examined(plan, kept) /\ Budget(op.type) > 0
        /\ createBudget' = IF op.type = "create" THEN createBudget - 1 ELSE createBudget
        /\ deleteBudget' = IF op.type = "delete" THEN deleteBudget - 1 ELSE deleteBudget
    BY <1>2, <1>7 DEF ExamineObserved, Observable, op
  <2>2. createBudget' \in Nat /\ deleteBudget' \in Nat
    BY <1>2, <1>4, <2>1 DEF Budget, OpTypes
  <2>3. ASSUME NEW type \in OpTypes
        PROVE  Pending(plan, type) - Planned(type) <=
                 Held(type) + Left(type) - minInt32(Left(type), Budget(type)')
    <3>1. Budget(type)' = Budget(type) - Is(op, type)
      BY <1>2, <1>4, <2>1 DEF Budget, Is, OpTypes
    <3>2. Is(op, type) = 1 => Budget(type) > 0
      BY <2>1 DEF Is
    <3>3. QED
      BY <1>5, <3>1, <3>2 DEF minInt32
  <2>4. QED
    BY <1>1, <1>2, <2>1, <2>2, <2>3, PendingExamined DEF Left, Held
<1>8. CASE ExamineKept
  <2>1. /\ Examined(plan, Append(kept, Advanced(op)))
        /\ UNCHANGED <<createBudget, deleteBudget>>
    BY <1>8 DEF ExamineKept, op
  <2>2. ASSUME NEW type \in OpTypes
        PROVE  Pending(plan, type) - Planned(type) <=
                 CountOps(Append(kept, Advanced(op)), type) + Left(type)
                   - minInt32(Left(type), Budget(type)')
    <3>1. CountOps(Append(kept, Advanced(op)), type) = Held(type) + Is(op, type)
      BY <1>2, CountAppend DEF Held, Is
    <3>2. Budget(type)' = Budget(type)
      BY <2>1 DEF Budget
    <3>3. QED
      BY <1>5, <3>1, <3>2 DEF minInt32
  <2>3. QED
    BY <1>1, <1>2, <1>4, <2>1, <2>2, PendingExamined DEF Left
<1>9. QED
  BY <1>6, <1>7, <1>8

\* In the loop that starts Jobs, one worker of the planned kind is next.
LEMMA StartKnows ==
  ASSUME TypeInv, PendingInv, pc = "start"
  PROVE  /\ plan \in Status /\ plan.ops \in Seq(Op) /\ status.ops \in Seq(Op)
         /\ started \in Nat /\ Wanted \in Nat /\ started < Wanted
         /\ \A type \in OpTypes :
              /\ Pending(plan, type) \in Nat /\ CountOps(plan.ops, type) \in Nat
              /\ Pending(plan, type)
                   - (IF type = Kind THEN Wanted - started ELSE 0)
                     <= CountOps(plan.ops, type)
<1>1. plan \in Status /\ plan.ops \in Seq(Op) /\ status.ops \in Seq(Op)
  BY DEF TypeInv, TypeOK, Status
<1>2. started \in Nat /\ Wanted \in Nat /\ started < Wanted
  BY DEF TypeInv, TypeOK, ControlOK, Wanted
<1>3. ASSUME NEW type \in OpTypes
      PROVE  /\ Pending(plan, type) \in Nat /\ CountOps(plan.ops, type) \in Nat
             /\ Pending(plan, type)
                  - (IF type = Kind THEN Wanted - started ELSE 0)
                    <= CountOps(plan.ops, type)
  <2>1. Pending(plan, type) \in Nat /\ CountOps(plan.ops, type) \in Nat
    BY <1>1, PendingType, CountOpsType
  <2>2. Pending(plan, type) - Unstarted(type) <= CountOps(plan.ops, type)
    BY DEF PendingInv
  <2>3. Unstarted(type) = IF type = Kind THEN Wanted - started ELSE 0
    BY DEF Unstarted
  <2>4. QED
    BY <2>1, <2>2, <2>3
<1>4. QED
  BY <1>1, <1>2, <1>3

\* After a worker was started or skipped.
LEMMA PendingStarted ==
  ASSUME TypeInv, PendingInv, pc = "start", started' = started + 1,
         pc' = IF started + 1 < Wanted THEN "start" ELSE "patch",
         UNCHANGED <<status, toCreate, toDelete>>,
         \A type \in OpTypes :
           Pending(plan', type) - (IF type = Kind THEN Wanted - (started + 1) ELSE 0)
             <= CountOps(plan'.ops, type)
  PROVE  PendingInv'
<1>1. started \in Nat /\ Wanted \in Nat /\ started < Wanted
  BY StartKnows
<1>2. Kind' = Kind /\ Wanted' = Wanted
  BY DEF Kind, Wanted
<1>3. ASSUME NEW type \in OpTypes
      PROVE  Unstarted(type)' = IF type = Kind THEN Wanted - (started + 1) ELSE 0
  BY <1>1, <1>2 DEF Unstarted
<1>4. ASSUME NEW type \in OpTypes
      PROVE  Pending(plan', type) - Unstarted(type)' <= CountOps(plan'.ops, type)
  BY <1>3
<1>5. pc' \in {"start", "patch"}
  OBVIOUS
<1>6. QED
  BY <1>4, <1>5 DEF PendingInv

LEMMA PendingStartSkipped == TypeInv /\ PendingInv /\ StartSkipped => PendingInv'
<1> SUFFICES ASSUME TypeInv, PendingInv, StartSkipped PROVE PendingInv'
  OBVIOUS
<1>1. /\ pc = "start" /\ plan' = Rollback(plan, Kind, 1) /\ started' = started + 1
      /\ pc' = IF started + 1 < Wanted THEN "start" ELSE "patch"
      /\ UNCHANGED <<status, toCreate, toDelete>>
  BY DEF StartSkipped, apiVars
<1>2. plan'.ops = plan.ops
  BY <1>1, StartKnows, RollbackKeeps
<1>3. ASSUME NEW type \in OpTypes
      PROVE  Pending(plan', type) - (IF type = Kind THEN Wanted - (started + 1) ELSE 0)
               <= CountOps(plan'.ops, type)
  <2>1. Pending(plan', type) =
          IF type = Kind THEN Pending(plan, type) - minInt32(Pending(plan, type), 1)
                         ELSE Pending(plan, type)
    BY <1>1, StartKnows, KindType, RollbackPending
  <2>2. QED
    BY <1>1, <1>2, <2>1, StartKnows DEF minInt32
<1>4. QED
  BY <1>1, <1>3, PendingStarted

LEMMA PendingStartJob ==
  ASSUME TypeInv, PendingInv, NEW j \in JobIds, NEW n \in Nodes, StartJob(j, n)
  PROVE  PendingInv'
<1> DEFINE op == [type |-> Kind, node |-> n, job |-> j, phase |-> "Running"]
<1>1. /\ CreateJob(j, n) /\ plan' = WithOps(plan, Append(plan.ops, op))
      /\ pc = "start" /\ started' = started + 1
      /\ pc' = IF started + 1 < Wanted THEN "start" ELSE "patch"
      /\ UNCHANGED <<status, toCreate, toDelete>>
  BY DEF StartJob, CreateJob
<1>2. op \in Op /\ op.type = Kind
  BY <1>1, CreateJobType
<1> HIDE DEF op
<1>3. plan'.ops = Append(plan.ops, op)
  BY <1>1, StartKnows DEF WithOps, Status
<1>4. ASSUME NEW type \in OpTypes
      PROVE  Pending(plan', type) - (IF type = Kind THEN Wanted - (started + 1) ELSE 0)
               <= CountOps(plan'.ops, type)
  <2>1. Pending(plan', type) = Pending(plan, type)
    BY <1>1, StartKnows, WithOpsPending
  <2>2. CountOps(plan'.ops, type)
          = CountOps(plan.ops, type) + (IF type = Kind THEN 1 ELSE 0)
    BY <1>1, <1>2, <1>3, StartKnows, CountAppend DEF Is
  <2>3. QED
    BY <1>1, <2>1, <2>2, StartKnows
<1>5. QED
  BY <1>1, <1>4, PendingStarted

LEMMA PendingReturn ==
  ASSUME Return, \A type \in OpTypes : Pending(status', type) <= CountOps(status'.ops, type)
  PROVE  PendingInv'
<1>1. pc' = "idle" /\ toCreate' = 0
  BY DEF Return
<1>2. QED
  BY <1>1 DEF PendingInv

LEMMA PendingStartError ==
  ASSUME TypeInv, PendingInv, pc = "start", StartError, status' = status
  PROVE  PendingInv'
<1>1. CASE started = 0
  BY <1>1, PendingReturn DEF StartError, PendingInv
<1>2. CASE started # 0
  <2>1. /\ plan' = Rollback(plan, Kind, Wanted - started) /\ pc' = "patch"
        /\ UNCHANGED <<toCreate, toDelete>>
    BY <1>2 DEF StartError
  <2>2. Wanted - started \in Nat
    BY StartKnows
  <2>3. plan'.ops = plan.ops
    BY <2>1, <2>2, StartKnows, RollbackKeeps
  <2>4. ASSUME NEW type \in OpTypes PROVE Pending(plan', type) <= CountOps(plan'.ops, type)
    <3>1. Pending(plan', type) =
            IF type = Kind
              THEN Pending(plan, type) - minInt32(Pending(plan, type), Wanted - started)
              ELSE Pending(plan, type)
      BY <2>1, <2>2, StartKnows, KindType, RollbackPending
    <3>2. QED
      BY <2>2, <2>3, <3>1, StartKnows DEF minInt32
  <2>5. \A type \in OpTypes : /\ Unstarted(type)' = 0
                              /\ Pending(plan', type) \in Nat
    BY <2>1, <2>2, StartKnows, RollbackType, PendingType DEF Unstarted
  <2>6. QED
    BY <2>1, <2>4, <2>5 DEF PendingInv
<1>3. QED
  BY <1>1, <1>2

LEMMA PendingPatch == TypeInv /\ ConsistentInv /\ PendingInv /\ Patch => PendingInv'
<1> SUFFICES ASSUME TypeInv, ConsistentInv, PendingInv, Patch PROVE PendingInv'
  OBVIOUS
<1>1. status' = plan /\ Return /\ pc = "patch"
  BY ConsistentPatch DEF Patch
<1>2. \A type \in OpTypes : /\ Unstarted(type) = 0 /\ Pending(plan, type) \in Nat
                            /\ Pending(plan, type) - Unstarted(type) <= CountOps(plan.ops, type)
  BY <1>1, PendingType DEF Unstarted, PendingInv, TypeInv, TypeOK
<1>3. QED
  BY <1>1, <1>2, PendingReturn

LEMMA PendingNext ==
  ASSUME TypeInv, ConsistentInv, PendingInv, [Next]_vars
  PROVE  PendingInv'
<1>1. CASE Reconcile
  <2>1. CASE StartRejected
    BY <2>1, PendingStartError DEF StartRejected, apiVars
  <2>2. QED
    BY <1>1, <2>1, PendingPlan, PendingExamine, PendingStartSkipped, PendingStartJob,
       PendingPatch DEF Reconcile
<1>2. ASSUME NEW j \in JobIds, NEW n \in Nodes, StartLostReply(j, n) PROVE PendingInv'
  BY <1>2, PendingStartError DEF StartLostReply, CreateJob, apiVars
<1>3. CASE Abandon
  BY <1>3, PendingReturn DEF Abandon, apiVars, PendingInv
<1>4. CASE UNCHANGED <<status, reconcileVars>>
  BY <1>4 DEF reconcileVars, PendingInv, Planned, Unpaid, Budget, Unstarted, Kind, Wanted
<1>5. CASE Environment
  BY <1>4, <1>5
  DEF Environment, JobStep, NodeJoins, NodeRemoved, JobCompletes, JobFails, JobReaped,
      JobEnds, Expires, NodeFlaps, Retarget, InformerSyncs, apiVars
<1>6. CASE UNCHANGED vars
  BY <1>4, <1>6 DEF vars, apiVars
<1>7. QED
  BY <1>1, <1>2, <1>3, <1>5, <1>6 DEF Next

\* The pending counts of the stored status never claim more workers than there
\* are operations in flight: no acknowledgement by count, timeout, skipped or
\* partial start leaves a pending worker behind that nothing would ever take
\* back, unless a reconcile reads a stale informer.
THEOREM PendingCorrect ==
  ASSUME "stale" \notin Faults
  PROVE  Spec => []PendingHasOperations
<1>1. Init => TypeInv /\ ConsistentInv /\ PendingInv
  BY TypeInit, ConsistentInit, PendingInit
<1>2. TypeInv /\ ConsistentInv /\ PendingInv /\ [Next]_vars
        => TypeInv' /\ ConsistentInv' /\ PendingInv'
  BY TypeNext, ConsistentNext, PendingNext
<1>3. PendingInv => PendingHasOperations
  BY DEF PendingInv, Pending, PendingHasOperations, OpTypes
<1>4. QED
  BY <1>1, <1>2, <1>3, PTL DEF Spec

-----------------------------------------------------------------------------
(* Operations in sequences.                                                *)

\* The Jobs of the operations have been created, and the Job of an operation
\* that waits for observation has ended.
Begun(js, ops) ==
  \A i \in DOMAIN ops :
    /\ js[ops[i].job].state # "unborn"
    /\ ops[i].phase = "WaitingForObservation" => js[ops[i].job].state # "running"

\* Every running Job tracked by the operations before is tracked by one of the
\* sequences a and b.
Accounted(js, before, a, b) ==
  \A j \in JobIds :
    Tracks(before, j) /\ js[j].state = "running" => Tracks(a, j) \/ Tracks(b, j)

LEMMA EmptyOps ==
  /\ \A js : Begun(js, <<>>)
  /\ \A j : ~Tracks(<<>>, j)
BY DEF Begun, Tracks

LEMMA HeadTailOps ==
  ASSUME NEW ops \in Seq(Op), ops # <<>>, NEW js
  PROVE  /\ Begun(js, ops) <=> Begun(js, <<Head(ops)>>) /\ Begun(js, Tail(ops))
         /\ \A j : Tracks(ops, j) <=> Head(ops).job = j \/ Tracks(Tail(ops), j)
<1>1. /\ Len(ops) \in Nat \ {0} /\ DOMAIN ops = 1..Len(ops)
      /\ Head(ops) = ops[1] /\ Tail(ops) \in Seq(Op)
      /\ DOMAIN Tail(ops) = 1..(Len(ops) - 1)
      /\ \A i \in 1..(Len(ops) - 1) : Tail(ops)[i] = ops[i + 1]
  OBVIOUS
<1>2. \A i \in DOMAIN ops : i = 1 \/ (i - 1 \in DOMAIN Tail(ops) /\ Tail(ops)[i - 1] = ops[i])
  BY <1>1
<1>3. \A i \in DOMAIN Tail(ops) : i + 1 \in DOMAIN ops /\ ops[i + 1] = Tail(ops)[i]
  BY <1>1
<1>4. 1 \in DOMAIN ops /\ DOMAIN <<Head(ops)>> = {1} /\ <<Head(ops)>>[1] = ops[1]
  BY <1>1
<1> DEFINE BegunAt(op) ==
      /\ js[op.job].state # "unborn"
      /\ op.phase = "WaitingForObservation" => js[op.job].state # "running"
<1>5. Begun(js, ops) <=> Begun(js, <<Head(ops)>>) /\ Begun(js, Tail(ops))
  <2>1. /\ Begun(js, ops) <=> \A i \in DOMAIN ops : BegunAt(ops[i])
        /\ Begun(js, Tail(ops)) <=> \A i \in DOMAIN Tail(ops) : BegunAt(Tail(ops)[i])
        /\ Begun(js, <<Head(ops)>>) <=> BegunAt(ops[1])
    BY <1>4 DEF Begun
  <2> HIDE DEF BegunAt
  <2>2. QED
    BY <1>2, <1>3, <1>4, <2>1
<1>6. ASSUME NEW j PROVE Tracks(ops, j) <=> Head(ops).job = j \/ Tracks(Tail(ops), j)
  BY <1>1, <1>2, <1>3, <1>4 DEF Tracks
<1>7. QED
  BY <1>5, <1>6

LEMMA AppendOps ==
  ASSUME NEW ops \in Seq(Op), NEW op \in Op, NEW js
  PROVE  /\ Begun(js, Append(ops, op)) <=> Begun(js, ops) /\ Begun(js, <<op>>)
         /\ \A j : Tracks(Append(ops, op), j) <=> Tracks(ops, j) \/ op.job = j
<1> DEFINE longer == Append(ops, op)
<1>1. /\ Len(ops) \in Nat /\ DOMAIN ops = 1..Len(ops)
      /\ DOMAIN longer = 1..(Len(ops) + 1)
      /\ \A i \in 1..Len(ops) : longer[i] = ops[i]
      /\ longer[Len(ops) + 1] = op
  OBVIOUS
<1>2. DOMAIN <<op>> = {1} /\ <<op>>[1] = op
  OBVIOUS
<1>3. DOMAIN longer = DOMAIN ops \union {Len(ops) + 1}
  BY <1>1
<1> HIDE DEF longer
<1>4. Begun(js, longer) <=> Begun(js, ops) /\ Begun(js, <<op>>)
  BY <1>1, <1>2, <1>3 DEF Begun
<1>5. ASSUME NEW j PROVE Tracks(longer, j) <=> Tracks(ops, j) \/ op.job = j
  BY <1>1, <1>3 DEF Tracks
<1>6. QED
  BY <1>4, <1>5 DEF longer

-----------------------------------------------------------------------------
(* Jobs only move forward.                                                 *)

Forward(js, next) ==
  \A j \in JobIds : js[j].state # "unborn" =>
    /\ next[j].state # "unborn"
    /\ next[j].state = "running" => js[j].state = "running"

LEMMA BegunForward ==
  ASSUME NEW ops \in Seq(Op), NEW js, NEW next, Forward(js, next), Begun(js, ops)
  PROVE  Begun(next, ops)
<1>1. \A i \in DOMAIN ops : ops[i] \in Op
  OBVIOUS
<1>2. \A i \in DOMAIN ops : ops[i].job \in JobIds
  BY <1>1 DEF Op
<1>3. QED
  BY <1>2 DEF Begun, Forward

LEMMA AccountedForward ==
  ASSUME NEW before \in Seq(Op), NEW a, NEW b, NEW js, NEW next,
         Forward(js, next), Begun(js, before), Accounted(js, before, a, b)
  PROVE  Accounted(next, before, a, b)
BY DEF Begun, Tracks, Accounted, Forward

LEMMA SameForward == \A js : Forward(js, js)
BY DEF Forward

LEMMA JobEndsForward ==
  ASSUME TypeInv, NEW j \in JobIds, NEW state \in JobStates \ {"unborn", "running"},
         JobEnds(j, state)
  PROVE  Forward(jobs, jobs')
<1>1. /\ jobs \in [JobIds -> [type : OpTypes, node : Nodes, state : JobStates]]
      /\ jobs' = [jobs EXCEPT ![j].state = state]
  BY DEF TypeInv, TypeOK, JobEnds
<1>2. jobs'[j].state = state /\ \A k \in JobIds \ {j} : jobs'[k] = jobs[k]
  BY <1>1
<1>3. QED
  BY <1>2 DEF Forward

LEMMA CreateJobForward ==
  ASSUME TypeInv, NEW j \in JobIds, NEW n \in Nodes, CreateJob(j, n)
  PROVE  /\ Forward(jobs, jobs') /\ jobs[j].state = "unborn"
         /\ jobs'[j].state = "running"
         /\ \A k \in JobIds \ {j} : jobs'[k] = jobs[k]
<1>1. /\ jobs \in [JobIds -> [type : OpTypes, node : Nodes, state : JobStates]]
      /\ jobs' = [jobs EXCEPT ![j] = [type |-> Kind, node |-> n, state |-> "running"]]
      /\ jobs[j].state = "unborn"
  BY DEF TypeInv, TypeOK, CreateJob
<1>2. jobs'[j].state = "running" /\ \A k \in JobIds \ {j} : jobs'[k] = jobs[k]
  BY <1>1
<1>3. QED
  BY <1>1, <1>2 DEF Forward

LEMMA EnvironmentForward ==
  ASSUME TypeInv, Environment
  PROVE  Forward(jobs, jobs')
<1>1. ASSUME NEW j \in JobIds, JobStep(j) PROVE Forward(jobs, jobs')
  <2>1. CASE NodeJoins(j) \/ NodeRemoved(j)
    BY <2>1, SameForward DEF NodeJoins, NodeRemoved
  <2>2. CASE JobCompletes(j)
    BY <2>2, JobEndsForward DEF JobCompletes, JobStates
  <2>3. QED
    BY <1>1, <2>1, <2>2 DEF JobStep
<1>2. ASSUME NEW j \in JobIds, JobFails(j) PROVE Forward(jobs, jobs')
  BY <1>2, JobEndsForward DEF JobFails, JobStates
<1>3. ASSUME NEW j \in JobIds, JobReaped(j) PROVE Forward(jobs, jobs')
  BY <1>3, JobEndsForward DEF JobReaped, JobStates
<1>4. CASE UNCHANGED jobs
  BY <1>4, SameForward
<1>5. QED
  BY <1>1, <1>2, <1>3, <1>4
  DEF Environment, Expires, NodeFlaps, Retarget, InformerSyncs, clusterVars

-----------------------------------------------------------------------------
(* No operation is dropped under a running Job: the operations of the      *)
(* stored status whose Job runs are always in the loop, or in the plan.    *)

TrackingInv ==
  /\ Begun(jobs, status.ops) /\ Begun(jobs, plan.ops)
  /\ Begun(jobs, todo) /\ Begun(jobs, kept)
  /\ pc = "examine" => Accounted(jobs, status.ops, todo, kept)
  /\ pc \in {"start", "patch"} => Accounted(jobs, status.ops, plan.ops, plan.ops)

StrongInv == TypeInv /\ ConsistentInv /\ TrackingInv

LEMMA OpsTypes ==
  ASSUME TypeInv
  PROVE  /\ status \in Status /\ plan \in Status
         /\ status.ops \in Seq(Op) /\ plan.ops \in Seq(Op)
         /\ todo \in Seq(Op) /\ kept \in Seq(Op)
BY DEF TypeInv, TypeOK, Status

LEMMA TrackingInit == Init => TrackingInv
<1> SUFFICES ASSUME Init PROVE TrackingInv
  OBVIOUS
<1>1. status.ops = <<>> /\ plan.ops = <<>> /\ todo = <<>> /\ kept = <<>> /\ pc = "idle"
  BY EmptyStatusConsistent DEF Init
<1>2. QED
  BY <1>1, EmptyOps DEF TrackingInv

LEMMA TrackingPlan == StrongInv /\ Plan => TrackingInv'
<1> SUFFICES ASSUME StrongInv, Plan PROVE TrackingInv'
  OBVIOUS
<1>1. PICK unschedulable \in UnschedulableCounts : PlanSeeing(unschedulable)
  BY DEF Plan
<1>2. ActiveOperations(cached) = status.ops
  BY OpsTypes, ConsistentOps DEF StrongInv, ConsistentInv
<1>3. todo' = status.ops /\ kept' = <<>>
  BY <1>1, <1>2 DEF PlanSeeing
<1>4. plan'.ops = status.ops
  BY <1>1, <1>2, EnsureWorkersConsistent DEF PlanSeeing, StrongInv, TypeInv, TypeOK
<1>5. status' = status /\ jobs' = jobs
  BY DEF Plan, clusterVars
<1>6. Begun(jobs, status.ops)
  BY DEF StrongInv, TrackingInv
<1>7. QED
  BY <1>3, <1>4, <1>5, <1>6, EmptyOps DEF TrackingInv, Accounted

\* A round of the loop that keeps the operations kept so far, and the examined
\* one if its Job is running.
LEMMA TrackingExamined ==
  ASSUME StrongInv, pc = "examine",
         NEW s \in Status, s.ops = plan.ops,
         NEW remaining \in Seq(Op), Begun(jobs, remaining),
         \A j \in JobIds : Tracks(kept, j) => Tracks(remaining, j),
         \A j \in JobIds : Head(todo).job = j /\ jobs[j].state = "running"
                             => Tracks(remaining, j),
         Examined(s, remaining)
  PROVE  TrackingInv'
<1>1. todo # <<>> /\ todo \in Seq(Op)
  BY OpsTypes DEF StrongInv, TypeInv, ControlOK
<1>2. /\ Begun(jobs, Tail(todo))
      /\ \A j : Tracks(todo, j) <=> Head(todo).job = j \/ Tracks(Tail(todo), j)
  BY <1>1, HeadTailOps DEF StrongInv, TrackingInv
<1>3. todo' = Tail(todo) /\ kept' = remaining /\ jobs' = jobs /\ status' = status
  BY DEF Examined, clusterVars, apiVars
<1>4. \A j \in JobIds : Tracks(status.ops, j) /\ jobs[j].state = "running" =>
        Tracks(Tail(todo), j) \/ Tracks(remaining, j)
  BY <1>2 DEF StrongInv, TrackingInv, Accounted
<1>5. CASE Tail(todo) # <<>>
  <2>1. plan' = s /\ pc' = "examine"
    BY <1>5 DEF Examined
  <2>2. QED
    BY <1>2, <1>3, <1>4, <2>1 DEF StrongInv, TrackingInv, Accounted
<1>6. CASE Tail(todo) = <<>>
  <2>1. plan' = WithOps(s, remaining) /\ pc' \in {"start", "patch"}
    BY <1>6 DEF Examined
  <2>2. plan'.ops = remaining
    BY <2>1 DEF WithOps, Status
  <2>3. \A j \in JobIds : ~Tracks(Tail(todo), j)
    BY <1>6, EmptyOps
  <2>4. QED
    BY <1>2, <1>3, <1>4, <2>1, <2>2, <2>3 DEF StrongInv, TrackingInv, Accounted
<1>7. QED
  BY <1>5, <1>6

\* What the loop knows about the Job of the operation it examines.
LEMMA ExamineKnows ==
  ASSUME StrongInv, pc = "examine"
  PROVE  /\ Head(todo) \in Op /\ Head(todo).job \in JobIds
         /\ jobs[Head(todo).job].state # "unborn"
         /\ Head(todo).phase = "WaitingForObservation"
              => jobs[Head(todo).job].state # "running"
         /\ Advanced(Head(todo)).job = Head(todo).job
         /\ Advanced(Head(todo)).phase = "WaitingForObservation"
              => jobs[Head(todo).job].state # "running"
<1>1. todo # <<>> /\ todo \in Seq(Op)
  BY OpsTypes DEF StrongInv, TypeInv, ControlOK
<1>2. Head(todo) \in Op /\ Head(todo).job \in JobIds
  BY <1>1, HeadTailType DEF Op
<1>3. Begun(jobs, <<Head(todo)>>)
  BY <1>1, HeadTailOps DEF StrongInv, TrackingInv
<1>4. /\ jobs[Head(todo).job].state # "unborn"
      /\ Head(todo).phase = "WaitingForObservation"
           => jobs[Head(todo).job].state # "running"
  BY <1>3 DEF Begun
<1>5. /\ Advanced(Head(todo)).job = Head(todo).job
      /\ Advanced(Head(todo)).phase = "WaitingForObservation"
           => jobs[Head(todo).job].state # "running"
  BY <1>2, <1>4 DEF Advanced, Op
<1>6. QED
  BY <1>2, <1>4, <1>5

LEMMA TrackingExamine ==
  StrongInv /\ (ExamineLost \/ ExamineObserved \/ ExamineTimedOut \/ ExamineKept)
    => TrackingInv'
<1> SUFFICES ASSUME StrongInv,
                    ExamineLost \/ ExamineObserved \/ ExamineTimedOut \/ ExamineKept
             PROVE  TrackingInv'
  OBVIOUS
<1>1. pc = "examine" /\ TypeInv
  BY DEF ExamineLost, ExamineObserved, ExamineTimedOut, ExamineKept, StrongInv
<1>2. /\ plan \in Status /\ Rollback(plan, Head(todo).type, 1) \in Status
      /\ Rollback(plan, Head(todo).type, 1).ops = plan.ops
  BY <1>1, ExamineReads, RollbackConsistent DEF StrongInv, ConsistentInv
<1>3. Begun(jobs, kept) /\ kept \in Seq(Op)
  BY <1>1, OpsTypes DEF StrongInv, TrackingInv
<1>4. CASE ExamineLost
  <2>1. jobs[Head(todo).job].state # "running"
    BY <1>4 DEF ExamineLost, StrongInv, ConsistentInv
  <2>2. Examined(Rollback(plan, Head(todo).type, 1), kept)
    BY <1>4 DEF ExamineLost
  <2>3. QED
    BY <1>1, <1>2, <1>3, <2>1, <2>2, TrackingExamined
<1>5. CASE ExamineObserved
  <2>1. jobs[Head(todo).job].state # "running" /\ Examined(plan, kept)
    BY <1>1, <1>5, ExamineKnows DEF ExamineObserved, Observable
  <2>2. QED
    BY <1>1, <1>2, <1>3, <2>1, TrackingExamined
<1>6. CASE ExamineTimedOut
  <2>1. jobs[Head(todo).job].state # "running"
    BY <1>1, <1>6, ExamineKnows DEF ExamineTimedOut, TimedOut
  <2>2. Examined(Rollback(plan, Head(todo).type, 1), kept)
    BY <1>6 DEF ExamineTimedOut
  <2>3. QED
    BY <1>1, <1>2, <1>3, <2>1, <2>2, TrackingExamined
<1>7. CASE ExamineKept
  <2> DEFINE op == Advanced(Head(todo))
  <2>1. op \in Op /\ Append(kept, op) \in Seq(Op) /\ op.job = Head(todo).job
    BY <1>1, ExamineReads, ExamineKnows
  <2>2. Begun(jobs, <<op>>)
    BY <1>1, ExamineKnows DEF Begun
  <2> HIDE DEF op
  <2>3. /\ Begun(jobs, Append(kept, op))
        /\ \A j : Tracks(Append(kept, op), j) <=> Tracks(kept, j) \/ op.job = j
    BY <1>3, <2>1, <2>2, AppendOps
  <2>4. Examined(plan, Append(kept, op))
    BY <1>7 DEF ExamineKept, op
  <2>5. QED
    BY <1>1, <1>2, <2>1, <2>3, <2>4, TrackingExamined
<1>8. QED
  BY <1>4, <1>5, <1>6, <1>7

LEMMA TrackingStartSkipped == StrongInv /\ StartSkipped => TrackingInv'
<1> SUFFICES ASSUME StrongInv, StartSkipped PROVE TrackingInv'
  OBVIOUS
<1>1. plan'.ops = plan.ops
  BY OpsTypes, RollbackConsistent DEF StartSkipped, StrongInv, ConsistentInv
<1>2. /\ pc = "start" /\ pc' \in {"start", "patch"}
      /\ UNCHANGED <<jobs, status, todo, kept>>
  BY DEF StartSkipped, clusterVars, apiVars
<1>3. QED
  BY <1>1, <1>2 DEF StrongInv, TrackingInv, Accounted

LEMMA TrackingStartJob ==
  ASSUME StrongInv, NEW j \in JobIds, NEW n \in Nodes, StartJob(j, n)
  PROVE  /\ TrackingInv'
         /\ \A k : Tracks(plan'.ops, k) <=> Tracks(plan.ops, k) \/ k = j
<1> DEFINE op == [type |-> Kind, node |-> n, job |-> j, phase |-> "Running"]
<1>1. CreateJob(j, n) /\ plan' = WithOps(plan, Append(plan.ops, op))
  BY DEF StartJob
<1>2. op \in Op /\ op.job = j /\ op.phase = "Running" /\ TypeInv
  BY <1>1, CreateJobType DEF StrongInv
<1> HIDE DEF op
<1>3. plan'.ops = Append(plan.ops, op)
  BY <1>1, <1>2, OpsTypes DEF WithOps, Status
<1>4. Forward(jobs, jobs') /\ jobs'[j].state = "running"
  BY <1>1, <1>2, CreateJobForward
<1>5. Begun(jobs', <<op>>)
  BY <1>2, <1>4 DEF Begun
<1>6. /\ Begun(jobs', plan.ops) /\ Begun(jobs', status.ops)
      /\ Begun(jobs', todo) /\ Begun(jobs', kept)
  BY <1>2, <1>4, OpsTypes, BegunForward DEF StrongInv, TrackingInv
<1>7. /\ Begun(jobs', plan'.ops)
      /\ \A k : Tracks(plan'.ops, k) <=> Tracks(plan.ops, k) \/ k = j
  BY <1>2, <1>3, <1>5, <1>6, OpsTypes, AppendOps
<1>8. pc = "start" /\ pc' \in {"start", "patch"} /\ UNCHANGED <<status, todo, kept>>
  BY <1>1 DEF StartJob, CreateJob
<1>9. Accounted(jobs', status.ops, plan.ops, plan.ops)
  <2>1. Begun(jobs, status.ops) /\ Accounted(jobs, status.ops, plan.ops, plan.ops)
    BY <1>8 DEF StrongInv, TrackingInv
  <2>2. status.ops \in Seq(Op)
    BY <1>2, OpsTypes
  <2>3. QED
    BY <1>4, <2>1, <2>2, AccountedForward
<1>10. TrackingInv'
  BY <1>6, <1>7, <1>8, <1>9 DEF TrackingInv, Accounted
<1>11. QED
  BY <1>7, <1>10

LEMMA TrackingReturn ==
  ASSUME Return, Begun(jobs', status'.ops)
  PROVE  TrackingInv'
<1>1. pc' = "idle" /\ plan'.ops = <<>> /\ todo' = <<>> /\ kept' = <<>>
  BY EmptyStatusConsistent DEF Return
<1>2. QED
  BY <1>1, EmptyOps DEF TrackingInv

\* A failed creation, whether or not a Job came of it.
LEMMA TrackingStartError ==
  ASSUME StrongInv, pc = "start", StartError, Forward(jobs, jobs'), status' = status
  PROVE  TrackingInv'
<1>1. /\ Begun(jobs', plan.ops) /\ Begun(jobs', status.ops)
      /\ Begun(jobs', todo) /\ Begun(jobs', kept)
  BY OpsTypes, BegunForward DEF StrongInv, TrackingInv
<1>2. CASE started = 0
  BY <1>1, <1>2, TrackingReturn DEF StartError
<1>3. CASE started # 0
  <2>1. plan \in Status /\ Wanted - started \in Nat
    BY DEF StrongInv, TypeInv, TypeOK, ControlOK, Wanted
  <2>2. pc' = "patch" /\ plan'.ops = plan.ops /\ UNCHANGED <<todo, kept>>
    BY <1>3, <2>1, RollbackConsistent DEF StartError, StrongInv, ConsistentInv
  <2>3. Accounted(jobs', status.ops, plan.ops, plan.ops)
    <3>1. Begun(jobs, status.ops) /\ Accounted(jobs, status.ops, plan.ops, plan.ops)
      BY DEF StrongInv, TrackingInv
    <3>2. status.ops \in Seq(Op)
      BY OpsTypes DEF StrongInv
    <3>3. QED
      BY <3>1, <3>2, AccountedForward
  <2>4. QED
    BY <1>1, <2>2, <2>3 DEF TrackingInv
<1>4. QED
  BY <1>2, <1>3

LEMMA TrackingPatch == StrongInv /\ Patch => TrackingInv'
<1> SUFFICES ASSUME StrongInv, Patch PROVE TrackingInv'
  OBVIOUS
<1>1. status' = plan /\ jobs' = jobs /\ Return
  BY ConsistentPatch DEF Patch, StrongInv, clusterVars
<1>2. QED
  BY <1>1, TrackingReturn DEF StrongInv, TrackingInv

LEMMA TrackingAbandon == StrongInv /\ Abandon => TrackingInv'
<1> SUFFICES ASSUME StrongInv, Abandon PROVE TrackingInv'
  OBVIOUS
<1>1. Return /\ UNCHANGED <<jobs, status>>
  BY DEF Abandon, clusterVars, apiVars
<1>2. QED
  BY <1>1, TrackingReturn DEF StrongInv, TrackingInv

LEMMA TrackingEnvironment == StrongInv /\ Environment => TrackingInv'
<1> SUFFICES ASSUME StrongInv, Environment PROVE TrackingInv'
  OBVIOUS
<1>1. Forward(jobs, jobs')
  BY EnvironmentForward DEF StrongInv
<1>2. UNCHANGED <<status, reconcileVars>>
  BY DEF Environment, JobStep, NodeJoins, NodeRemoved, JobCompletes, JobFails, JobReaped,
         JobEnds, Expires, NodeFlaps, Retarget, InformerSyncs, apiVars
<1>3. /\ Begun(jobs', plan.ops) /\ Begun(jobs', status.ops)
      /\ Begun(jobs', todo) /\ Begun(jobs', kept)
  BY <1>1, OpsTypes, BegunForward DEF StrongInv, TrackingInv
<1>4. ASSUME NEW a, NEW b, Accounted(jobs, status.ops, a, b)
      PROVE  Accounted(jobs', status.ops, a, b)
  BY <1>1, <1>4, OpsTypes, AccountedForward DEF StrongInv, TrackingInv
<1>5. /\ pc = "examine" => Accounted(jobs', status.ops, todo, kept)
      /\ pc \in {"start", "patch"} => Accounted(jobs', status.ops, plan.ops, plan.ops)
  BY <1>4 DEF StrongInv, TrackingInv
<1>6. QED
  BY <1>2, <1>3, <1>5 DEF TrackingInv, reconcileVars

LEMMA StrongNext ==
  ASSUME "stale" \notin Faults, StrongInv, [Next]_vars
  PROVE  StrongInv'
<1>1. TypeInv' /\ ConsistentInv'
  BY TypeNext, ConsistentNext DEF StrongInv
<1>2. TrackingInv'
  <2>1. CASE Reconcile
    <3>1. CASE StartRejected
      BY <3>1, SameForward, TrackingStartError DEF StartRejected, clusterVars, apiVars
    <3>2. QED
      BY <2>1, <3>1, TrackingPlan, TrackingExamine, TrackingStartSkipped,
         TrackingStartJob, TrackingPatch DEF Reconcile
  <2>2. ASSUME NEW j \in JobIds, NEW n \in Nodes, StartLostReply(j, n)
        PROVE  TrackingInv'
    <3>1. CreateJob(j, n) /\ StartError /\ pc = "start" /\ status' = status
      BY <2>2 DEF StartLostReply, CreateJob, apiVars
    <3>2. QED
      BY <3>1, CreateJobForward, TrackingStartError DEF StrongInv
  <2>3. CASE Abandon
    BY <2>3, TrackingAbandon
  <2>4. CASE Environment
    BY <2>4, TrackingEnvironment
  <2>5. CASE UNCHANGED vars
    BY <2>5 DEF vars, clusterVars, apiVars, reconcileVars, StrongInv, TrackingInv
  <2>6. QED
    BY <2>1, <2>2, <2>3, <2>4, <2>5 DEF Next
<1>3. QED
  BY <1>1, <1>2 DEF StrongInv

LEMMA StrongInit == Init => StrongInv
BY TypeInit, ConsistentInit, TrackingInit DEF StrongInv

\* The status is written by a patch alone, and the plan it writes accounts for
\* every running Job the status tracked.
LEMMA StatusStep ==
  ASSUME StrongInv, [Next]_vars, status' # status
  PROVE  status' = plan /\ Accounted(jobs, status.ops, plan.ops, plan.ops)
<1>1. Patch
  BY DEF Next, Reconcile, Plan, ExamineLost, ExamineObserved, ExamineTimedOut, ExamineKept,
         Examined, StartSkipped, StartJob, StartRejected, StartLostReply, Abandon,
         Environment, JobStep, NodeJoins, NodeRemoved, JobCompletes, JobFails, JobReaped,
         JobEnds, Expires, NodeFlaps, Retarget, InformerSyncs, apiVars, vars
<1>2. status' = plan /\ pc = "patch"
  BY <1>1, ConsistentPatch DEF StrongInv, Patch
<1>3. QED
  BY <1>2 DEF StrongInv, TrackingInv

\* An operation leaves the stored status only once its Job no longer runs:
\* neither the acknowledgement by count, nor the timeout, nor a rollback, nor a
\* crash drops one whose Job is live, unless a reconcile reads a stale informer.
THEOREM OperationsOutliveJobsCorrect ==
  ASSUME "stale" \notin Faults
  PROVE  Spec => OperationsOutliveJobs
<1> DEFINE Step == \A j \in JobIds :
             Tracks(status.ops, j) /\ ~Tracks(status'.ops, j) => jobs[j].state # "running"
<1>1. Init => StrongInv
  BY StrongInit
<1>2. StrongInv /\ [Next]_vars => StrongInv'
  BY StrongNext
<1>3. StrongInv /\ [Next]_vars => [Step]_status
  BY StatusStep DEF Accounted
<1>4. QED
  BY <1>1, <1>2, <1>3, PTL DEF Spec, OperationsOutliveJobs

-----------------------------------------------------------------------------
(* Every running Job is tracked, unless the controller dies, or a patch or *)
(* the reply to a creation is lost: only the Jobs a reconcile has started  *)
(* itself are tracked by its plan alone.                                   *)

RunningInv ==
  /\ RunningJobsTracked
  /\ pc = "idle" => plan.ops = <<>>
  /\ pc = "examine" => \A j \in JobIds :
       Tracks(todo, j) \/ Tracks(kept, j) \/ Tracks(plan.ops, j) => Tracks(status.ops, j)
  /\ pc = "start" /\ started = 0 => \A j \in JobIds :
       Tracks(plan.ops, j) => Tracks(status.ops, j)

LEMMA RunningInit == Init => RunningInv
<1> SUFFICES ASSUME Init PROVE RunningInv
  OBVIOUS
<1>1. plan.ops = <<>> /\ pc = "idle" /\ \A j \in JobIds : jobs[j].state = "unborn"
  BY EmptyStatusConsistent DEF Init
<1>2. QED
  BY <1>1 DEF RunningInv, RunningJobsTracked

LEMMA RunningPlan == StrongInv /\ RunningInv /\ Plan => RunningInv'
<1> SUFFICES ASSUME StrongInv, RunningInv, Plan PROVE RunningInv'
  OBVIOUS
<1>1. PICK unschedulable \in UnschedulableCounts : PlanSeeing(unschedulable)
  BY DEF Plan
<1>2. ActiveOperations(cached) = status.ops
  BY OpsTypes, ConsistentOps DEF StrongInv, ConsistentInv
<1>3. todo' = status.ops /\ kept' = <<>> /\ pc' # "idle"
  BY <1>1, <1>2 DEF PlanSeeing
<1>4. plan'.ops = status.ops
  BY <1>1, <1>2, EnsureWorkersConsistent DEF PlanSeeing, StrongInv, TypeInv, TypeOK
<1>5. status' = status /\ jobs' = jobs /\ plan.ops = <<>>
  BY DEF Plan, clusterVars, RunningInv
<1>6. QED
  BY <1>3, <1>4, <1>5, EmptyOps DEF RunningInv, RunningJobsTracked

LEMMA RunningExamined ==
  ASSUME StrongInv, RunningInv, pc = "examine",
         NEW s \in Status, s.ops = plan.ops, NEW remaining \in Seq(Op),
         \A j \in JobIds : Tracks(remaining, j) => Tracks(kept, j) \/ Head(todo).job = j,
         Examined(s, remaining)
  PROVE  RunningInv'
<1>1. \A j : Tracks(todo, j) <=> Head(todo).job = j \/ Tracks(Tail(todo), j)
  BY OpsTypes, HeadTailOps DEF StrongInv, TypeInv, ControlOK
<1>2. /\ todo' = Tail(todo) /\ kept' = remaining /\ jobs' = jobs /\ status' = status
      /\ started' = started
  BY DEF Examined, clusterVars, apiVars
<1>3. \A j \in JobIds :
        Tracks(Tail(todo), j) \/ Tracks(remaining, j) \/ Tracks(plan.ops, j)
          => Tracks(status.ops, j)
  BY <1>1 DEF RunningInv
<1>4. CASE Tail(todo) # <<>>
  <2>1. plan' = s /\ pc' = "examine"
    BY <1>4 DEF Examined
  <2>2. QED
    BY <1>2, <1>3, <2>1 DEF RunningInv, RunningJobsTracked
<1>5. CASE Tail(todo) = <<>>
  <2>1. plan' = WithOps(s, remaining) /\ pc' \in {"start", "patch"}
    BY <1>5 DEF Examined
  <2>2. plan'.ops = remaining
    BY <2>1 DEF WithOps, Status
  <2>3. QED
    BY <1>2, <1>3, <2>1, <2>2 DEF RunningInv, RunningJobsTracked
<1>6. QED
  BY <1>4, <1>5

LEMMA RunningExamine ==
  StrongInv /\ RunningInv
  /\ (ExamineLost \/ ExamineObserved \/ ExamineTimedOut \/ ExamineKept) => RunningInv'
<1> SUFFICES ASSUME StrongInv, RunningInv,
                    ExamineLost \/ ExamineObserved \/ ExamineTimedOut \/ ExamineKept
             PROVE  RunningInv'
  OBVIOUS
<1>1. pc = "examine" /\ TypeInv
  BY DEF ExamineLost, ExamineObserved, ExamineTimedOut, ExamineKept, StrongInv
<1>2. /\ plan \in Status /\ Rollback(plan, Head(todo).type, 1) \in Status
      /\ Rollback(plan, Head(todo).type, 1).ops = plan.ops /\ kept \in Seq(Op)
  BY <1>1, ExamineReads, RollbackConsistent DEF StrongInv, ConsistentInv
<1>3. CASE ExamineLost \/ ExamineTimedOut
  <2>1. Examined(Rollback(plan, Head(todo).type, 1), kept)
    BY <1>3 DEF ExamineLost, ExamineTimedOut
  <2>2. QED
    BY <1>1, <1>2, <2>1, RunningExamined
<1>4. CASE ExamineObserved
  BY <1>1, <1>2, <1>4, RunningExamined DEF ExamineObserved
<1>5. CASE ExamineKept
  <2> DEFINE op == Advanced(Head(todo))
  <2>1. op \in Op /\ Append(kept, op) \in Seq(Op) /\ op.job = Head(todo).job
    BY <1>1, ExamineReads, ExamineKnows
  <2>2. Examined(plan, Append(kept, op))
    BY <1>5 DEF ExamineKept
  <2> HIDE DEF op
  <2>3. \A j : Tracks(Append(kept, op), j) <=> Tracks(kept, j) \/ op.job = j
    BY <1>2, <2>1, AppendOps
  <2>4. QED
    BY <1>1, <1>2, <2>1, <2>2, <2>3, RunningExamined
<1>6. QED
  BY <1>3, <1>4, <1>5

LEMMA RunningStartSkipped == StrongInv /\ RunningInv /\ StartSkipped => RunningInv'
<1> SUFFICES ASSUME StrongInv, RunningInv, StartSkipped PROVE RunningInv'
  OBVIOUS
<1>1. plan'.ops = plan.ops
  BY OpsTypes, RollbackConsistent DEF StartSkipped, StrongInv, ConsistentInv
<1>2. /\ pc = "start" /\ pc' \in {"start", "patch"} /\ started' = started + 1
      /\ started \in Nat /\ UNCHANGED <<jobs, status>>
  BY DEF StartSkipped, clusterVars, apiVars, StrongInv, TypeInv, TypeOK
<1>3. QED
  BY <1>1, <1>2 DEF RunningInv, RunningJobsTracked

LEMMA RunningStartJob ==
  ASSUME StrongInv, RunningInv, NEW j \in JobIds, NEW n \in Nodes, StartJob(j, n)
  PROVE  RunningInv'
<1>1. \A k : Tracks(plan'.ops, k) <=> Tracks(plan.ops, k) \/ k = j
  BY TrackingStartJob
<1>2. /\ CreateJob(j, n) /\ pc' \in {"start", "patch"} /\ started' = started + 1
      /\ started \in Nat /\ status' = status
  BY DEF StartJob, StrongInv, TypeInv, TypeOK
<1>3. \A k \in JobIds \ {j} : jobs'[k] = jobs[k]
  BY <1>2, CreateJobForward DEF StrongInv
<1>4. RunningJobsTracked'
  BY <1>1, <1>2, <1>3 DEF RunningInv, RunningJobsTracked
<1>5. QED
  BY <1>2, <1>4 DEF RunningInv

\* Returning before a Job was started forgets none.
LEMMA RunningReturn ==
  ASSUME Return, jobs' = jobs, status' = status,
         \A j \in JobIds : jobs[j].state = "running" => Tracks(status.ops, j)
  PROVE  RunningInv'
<1>1. pc' = "idle" /\ plan'.ops = <<>>
  BY EmptyStatusConsistent DEF Return
<1>2. QED
  BY <1>1 DEF RunningInv, RunningJobsTracked

LEMMA RunningStartRejected == StrongInv /\ RunningInv /\ StartRejected => RunningInv'
<1> SUFFICES ASSUME StrongInv, RunningInv, StartRejected PROVE RunningInv'
  OBVIOUS
<1>1. pc = "start" /\ StartError /\ UNCHANGED <<jobs, status>>
  BY DEF StartRejected, clusterVars, apiVars
<1>2. CASE started = 0
  BY <1>1, <1>2, RunningReturn DEF StartError, RunningInv, RunningJobsTracked
<1>3. CASE started # 0
  <2>1. plan \in Status /\ Wanted - started \in Nat
    BY <1>1 DEF StrongInv, TypeInv, TypeOK, ControlOK, Wanted
  <2>2. pc' = "patch" /\ plan'.ops = plan.ops
    BY <1>1, <1>3, <2>1, RollbackConsistent DEF StartError, StrongInv, ConsistentInv
  <2>3. QED
    BY <1>1, <2>2 DEF RunningInv, RunningJobsTracked
<1>4. QED
  BY <1>2, <1>3

LEMMA RunningPatch == StrongInv /\ RunningInv /\ Patch => RunningInv'
<1> SUFFICES ASSUME StrongInv, RunningInv, Patch PROVE RunningInv'
  OBVIOUS
<1>1. status' = plan /\ jobs' = jobs /\ Return /\ pc = "patch"
  BY ConsistentPatch DEF Patch, StrongInv, clusterVars
<1>2. \A j \in JobIds : jobs[j].state = "running" => Tracks(plan.ops, j)
  BY <1>1 DEF StrongInv, TrackingInv, Accounted, RunningInv, RunningJobsTracked
<1>3. pc' = "idle" /\ plan'.ops = <<>>
  BY <1>1, EmptyStatusConsistent DEF Return
<1>4. QED
  BY <1>1, <1>2, <1>3 DEF RunningInv, RunningJobsTracked

LEMMA RunningEnvironment == StrongInv /\ RunningInv /\ Environment => RunningInv'
<1> SUFFICES ASSUME StrongInv, RunningInv, Environment PROVE RunningInv'
  OBVIOUS
<1>1. Forward(jobs, jobs')
  BY EnvironmentForward DEF StrongInv
<1>2. UNCHANGED <<status, reconcileVars>>
  BY DEF Environment, JobStep, NodeJoins, NodeRemoved, JobCompletes, JobFails, JobReaped,
         JobEnds, Expires, NodeFlaps, Retarget, InformerSyncs, apiVars
<1>3. \A j \in JobIds : jobs'[j].state = "running" => jobs[j].state = "running"
  <2>1. ASSUME NEW k \in JobIds, NEW state \in JobStates \ {"running"}, JobEnds(k, state)
        PROVE  \A j \in JobIds : jobs'[j].state = "running" => jobs[j].state = "running"
    BY <2>1 DEF JobEnds, StrongInv, TypeInv, TypeOK
  <2>2. CASE UNCHANGED jobs
    BY <2>2
  <2>3. QED
    BY <2>1, <2>2 DEF Environment, JobStep, NodeJoins, NodeRemoved, JobCompletes, JobFails,
       JobReaped, Expires, NodeFlaps, Retarget, InformerSyncs, clusterVars, JobStates
<1>4. QED
  BY <1>2, <1>3 DEF RunningInv, RunningJobsTracked, reconcileVars

LEMMA RunningNext ==
  ASSUME Faults \intersect {"stale", "lostreply", "patch", "crash"} = {},
         StrongInv, RunningInv, [Next]_vars
  PROVE  RunningInv'
<1>1. CASE Reconcile
  BY <1>1, RunningPlan, RunningExamine, RunningStartSkipped, RunningStartJob,
     RunningStartRejected, RunningPatch DEF Reconcile
<1>2. ASSUME NEW j \in JobIds, NEW n \in Nodes, StartLostReply(j, n) PROVE RunningInv'
  BY <1>2 DEF StartLostReply
<1>3. CASE Abandon
  <2>1. Return /\ pc = "examine" /\ jobs' = jobs /\ status' = status
    BY <1>3 DEF Abandon, clusterVars, apiVars
  <2>2. QED
    BY <2>1, RunningReturn DEF RunningInv, RunningJobsTracked
<1>4. CASE Environment
  BY <1>4, RunningEnvironment
<1>5. CASE UNCHANGED vars
  BY <1>5 DEF vars, clusterVars, apiVars, reconcileVars, RunningInv, RunningJobsTracked
<1>6. QED
  BY <1>1, <1>2, <1>3, <1>4, <1>5 DEF Next

\* No running Job is ever lost: it is tracked by the stored status, or by the
\* reconcile that started it.  Failing reads, refused creations, failed Jobs,
\* garbage collection and flapping nodes do not matter; a crash, a lost patch, a
\* lost reply and a stale informer do, as the runs show.
THEOREM RunningJobsTrackedCorrect ==
  ASSUME Faults \intersect {"stale", "lostreply", "patch", "crash"} = {}
  PROVE  Spec => []RunningJobsTracked
<1>1. "stale" \notin Faults
  OBVIOUS
<1>2. Init => StrongInv /\ RunningInv
  BY StrongInit, RunningInit
<1>3. StrongInv /\ RunningInv /\ [Next]_vars => StrongInv' /\ RunningInv'
  BY <1>1, StrongNext, RunningNext
<1>4. RunningInv => RunningJobsTracked
  BY DEF RunningInv
<1>5. QED
  BY <1>2, <1>3, <1>4, PTL DEF Spec

-----------------------------------------------------------------------------
(* No Job is tracked twice, whatever the faults, a stale informer included.*)

Distinct(ops) == \A a, b \in DOMAIN ops : ops[a].job = ops[b].job => a = b
Created(js, ops) == \A j \in JobIds : Tracks(ops, j) => js[j].state # "unborn"

\* The operations of a status are of distinct Jobs that have been created, and
\* so is the operation its mirror would be read as.
Sound(js, s) ==
  /\ Distinct(s.ops) /\ Created(js, s.ops)
  /\ s.legacy # NoOp => js[s.legacy.job].state # "unborn"

OneInv ==
  /\ Sound(jobs, status) /\ Sound(jobs, cached) /\ Sound(jobs, base) /\ Sound(jobs, plan)
  /\ Distinct(todo) /\ Distinct(kept) /\ Created(jobs, todo) /\ Created(jobs, kept)
  /\ \A j : ~(Tracks(todo, j) /\ Tracks(kept, j))

LEMMA AppendDistinct ==
  ASSUME NEW ops \in Seq(Op), NEW op \in Op, Distinct(ops), ~Tracks(ops, op.job)
  PROVE  Distinct(Append(ops, op))
<1> DEFINE longer == Append(ops, op)
<1>1. /\ DOMAIN longer = DOMAIN ops \union {Len(ops) + 1}
      /\ \A i \in DOMAIN ops : longer[i] = ops[i] /\ i # Len(ops) + 1
      /\ longer[Len(ops) + 1] = op
  OBVIOUS
<1> HIDE DEF longer
<1>2. Distinct(longer)
  BY <1>1 DEF Distinct, Tracks
<1>3. QED
  BY <1>2 DEF longer

LEMMA TailDistinct ==
  ASSUME NEW ops \in Seq(Op), ops # <<>>, Distinct(ops)
  PROVE  Distinct(Tail(ops)) /\ ~Tracks(Tail(ops), Head(ops).job)
<1>1. /\ Len(ops) \in Nat \ {0} /\ DOMAIN ops = 1..Len(ops) /\ Head(ops) = ops[1]
      /\ DOMAIN Tail(ops) = 1..(Len(ops) - 1)
      /\ \A i \in 1..(Len(ops) - 1) : Tail(ops)[i] = ops[i + 1]
  OBVIOUS
<1>2. \A i \in DOMAIN Tail(ops) : /\ i + 1 \in DOMAIN ops /\ ops[i + 1] = Tail(ops)[i]
                                  /\ i \in Nat \ {0}
  BY <1>1
<1>3. 1 \in DOMAIN ops
  BY <1>1
<1>4. Distinct(Tail(ops))
  BY <1>2 DEF Distinct
<1>5. ~Tracks(Tail(ops), Head(ops).job)
  BY <1>1, <1>2, <1>3 DEF Distinct, Tracks
<1>6. QED
  BY <1>4, <1>5

LEMMA EmptyDistinct == Distinct(<<>>) /\ \A js : Created(js, <<>>)
BY EmptyOps DEF Distinct, Created

LEMMA EmptySound == \A js : Sound(js, EmptyStatus)
BY EmptyDistinct DEF Sound, EmptyStatus

\* The mirror of created operations is created.
LEMMA LegacySound ==
  ASSUME NEW js, NEW ops \in Seq(Op), Created(js, ops), LegacyOf(ops) # NoOp
  PROVE  js[LegacyOf(ops).job].state # "unborn"
<1>1. ops # <<>> /\ LegacyOf(ops) = ops[1]
  BY DEF LegacyOf
<1>2. 1 \in DOMAIN ops /\ ops[1] \in Op
  BY <1>1
<1>3. ops[1].job \in JobIds /\ Tracks(ops, ops[1].job)
  BY <1>2 DEF Op, Tracks
<1>4. QED
  BY <1>1, <1>3 DEF Created

LEMMA ActiveSound ==
  ASSUME NEW js, NEW s \in Status, Sound(js, s)
  PROVE  Distinct(ActiveOperations(s)) /\ Created(js, ActiveOperations(s))
<1>1. CASE s.ops # <<>>
  BY <1>1 DEF ActiveOperations, Sound
<1>2. CASE s.ops = <<>> /\ s.legacy # NoOp
  <2>1. ActiveOperations(s) = <<s.legacy>>
    BY <1>2 DEF ActiveOperations
  <2>2. Distinct(<<s.legacy>>) /\ \A j : Tracks(<<s.legacy>>, j) => j = s.legacy.job
    BY DEF Distinct, Tracks
  <2>3. QED
    BY <1>2, <2>1, <2>2 DEF Created, Sound
<1>3. CASE s.ops = <<>> /\ s.legacy = NoOp
  BY <1>3, EmptyDistinct DEF ActiveOperations
<1>4. QED
  BY <1>1, <1>2, <1>3

\* Whatever mixture of two sound statuses a merge patch stores is sound.
LEMMA MergeSound ==
  ASSUME NEW js, NEW stored, NEW from, NEW to, Sound(js, stored), Sound(js, to)
  PROVE  Sound(js, MergePatch(stored, from, to))
<1>1. /\ MergePatch(stored, from, to).ops \in {stored.ops, to.ops}
      /\ LET legacy == MergePatch(stored, from, to).legacy
         IN legacy # NoOp => \/ stored.legacy # NoOp /\ legacy.job = stored.legacy.job
                             \/ to.legacy # NoOp /\ legacy.job = to.legacy.job
  BY DEF MergePatch, MergeMirror, MergeField
<1>2. QED
  BY <1>1 DEF Sound

LEMMA SoundForward ==
  ASSUME NEW js, NEW next, Forward(js, next), NEW s \in Status, Sound(js, s)
  PROVE  Sound(next, s)
<1>1. s.legacy # NoOp => s.legacy.job \in JobIds
  BY DEF Status, Op
<1>2. QED
  BY <1>1 DEF Sound, Created, Forward

\* A step that neither examines nor writes an operation.
LEMMA OneFrame ==
  ASSUME TypeInv, OneInv, Forward(jobs, jobs'), Sound(jobs', cached'),
         UNCHANGED <<status, base, todo, kept>>,
         plan'.ops = plan.ops, plan'.legacy = plan.legacy
  PROVE  OneInv'
<1>1. /\ Sound(jobs', status) /\ Sound(jobs', base) /\ Sound(jobs', plan)
  BY SoundForward DEF TypeInv, TypeOK, OneInv
<1>2. Created(jobs', todo) /\ Created(jobs', kept)
  BY DEF OneInv, Created, Forward
<1>3. QED
  BY <1>1, <1>2 DEF OneInv, Sound

LEMMA OneReturn ==
  ASSUME Return, Sound(jobs', status'), Sound(jobs', cached')
  PROVE  OneInv'
BY EmptySound, EmptyDistinct, EmptyOps DEF Return, OneInv

LEMMA OneInit == Init => OneInv
<1> SUFFICES ASSUME Init PROVE OneInv
  OBVIOUS
<1>1. /\ status = EmptyStatus /\ cached = EmptyStatus /\ base = EmptyStatus
      /\ plan = EmptyStatus /\ todo = <<>> /\ kept = <<>>
  BY DEF Init
<1>2. QED
  BY <1>1, EmptySound, EmptyDistinct, EmptyOps DEF OneInv

LEMMA OnePlan == TypeInv /\ OneInv /\ Plan => OneInv'
<1> SUFFICES ASSUME TypeInv, OneInv, Plan PROVE OneInv'
  OBVIOUS
<1>1. PICK unschedulable \in UnschedulableCounts : PlanSeeing(unschedulable)
  BY DEF Plan
<1> DEFINE ops == ActiveOperations(cached)
<1>2. ops \in Seq(Op) /\ Distinct(ops) /\ Created(jobs, ops)
  BY ActiveOperationsType, ActiveSound DEF TypeInv, TypeOK, OneInv
<1>3. todo' = ops /\ kept' = <<>> /\ base' = cached
  BY <1>1 DEF PlanSeeing
<1>4. plan'.ops = ops /\ plan'.legacy = LegacyOf(ops)
  BY <1>1 DEF PlanSeeing, EnsureWorkers
<1>5. UNCHANGED <<jobs, status, cached>>
  BY DEF Plan, clusterVars
<1> HIDE DEF ops
<1>6. Sound(jobs, plan')
  BY <1>2, <1>4, LegacySound DEF Sound
<1>7. QED
  BY <1>2, <1>3, <1>5, <1>6, EmptyDistinct, EmptyOps DEF OneInv

LEMMA OneExamined ==
  ASSUME TypeInv, OneInv, pc = "examine",
         NEW s \in Status, s.ops = plan.ops, s.legacy = plan.legacy,
         NEW remaining \in Seq(Op), Distinct(remaining), Created(jobs, remaining),
         \A j : Tracks(remaining, j) => Tracks(kept, j) \/ Head(todo).job = j,
         Examined(s, remaining)
  PROVE  OneInv'
<1>1. todo # <<>> /\ todo \in Seq(Op)
  BY DEF TypeInv, TypeOK, ControlOK
<1>2. /\ Distinct(Tail(todo)) /\ ~Tracks(Tail(todo), Head(todo).job)
      /\ \A j : Tracks(todo, j) <=> Head(todo).job = j \/ Tracks(Tail(todo), j)
  BY <1>1, TailDistinct, HeadTailOps DEF OneInv
<1>3. Created(jobs, Tail(todo)) /\ \A j : ~(Tracks(Tail(todo), j) /\ Tracks(remaining, j))
  BY <1>2 DEF OneInv, Created
<1>4. todo' = Tail(todo) /\ kept' = remaining /\ UNCHANGED <<jobs, status, cached, base>>
  BY DEF Examined, clusterVars, apiVars
<1>5. Sound(jobs, plan')
  <2>1. CASE Tail(todo) # <<>>
    BY <2>1 DEF Examined, OneInv, Sound
  <2>2. CASE Tail(todo) = <<>>
    <3>1. plan'.ops = remaining /\ plan'.legacy = LegacyOf(remaining)
      BY <2>2 DEF Examined, WithOps, Status
    <3>2. QED
      BY <3>1, LegacySound DEF Sound
  <2>3. QED
    BY <2>1, <2>2
<1>6. QED
  BY <1>2, <1>3, <1>4, <1>5 DEF OneInv

LEMMA OneExamine ==
  TypeInv /\ OneInv
  /\ (ExamineLost \/ ExamineObserved \/ ExamineTimedOut \/ ExamineKept) => OneInv'
<1> SUFFICES ASSUME TypeInv, OneInv,
                    ExamineLost \/ ExamineObserved \/ ExamineTimedOut \/ ExamineKept
             PROVE  OneInv'
  OBVIOUS
<1>1. pc = "examine"
  BY DEF ExamineLost, ExamineObserved, ExamineTimedOut, ExamineKept
<1>2. /\ plan \in Status /\ Rollback(plan, Head(todo).type, 1) \in Status
      /\ Rollback(plan, Head(todo).type, 1).ops = plan.ops
      /\ Rollback(plan, Head(todo).type, 1).legacy = plan.legacy
      /\ kept \in Seq(Op) /\ Distinct(kept) /\ Created(jobs, kept)
  BY <1>1, ExamineReads, RollbackKeeps DEF OneInv
<1>3. CASE ExamineLost \/ ExamineTimedOut
  <2>1. Examined(Rollback(plan, Head(todo).type, 1), kept)
    BY <1>3 DEF ExamineLost, ExamineTimedOut
  <2>2. QED
    BY <1>1, <1>2, <2>1, OneExamined
<1>4. CASE ExamineObserved
  <2>1. Examined(plan, kept)
    BY <1>4 DEF ExamineObserved
  <2>2. QED
    BY <1>1, <1>2, <2>1, OneExamined
<1>5. CASE ExamineKept
  <2> DEFINE op == Advanced(Head(todo))
  <2>1. Examined(plan, Append(kept, op))
    BY <1>5 DEF ExamineKept
  <2>2. /\ op \in Op /\ Append(kept, op) \in Seq(Op)
        /\ op.job = Head(todo).job /\ op.job \in JobIds
    BY <1>1, ExamineReads DEF Advanced, Op
  <2>3. Tracks(todo, op.job)
    BY <1>1, <2>2, HeadTailOps DEF TypeInv, TypeOK, ControlOK
  <2> HIDE DEF op
  <2>4. ~Tracks(kept, op.job) /\ jobs[op.job].state # "unborn"
    BY <2>2, <2>3 DEF OneInv, Created
  <2>5. \A j : Tracks(Append(kept, op), j) <=> Tracks(kept, j) \/ op.job = j
    BY <1>2, <2>2, AppendOps
  <2>6. Distinct(Append(kept, op)) /\ Created(jobs, Append(kept, op))
    BY <1>2, <2>2, <2>4, <2>5, AppendDistinct DEF Created
  <2>7. QED
    BY <1>1, <1>2, <2>1, <2>2, <2>5, <2>6, OneExamined
<1>6. QED
  BY <1>3, <1>4, <1>5

LEMMA OneStartSkipped == TypeInv /\ OneInv /\ StartSkipped => OneInv'
<1> SUFFICES ASSUME TypeInv, OneInv, StartSkipped PROVE OneInv'
  OBVIOUS
<1>1. plan'.ops = plan.ops /\ plan'.legacy = plan.legacy
  BY RollbackKeeps DEF StartSkipped, TypeInv, TypeOK
<1>2. UNCHANGED <<jobs, status, cached, base, todo, kept>>
  BY DEF StartSkipped, clusterVars, apiVars
<1>3. QED
  BY <1>1, <1>2 DEF OneInv, Sound

LEMMA OneStartJob ==
  ASSUME TypeInv, OneInv, NEW j \in JobIds, NEW n \in Nodes, StartJob(j, n)
  PROVE  OneInv'
<1> DEFINE op == [type |-> Kind, node |-> n, job |-> j, phase |-> "Running"]
<1>1. CreateJob(j, n) /\ plan' = WithOps(plan, Append(plan.ops, op))
  BY DEF StartJob
<1>2. op \in Op /\ op.job = j
  BY <1>1, CreateJobType
<1> HIDE DEF op
<1>3. plan \in Status /\ plan.ops \in Seq(Op)
  BY OpsTypes
<1>4. /\ plan'.ops = Append(plan.ops, op) /\ Append(plan.ops, op) \in Seq(Op)
      /\ plan'.legacy = LegacyOf(Append(plan.ops, op))
  BY <1>1, <1>2, <1>3 DEF WithOps, Status
<1>5. /\ Forward(jobs, jobs') /\ jobs[j].state = "unborn" /\ jobs'[j].state = "running"
  BY <1>1, CreateJobForward
<1>6. ~Tracks(plan.ops, j)
  BY <1>5 DEF OneInv, Sound, Created
<1>7. \A k : Tracks(Append(plan.ops, op), k) <=> Tracks(plan.ops, k) \/ op.job = k
  BY <1>2, <1>3, AppendOps
<1>8. Distinct(plan'.ops)
  BY <1>2, <1>3, <1>4, <1>6, AppendDistinct DEF OneInv, Sound
<1>9. Created(jobs', plan'.ops)
  BY <1>2, <1>4, <1>5, <1>7 DEF OneInv, Sound, Created, Forward
<1>10. Sound(jobs', plan')
  BY <1>4, <1>8, <1>9, LegacySound DEF Sound
<1>11. UNCHANGED <<status, cached, base, todo, kept>>
  BY DEF StartJob
<1>12. Sound(jobs', status) /\ Sound(jobs', cached) /\ Sound(jobs', base)
  BY <1>5, SoundForward DEF TypeInv, TypeOK, OneInv
<1>13. Created(jobs', todo) /\ Created(jobs', kept)
  BY <1>5 DEF OneInv, Created, Forward
<1>14. QED
  BY <1>10, <1>11, <1>12, <1>13 DEF OneInv

LEMMA OneStartError ==
  ASSUME TypeInv, OneInv, pc = "start", StartError, Forward(jobs, jobs'),
         UNCHANGED <<status, cached>>
  PROVE  OneInv'
<1>1. Sound(jobs', status') /\ Sound(jobs', cached')
  BY SoundForward DEF TypeInv, TypeOK, OneInv
<1>2. CASE started = 0
  BY <1>1, <1>2, OneReturn DEF StartError
<1>3. CASE started # 0
  <2>1. plan \in Status /\ Wanted - started \in Nat
    BY DEF TypeInv, TypeOK, ControlOK, Wanted
  <2>2. /\ plan'.ops = plan.ops /\ plan'.legacy = plan.legacy
        /\ UNCHANGED <<base, todo, kept>>
    BY <1>3, <2>1, RollbackKeeps DEF StartError
  <2>3. QED
    BY <1>1, <2>2, OneFrame
<1>4. QED
  BY <1>2, <1>3

LEMMA OnePatch == TypeInv /\ OneInv /\ Patch => OneInv'
<1> SUFFICES ASSUME TypeInv, OneInv, Patch PROVE OneInv'
  OBVIOUS
<1>1. /\ status' = MergePatch(status, base, plan) /\ Return /\ jobs' = jobs
      /\ cached' = cached \/ cached' = status'
  BY DEF Patch, clusterVars
<1>2. Sound(jobs, status')
  BY <1>1, MergeSound DEF OneInv
<1>3. QED
  BY <1>1, <1>2, OneReturn DEF OneInv

LEMMA OneNext == TypeInv /\ OneInv /\ [Next]_vars => OneInv'
<1> SUFFICES ASSUME TypeInv, OneInv, [Next]_vars PROVE OneInv'
  OBVIOUS
<1>1. CASE Reconcile
  <2>1. CASE StartRejected
    BY <2>1, SameForward, OneStartError DEF StartRejected, clusterVars, apiVars
  <2>2. QED
    BY <1>1, <2>1, OnePlan, OneExamine, OneStartSkipped, OneStartJob, OnePatch
    DEF Reconcile
<1>2. ASSUME NEW j \in JobIds, NEW n \in Nodes, StartLostReply(j, n) PROVE OneInv'
  <2>1. CreateJob(j, n) /\ StartError /\ pc = "start" /\ UNCHANGED <<status, cached>>
    BY <1>2 DEF StartLostReply, CreateJob, apiVars
  <2>2. QED
    BY <2>1, CreateJobForward, OneStartError
<1>3. CASE Abandon
  BY <1>3, OneReturn DEF Abandon, OneInv, clusterVars, apiVars
<1>4. CASE Environment
  <2>1. Forward(jobs, jobs')
    BY <1>4, EnvironmentForward
  <2>2. UNCHANGED <<status, reconcileVars>> /\ cached' \in {cached, status}
    BY <1>4 DEF Environment, JobStep, NodeJoins, NodeRemoved, JobCompletes, JobFails,
       JobReaped, JobEnds, Expires, NodeFlaps, Retarget, InformerSyncs, apiVars
  <2>3. Sound(jobs', cached')
    BY <2>1, <2>2, SoundForward DEF TypeInv, TypeOK, OneInv
  <2>4. QED
    BY <2>1, <2>2, <2>3, OneFrame DEF reconcileVars
<1>5. CASE UNCHANGED vars
  BY <1>5 DEF vars, clusterVars, apiVars, reconcileVars, OneInv
<1>6. QED
  BY <1>1, <1>2, <1>3, <1>4, <1>5 DEF Next

\* No Job is ever listed by two operations of the stored status, under every
\* fault: also when a reconcile replans from a stale informer, when a merge
\* patch mixes two statuses, and after a crash.
THEOREM OneOperationPerJobCorrect == Spec => []OneOperationPerJob
<1>1. Init => TypeInv /\ OneInv
  BY TypeInit, OneInit
<1>2. TypeInv /\ OneInv /\ [Next]_vars => TypeInv' /\ OneInv'
  BY TypeNext, OneNext
<1>3. OneInv => OneOperationPerJob
  BY DEF OneInv, Sound, Distinct, OneOperationPerJob
<1>4. QED
  BY <1>1, <1>2, <1>3, PTL DEF Spec

-----------------------------------------------------------------------------
(* More on counting.                                                       *)

\* A larger set holds at least as many operations, and more if it holds one
\* that the smaller does not.
LEMMA CountInGrows ==
  ASSUME NEW ops \in Seq(Op), NEW set, NEW larger,
         \A i \in DOMAIN ops : ops[i] \in set => ops[i] \in larger
  PROVE  /\ CountIn(ops, set) <= CountIn(ops, larger)
         /\ (\E i \in DOMAIN ops : ops[i] \in larger /\ ops[i] \notin set)
              => CountIn(ops, set) + 1 <= CountIn(ops, larger)
<1> DEFINE small == {i \in DOMAIN ops : ops[i] \in set}
           large == {i \in DOMAIN ops : ops[i] \in larger}
<1>1. IsFiniteSet(small) /\ IsFiniteSet(large) /\ small \subseteq large
  BY CountInFinite
<1>2. Cardinality(small) <= Cardinality(large)
  BY <1>1, FS_Subset
<1>3. Cardinality(small) \in Nat /\ Cardinality(large) \in Nat
  BY <1>1, FS_CardinalityType
<1>4. ASSUME NEW i \in large, i \notin small
      PROVE  Cardinality(small) + 1 <= Cardinality(large)
  <2> HIDE DEF small, large
  <2>1. small \in SUBSET (large \ {i}) /\ IsFiniteSet(large \ {i})
    BY <1>1, <1>4, FS_RemoveElement
  <2>2. Cardinality(small) <= Cardinality(large \ {i})
    BY <2>1, FS_Subset
  <2>3. Cardinality(large \ {i}) = Cardinality(large) - 1
    BY <1>1, <1>4, FS_RemoveElement
  <2>4. QED
    BY <1>3, <2>2, <2>3
<1>5. QED
  BY <1>2, <1>4 DEF CountIn

\* The operations in one of two sets, when no operation is in both.
LEMMA CountInParts ==
  ASSUME NEW ops \in Seq(Op), NEW whole, NEW one, NEW other,
         \A op \in Op : op \in whole <=> op \in one \/ op \in other,
         \A op \in Op : ~(op \in one /\ op \in other)
  PROVE  CountIn(ops, whole) = CountIn(ops, one) + CountIn(ops, other)
<1> DEFINE all == {i \in DOMAIN ops : ops[i] \in whole}
           left == {i \in DOMAIN ops : ops[i] \in one}
           right == {i \in DOMAIN ops : ops[i] \in other}
<1>1. \A i \in DOMAIN ops : ops[i] \in Op
  OBVIOUS
<1>2. all = left \union right /\ left \intersect right = {}
  BY <1>1
<1>3. IsFiniteSet(left) /\ IsFiniteSet(right)
  BY CountInFinite
<1> HIDE DEF all, left, right
<1>4. Cardinality(left \intersect right) = 0
  BY <1>2, FS_EmptySet
<1>5. Cardinality(all) = Cardinality(left) + Cardinality(right) - 0
  BY <1>2, <1>3, <1>4, FS_Union
<1>6. Cardinality(left) \in Nat /\ Cardinality(right) \in Nat
  BY <1>3, FS_CardinalityType
<1>7. QED
  BY <1>5, <1>6 DEF CountIn, all, left, right

\* Each of the nodes has an operation of its own in the set.
LEMMA CountInNodes ==
  ASSUME NEW ops \in Seq(Op), NEW set, NEW some,
         \A n \in some : \E i \in DOMAIN ops : ops[i].node = n /\ ops[i] \in set
  PROVE  IsFiniteSet(some) /\ Cardinality(some) <= CountIn(ops, set)
<1> DEFINE counted == {i \in DOMAIN ops : ops[i] \in set}
           index == [n \in some |-> CHOOSE i \in counted : ops[i].node = n]
<1>1. \A n \in some : \E i \in counted : ops[i].node = n
  OBVIOUS
<1>2. IsFiniteSet(counted)
  BY CountInFinite
<1> HIDE DEF counted
<1>3. \A n \in some : index[n] \in counted /\ ops[index[n]].node = n
  BY <1>1
<1>4. index \in [some -> counted] /\ \A m, n \in some : index[m] = index[n] => m = n
  BY <1>3
<1> HIDE DEF index
<1>5. index \in Injection(some, counted)
  BY <1>4, Fun_IsInj
<1>6. IsFiniteSet(some) /\ Cardinality(some) <= Cardinality(counted)
  BY <1>2, <1>5, FS_Injection
<1>7. QED
  BY <1>6 DEF CountIn, counted

-----------------------------------------------------------------------------
(* What is so in the cluster when nothing fails but reads and creations of *)
(* Jobs: a create Job makes its own node, a Job that has ended has done    *)
(* its work, and every operation says what its Job does.                   *)

Quiet == Faults \subseteq {"get", "create"}

Settled(ns, js) ==
  /\ \A j \in JobIds :
       /\ js[j].type = "create" => js[j].node = j
       /\ js[j].state \in {"unborn", "running", "complete"}
       /\ js[j].state = "unborn" => ns[j] = "unborn"
       /\ js[j].state = "complete" =>
            IF js[j].type = "create" THEN ns[j] # "unborn" ELSE ns[js[j].node] = "gone"
       /\ js[j].type = "delete" => ns[js[j].node] # "unborn"
  /\ \A n \in Nodes : ns[n] # "notready"

Matched(js, ops) ==
  \A i \in DOMAIN ops : /\ js[ops[i].job].type = ops[i].type
                        /\ js[ops[i].job].node = ops[i].node

WorldInv ==
  /\ Settled(nodes, jobs) /\ expired = {}
  /\ Matched(jobs, status.ops) /\ Matched(jobs, plan.ops)
  /\ Matched(jobs, todo) /\ Matched(jobs, kept)

LEMMA MatchedEmpty == \A js : Matched(js, <<>>)
BY DEF Matched

LEMMA MatchedTail ==
  ASSUME NEW ops \in Seq(Op), ops # <<>>, NEW js, Matched(js, ops)
  PROVE  /\ Matched(js, Tail(ops))
         /\ js[Head(ops).job].type = Head(ops).type
         /\ js[Head(ops).job].node = Head(ops).node
<1>1. /\ Len(ops) \in Nat \ {0} /\ DOMAIN ops = 1..Len(ops) /\ Head(ops) = ops[1]
      /\ DOMAIN Tail(ops) = 1..(Len(ops) - 1)
      /\ \A i \in 1..(Len(ops) - 1) : Tail(ops)[i] = ops[i + 1]
  OBVIOUS
<1>2. \A i \in DOMAIN Tail(ops) : i + 1 \in DOMAIN ops /\ ops[i + 1] = Tail(ops)[i]
  BY <1>1
<1>3. 1 \in DOMAIN ops
  BY <1>1
<1>4. QED
  BY <1>1, <1>2, <1>3 DEF Matched

LEMMA MatchedAppend ==
  ASSUME NEW ops \in Seq(Op), NEW op \in Op, NEW js, Matched(js, ops),
         js[op.job].type = op.type, js[op.job].node = op.node
  PROVE  Matched(js, Append(ops, op))
<1> DEFINE longer == Append(ops, op)
<1>1. /\ DOMAIN longer = DOMAIN ops \union {Len(ops) + 1}
      /\ \A i \in DOMAIN ops : longer[i] = ops[i]
      /\ longer[Len(ops) + 1] = op
  OBVIOUS
<1> HIDE DEF longer
<1>2. Matched(js, longer)
  BY <1>1 DEF Matched
<1>3. QED
  BY <1>2 DEF longer

\* A Job that has been created keeps its type and its node.
Same(js, next) ==
  \A j \in JobIds : js[j].state # "unborn" =>
    next[j].type = js[j].type /\ next[j].node = js[j].node

LEMMA MatchedSame ==
  ASSUME NEW ops \in Seq(Op), NEW js, NEW next, Same(js, next), Begun(js, ops),
         Matched(js, ops)
  PROVE  Matched(next, ops)
<1>1. \A i \in DOMAIN ops : ops[i] \in Op
  OBVIOUS
<1>2. \A i \in DOMAIN ops : ops[i].job \in JobIds
  BY <1>1 DEF Op
<1>3. QED
  BY <1>2 DEF Begun, Matched, Same

LEMMA WorldInit == Init => WorldInv
<1> SUFFICES ASSUME Init PROVE WorldInv
  OBVIOUS
<1>1. /\ status.ops = <<>> /\ plan.ops = <<>> /\ todo = <<>> /\ kept = <<>>
      /\ expired = {}
  BY EmptyStatusConsistent DEF Init
<1>2. Settled(nodes, jobs)
  BY NodesAssumption DEF Init, Settled, Nodes
<1>3. QED
  BY <1>1, <1>2, MatchedEmpty DEF WorldInv

\* A step that changes neither the cluster nor the stored operations.
LEMMA WorldStep ==
  ASSUME WorldInv, UNCHANGED <<nodes, jobs, expired>>,
         Matched(jobs, status'.ops), Matched(jobs, plan'.ops),
         Matched(jobs, todo'), Matched(jobs, kept')
  PROVE  WorldInv'
BY DEF WorldInv, Settled

LEMMA WorldReturn ==
  ASSUME WorldInv, Return, UNCHANGED <<nodes, jobs, expired>>, Matched(jobs, status'.ops)
  PROVE  WorldInv'
<1>1. plan'.ops = <<>> /\ todo' = <<>> /\ kept' = <<>>
  BY EmptyStatusConsistent DEF Return
<1>2. QED
  BY <1>1, MatchedEmpty, WorldStep

LEMMA WorldPlan == StrongInv /\ WorldInv /\ Plan => WorldInv'
<1> SUFFICES ASSUME StrongInv, WorldInv, Plan PROVE WorldInv'
  OBVIOUS
<1>1. PICK unschedulable \in UnschedulableCounts : PlanSeeing(unschedulable)
  BY DEF Plan
<1>2. ActiveOperations(cached) = status.ops
  BY OpsTypes, ConsistentOps DEF StrongInv, ConsistentInv
<1>3. todo' = status.ops /\ kept' = <<>>
  BY <1>1, <1>2 DEF PlanSeeing
<1>4. plan'.ops = status.ops
  BY <1>1, <1>2, EnsureWorkersConsistent DEF PlanSeeing, StrongInv, TypeInv, TypeOK
<1>5. UNCHANGED <<status, nodes, jobs, expired>>
  BY DEF Plan, clusterVars
<1>6. QED
  BY <1>3, <1>4, <1>5, MatchedEmpty, WorldStep DEF WorldInv

\* The loop examines an operation whose Job runs or has done its work: it is
\* never lost, nor timed out.
LEMMA ExamineSettled ==
  ASSUME StrongInv, WorldInv, pc = "examine"
  PROVE  /\ todo # <<>> /\ todo \in Seq(Op) /\ Head(todo) \in Op
         /\ Advanced(Head(todo)) \in Op
         /\ Advanced(Head(todo)).type = Head(todo).type
         /\ Advanced(Head(todo)).node = Head(todo).node
         /\ Advanced(Head(todo)).job = Head(todo).job
         /\ jobs[Head(todo).job].type = Head(todo).type
         /\ jobs[Head(todo).job].node = Head(todo).node
         /\ jobs[Head(todo).job].state \in {"running", "complete"}
         /\ Advanced(Head(todo)).phase = "WaitingForObservation"
              => jobs[Head(todo).job].state = "complete"
         /\ ~ExamineLost /\ ~ExamineTimedOut
<1>1. todo # <<>> /\ todo \in Seq(Op)
  BY OpsTypes DEF StrongInv, TypeInv, ControlOK
<1>2. /\ Head(todo) \in Op /\ Head(todo).job \in JobIds
      /\ jobs[Head(todo).job].state # "unborn"
      /\ Advanced(Head(todo)).phase = "WaitingForObservation"
           => jobs[Head(todo).job].state # "running"
  BY ExamineKnows
<1>3. /\ Advanced(Head(todo)) \in Op
      /\ Advanced(Head(todo)).type = Head(todo).type
      /\ Advanced(Head(todo)).node = Head(todo).node
      /\ Advanced(Head(todo)).job = Head(todo).job
  BY <1>2, AdvancedType DEF Advanced, Op
<1>4. jobs[Head(todo).job].type = Head(todo).type /\ jobs[Head(todo).job].node = Head(todo).node
  BY <1>1, MatchedTail DEF WorldInv
<1>5. jobs[Head(todo).job].state \in {"unborn", "running", "complete"}
  BY <1>2 DEF WorldInv, Settled
<1>6. unseen = {} /\ expired = {}
  BY DEF StrongInv, ConsistentInv, WorldInv
<1>7. ~ExamineLost /\ ~ExamineTimedOut
  BY <1>5, <1>6 DEF ExamineLost, ExamineTimedOut, TimedOut
<1>8. QED
  BY <1>1, <1>2, <1>3, <1>4, <1>5, <1>7

LEMMA WorldExamined ==
  ASSUME StrongInv, WorldInv, pc = "examine",
         NEW remaining \in Seq(Op), Matched(jobs, remaining), Examined(plan, remaining)
  PROVE  WorldInv'
<1>1. Matched(jobs, Tail(todo))
  BY ExamineSettled, MatchedTail DEF WorldInv
<1>2. todo' = Tail(todo) /\ kept' = remaining /\ UNCHANGED <<status, nodes, jobs, expired>>
  BY DEF Examined, clusterVars, apiVars
<1>3. plan'.ops \in {plan.ops, remaining}
  BY OpsTypes DEF Examined, WithOps, Status, StrongInv
<1>4. QED
  BY <1>1, <1>2, <1>3, WorldStep DEF WorldInv

LEMMA WorldExamine ==
  StrongInv /\ WorldInv /\ (ExamineObserved \/ ExamineKept) => WorldInv'
<1> SUFFICES ASSUME StrongInv, WorldInv, ExamineObserved \/ ExamineKept PROVE WorldInv'
  OBVIOUS
<1>1. pc = "examine" /\ kept \in Seq(Op) /\ Matched(jobs, kept)
  BY OpsTypes DEF ExamineObserved, ExamineKept, StrongInv, WorldInv
<1>2. CASE ExamineObserved
  BY <1>1, <1>2, WorldExamined DEF ExamineObserved
<1>3. CASE ExamineKept
  <2> DEFINE op == Advanced(Head(todo))
  <2>1. op \in Op /\ jobs[op.job].type = op.type /\ jobs[op.job].node = op.node
    BY <1>1, ExamineSettled
  <2>2. Examined(plan, Append(kept, op))
    BY <1>3 DEF ExamineKept
  <2> HIDE DEF op
  <2>3. Append(kept, op) \in Seq(Op) /\ Matched(jobs, Append(kept, op))
    BY <1>1, <2>1, MatchedAppend
  <2>4. QED
    BY <1>1, <2>2, <2>3, WorldExamined
<1>4. QED
  BY <1>2, <1>3

LEMMA WorldStartSkipped == StrongInv /\ WorldInv /\ StartSkipped => WorldInv'
<1> SUFFICES ASSUME StrongInv, WorldInv, StartSkipped PROVE WorldInv'
  OBVIOUS
<1>1. plan'.ops = plan.ops
  BY OpsTypes, RollbackConsistent DEF StartSkipped, StrongInv, ConsistentInv
<1>2. UNCHANGED <<nodes, jobs, expired, status, todo, kept>>
  BY DEF StartSkipped, clusterVars, apiVars
<1>3. QED
  BY <1>1, <1>2, WorldStep DEF WorldInv

\* What starting a Job changes.
LEMMA StartJobKnows ==
  ASSUME StrongInv, WorldInv, NEW j \in JobIds, NEW n \in Nodes, StartJob(j, n)
  PROVE  LET op == [type |-> Kind, node |-> n, job |-> j, phase |-> "Running"]
         IN  /\ op \in Op /\ plan.ops \in Seq(Op) /\ plan'.ops = Append(plan.ops, op)
             /\ plan'.observed = plan.observed
             /\ jobs[j].state = "unborn" /\ nodes[j] = "unborn"
             /\ jobs'[j] = [type |-> Kind, node |-> n, state |-> "running"]
             /\ \A k \in JobIds \ {j} : jobs'[k] = jobs[k]
             /\ IF Kind = "create" THEN n = j ELSE nodes[n] = "ready"
             /\ pc = "start" /\ started' = started + 1
             /\ pc' = IF started + 1 < Wanted THEN "start" ELSE "patch"
             /\ UNCHANGED <<nodes, expired, status, todo, kept, toCreate, toDelete>>
<1> DEFINE op == [type |-> Kind, node |-> n, job |-> j, phase |-> "Running"]
<1>1. /\ CreateJob(j, n) /\ plan' = WithOps(plan, Append(plan.ops, op))
      /\ started' = started + 1
      /\ pc' = IF started + 1 < Wanted THEN "start" ELSE "patch"
      /\ UNCHANGED <<status, todo, kept, toCreate, toDelete>>
  BY DEF StartJob
<1>2. /\ pc = "start" /\ jobs[j].state = "unborn" /\ UNCHANGED <<nodes, expired>>
      /\ IF Kind = "create" THEN n = j ELSE n \in ReadyNodes
      /\ jobs' = [jobs EXCEPT ![j] = [type |-> Kind, node |-> n, state |-> "running"]]
  BY <1>1 DEF CreateJob
<1>3. op \in Op
  BY <1>1, CreateJobType DEF StrongInv
<1> HIDE DEF op
<1>4. /\ plan'.ops = Append(plan.ops, op) /\ plan.ops \in Seq(Op)
      /\ plan'.observed = plan.observed
  BY <1>1, OpsTypes DEF WithOps, Status, StrongInv
<1>5. /\ jobs'[j] = [type |-> Kind, node |-> n, state |-> "running"]
      /\ \A k \in JobIds \ {j} : jobs'[k] = jobs[k]
  BY <1>2 DEF StrongInv, TypeInv, TypeOK
<1>6. nodes[j] = "unborn"
  BY <1>2 DEF WorldInv, Settled
<1>7. QED
  BY <1>1, <1>2, <1>3, <1>4, <1>5, <1>6 DEF op, ReadyNodes

LEMMA WorldStartJob ==
  ASSUME StrongInv, WorldInv, NEW j \in JobIds, NEW n \in Nodes, StartJob(j, n)
  PROVE  WorldInv'
<1> DEFINE op == [type |-> Kind, node |-> n, job |-> j, phase |-> "Running"]
<1>1. /\ op \in Op /\ plan.ops \in Seq(Op) /\ plan'.ops = Append(plan.ops, op)
      /\ jobs[j].state = "unborn" /\ nodes[j] = "unborn"
      /\ jobs'[j] = [type |-> Kind, node |-> n, state |-> "running"]
      /\ \A k \in JobIds \ {j} : jobs'[k] = jobs[k]
      /\ IF Kind = "create" THEN n = j ELSE nodes[n] = "ready"
      /\ UNCHANGED <<nodes, expired, status, todo, kept>>
  BY StartJobKnows
<1>2. Same(jobs, jobs')
  BY <1>1 DEF Same
<1>3. /\ Matched(jobs', status.ops) /\ Matched(jobs', plan.ops)
      /\ Matched(jobs', todo) /\ Matched(jobs', kept)
  BY <1>2, OpsTypes, MatchedSame DEF StrongInv, TrackingInv, WorldInv
<1>4. op.job = j /\ op.type = Kind /\ op.node = n
  OBVIOUS
<1> HIDE DEF op
<1>5. jobs'[op.job].type = op.type /\ jobs'[op.job].node = op.node
  BY <1>1, <1>4
<1>6. Matched(jobs', plan'.ops)
  BY <1>1, <1>3, <1>5, MatchedAppend
<1>7. Settled(nodes', jobs')
  BY <1>1, KindType DEF WorldInv, Settled, OpTypes
<1>8. QED
  BY <1>1, <1>3, <1>6, <1>7 DEF WorldInv

\* A refused creation ends the reconcile, or goes to the patch with the plan's
\* operations.
LEMMA StartRejectedKnows ==
  ASSUME StrongInv, StartRejected
  PROVE  /\ pc = "start" /\ UNCHANGED <<nodes, jobs, target, expired, status>>
         /\ \/ started = 0 /\ Return
            \/ /\ started # 0 /\ pc' = "patch"
               /\ plan'.ops = plan.ops /\ plan'.observed = plan.observed
               /\ UNCHANGED <<todo, kept, toCreate, toDelete, started>>
<1>1. pc = "start" /\ StartError /\ UNCHANGED <<nodes, jobs, target, expired, status>>
  BY DEF StartRejected, clusterVars, apiVars
<1>2. CASE started = 0
  BY <1>1, <1>2 DEF StartError
<1>3. CASE started # 0
  <2>1. plan \in Status /\ Wanted - started \in Nat
    BY <1>1 DEF StrongInv, TypeInv, TypeOK, ControlOK, Wanted
  <2>2. /\ plan' = Rollback(plan, Kind, Wanted - started) /\ pc' = "patch"
        /\ UNCHANGED <<todo, kept, toCreate, toDelete, started>>
    BY <1>1, <1>3 DEF StartError
  <2>3. plan'.ops = plan.ops /\ plan'.observed = plan.observed
    BY <2>1, <2>2, RollbackKeeps
  <2>4. QED
    BY <1>1, <1>3, <2>2, <2>3
<1>4. QED
  BY <1>2, <1>3

LEMMA WorldStartRejected == StrongInv /\ WorldInv /\ StartRejected => WorldInv'
BY StartRejectedKnows, WorldReturn, WorldStep DEF WorldInv

LEMMA WorldPatch == StrongInv /\ WorldInv /\ Patch => WorldInv'
<1> SUFFICES ASSUME StrongInv, WorldInv, Patch PROVE WorldInv'
  OBVIOUS
<1>1. status' = plan /\ Return /\ UNCHANGED <<nodes, jobs, expired>>
  BY ConsistentPatch DEF Patch, StrongInv, clusterVars
<1>2. QED
  BY <1>1, WorldReturn DEF WorldInv

\* A node joins while its create Job runs, leaves while a delete Job runs, and
\* a Job completes once its node has: nothing else moves the cluster.
LEMMA EnvironmentQuiet ==
  ASSUME Quiet, StrongInv, Environment
  PROVE  /\ UNCHANGED <<status, expired, reconcileVars>>
         /\ \/ \E j \in JobIds : JobStep(j)
            \/ UNCHANGED <<nodes, jobs>>
<1>1. /\ ~(\E j \in JobIds : JobFails(j) \/ JobReaped(j) \/ Expires(j))
      /\ ~(\E n \in Nodes : NodeFlaps(n))
  BY DEF Quiet, JobFails, JobReaped, Expires, NodeFlaps
<1>2. CASE Retarget
  BY <1>2 DEF Retarget
<1>3. CASE InformerSyncs
  BY <1>3 DEF InformerSyncs, clusterVars
<1>4. CASE \E j \in JobIds : JobStep(j)
  BY <1>4 DEF JobStep, NodeJoins, NodeRemoved, JobCompletes, JobEnds, apiVars
<1>5. QED
  BY <1>1, <1>2, <1>3, <1>4 DEF Environment

LEMMA JobStepKnows ==
  ASSUME Quiet, StrongInv, WorldInv, NEW j \in JobIds, JobStep(j)
  PROVE  /\ jobs[j].state = "running" /\ jobs[j].node \in Nodes /\ j \in Nodes
         /\ \/ /\ jobs[j].type = "create" /\ jobs[j].node = j /\ jobs' = jobs
               /\ nodes[j] = "unborn" /\ nodes'[j] = "ready"
               /\ \A n \in Nodes \ {j} : nodes'[n] = nodes[n]
            \/ /\ jobs[j].type = "delete" /\ jobs' = jobs
               /\ nodes[jobs[j].node] = "ready" /\ nodes'[jobs[j].node] = "gone"
               /\ \A n \in Nodes \ {jobs[j].node} : nodes'[n] = nodes[n]
            \/ /\ nodes' = nodes /\ jobs'[j].state = "complete"
               /\ jobs'[j].type = jobs[j].type /\ jobs'[j].node = jobs[j].node
               /\ IF jobs[j].type = "create" THEN nodes[j] # "unborn"
                                             ELSE nodes[jobs[j].node] = "gone"
               /\ \A k \in JobIds \ {j} : jobs'[k] = jobs[k]
<1>1. /\ nodes \in [Nodes -> NodeStates] /\ jobs[j].node \in Nodes /\ j \in Nodes
      /\ jobs \in [JobIds -> [type : OpTypes, node : Nodes, state : JobStates]]
  BY DEF StrongInv, TypeInv, TypeOK, Nodes
<1>2. CASE NodeJoins(j)
  <2>1. jobs[j].state = "running" /\ jobs[j].node = j
    BY <1>2 DEF NodeJoins, Quiet, WorldInv, Settled
  <2>2. QED
    BY <1>1, <1>2, <2>1 DEF NodeJoins
<1>3. CASE NodeRemoved(j)
  <2>1. nodes[jobs[j].node] = "ready"
    BY <1>1, <1>3 DEF NodeRemoved, WorldInv, Settled
  <2>2. QED
    BY <1>1, <1>3, <2>1 DEF NodeRemoved
<1>4. CASE JobCompletes(j)
  BY <1>1, <1>4 DEF JobCompletes, JobEnds
<1>5. QED
  BY <1>2, <1>3, <1>4 DEF JobStep

LEMMA SettledStep ==
  ASSUME Quiet, StrongInv, WorldInv, NEW j \in JobIds, JobStep(j)
  PROVE  Settled(nodes', jobs') /\ Same(jobs, jobs')
<1>1. /\ \A k \in JobIds :
           /\ jobs[k].type = "create" => jobs[k].node = k
           /\ jobs[k].state \in {"unborn", "running", "complete"}
           /\ jobs[k].state = "unborn" => nodes[k] = "unborn"
           /\ jobs[k].state = "complete" =>
                IF jobs[k].type = "create" THEN nodes[k] # "unborn"
                                           ELSE nodes[jobs[k].node] = "gone"
           /\ jobs[k].type = "delete" => nodes[jobs[k].node] # "unborn"
      /\ \A n \in Nodes : nodes[n] # "notready"
  BY DEF WorldInv, Settled
<1>2. \A k \in JobIds : k \in Nodes /\ jobs[k].node \in Nodes /\ jobs[k].type \in OpTypes
  BY DEF StrongInv, TypeInv, TypeOK, Nodes
<1>3. CASE /\ jobs[j].type = "create" /\ jobs[j].node = j /\ jobs' = jobs
           /\ nodes[j] = "unborn" /\ nodes'[j] = "ready"
           /\ \A n \in Nodes \ {j} : nodes'[n] = nodes[n]
  <2>1. jobs[j].state = "running"
    BY JobStepKnows
  <2>2. QED
    BY <1>1, <1>2, <1>3, <2>1 DEF Settled, Same, OpTypes
<1>4. CASE /\ jobs[j].type = "delete" /\ jobs' = jobs
           /\ nodes[jobs[j].node] = "ready" /\ nodes'[jobs[j].node] = "gone"
           /\ \A n \in Nodes \ {jobs[j].node} : nodes'[n] = nodes[n]
  BY <1>1, <1>2, <1>4 DEF Settled, Same, OpTypes
<1>5. CASE /\ nodes' = nodes /\ jobs'[j].state = "complete"
           /\ jobs'[j].type = jobs[j].type /\ jobs'[j].node = jobs[j].node
           /\ IF jobs[j].type = "create" THEN nodes[j] # "unborn"
                                         ELSE nodes[jobs[j].node] = "gone"
           /\ \A k \in JobIds \ {j} : jobs'[k] = jobs[k]
  BY <1>1, <1>2, <1>5 DEF Settled, Same
<1>6. QED
  BY <1>3, <1>4, <1>5, JobStepKnows

LEMMA WorldEnvironment ==
  ASSUME Quiet, StrongInv, WorldInv, Environment
  PROVE  WorldInv'
<1>1. UNCHANGED <<status, expired, reconcileVars>>
  BY EnvironmentQuiet
<1>2. CASE UNCHANGED <<nodes, jobs>>
  BY <1>1, <1>2 DEF WorldInv, reconcileVars, Settled
<1>3. ASSUME NEW j \in JobIds, JobStep(j) PROVE WorldInv'
  <2>1. Settled(nodes', jobs') /\ Same(jobs, jobs')
    BY <1>3, SettledStep
  <2>2. /\ Matched(jobs', status.ops) /\ Matched(jobs', plan.ops)
        /\ Matched(jobs', todo) /\ Matched(jobs', kept)
    BY <2>1, OpsTypes, MatchedSame DEF StrongInv, TrackingInv, WorldInv
  <2>3. QED
    BY <1>1, <2>1, <2>2 DEF WorldInv, reconcileVars
<1>4. QED
  BY <1>2, <1>3, EnvironmentQuiet

LEMMA WorldNext ==
  ASSUME Quiet, StrongInv, WorldInv, [Next]_vars
  PROVE  WorldInv'
<1>1. CASE Reconcile
  <2>1. ~ExamineLost /\ ~ExamineTimedOut
    BY ExamineSettled DEF ExamineLost, ExamineTimedOut
  <2>2. QED
    BY <1>1, <2>1, WorldPlan, WorldExamine, WorldStartSkipped, WorldStartJob,
       WorldStartRejected, WorldPatch DEF Reconcile
<1>2. ASSUME NEW j \in JobIds, NEW n \in Nodes, StartLostReply(j, n) PROVE WorldInv'
  BY <1>2 DEF StartLostReply, Quiet
<1>3. CASE Abandon
  <2>1. Return /\ UNCHANGED <<status, nodes, jobs, expired>>
    BY <1>3 DEF Abandon, clusterVars, apiVars
  <2>2. QED
    BY <2>1, WorldReturn DEF WorldInv
<1>4. CASE Environment
  BY <1>4, WorldEnvironment
<1>5. CASE UNCHANGED vars
  BY <1>5 DEF vars, clusterVars, apiVars, reconcileVars, WorldInv, Settled
<1>6. QED
  BY <1>1, <1>2, <1>3, <1>4, <1>5 DEF Next

-----------------------------------------------------------------------------
(* The operations explain the Ready count.  It is higher than the count a  *)
(* status has recorded by no more than the creations of that status whose  *)
(* nodes have joined, and lower by no more than the deletions whose nodes  *)
(* are gone; in the loop, what the budgets still hold is explained as      *)
(* well.  That is why the change of a number may acknowledge operations.   *)

Joined  == {op \in Op : op.type = "create" /\ nodes[op.node] # "unborn"}
Removed == {op \in Op : op.type = "delete" /\ nodes[op.node] = "gone"}

Ready == Cardinality(ReadyNodes)

Explained(s) ==
  /\ Ready - s.observed <= CountIn(s.ops, Joined)
  /\ s.observed - Ready <= CountIn(s.ops, Removed)

BalanceInv ==
  /\ pc \in {"idle", "examine"} \/ (pc = "start" /\ started = 0)
       => status.ops = <<>> \/ Explained(status)
  /\ pc = "examine" =>
       /\ Ready - plan.observed + createBudget
            <= CountIn(todo, Joined) + CountIn(kept, Joined)
       /\ plan.observed - Ready + deleteBudget
            <= CountIn(todo, Removed) + CountIn(kept, Removed)
  /\ pc \in {"start", "patch"} => Explained(plan)

QuietInv == StrongInv /\ RunningInv /\ WorldInv

LEMMA ReadyFinite ==
  ASSUME NEW set \in SUBSET Nodes
  PROVE  IsFiniteSet(set) /\ Cardinality(set) \in Nat
<1>1. IsFiniteSet(Nodes)
  BY NodesAssumption, FS_Union DEF Nodes
<1>2. QED
  BY <1>1, FS_Subset, FS_CardinalityType

LEMMA BalanceInit == Init => BalanceInv
<1> SUFFICES ASSUME Init PROVE BalanceInv
  OBVIOUS
<1>1. status.ops = <<>> /\ pc = "idle"
  BY EmptyStatusConsistent DEF Init
<1>2. QED
  BY <1>1 DEF BalanceInv

\* A step that leaves the cluster and both statuses alone.
LEMMA BalanceFrame ==
  ASSUME BalanceInv, UNCHANGED <<nodes, status>>,
         pc' \in {"start", "patch"} => pc \in {"start", "patch"}
           /\ plan'.ops = plan.ops /\ plan'.observed = plan.observed,
         pc' # "examine",
         pc' = "idle" \/ (pc' = "start" /\ started' = 0) =>
           pc \in {"idle", "examine"} \/ (pc = "start" /\ started = 0)
  PROVE  BalanceInv'
<1>1. Ready' = Ready /\ Joined' = Joined /\ Removed' = Removed
  BY DEF Ready, ReadyNodes, Joined, Removed
<1>2. QED
  BY <1>1 DEF BalanceInv, Explained

LEMMA BalancePlan == StrongInv /\ BalanceInv /\ Plan => BalanceInv'
<1> SUFFICES ASSUME StrongInv, BalanceInv, Plan PROVE BalanceInv'
  OBVIOUS
<1>1. PICK unschedulable \in UnschedulableCounts : PlanSeeing(unschedulable)
  BY DEF Plan
<1>2. ActiveOperations(cached) = status.ops /\ cached = status
  BY OpsTypes, ConsistentOps DEF StrongInv, ConsistentInv
<1>3. /\ todo' = status.ops /\ kept' = <<>> /\ started' = 0
      /\ createBudget' = maxInt32(Ready - status.observed, 0)
      /\ deleteBudget' = maxInt32(status.observed - Ready, 0)
      /\ IF status.ops # <<>> THEN pc' = "examine" ELSE pc' \in {"start", "patch"}
  BY <1>1, <1>2 DEF PlanSeeing, Ready
<1>4. plan'.ops = status.ops /\ plan'.observed = Ready
  BY <1>1, <1>2 DEF PlanSeeing, EnsureWorkers, Ready
<1>5. pc = "idle" /\ UNCHANGED <<status, nodes>>
  BY DEF Plan, clusterVars
<1>6. Ready' = Ready /\ Joined' = Joined /\ Removed' = Removed
  BY <1>5 DEF Ready, ReadyNodes, Joined, Removed
<1>7. /\ Ready \in Nat /\ status.observed \in Nat
      /\ CountIn(status.ops, Joined) \in Nat /\ CountIn(status.ops, Removed) \in Nat
  BY ReadyFinite, OpsTypes, CountInFinite DEF Ready, ReadyNodes, StrongInv, Status
<1>8. CountIn(<<>>, Joined) = 0 /\ CountIn(<<>>, Removed) = 0
  BY CountInEmpty
<1>9. CASE status.ops = <<>>
  <2>1. Explained(plan)'
    BY <1>4, <1>6, <1>7, <1>8, <1>9 DEF Explained
  <2>2. QED
    BY <1>3, <1>5, <1>9, <2>1 DEF BalanceInv
<1>10. CASE status.ops # <<>>
  <2>1. Explained(status) /\ Explained(status)'
    BY <1>5, <1>6, <1>10 DEF BalanceInv, Explained
  <2>2. /\ Ready - Ready + createBudget' <= CountIn(status.ops, Joined) + 0
        /\ Ready - Ready + deleteBudget' <= CountIn(status.ops, Removed) + 0
    BY <1>3, <1>7, <2>1 DEF Explained, maxInt32
  <2>3. QED
    BY <1>3, <1>4, <1>6, <1>8, <1>10, <2>1, <2>2 DEF BalanceInv
<1>11. QED
  BY <1>9, <1>10

LEMMA BalanceExamined ==
  ASSUME StrongInv, BalanceInv, pc = "examine",
         NEW remaining \in Seq(Op), Examined(plan, remaining),
         createBudget' \in Nat, deleteBudget' \in Nat,
         Ready - plan.observed + createBudget'
           <= CountIn(Tail(todo), Joined) + CountIn(remaining, Joined),
         plan.observed - Ready + deleteBudget'
           <= CountIn(Tail(todo), Removed) + CountIn(remaining, Removed)
  PROVE  BalanceInv'
<1>1. /\ todo' = Tail(todo) /\ kept' = remaining
      /\ UNCHANGED <<status, nodes, started>>
  BY DEF Examined, clusterVars, apiVars
<1>2. Ready' = Ready /\ Joined' = Joined /\ Removed' = Removed
  BY <1>1 DEF Ready, ReadyNodes, Joined, Removed
<1>3. status.ops = <<>> \/ Explained(status)
  BY DEF BalanceInv
<1>4. CASE Tail(todo) # <<>>
  <2>1. plan' = plan /\ pc' = "examine"
    BY <1>4 DEF Examined
  <2>2. QED
    BY <1>1, <1>2, <1>3, <2>1 DEF BalanceInv, Explained
<1>5. CASE Tail(todo) = <<>>
  <2>1. plan' = WithOps(plan, remaining) /\ pc' \in {"start", "patch"}
    BY <1>5 DEF Examined
  <2>2. plan'.ops = remaining /\ plan'.observed = plan.observed
    BY <2>1, OpsTypes DEF WithOps, Status, StrongInv
  <2>3. CountIn(Tail(todo), Joined) = 0 /\ CountIn(Tail(todo), Removed) = 0
    BY <1>5, CountInEmpty
  <2>4. /\ Ready \in Nat /\ plan.observed \in Nat
        /\ CountIn(remaining, Joined) \in Nat /\ CountIn(remaining, Removed) \in Nat
    BY ReadyFinite, OpsTypes, CountInFinite DEF Ready, ReadyNodes, StrongInv, Status
  <2>5. /\ Ready - plan.observed <= CountIn(remaining, Joined)
        /\ plan.observed - Ready <= CountIn(remaining, Removed)
    BY <2>3, <2>4
  <2>6. Explained(plan)'
    BY <1>2, <2>2, <2>5 DEF Explained
  <2>7. QED
    BY <1>1, <1>2, <1>3, <2>1, <2>6 DEF BalanceInv, Explained
<1>6. QED
  BY <1>4, <1>5

LEMMA BalanceExamine ==
  StrongInv /\ WorldInv /\ BalanceInv /\ (ExamineObserved \/ ExamineKept) => BalanceInv'
<1> SUFFICES ASSUME StrongInv, WorldInv, BalanceInv, ExamineObserved \/ ExamineKept
             PROVE  BalanceInv'
  OBVIOUS
<1> DEFINE op == Head(todo)
           next == Advanced(op)
<1>1. pc = "examine" /\ kept \in Seq(Op) /\ TypeInv
  BY OpsTypes DEF ExamineObserved, ExamineKept, StrongInv
<1>2. /\ todo # <<>> /\ todo \in Seq(Op) /\ op \in Op /\ Tail(todo) \in Seq(Op)
      /\ next \in Op /\ next.type = op.type /\ next.node = op.node
      /\ op.job \in JobIds
      /\ jobs[op.job].type = op.type /\ jobs[op.job].node = op.node
      /\ next.phase = "WaitingForObservation" => jobs[op.job].state = "complete"
  BY <1>1, ExamineSettled, HeadTailType DEF Op
<1>3. /\ CountIn(todo, Joined) = In(op, Joined) + CountIn(Tail(todo), Joined)
      /\ CountIn(todo, Removed) = In(op, Removed) + CountIn(Tail(todo), Removed)
  BY <1>2, CountInHeadTail
<1>4. /\ Ready \in Nat /\ plan.observed \in Nat
      /\ createBudget \in Nat /\ deleteBudget \in Nat
      /\ CountIn(Tail(todo), Joined) \in Nat /\ CountIn(Tail(todo), Removed) \in Nat
      /\ CountIn(kept, Joined) \in Nat /\ CountIn(kept, Removed) \in Nat
  BY <1>1, <1>2, ReadyFinite, OpsTypes, CountInFinite
  DEF Ready, ReadyNodes, TypeInv, TypeOK, Status
<1>5. /\ Ready - plan.observed + createBudget
           <= In(op, Joined) + CountIn(Tail(todo), Joined) + CountIn(kept, Joined)
      /\ plan.observed - Ready + deleteBudget
           <= In(op, Removed) + CountIn(Tail(todo), Removed) + CountIn(kept, Removed)
  BY <1>1, <1>3 DEF BalanceInv
<1>6. op.type \in {"create", "delete"}
  BY <1>2 DEF Op, OpTypes
<1>7. CASE ExamineObserved
  <2>1. /\ next.phase = "WaitingForObservation" /\ Budget(op.type) > 0
        /\ createBudget' = IF op.type = "create" THEN createBudget - 1 ELSE createBudget
        /\ deleteBudget' = IF op.type = "delete" THEN deleteBudget - 1 ELSE deleteBudget
        /\ Examined(plan, kept)
    BY <1>2, <1>7 DEF ExamineObserved, Observable
  <2>2. jobs[op.job].state = "complete"
    BY <1>2, <2>1
  <2>3. IF op.type = "create" THEN op \in Joined ELSE op \in Removed
    <3>1. op.type = "create" => op.node = op.job /\ nodes[op.node] # "unborn"
      BY <1>2, <2>2 DEF WorldInv, Settled
    <3>2. op.type = "delete" => nodes[op.node] = "gone"
      BY <1>2, <2>2 DEF WorldInv, Settled
    <3>3. QED
      BY <1>2, <1>6, <3>1, <3>2 DEF Joined, Removed
  <2>4. /\ In(op, Joined) = (IF op.type = "create" THEN 1 ELSE 0)
        /\ In(op, Removed) = (IF op.type = "delete" THEN 1 ELSE 0)
    BY <1>6, <2>3 DEF In, Joined, Removed
  <2>5. createBudget' \in Nat /\ deleteBudget' \in Nat
    BY <1>4, <1>6, <2>1 DEF Budget
  <2>6. /\ Ready - plan.observed + createBudget'
             <= CountIn(Tail(todo), Joined) + CountIn(kept, Joined)
        /\ plan.observed - Ready + deleteBudget'
             <= CountIn(Tail(todo), Removed) + CountIn(kept, Removed)
    BY <1>4, <1>5, <1>6, <2>1, <2>4
  <2>7. QED
    BY <1>1, <2>1, <2>5, <2>6, BalanceExamined
<1>8. CASE ExamineKept
  <2>1. Examined(plan, Append(kept, next)) /\ UNCHANGED <<createBudget, deleteBudget>>
    BY <1>8 DEF ExamineKept
  <2>2. In(next, Joined) = In(op, Joined) /\ In(next, Removed) = In(op, Removed)
    BY <1>2 DEF In, Joined, Removed
  <2>3. /\ In(op, Joined) \in {0, 1} /\ In(op, Removed) \in {0, 1}
    BY DEF In
  <2> HIDE DEF next, op
  <2>4. /\ Append(kept, next) \in Seq(Op)
        /\ CountIn(Append(kept, next), Joined) = CountIn(kept, Joined) + In(next, Joined)
        /\ CountIn(Append(kept, next), Removed) = CountIn(kept, Removed) + In(next, Removed)
    BY <1>1, <1>2, CountInAppend
  <2>5. /\ Ready - plan.observed + createBudget'
             <= CountIn(Tail(todo), Joined) + CountIn(Append(kept, next), Joined)
        /\ plan.observed - Ready + deleteBudget'
             <= CountIn(Tail(todo), Removed) + CountIn(Append(kept, next), Removed)
    BY <1>4, <1>5, <2>1, <2>2, <2>3, <2>4
  <2>6. QED
    BY <1>1, <1>4, <2>1, <2>4, <2>5, BalanceExamined
<1>9. QED
  BY <1>7, <1>8

LEMMA BalanceStartSkipped == StrongInv /\ BalanceInv /\ StartSkipped => BalanceInv'
<1> SUFFICES ASSUME StrongInv, BalanceInv, StartSkipped PROVE BalanceInv'
  OBVIOUS
<1>1. /\ pc = "start" /\ pc' \in {"start", "patch"} /\ started' = started + 1
      /\ started \in Nat /\ plan \in Status /\ plan' = Rollback(plan, Kind, 1)
      /\ UNCHANGED <<nodes, status>>
  BY DEF StartSkipped, clusterVars, apiVars, StrongInv, TypeInv, TypeOK
<1>2. plan'.ops = plan.ops /\ plan'.observed = plan.observed
  BY <1>1, RollbackKeeps
<1>3. QED
  BY <1>1, <1>2, BalanceFrame

LEMMA BalanceStartJob ==
  ASSUME StrongInv, WorldInv, BalanceInv,
         NEW j \in JobIds, NEW n \in Nodes, StartJob(j, n)
  PROVE  BalanceInv'
<1> DEFINE op == [type |-> Kind, node |-> n, job |-> j, phase |-> "Running"]
<1>1. /\ op \in Op /\ plan.ops \in Seq(Op) /\ plan'.ops = Append(plan.ops, op)
      /\ plan'.observed = plan.observed /\ pc = "start" /\ started' = started + 1
      /\ pc' \in {"start", "patch"} /\ UNCHANGED <<nodes, status>>
  BY StartJobKnows
<1> HIDE DEF op
<1>2. /\ CountIn(plan'.ops, Joined) = CountIn(plan.ops, Joined) + In(op, Joined)
      /\ CountIn(plan'.ops, Removed) = CountIn(plan.ops, Removed) + In(op, Removed)
  BY <1>1, CountInAppend
<1>3. In(op, Joined) \in {0, 1} /\ In(op, Removed) \in {0, 1}
  BY DEF In
<1>4. /\ Ready \in Nat /\ plan.observed \in Nat /\ started \in Nat
      /\ CountIn(plan.ops, Joined) \in Nat /\ CountIn(plan.ops, Removed) \in Nat
  BY <1>1, ReadyFinite, CountInFinite
  DEF Ready, ReadyNodes, StrongInv, TypeInv, TypeOK, Status
<1>5. Ready' = Ready /\ Joined' = Joined /\ Removed' = Removed
  BY <1>1 DEF Ready, ReadyNodes, Joined, Removed
<1>6. Explained(plan)
  BY <1>1 DEF BalanceInv
<1>7. Explained(plan)'
  BY <1>1, <1>2, <1>3, <1>4, <1>5, <1>6 DEF Explained
<1>8. QED
  BY <1>1, <1>4, <1>7 DEF BalanceInv

LEMMA BalanceStartRejected == StrongInv /\ BalanceInv /\ StartRejected => BalanceInv'
<1> SUFFICES ASSUME StrongInv, BalanceInv, StartRejected PROVE BalanceInv'
  OBVIOUS
<1>1. pc = "start" /\ UNCHANGED <<nodes, status>>
  BY StartRejectedKnows
<1>2. CASE started = 0 /\ Return
  <2>1. pc' = "idle"
    BY <1>2 DEF Return
  <2>2. QED
    BY <1>1, <1>2, <2>1, BalanceFrame
<1>3. CASE pc' = "patch" /\ plan'.ops = plan.ops /\ plan'.observed = plan.observed
  BY <1>1, <1>3, BalanceFrame
<1>4. QED
  BY <1>2, <1>3, StartRejectedKnows

LEMMA BalancePatch == StrongInv /\ BalanceInv /\ Patch => BalanceInv'
<1> SUFFICES ASSUME StrongInv, BalanceInv, Patch PROVE BalanceInv'
  OBVIOUS
<1>1. status' = plan /\ Return /\ nodes' = nodes /\ pc = "patch"
  BY ConsistentPatch DEF Patch, StrongInv, clusterVars
<1>2. Ready' = Ready /\ Joined' = Joined /\ Removed' = Removed
  BY <1>1 DEF Ready, ReadyNodes, Joined, Removed
<1>3. Explained(plan) /\ pc' = "idle"
  BY <1>1 DEF BalanceInv, Return
<1>4. QED
  BY <1>1, <1>2, <1>3 DEF BalanceInv, Explained

\* Where a running Job is tracked: by the stored status until the reconcile
\* starts a Job, by the loop while it examines, by the plan afterwards.
LEMMA RunningTracked ==
  ASSUME StrongInv, RunningInv, NEW j \in JobIds, jobs[j].state = "running"
  PROVE  /\ pc \in {"idle", "examine"} \/ (pc = "start" /\ started = 0)
              => Tracks(status.ops, j)
         /\ pc = "examine" => Tracks(todo, j) \/ Tracks(kept, j)
         /\ pc \in {"start", "patch"} => Tracks(plan.ops, j)
<1>1. Tracks(status.ops, j) \/ Tracks(plan.ops, j)
  BY DEF RunningInv, RunningJobsTracked
<1>2. pc \in {"idle", "examine"} \/ (pc = "start" /\ started = 0) => Tracks(status.ops, j)
  <2>1. pc = "idle" => ~Tracks(plan.ops, j)
    BY EmptyOps DEF RunningInv
  <2>2. QED
    BY <1>1, <2>1 DEF RunningInv
<1>3. pc = "examine" => Tracks(todo, j) \/ Tracks(kept, j)
  BY <1>2 DEF StrongInv, TrackingInv, Accounted
<1>4. pc \in {"start", "patch"} => Tracks(plan.ops, j)
  BY <1>1 DEF StrongInv, TrackingInv, Accounted
<1>5. QED
  BY <1>2, <1>3, <1>4

\* A step of a Job moves the Ready count by what the operations that track
\* the Job then explain, and no operation explains less.
LEMMA StepCounts ==
  ASSUME Quiet, StrongInv, WorldInv, NEW j \in JobIds, JobStep(j)
  PROVE  \E up, down \in {0, 1} :
           /\ Ready' = Ready + up - down
           /\ \A ops \in Seq(Op) : Matched(jobs, ops) =>
                /\ CountIn(ops, Joined) + (IF Tracks(ops, j) THEN up ELSE 0)
                     <= CountIn(ops, Joined')
                /\ CountIn(ops, Removed) + (IF Tracks(ops, j) THEN down ELSE 0)
                     <= CountIn(ops, Removed')
<1>1. \A n \in Nodes : nodes[n] \in {"unborn", "ready", "gone"}
  BY DEF StrongInv, TypeInv, TypeOK, NodeStates, WorldInv, Settled
<1>2. ReadyNodes = {n \in Nodes : nodes[n] = "ready"}
  BY DEF ReadyNodes
<1>3. ReadyNodes' = {n \in Nodes : nodes'[n] = "ready"}
  BY DEF ReadyNodes
<1>4. /\ IsFiniteSet(ReadyNodes) /\ Ready \in Nat /\ Ready' \in Nat
  BY <1>2, <1>3, ReadyFinite DEF Ready
<1>5. ASSUME NEW ops \in Seq(Op)
      PROVE  /\ CountIn(ops, Joined) \in Nat /\ CountIn(ops, Joined') \in Nat
             /\ CountIn(ops, Removed) \in Nat /\ CountIn(ops, Removed') \in Nat
  BY CountInFinite
<1>6. ASSUME NEW ops \in Seq(Op), NEW i \in DOMAIN ops
      PROVE  ops[i] \in Op /\ ops[i].node \in Nodes
  <2>1. ops[i] \in Op
    OBVIOUS
  <2>2. QED
    BY <2>1 DEF Op
<1>7. CASE /\ jobs[j].type = "create" /\ jobs[j].node = j /\ jobs' = jobs
           /\ nodes[j] = "unborn" /\ nodes'[j] = "ready"
           /\ \A n \in Nodes \ {j} : nodes'[n] = nodes[n]
  <2>1. ReadyNodes' = ReadyNodes \union {j} /\ j \notin ReadyNodes
    BY <1>2, <1>3, <1>7, JobStepKnows
  <2>2. Ready' = Ready + 1
    BY <1>4, <2>1, FS_AddElement DEF Ready
  <2>3. Joined \subseteq Joined' /\ Removed \subseteq Removed'
    BY <1>7 DEF Joined, Removed, Op
  <2>4. ASSUME NEW ops \in Seq(Op), Matched(jobs, ops), Tracks(ops, j)
        PROVE  \E i \in DOMAIN ops : ops[i] \in Joined' /\ ops[i] \notin Joined
    <3>1. PICK i \in DOMAIN ops : ops[i].job = j
      BY <2>4 DEF Tracks
    <3>2. ops[i].type = "create" /\ ops[i].node = j
      BY <1>7, <2>4, <3>1 DEF Matched
    <3>3. QED
      BY <1>6, <1>7, <3>2 DEF Joined
  <2>5. ASSUME NEW ops \in Seq(Op), Matched(jobs, ops)
        PROVE  /\ CountIn(ops, Joined) + (IF Tracks(ops, j) THEN 1 ELSE 0)
                    <= CountIn(ops, Joined')
               /\ CountIn(ops, Removed) + (IF Tracks(ops, j) THEN 0 ELSE 0)
                    <= CountIn(ops, Removed')
    <3>1. /\ CountIn(ops, Joined) <= CountIn(ops, Joined')
          /\ Tracks(ops, j) => CountIn(ops, Joined) + 1 <= CountIn(ops, Joined')
      BY <2>3, <2>4, <2>5, CountInGrows
    <3>2. CountIn(ops, Removed) <= CountIn(ops, Removed')
      BY <2>3, CountInGrows
    <3>3. QED
      BY <1>5, <3>1, <3>2
  <2>6. QED
    BY <1>4, <2>2, <2>5
<1>8. CASE /\ jobs[j].type = "delete" /\ jobs' = jobs
           /\ nodes[jobs[j].node] = "ready" /\ nodes'[jobs[j].node] = "gone"
           /\ \A n \in Nodes \ {jobs[j].node} : nodes'[n] = nodes[n]
  <2>1. ReadyNodes' = ReadyNodes \ {jobs[j].node} /\ jobs[j].node \in ReadyNodes
    BY <1>2, <1>3, <1>8, JobStepKnows
  <2>2. Ready' = Ready - 1
    BY <1>4, <2>1, FS_RemoveElement DEF Ready
  <2>3. Joined \subseteq Joined' /\ Removed \subseteq Removed'
    BY <1>8 DEF Joined, Removed, Op
  <2>4. ASSUME NEW ops \in Seq(Op), Matched(jobs, ops), Tracks(ops, j)
        PROVE  \E i \in DOMAIN ops : ops[i] \in Removed' /\ ops[i] \notin Removed
    <3>1. PICK i \in DOMAIN ops : ops[i].job = j
      BY <2>4 DEF Tracks
    <3>2. ops[i].type = "delete" /\ ops[i].node = jobs[j].node
      BY <1>8, <2>4, <3>1 DEF Matched
    <3>3. QED
      BY <1>6, <1>8, <3>2 DEF Removed
  <2>5. ASSUME NEW ops \in Seq(Op), Matched(jobs, ops)
        PROVE  /\ CountIn(ops, Joined) + (IF Tracks(ops, j) THEN 0 ELSE 0)
                    <= CountIn(ops, Joined')
               /\ CountIn(ops, Removed) + (IF Tracks(ops, j) THEN 1 ELSE 0)
                    <= CountIn(ops, Removed')
    <3>1. /\ CountIn(ops, Removed) <= CountIn(ops, Removed')
          /\ Tracks(ops, j) => CountIn(ops, Removed) + 1 <= CountIn(ops, Removed')
      BY <2>3, <2>4, <2>5, CountInGrows
    <3>2. CountIn(ops, Joined) <= CountIn(ops, Joined')
      BY <2>3, CountInGrows
    <3>3. QED
      BY <1>5, <3>1, <3>2
  <2>6. QED
    BY <1>4, <2>2, <2>5
<1>9. CASE nodes' = nodes
  <2>1. Ready' = Ready /\ Joined' = Joined /\ Removed' = Removed
    BY <1>9 DEF Ready, ReadyNodes, Joined, Removed
  <2>2. Ready' = Ready + 0 - 0
    BY <1>4, <2>1
  <2>3. ASSUME NEW ops \in Seq(Op)
        PROVE  /\ CountIn(ops, Joined) + (IF Tracks(ops, j) THEN 0 ELSE 0)
                    <= CountIn(ops, Joined')
               /\ CountIn(ops, Removed) + (IF Tracks(ops, j) THEN 0 ELSE 0)
                    <= CountIn(ops, Removed')
    BY <1>5, <2>1
  <2>4. QED
    BY <2>2, <2>3
<1>10. QED
  BY <1>7, <1>8, <1>9, JobStepKnows

LEMMA BalanceJobStep ==
  ASSUME Quiet, QuietInv, BalanceInv, NEW j \in JobIds, JobStep(j),
         UNCHANGED <<status, reconcileVars>>
  PROVE  BalanceInv'
<1>1. PICK up, down \in {0, 1} :
        /\ Ready' = Ready + up - down
        /\ \A ops \in Seq(Op) : Matched(jobs, ops) =>
             /\ CountIn(ops, Joined) + (IF Tracks(ops, j) THEN up ELSE 0)
                  <= CountIn(ops, Joined')
             /\ CountIn(ops, Removed) + (IF Tracks(ops, j) THEN down ELSE 0)
                  <= CountIn(ops, Removed')
  BY StepCounts DEF QuietInv
<1>2. jobs[j].state = "running"
  BY JobStepKnows DEF QuietInv
<1>3. /\ status.ops \in Seq(Op) /\ plan.ops \in Seq(Op)
      /\ todo \in Seq(Op) /\ kept \in Seq(Op)
      /\ Matched(jobs, status.ops) /\ Matched(jobs, plan.ops)
      /\ Matched(jobs, todo) /\ Matched(jobs, kept)
      /\ status.observed \in Nat /\ plan.observed \in Nat
      /\ createBudget \in Nat /\ deleteBudget \in Nat
  BY OpsTypes DEF QuietInv, StrongInv, WorldInv, TypeInv, TypeOK, Status
<1>4. /\ Ready \in Nat /\ Ready' \in Nat /\ Ready' = Ready + up - down
      /\ up \in {0, 1} /\ down \in {0, 1}
  BY <1>1, ReadyFinite DEF Ready, ReadyNodes
<1>5. ASSUME NEW ops \in Seq(Op)
      PROVE  /\ CountIn(ops, Joined) \in Nat /\ CountIn(ops, Joined') \in Nat
             /\ CountIn(ops, Removed) \in Nat /\ CountIn(ops, Removed') \in Nat
  BY CountInFinite
<1>6. ASSUME NEW s \in Status, s.ops \in Seq(Op), s.observed \in Nat, Explained(s),
             Matched(jobs, s.ops), Tracks(s.ops, j)
      PROVE  /\ Ready' - s.observed <= CountIn(s.ops, Joined')
             /\ s.observed - Ready' <= CountIn(s.ops, Removed')
  <2>1. /\ CountIn(s.ops, Joined) + up <= CountIn(s.ops, Joined')
        /\ CountIn(s.ops, Removed) + down <= CountIn(s.ops, Removed')
    BY <1>1, <1>6
  <2>2. /\ CountIn(s.ops, Joined) \in Nat /\ CountIn(s.ops, Joined') \in Nat
        /\ CountIn(s.ops, Removed) \in Nat /\ CountIn(s.ops, Removed') \in Nat
    BY <1>5, <1>6
  <2>3. /\ Ready - s.observed + 0 <= CountIn(s.ops, Joined)
        /\ s.observed - Ready + 0 <= CountIn(s.ops, Removed)
    BY <1>4, <1>6, <2>2 DEF Explained
  <2>4. /\ Ready' - s.observed + 0 <= CountIn(s.ops, Joined')
        /\ s.observed - Ready' + 0 <= CountIn(s.ops, Removed')
    <3> DEFINE r == Ready
               next == Ready'
               ups == CountIn(s.ops, Joined)
               nextUps == CountIn(s.ops, Joined')
               downs == CountIn(s.ops, Removed)
               nextDowns == CountIn(s.ops, Removed')
    <3>1. /\ r \in Int /\ next \in Int /\ s.observed \in Int /\ up \in {0, 1}
          /\ down \in {0, 1} /\ next = r + up - down
      BY <1>4, <1>6
    <3>2. ups \in Int /\ nextUps \in Int /\ downs \in Int /\ nextDowns \in Int
      BY <2>2
    <3>3. /\ r - s.observed + 0 <= ups /\ s.observed - r + 0 <= downs
          /\ ups + up <= nextUps /\ downs + down <= nextDowns
      BY <2>1, <2>3
    <3> HIDE DEF r, next, ups, nextUps, downs, nextDowns
    <3>4. /\ next - s.observed + 0 <= nextUps /\ s.observed - next + 0 <= nextDowns
      BY <3>1, <3>2, <3>3
    <3>5. QED
      BY <3>4 DEF next, nextUps, nextDowns
  <2>5. QED
    BY <1>4, <1>6, <2>2, <2>4
<1>7. pc' = pc /\ started' = started /\ status' = status /\ plan' = plan /\ todo' = todo
      /\ kept' = kept /\ createBudget' = createBudget /\ deleteBudget' = deleteBudget
  BY DEF reconcileVars
<1>8. pc \in {"idle", "examine"} \/ (pc = "start" /\ started = 0)
        => status.ops = <<>> \/ Explained(status)'
  <2> SUFFICES ASSUME pc \in {"idle", "examine"} \/ (pc = "start" /\ started = 0)
               PROVE  status.ops = <<>> \/ Explained(status)'
    OBVIOUS
  <2>1. Tracks(status.ops, j) /\ status \in Status
    BY <1>2, RunningTracked, OpsTypes DEF QuietInv, StrongInv
  <2>2. QED
    BY <1>3, <1>6, <1>7, <2>1 DEF BalanceInv, Explained
<1>9. pc \in {"start", "patch"} => Explained(plan)'
  <2> SUFFICES ASSUME pc \in {"start", "patch"} PROVE Explained(plan)'
    OBVIOUS
  <2>1. Tracks(plan.ops, j) /\ plan \in Status
    BY <1>2, RunningTracked, OpsTypes DEF QuietInv, StrongInv
  <2>2. QED
    BY <1>3, <1>6, <1>7, <2>1 DEF BalanceInv, Explained
<1>10. pc = "examine" =>
         /\ Ready' - plan.observed + createBudget
              <= CountIn(todo, Joined') + CountIn(kept, Joined')
         /\ plan.observed - Ready' + deleteBudget
              <= CountIn(todo, Removed') + CountIn(kept, Removed')
  <2> SUFFICES ASSUME pc = "examine"
               PROVE  /\ Ready' - plan.observed + createBudget
                           <= CountIn(todo, Joined') + CountIn(kept, Joined')
                      /\ plan.observed - Ready' + deleteBudget
                           <= CountIn(todo, Removed') + CountIn(kept, Removed')
    OBVIOUS
  <2>1. Tracks(todo, j) \/ Tracks(kept, j)
    BY <1>2, RunningTracked DEF QuietInv
  <2>2. /\ CountIn(todo, Joined) + (IF Tracks(todo, j) THEN up ELSE 0)
             <= CountIn(todo, Joined')
        /\ CountIn(kept, Joined) + (IF Tracks(kept, j) THEN up ELSE 0)
             <= CountIn(kept, Joined')
        /\ CountIn(todo, Removed) + (IF Tracks(todo, j) THEN down ELSE 0)
             <= CountIn(todo, Removed')
        /\ CountIn(kept, Removed) + (IF Tracks(kept, j) THEN down ELSE 0)
             <= CountIn(kept, Removed')
    BY <1>1, <1>3
  <2>3. /\ CountIn(todo, Joined) \in Nat /\ CountIn(todo, Joined') \in Nat
        /\ CountIn(kept, Joined) \in Nat /\ CountIn(kept, Joined') \in Nat
        /\ CountIn(todo, Removed) \in Nat /\ CountIn(todo, Removed') \in Nat
        /\ CountIn(kept, Removed) \in Nat /\ CountIn(kept, Removed') \in Nat
    BY <1>3, <1>5
  <2>4. /\ CountIn(todo, Joined) + CountIn(kept, Joined) + up
             <= CountIn(todo, Joined') + CountIn(kept, Joined')
        /\ CountIn(todo, Removed) + CountIn(kept, Removed) + down
             <= CountIn(todo, Removed') + CountIn(kept, Removed')
    BY <2>1, <2>2, <2>3
  <2>5. /\ Ready - plan.observed + createBudget
             <= CountIn(todo, Joined) + CountIn(kept, Joined)
        /\ plan.observed - Ready + deleteBudget
             <= CountIn(todo, Removed) + CountIn(kept, Removed)
    BY DEF BalanceInv
  <2> DEFINE r == Ready
             next == Ready'
             joined == CountIn(todo, Joined) + CountIn(kept, Joined)
             joinedNext == CountIn(todo, Joined') + CountIn(kept, Joined')
             removed == CountIn(todo, Removed) + CountIn(kept, Removed)
             removedNext == CountIn(todo, Removed') + CountIn(kept, Removed')
  <2>6. joined \in Int /\ joinedNext \in Int /\ removed \in Int /\ removedNext \in Int
    BY <2>3
  <2>7. /\ joined + up <= joinedNext /\ removed + down <= removedNext
        /\ r - plan.observed + createBudget <= joined
        /\ plan.observed - r + deleteBudget <= removed
    BY <2>4, <2>5
  <2>8. /\ r \in Int /\ next \in Int /\ next = r + up - down
        /\ up \in {0, 1} /\ down \in {0, 1}
    BY <1>4
  <2> HIDE DEF r, next, joined, joinedNext, removed, removedNext
  <2>9. /\ next - plan.observed + createBudget <= joinedNext
        /\ plan.observed - next + deleteBudget <= removedNext
    <3>1. plan.observed \in Int /\ createBudget \in Int /\ deleteBudget \in Int
      BY <1>3
    <3>2. QED
      BY <2>6, <2>7, <2>8, <3>1
  <2>10. QED
    BY <2>9 DEF next, joinedNext, removedNext
<1>11. QED
  BY <1>7, <1>8, <1>9, <1>10 DEF BalanceInv

LEMMA BalanceNext ==
  ASSUME Quiet, QuietInv, BalanceInv, [Next]_vars
  PROVE  BalanceInv'
<1>1. CASE Reconcile
  <2>1. ~ExamineLost /\ ~ExamineTimedOut
    BY ExamineSettled DEF ExamineLost, ExamineTimedOut, QuietInv
  <2>2. QED
    BY <1>1, <2>1, BalancePlan, BalanceExamine, BalanceStartSkipped, BalanceStartJob,
       BalanceStartRejected, BalancePatch DEF Reconcile, QuietInv
<1>2. ASSUME NEW j \in JobIds, NEW n \in Nodes, StartLostReply(j, n) PROVE BalanceInv'
  BY <1>2 DEF StartLostReply, Quiet
<1>3. CASE Abandon
  <2>1. pc = "examine" /\ pc' = "idle" /\ UNCHANGED <<status, nodes>>
    BY <1>3 DEF Abandon, Return, Quiet, clusterVars, apiVars
  <2>2. QED
    BY <2>1, BalanceFrame
<1>4. CASE Environment
  <2>1. UNCHANGED <<status, reconcileVars>>
    BY <1>4, EnvironmentQuiet DEF QuietInv
  <2>2. CASE \E j \in JobIds : JobStep(j)
    BY <2>1, <2>2, BalanceJobStep
  <2>3. CASE UNCHANGED <<nodes, jobs>>
    BY <2>1, <2>3
    DEF BalanceInv, Explained, Ready, ReadyNodes, Joined, Removed, reconcileVars
  <2>4. QED
    BY <1>4, <2>2, <2>3, EnvironmentQuiet DEF QuietInv
<1>5. CASE UNCHANGED vars
  BY <1>5 DEF BalanceInv, Explained, Ready, ReadyNodes, Joined, Removed,
              vars, clusterVars, apiVars, reconcileVars
<1>6. QED
  BY <1>1, <1>2, <1>3, <1>4, <1>5 DEF Next

-----------------------------------------------------------------------------
(* The operations in flight of a plan cover the workers on their way in    *)
(* and the nodes on their way out, although it counts them without looking *)
(* at a single one.                                                        *)

Unborn   == {op \in Op : op.type = "create" /\ nodes[op.node] = "unborn"}
Standing == {op \in Op : op.type = "delete" /\ nodes[op.node] # "gone"}

LEMMA MovingTracked ==
  ASSUME QuietInv, pc = "idle"
  PROVE  /\ Cardinality(Coming) <= CountIn(status.ops, Unborn)
         /\ Cardinality(Leaving) <= CountIn(status.ops, Standing)
<1>1. status.ops \in Seq(Op) /\ Matched(jobs, status.ops)
  BY OpsTypes DEF QuietInv, StrongInv, WorldInv
<1>2. ASSUME NEW j \in JobIds, jobs[j].state = "running"
      PROVE  \E i \in DOMAIN status.ops : /\ status.ops[i] \in Op
                                          /\ status.ops[i].type = jobs[j].type
                                          /\ status.ops[i].node = jobs[j].node
  <2>1. PICK i \in DOMAIN status.ops : status.ops[i].job = j
    BY <1>2, RunningTracked DEF QuietInv, Tracks
  <2>2. status.ops[i] \in Op
    BY <1>1
  <2>3. QED
    BY <1>1, <2>1, <2>2 DEF Matched
<1>3. ASSUME NEW j \in Coming
      PROVE  \E i \in DOMAIN status.ops : status.ops[i].node = j /\ status.ops[i] \in Unborn
  <2>1. /\ j \in JobIds /\ jobs[j].type = "create" /\ jobs[j].state = "running"
        /\ nodes[j] = "unborn" /\ jobs[j].node = j
    BY DEF Coming, QuietInv, WorldInv, Settled
  <2>2. QED
    BY <1>2, <2>1 DEF Unborn
<1>4. ASSUME NEW n \in Leaving
      PROVE  \E i \in DOMAIN status.ops : status.ops[i].node = n /\ status.ops[i] \in Standing
  <2>1. nodes[n] = "ready"
    BY DEF Leaving, ReadyNodes
  <2>2. PICK j \in JobIds :
          jobs[j].type = "delete" /\ jobs[j].state = "running" /\ jobs[j].node = n
    BY DEF Leaving
  <2>3. QED
    BY <1>2, <2>1, <2>2 DEF Standing
<1>5. QED
  BY <1>1, <1>3, <1>4, CountInNodes

LEMMA InFlightCovers ==
  ASSUME QuietInv, BalanceInv, pc = "idle"
  PROVE  /\ Cardinality(Coming) <= InFlight(status, Ready).create
         /\ Cardinality(Leaving) <= InFlight(status, Ready).delete
<1> DEFINE ops == status.ops
           creates == CountOps(ops, "create")
           deletes == CountOps(ops, "delete")
<1>1. /\ ops \in Seq(Op) /\ status.observed \in Nat /\ Ready \in Nat
      /\ ActiveOperations(status) = ops
  BY OpsTypes, ReadyFinite, ConsistentOps
  DEF QuietInv, StrongInv, ConsistentInv, Status, Ready, ReadyNodes
<1>2. /\ Cardinality(Coming) <= CountIn(ops, Unborn)
      /\ Cardinality(Leaving) <= CountIn(ops, Standing)
  BY MovingTracked
<1>3. /\ CountIn(ops, OfType("create")) = CountIn(ops, Joined) + CountIn(ops, Unborn)
      /\ CountIn(ops, OfType("delete")) = CountIn(ops, Removed) + CountIn(ops, Standing)
  BY <1>1, CountInParts DEF OfType, Joined, Unborn, Removed, Standing
<1>4. /\ CountIn(ops, Joined) \in Nat /\ CountIn(ops, Unborn) \in Nat
      /\ CountIn(ops, Removed) \in Nat /\ CountIn(ops, Standing) \in Nat
  BY <1>1, CountInFinite
<1>5. /\ creates = CountIn(ops, Joined) + CountIn(ops, Unborn)
      /\ deletes = CountIn(ops, Removed) + CountIn(ops, Standing)
  BY <1>1, <1>3, CountOpsIn
<1>6. /\ InFlight(status, Ready).create = creates -
             (IF Ready > status.observed THEN minInt32(creates, Ready - status.observed) ELSE 0)
      /\ InFlight(status, Ready).delete = deletes -
             (IF Ready < status.observed THEN minInt32(deletes, status.observed - Ready) ELSE 0)
  BY <1>1 DEF InFlight, Completed
<1>7. \/ ops = <<>>
      \/ /\ Ready - status.observed <= CountIn(ops, Joined)
         /\ status.observed - Ready <= CountIn(ops, Removed)
  BY DEF BalanceInv, Explained
<1>8. ops = <<>> => CountIn(ops, Joined) = 0 /\ CountIn(ops, Removed) = 0
                    /\ CountIn(ops, Unborn) = 0 /\ CountIn(ops, Standing) = 0
  BY CountInEmpty
<1>9. IsFiniteSet(Coming) /\ IsFiniteSet(Leaving)
  BY ReadyFinite DEF Coming, Leaving, ReadyNodes, Nodes
<1>10. Cardinality(Coming) \in Nat /\ Cardinality(Leaving) \in Nat
  BY <1>9, FS_CardinalityType
<1> DEFINE r == Ready
           o == status.observed
           joined == CountIn(ops, Joined)
           unborn == CountIn(ops, Unborn)
           removed == CountIn(ops, Removed)
           standing == CountIn(ops, Standing)
           risen == IF r > o THEN minInt32(creates, r - o) ELSE 0
           fallen == IF r < o THEN minInt32(deletes, o - r) ELSE 0
<1>11. /\ r \in Nat /\ o \in Nat /\ joined \in Nat /\ unborn \in Nat
       /\ removed \in Nat /\ standing \in Nat
       /\ creates = joined + unborn /\ deletes = removed + standing
  BY <1>1, <1>4, <1>5
<1>12. \/ joined = 0 /\ unborn = 0 /\ removed = 0 /\ standing = 0
       \/ r - o <= joined /\ o - r <= removed
  BY <1>7, <1>8
<1>13. /\ InFlight(status, Ready).create = creates - risen
       /\ InFlight(status, Ready).delete = deletes - fallen
  BY <1>6
<1> HIDE DEF ops, creates, deletes, r, o, joined, unborn, removed, standing
<1>14. creates - risen >= unborn /\ deletes - fallen >= standing
  BY <1>11, <1>12 DEF minInt32
<1>15. creates - risen \in Int /\ deletes - fallen \in Int
  BY <1>11, <1>12 DEF minInt32
<1> HIDE DEF risen, fallen
<1>16. Cardinality(Coming) <= unborn /\ Cardinality(Leaving) <= standing
  BY <1>2 DEF unborn, standing
<1>17. QED
  BY <1>10, <1>11, <1>13, <1>14, <1>15, <1>16

-----------------------------------------------------------------------------
(* The goals.  Only a plan raises what the cluster is on its way to, and   *)
(* it does not raise it above the target it plans for.                     *)

ToStart(type) == IF Planned(type) > 0 THEN Planned(type) - started ELSE 0

GoalInv ==
  /\ started <= Wanted /\ (pc = "idle" => toCreate = 0 /\ toDelete = 0)
  /\ \E g \in Goals : Ready + Cardinality(Coming) + ToStart("create") <= g
  /\ \E g \in Goals : Cardinality(ReadyNodes \ Leaving) - ToStart("delete") >= g
  /\ Coming = {} \/ Leaving = {}
  /\ toCreate = 0 \/ toDelete = 0
  /\ toCreate > 0 => Leaving = {}
  /\ toDelete > 0 => Coming = {}

LEMMA GoalTypes ==
  ASSUME TypeInv
  PROVE  /\ IsFiniteSet(Coming) /\ IsFiniteSet(Leaving) /\ IsFiniteSet(ReadyNodes)
         /\ IsFiniteSet(ReadyNodes \ Leaving)
         /\ Ready \in Nat /\ Cardinality(Coming) \in Nat /\ Cardinality(Leaving) \in Nat
         /\ Cardinality(ReadyNodes \ Leaving) \in Nat
         /\ toCreate \in Nat /\ toDelete \in Nat /\ started \in Nat
         /\ target \in Goals /\ Goals \subseteq Nat
<1>1. Coming \subseteq Nodes /\ Leaving \subseteq Nodes /\ ReadyNodes \subseteq Nodes
  BY DEF Coming, Leaving, ReadyNodes, Nodes
<1>2. Cardinality(InitialNodes) \in Nat
  BY NodesAssumption, FS_CardinalityType
<1>3. QED
  BY <1>1, <1>2, ReadyFinite, DemandAssumption DEF Ready, TypeInv, TypeOK, Goals

LEMMA GoalInit == Init => GoalInv
<1> SUFFICES ASSUME Init PROVE GoalInv
  OBVIOUS
<1>1. /\ pc = "idle" /\ toCreate = 0 /\ toDelete = 0 /\ started = 0
      /\ \A j \in JobIds : jobs[j].state = "unborn"
      /\ \A n \in Nodes : nodes[n] = "ready" <=> n \in InitialNodes
  BY DEF Init
<1>2. Coming = {} /\ Leaving = {}
  BY <1>1 DEF Coming, Leaving
<1>3. ReadyNodes = InitialNodes
  BY <1>1 DEF ReadyNodes, Nodes
<1>4. Cardinality(Coming) = 0 /\ ReadyNodes \ Leaving = InitialNodes
  BY <1>2, <1>3, FS_EmptySet
<1>5. Cardinality(InitialNodes) \in Nat /\ Cardinality(InitialNodes) \in Goals
  BY NodesAssumption, FS_CardinalityType DEF Goals
<1>6. ToStart("create") = 0 /\ ToStart("delete") = 0 /\ started <= Wanted
  BY <1>1 DEF ToStart, Planned, Wanted
<1>7. Ready = Cardinality(InitialNodes)
  BY <1>3 DEF Ready
<1>8. QED
  BY <1>1, <1>2, <1>4, <1>5, <1>6, <1>7 DEF GoalInv

\* A plan stays within its target, counting what is in flight, and plans
\* nothing while operations of the other kind are.
LEMMA PlanBounds ==
  ASSUME NEW current \in Status, NEW observed \in Nat, NEW goal \in Nat,
         NEW unschedulable \in Nat
  PROVE  LET inFlight == InFlight(current, observed)
             creates == WorkersToCreate(current, observed, goal)
             deletes == WorkersToDelete(current, observed, goal, unschedulable)
         IN  /\ inFlight.create \in Nat /\ inFlight.delete \in Nat
             /\ creates \in Nat /\ deletes \in Nat /\ (creates = 0 \/ deletes = 0)
             /\ creates > 0 => /\ inFlight.delete = 0
                              /\ observed + inFlight.create + creates <= goal
             /\ deletes > 0 => /\ inFlight.create = 0
                              /\ observed - inFlight.delete - deletes >= goal
<1>1. /\ InFlight(current, observed).create \in Nat
      /\ InFlight(current, observed).delete \in Nat
  BY InFlightType
<1>2. /\ WorkersToCreate(current, observed, goal) \in Nat
      /\ WorkersToDelete(current, observed, goal, unschedulable) \in Nat
  BY WorkersType
<1>3. /\ Limit(MaxConcurrentCreateOps) \in Nat /\ Limit(MaxConcurrentDeleteOps) \in Nat
      /\ BatchSize \in Nat
  BY LimitType, BatchSizeType, LimitsAssumption
<1>4. QED
  BY <1>1, <1>2, <1>3, OneWay DEF WorkersToCreate, WorkersToDelete, minInt32, maxInt32

\* What the state function of the goals depends on.
LEMMA GoalSame ==
  ASSUME UNCHANGED <<nodes, jobs>>
  PROVE  Ready' = Ready /\ Coming' = Coming /\ Leaving' = Leaving /\ ReadyNodes' = ReadyNodes
BY DEF Ready, ReadyNodes, Coming, Leaving

LEMMA GoalPlan == QuietInv /\ BalanceInv /\ GoalInv /\ Plan => GoalInv'
<1> SUFFICES ASSUME QuietInv, BalanceInv, GoalInv, Plan PROVE GoalInv'
  OBVIOUS
<1>1. PICK unschedulable \in UnschedulableCounts : PlanSeeing(unschedulable)
  BY DEF Plan
<1> DEFINE inFlight == InFlight(status, Ready)
           creates == WorkersToCreate(status, Ready, target)
           deletes == WorkersToDelete(status, Ready, target, unschedulable)
<1>2. /\ TypeInv /\ status \in Status /\ target \in Nat /\ unschedulable \in Nat
      /\ cached = status
  BY OpsTypes, DemandAssumption
  DEF QuietInv, StrongInv, ConsistentInv, TypeInv, TypeOK
<1>3. toCreate' = creates /\ toDelete' = deletes /\ started' = 0 /\ pc' # "idle"
  BY <1>1, <1>2 DEF PlanSeeing, Ready
<1>4. /\ pc = "idle" /\ UNCHANGED <<nodes, jobs>>
  BY DEF Plan, clusterVars
<1>5. /\ Ready' = Ready /\ Coming' = Coming /\ Leaving' = Leaving
      /\ ReadyNodes' = ReadyNodes
  BY <1>4, GoalSame
<1>6. /\ Ready \in Nat /\ Cardinality(Coming) \in Nat /\ Cardinality(Leaving) \in Nat
      /\ Cardinality(ReadyNodes \ Leaving) \in Nat /\ target \in Goals /\ Goals \subseteq Nat
  BY <1>2, GoalTypes
<1>7. /\ inFlight.create \in Nat /\ inFlight.delete \in Nat
      /\ creates \in Nat /\ deletes \in Nat /\ (creates = 0 \/ deletes = 0)
      /\ creates > 0 => inFlight.delete = 0 /\ Ready + inFlight.create + creates <= target
      /\ deletes > 0 => inFlight.create = 0 /\ Ready - inFlight.delete - deletes >= target
  BY <1>2, <1>6, PlanBounds
<1>8. /\ Cardinality(Coming) <= inFlight.create
      /\ Cardinality(Leaving) <= inFlight.delete
  BY <1>4, InFlightCovers
<1>9. toCreate = 0 /\ toDelete = 0 /\ ToStart("create") = 0 /\ ToStart("delete") = 0
  BY <1>4 DEF GoalInv, ToStart, Planned
<1>10. ToStart("create")' = creates /\ ToStart("delete")' = deletes
  BY <1>3, <1>7 DEF ToStart, Planned
<1>11. started' <= Wanted'
  BY <1>3, <1>7 DEF Wanted
<1>12. /\ IsFiniteSet(Coming) /\ IsFiniteSet(Leaving) /\ IsFiniteSet(ReadyNodes)
       /\ Leaving \subseteq ReadyNodes
  BY <1>2, GoalTypes DEF Leaving
<1>13. /\ Cardinality(Coming) = 0 => Coming = {}
       /\ Cardinality(Leaving) = 0 => Leaving = {}
  BY <1>12, FS_EmptySet
<1>14. Cardinality(ReadyNodes \ Leaving) = Ready - Cardinality(Leaving)
  <2> DEFINE staying == ReadyNodes \ Leaving
  <2>1. staying \union Leaving = ReadyNodes /\ staying \intersect Leaving = {}
    BY <1>12
  <2>2. IsFiniteSet(staying)
    BY <1>12, FS_Subset
  <2> HIDE DEF staying
  <2>3. Cardinality(staying \intersect Leaving) = 0
    BY <2>1, FS_EmptySet
  <2>4. Cardinality(ReadyNodes) = Cardinality(staying) + Cardinality(Leaving) - 0
    BY <1>12, <2>1, <2>2, <2>3, FS_Union
  <2>5. Cardinality(staying) \in Nat
    BY <2>2, FS_CardinalityType
  <2>6. QED
    BY <1>6, <2>4, <2>5 DEF staying, Ready
<1> DEFINE ready == Ready
           coming == Cardinality(Coming)
           leaving == Cardinality(Leaving)
           staying == Cardinality(ReadyNodes \ Leaving)
           ins == inFlight.create
           outs == inFlight.delete
<1>15. /\ ready \in Nat /\ coming \in Nat /\ leaving \in Nat /\ target \in Nat
       /\ ins \in Nat /\ outs \in Nat /\ creates \in Nat /\ deletes \in Nat
       /\ coming <= ins /\ leaving <= outs /\ staying = ready - leaving
  BY <1>2, <1>6, <1>7, <1>8, <1>14
<1>16. /\ creates > 0 => outs = 0 /\ ready + ins + creates <= target
       /\ deletes > 0 => ins = 0 /\ ready - outs - deletes >= target
  BY <1>7
<1>17. /\ \E g \in Goals : ready + coming + 0 <= g
       /\ \E g \in Goals : staying - 0 >= g
       /\ Coming = {} \/ Leaving = {}
  BY <1>9 DEF GoalInv
<1>18. /\ coming = 0 => Coming = {}
       /\ leaving = 0 => Leaving = {}
  BY <1>13
<1>19. target \in Goals
  BY <1>6
<1> HIDE DEF inFlight, creates, deletes, ready, coming, leaving, staying, ins, outs
<1>20. /\ creates > 0 => leaving = 0 /\ ready + coming + creates <= target
       /\ deletes > 0 => coming = 0 /\ staying - deletes >= target
  BY <1>15, <1>16
<1>21. /\ creates = 0 \/ creates > 0
       /\ deletes = 0 \/ deletes > 0
  BY <1>15
<1>22. \E g \in Goals : ready + coming + creates <= g
  BY <1>17, <1>19, <1>20, <1>21
<1>23. \E g \in Goals : staying - deletes >= g
  BY <1>17, <1>19, <1>20, <1>21
<1>24. creates > 0 => Leaving = {}
  BY <1>18, <1>20
<1>25. deletes > 0 => Coming = {}
  BY <1>18, <1>20
<1>26. /\ \E g \in Goals : Ready' + Cardinality(Coming') + ToStart("create")' <= g
       /\ \E g \in Goals : Cardinality(ReadyNodes' \ Leaving') - ToStart("delete")' >= g
  BY <1>5, <1>10, <1>22, <1>23 DEF ready, coming, staying
<1>27. toCreate' = 0 \/ toDelete' = 0
  BY <1>3, <1>7
<1>28. QED
  BY <1>3, <1>5, <1>11, <1>17, <1>24, <1>25, <1>26, <1>27 DEF GoalInv

\* What is still to be started, in numbers.
LEMMA ToStartType ==
  ASSUME TypeInv, GoalInv
  PROVE  /\ ToStart("create") \in Nat /\ ToStart("delete") \in Nat
         /\ toCreate = 0 => ToStart("create") = 0
         /\ toDelete = 0 => ToStart("delete") = 0
         /\ toCreate > 0 => ToStart("create") = toCreate - started /\ toDelete = 0
         /\ toDelete > 0 => ToStart("delete") = toDelete - started /\ toCreate = 0
<1>1. toCreate \in Nat /\ toDelete \in Nat /\ started \in Nat
  BY GoalTypes
<1>2. started <= toCreate + toDelete /\ (toCreate = 0 \/ toDelete = 0)
  BY DEF GoalInv, Wanted
<1>3. QED
  BY <1>1, <1>2 DEF ToStart, Planned

\* The reconcile goes on with what it has planned.
GoesOn ==
  /\ UNCHANGED <<toCreate, toDelete>> /\ (pc' = "idle" => pc = "idle")
  /\ started' \in {started, started + 1} /\ started' <= Wanted'

\* A step that moves neither a node nor a Job, and plans nothing new.
LEMMA GoalFrame ==
  ASSUME TypeInv, GoalInv, UNCHANGED <<nodes, jobs>>, Return \/ GoesOn
  PROVE  GoalInv'
<1>1. /\ Ready' = Ready /\ Coming' = Coming /\ Leaving' = Leaving
      /\ ReadyNodes' = ReadyNodes
  BY GoalSame
<1>2. /\ Ready \in Nat /\ Cardinality(Coming) \in Nat /\ started \in Nat
      /\ Cardinality(ReadyNodes \ Leaving) \in Nat /\ Goals \subseteq Nat
      /\ toCreate \in Nat /\ toDelete \in Nat
  BY GoalTypes
<1>3. PICK g \in Goals : Ready + Cardinality(Coming) + ToStart("create") <= g
  BY DEF GoalInv
<1>4. PICK h \in Goals : Cardinality(ReadyNodes \ Leaving) - ToStart("delete") >= h
  BY DEF GoalInv
<1>5. /\ (pc' = "idle" => toCreate' = 0 /\ toDelete' = 0) /\ started' <= Wanted'
      /\ (toCreate' = 0 \/ toDelete' = 0)
      /\ (toCreate' > 0 => toCreate > 0) /\ (toDelete' > 0 => toDelete > 0)
  BY DEF Return, GoesOn, Wanted, GoalInv
<1>6. /\ ToStart("create")' \in Int /\ ToStart("create")' <= ToStart("create")
      /\ ToStart("delete")' \in Int /\ ToStart("delete")' <= ToStart("delete")
  <2>1. CASE Return
    <3>1. ToStart("create")' = 0 /\ ToStart("delete")' = 0
      BY <2>1 DEF Return, ToStart, Planned
    <3>2. QED
      BY <3>1, ToStartType
  <2>2. CASE GoesOn
    <3>1. started' \in Nat /\ started <= started'
      BY <1>2, <2>2 DEF GoesOn
    <3>2. /\ ToStart("create")' = IF toCreate > 0 THEN toCreate - started' ELSE 0
          /\ ToStart("delete")' = IF toDelete > 0 THEN toDelete - started' ELSE 0
      BY <2>2 DEF GoesOn, ToStart, Planned
    <3>3. /\ ToStart("create") = IF toCreate > 0 THEN toCreate - started ELSE 0
          /\ ToStart("delete") = IF toDelete > 0 THEN toDelete - started ELSE 0
      BY DEF ToStart, Planned
    <3>4. QED
      BY <1>2, <3>1, <3>2, <3>3
  <2>3. QED
    BY <2>1, <2>2
<1> DEFINE coming == Cardinality(Coming)
           staying == Cardinality(ReadyNodes \ Leaving)
<1>7. /\ ToStart("create") \in Int /\ ToStart("delete") \in Int
      /\ coming \in Int /\ staying \in Int /\ g \in Int /\ h \in Int
      /\ Ready + coming + ToStart("create") <= g /\ staying - ToStart("delete") >= h
  BY <1>2, <1>3, <1>4, ToStartType
<1> HIDE DEF coming, staying
<1>8. /\ Ready + coming + ToStart("create")' <= g
      /\ staying - ToStart("delete")' >= h
  BY <1>2, <1>6, <1>7
<1>9. /\ \E k \in Goals : Ready' + Cardinality(Coming') + ToStart("create")' <= k
      /\ \E k \in Goals : Cardinality(ReadyNodes' \ Leaving') - ToStart("delete")' >= k
  BY <1>1, <1>8 DEF coming, staying
<1>10. QED
  BY <1>1, <1>5, <1>9 DEF GoalInv

\* Every started creation is one worker more on its way.
LEMMA GoalStartJob ==
  ASSUME QuietInv, GoalInv, NEW j \in JobIds, NEW n \in Nodes, StartJob(j, n)
  PROVE  GoalInv'
<1>1. /\ jobs[j].state = "unborn" /\ nodes[j] = "unborn"
      /\ jobs'[j] = [type |-> Kind, node |-> n, state |-> "running"]
      /\ \A k \in JobIds \ {j} : jobs'[k] = jobs[k]
      /\ IF Kind = "create" THEN n = j ELSE nodes[n] = "ready"
      /\ pc = "start" /\ started' = started + 1 /\ pc' # "idle"
      /\ UNCHANGED <<nodes, toCreate, toDelete>>
  BY StartJobKnows DEF QuietInv
<1>2. TypeInv /\ started < Wanted
  BY <1>1 DEF QuietInv, StrongInv, TypeInv, ControlOK
<1>3. /\ Ready \in Nat /\ Cardinality(Coming) \in Nat /\ started \in Nat
      /\ Cardinality(ReadyNodes \ Leaving) \in Nat /\ Goals \subseteq Nat
      /\ IsFiniteSet(Coming) /\ IsFiniteSet(ReadyNodes \ Leaving)
      /\ toCreate \in Nat /\ toDelete \in Nat
  BY <1>2, GoalTypes
<1>4. ReadyNodes' = ReadyNodes /\ Ready' = Ready
  BY <1>1 DEF Ready, ReadyNodes
<1>5. PICK g \in Goals : Ready + Cardinality(Coming) + ToStart("create") <= g
  BY DEF GoalInv
<1>6. PICK h \in Goals : Cardinality(ReadyNodes \ Leaving) - ToStart("delete") >= h
  BY DEF GoalInv
<1>7. /\ started' <= Wanted' /\ (toCreate' = 0 \/ toDelete' = 0)
  BY <1>1, <1>2, <1>3 DEF GoalInv, Wanted
<1>8. CASE toCreate > 0
  <2>1. Kind = "create" /\ toDelete = 0 /\ Leaving = {}
    BY <1>8, <1>2, ToStartType DEF Kind, GoalInv
  <2>2. Coming' = Coming \union {j} /\ j \notin Coming
    BY <1>1, <2>1 DEF Coming
  <2>3. Leaving' = {}
    BY <1>1, <1>4, <2>1 DEF Leaving
  <2>4. Cardinality(Coming') = Cardinality(Coming) + 1
    BY <1>3, <2>2, FS_AddElement
  <2>5. /\ ToStart("create")' = ToStart("create") - 1 /\ ToStart("create") \in Nat
        /\ ToStart("delete")' = ToStart("delete")
    BY <1>1, <1>2, <1>3, <1>8, <2>1, ToStartType DEF ToStart, Planned
  <2>6. Ready' + Cardinality(Coming') + ToStart("create")' <= g
    BY <1>3, <1>4, <1>5, <2>4, <2>5
  <2>7. Cardinality(ReadyNodes' \ Leaving') - ToStart("delete")' >= h
    BY <1>4, <1>6, <2>1, <2>3, <2>5
  <2>8. QED
    BY <1>1, <1>7, <2>1, <2>3, <2>6, <2>7 DEF GoalInv
<1>9. CASE toCreate = 0
  <2>1. Kind = "delete" /\ toDelete > 0 /\ Coming = {}
    BY <1>2, <1>3, <1>9 DEF Kind, GoalInv, Wanted
  <2>2. n \in ReadyNodes
    BY <1>1, <2>1 DEF ReadyNodes
  <2>3. Coming' = {}
    BY <1>1, <2>1 DEF Coming
  <2>4. Leaving' = Leaving \union {n}
    BY <1>1, <1>4, <2>1, <2>2 DEF Leaving
  <2>5. Cardinality(ReadyNodes \ Leaving') >= Cardinality(ReadyNodes \ Leaving) - 1
    <3> DEFINE staying == ReadyNodes \ Leaving
               left == ReadyNodes \ Leaving'
    <3>1. left = staying \ {n}
      BY <2>4
    <3>2. IsFiniteSet(staying) /\ Cardinality(staying) \in Nat
      BY <1>3
    <3> HIDE DEF staying, left
    <3>3. Cardinality(staying \ {n})
            = IF n \in staying THEN Cardinality(staying) - 1 ELSE Cardinality(staying)
      <4>1. n \notin staying => staying \ {n} = staying
        OBVIOUS
      <4>2. n \in staying => Cardinality(staying \ {n}) = Cardinality(staying) - 1
        BY <3>2, FS_RemoveElement
      <4>3. QED
        BY <4>1, <4>2
    <3>4. Cardinality(left) >= Cardinality(staying) - 1
      BY <3>1, <3>2, <3>3
    <3>5. QED
      BY <3>4 DEF staying, left
  <2>6. /\ ToStart("delete")' = ToStart("delete") - 1 /\ ToStart("delete") \in Nat
        /\ ToStart("create")' = ToStart("create")
    BY <1>1, <1>2, <1>3, <1>9, <2>1, ToStartType DEF ToStart, Planned
  <2>7. Ready' + Cardinality(Coming') + ToStart("create")' <= g
    BY <1>4, <1>5, <2>1, <2>3, <2>6
  <2>8. Cardinality(ReadyNodes \ Leaving') \in Nat
    BY <1>2, <2>4, ReadyFinite DEF ReadyNodes
  <2>9. Cardinality(ReadyNodes' \ Leaving') - ToStart("delete")' >= h
    <3> DEFINE staying == Cardinality(ReadyNodes \ Leaving)
               left == Cardinality(ReadyNodes \ Leaving')
               more == ToStart("delete")
               less == ToStart("delete")'
    <3>1. /\ staying \in Nat /\ left \in Nat /\ more \in Nat /\ less = more - 1
          /\ left >= staying - 1 /\ staying - more >= h /\ h \in Nat
      BY <1>3, <1>6, <2>5, <2>6, <2>8
    <3> HIDE DEF staying, left, more, less
    <3>2. left - less >= h
      BY <3>1
    <3>3. QED
      BY <1>4, <3>2 DEF left, less
  <2>10. QED
    BY <1>1, <1>7, <1>9, <2>1, <2>3, <2>7, <2>9 DEF GoalInv
<1>10. QED
  BY <1>3, <1>8, <1>9

LEMMA GoalStart ==
  QuietInv /\ GoalInv /\ (StartSkipped \/ StartRejected) => GoalInv'
<1> SUFFICES ASSUME QuietInv, GoalInv, StartSkipped \/ StartRejected PROVE GoalInv'
  OBVIOUS
<1>1. TypeInv /\ (pc = "start" => started < Wanted)
  BY DEF QuietInv, StrongInv, TypeInv, ControlOK
<1>2. started \in Nat /\ toCreate \in Nat /\ toDelete \in Nat
  BY <1>1, GoalTypes
<1>3. CASE StartSkipped
  <2>1. /\ pc = "start" /\ pc' # "idle" /\ started' = started + 1
        /\ UNCHANGED <<nodes, jobs, toCreate, toDelete>>
    BY <1>3 DEF StartSkipped, clusterVars
  <2>2. started' <= Wanted'
    BY <1>1, <1>2, <2>1 DEF Wanted
  <2>3. GoesOn
    BY <2>1, <2>2 DEF GoesOn
  <2>4. QED
    BY <1>1, <2>1, <2>3, GoalFrame
<1>4. CASE StartRejected
  <2>1. UNCHANGED <<nodes, jobs>> /\ pc = "start"
    BY <1>4, StartRejectedKnows DEF QuietInv
  <2>2. Return \/ (UNCHANGED <<toCreate, toDelete, started>> /\ pc' = "patch")
    BY <1>4, StartRejectedKnows DEF QuietInv
  <2>3. started <= Wanted
    BY DEF GoalInv
  <2>4. Return \/ GoesOn
    BY <2>2, <2>3 DEF GoesOn, Wanted
  <2>5. QED
    BY <1>1, <2>1, <2>4, GoalFrame
<1>5. QED
  BY <1>3, <1>4

LEMMA GoalExamine ==
  QuietInv /\ GoalInv /\ (ExamineObserved \/ ExamineKept) => GoalInv'
<1> SUFFICES ASSUME QuietInv, GoalInv, ExamineObserved \/ ExamineKept PROVE GoalInv'
  OBVIOUS
<1>1. \E remaining : Examined(plan, remaining)
  BY DEF ExamineObserved, ExamineKept
<1>2. UNCHANGED <<nodes, jobs, toCreate, toDelete, started>> /\ pc' # "idle"
  BY <1>1 DEF Examined, clusterVars
<1>3. TypeInv /\ GoesOn
  BY <1>2 DEF QuietInv, StrongInv, GoalInv, GoesOn, Wanted
<1>4. QED
  BY <1>2, <1>3, GoalFrame

\* A worker that joins was on its way in, a node that goes was on its way out.
LEMMA GoalJobStep ==
  ASSUME Quiet, QuietInv, GoalInv, NEW j \in JobIds, JobStep(j), UNCHANGED reconcileVars
  PROVE  GoalInv'
<1>1. /\ TypeInv /\ UNCHANGED <<pc, toCreate, toDelete, started>>
  BY DEF QuietInv, StrongInv, reconcileVars
<1>2. /\ \A k \in JobIds : jobs[k].type = "create" => jobs[k].node = k
      /\ \A k \in JobIds : jobs[k].type = "delete" => nodes[jobs[k].node] # "unborn"
  BY DEF QuietInv, WorldInv, Settled
<1>3. \A k \in JobIds : jobs[k].node \in Nodes /\ k \in Nodes
  BY <1>1 DEF TypeInv, TypeOK, Nodes
<1>4. jobs[j].state = "running"
  BY JobStepKnows DEF QuietInv
<1>5. /\ Coming = {k \in JobIds : /\ jobs[k].type = "create" /\ jobs[k].state = "running"
                                 /\ nodes[k] = "unborn"}
      /\ Coming' = {k \in JobIds : /\ jobs'[k].type = "create" /\ jobs'[k].state = "running"
                                  /\ nodes'[k] = "unborn"}
  BY DEF Coming
<1>6. /\ ReadyNodes = {n \in Nodes : nodes[n] = "ready"}
      /\ ReadyNodes' = {n \in Nodes : nodes'[n] = "ready"}
  BY DEF ReadyNodes
<1>7. /\ Leaving = {n \in ReadyNodes : \E k \in JobIds :
             jobs[k].type = "delete" /\ jobs[k].state = "running" /\ jobs[k].node = n}
      /\ Leaving' = {n \in ReadyNodes' : \E k \in JobIds :
             jobs'[k].type = "delete" /\ jobs'[k].state = "running" /\ jobs'[k].node = n}
  BY DEF Leaving
<1>8. /\ IsFiniteSet(Coming) /\ IsFiniteSet(ReadyNodes) /\ IsFiniteSet(ReadyNodes \ Leaving)
      /\ Ready \in Nat /\ Cardinality(Coming) \in Nat
      /\ Cardinality(ReadyNodes \ Leaving) \in Nat /\ Goals \subseteq Nat
  BY <1>1, GoalTypes
<1>9. /\ Ready' + Cardinality(Coming') <= Ready + Cardinality(Coming)
      /\ Cardinality(ReadyNodes' \ Leaving') >= Cardinality(ReadyNodes \ Leaving)
      /\ Ready' + Cardinality(Coming') \in Nat /\ Cardinality(ReadyNodes' \ Leaving') \in Nat
      /\ Coming' \subseteq Coming /\ Leaving' \subseteq Leaving
  <2>1. CASE /\ jobs[j].type = "create" /\ jobs[j].node = j /\ jobs' = jobs
             /\ nodes[j] = "unborn" /\ nodes'[j] = "ready"
             /\ \A n \in Nodes \ {j} : nodes'[n] = nodes[n]
    <3>1. ReadyNodes' = ReadyNodes \union {j} /\ j \notin ReadyNodes
      BY <1>3, <1>6, <2>1
    <3>2. Coming' = Coming \ {j} /\ j \in Coming
      BY <1>3, <1>4, <1>5, <2>1
    <3>3. Leaving' = Leaving
      BY <1>2, <1>7, <2>1, <3>1
    <3>4. Ready' = Ready + 1
      BY <1>8, <3>1, FS_AddElement DEF Ready
    <3>5. Cardinality(Coming') = Cardinality(Coming) - 1
      BY <1>8, <3>2, FS_RemoveElement
    <3>6. ReadyNodes' \ Leaving' = (ReadyNodes \ Leaving) \union {j}
      BY <1>7, <3>1, <3>3
    <3>7. Cardinality(ReadyNodes' \ Leaving') = Cardinality(ReadyNodes \ Leaving) + 1
      BY <1>8, <3>1, <3>6, FS_AddElement
    <3>8. QED
      BY <1>8, <3>2, <3>3, <3>4, <3>5, <3>7
  <2>2. CASE /\ jobs[j].type = "delete" /\ jobs' = jobs
             /\ nodes[jobs[j].node] = "ready" /\ nodes'[jobs[j].node] = "gone"
             /\ \A n \in Nodes \ {jobs[j].node} : nodes'[n] = nodes[n]
    <3>1. ReadyNodes' = ReadyNodes \ {jobs[j].node} /\ jobs[j].node \in ReadyNodes
      BY <1>3, <1>6, <2>2
    <3>2. Coming' = Coming
      BY <1>3, <1>5, <2>2
    <3>3. jobs[j].node \in Leaving /\ Leaving' = Leaving \ {jobs[j].node}
      BY <1>4, <1>7, <2>2, <3>1
    <3>4. Ready' = Ready - 1
      BY <1>8, <3>1, FS_RemoveElement DEF Ready
    <3>5. ReadyNodes' \ Leaving' = ReadyNodes \ Leaving
      BY <3>1, <3>3
    <3>6. Ready' \in Nat
      BY ReadyFinite DEF Ready, ReadyNodes
    <3>7. /\ Cardinality(Coming') = Cardinality(Coming) /\ Coming' \subseteq Coming
          /\ Cardinality(ReadyNodes' \ Leaving') = Cardinality(ReadyNodes \ Leaving)
      BY <3>2, <3>5
    <3>8. /\ Ready' + Cardinality(Coming') <= Ready + Cardinality(Coming)
          /\ Ready' + Cardinality(Coming') \in Nat
      BY <1>8, <3>4, <3>6, <3>7
    <3>9. Leaving' \subseteq Leaving
      BY <3>3
    <3>10. QED
      BY <1>8, <3>7, <3>8, <3>9
  <2>3. CASE /\ nodes' = nodes /\ jobs'[j].state = "complete"
             /\ jobs'[j].type = jobs[j].type /\ jobs'[j].node = jobs[j].node
             /\ IF jobs[j].type = "create" THEN nodes[j] # "unborn"
                                           ELSE nodes[jobs[j].node] = "gone"
             /\ \A k \in JobIds \ {j} : jobs'[k] = jobs[k]
    <3>1. ReadyNodes' = ReadyNodes /\ Ready' = Ready
      BY <2>3 DEF ReadyNodes, Ready
    <3>2. Coming' = Coming
      BY <1>5, <2>3
    <3>3. Leaving' \subseteq Leaving
      BY <1>7, <2>3, <3>1
    <3>4. Leaving \subseteq Leaving'
      <4> SUFFICES ASSUME NEW n \in Leaving PROVE n \in Leaving'
        OBVIOUS
      <4>1. n \in ReadyNodes /\ nodes[n] = "ready"
        BY <1>6, <1>7
      <4>2. PICK k \in JobIds :
              jobs[k].type = "delete" /\ jobs[k].state = "running" /\ jobs[k].node = n
        BY <1>7
      <4>3. k # j
        BY <2>3, <4>1, <4>2
      <4>4. QED
        BY <1>7, <2>3, <3>1, <4>1, <4>2, <4>3
    <3>5. QED
      BY <1>8, <3>1, <3>2, <3>3, <3>4
  <2>4. QED
    BY <2>1, <2>2, <2>3, JobStepKnows DEF QuietInv
<1>10. PICK g \in Goals : Ready + Cardinality(Coming) + ToStart("create") <= g
  BY DEF GoalInv
<1>11. PICK h \in Goals : Cardinality(ReadyNodes \ Leaving) - ToStart("delete") >= h
  BY DEF GoalInv
<1>12. /\ ToStart("create") \in Nat /\ ToStart("delete") \in Nat
       /\ ToStart("create")' = ToStart("create") /\ ToStart("delete")' = ToStart("delete")
  BY <1>1, ToStartType DEF ToStart, Planned
<1> DEFINE arriving == Ready + Cardinality(Coming)
           arrivingNext == Ready' + Cardinality(Coming')
           staying == Cardinality(ReadyNodes \ Leaving)
           stayingNext == Cardinality(ReadyNodes' \ Leaving')
<1>13. /\ arriving \in Int /\ arrivingNext \in Int /\ arrivingNext <= arriving
       /\ staying \in Int /\ stayingNext \in Int /\ stayingNext >= staying
       /\ arriving + ToStart("create") <= g /\ staying - ToStart("delete") >= h
       /\ g \in Int /\ h \in Int
  BY <1>8, <1>9, <1>10, <1>11
<1> HIDE DEF arriving, arrivingNext, staying, stayingNext
<1>14. /\ arrivingNext + ToStart("create")' <= g
       /\ stayingNext - ToStart("delete")' >= h
  BY <1>12, <1>13
<1>15. /\ \E k \in Goals : Ready' + Cardinality(Coming') + ToStart("create")' <= k
       /\ \E k \in Goals : Cardinality(ReadyNodes' \ Leaving') - ToStart("delete")' >= k
  BY <1>14 DEF arrivingNext, stayingNext
<1>16. QED
  BY <1>1, <1>9, <1>15 DEF GoalInv, Wanted

LEMMA GoalNext ==
  ASSUME Quiet, QuietInv, BalanceInv, GoalInv, [Next]_vars
  PROVE  GoalInv'
<1>1. TypeInv /\ started <= Wanted
  BY DEF QuietInv, StrongInv, GoalInv
<1>2. CASE Reconcile
  <2>1. ~ExamineLost /\ ~ExamineTimedOut
    BY ExamineSettled DEF ExamineLost, ExamineTimedOut, QuietInv
  <2>2. CASE Patch
    <3>1. Return /\ UNCHANGED <<nodes, jobs>>
      BY <2>2 DEF Patch, clusterVars
    <3>2. QED
      BY <1>1, <3>1, GoalFrame
  <2>3. QED
    BY <1>2, <2>1, <2>2, GoalPlan, GoalExamine, GoalStart, GoalStartJob DEF Reconcile
<1>3. ASSUME NEW j \in JobIds, NEW n \in Nodes, StartLostReply(j, n) PROVE GoalInv'
  BY <1>3 DEF StartLostReply, Quiet
<1>4. CASE Abandon
  <2>1. Return /\ UNCHANGED <<nodes, jobs>>
    BY <1>4 DEF Abandon, clusterVars
  <2>2. QED
    BY <1>1, <2>1, GoalFrame
<1>5. CASE Environment
  <2>1. UNCHANGED reconcileVars
    BY <1>5, EnvironmentQuiet DEF QuietInv
  <2>2. CASE \E j \in JobIds : JobStep(j)
    BY <2>1, <2>2, GoalJobStep
  <2>3. CASE UNCHANGED <<nodes, jobs>>
    <3>1. GoesOn
      BY <1>1, <2>1 DEF reconcileVars, Wanted, GoesOn
    <3>2. QED
      BY <1>1, <2>3, <3>1, GoalFrame
  <2>4. QED
    BY <1>5, <2>2, <2>3, EnvironmentQuiet DEF QuietInv
<1>6. CASE UNCHANGED vars
  <2>1. UNCHANGED <<nodes, jobs>> /\ GoesOn
    BY <1>1, <1>6 DEF vars, clusterVars, reconcileVars, Wanted, GoesOn
  <2>2. QED
    BY <1>1, <2>1, GoalFrame
<1>7. QED
  BY <1>2, <1>3, <1>4, <1>5, <1>6 DEF Next

-----------------------------------------------------------------------------
(* The theorems.                                                           *)

GoalsKept == QuietInv /\ BalanceInv /\ GoalInv

LEMMA GoalsInit == Init => GoalsKept
BY StrongInit, RunningInit, WorldInit, BalanceInit, GoalInit DEF GoalsKept, QuietInv

LEMMA GoalsNext == Quiet /\ GoalsKept /\ [Next]_vars => GoalsKept'
<1> SUFFICES ASSUME Quiet, GoalsKept, [Next]_vars PROVE GoalsKept'
  OBVIOUS
<1>1. "stale" \notin Faults /\ Faults \intersect {"stale", "lostreply", "patch", "crash"} = {}
  BY DEF Quiet
<1>2. QuietInv'
  BY <1>1, StrongNext, RunningNext, WorldNext DEF GoalsKept, QuietInv
<1>3. BalanceInv' /\ GoalInv'
  BY BalanceNext, GoalNext DEF GoalsKept
<1>4. QED
  BY <1>2, <1>3 DEF GoalsKept

\* A worker is never paid for twice: a reconcile that plans from the Ready
\* count and the operations in flight, both of which move while it runs, never
\* takes the workers there are and those on their way above every target the
\* demand had.  Jobs may be unreadable and creations of Jobs may be refused.
THEOREM NoOvershootCorrect ==
  ASSUME Faults \subseteq {"get", "create"}
  PROVE  Spec => []NoOvershoot
<1>1. Quiet
  BY DEF Quiet
<1>2. GoalsKept => NoOvershoot
  <2> SUFFICES ASSUME GoalsKept PROVE NoOvershoot
    OBVIOUS
  <2>1. TypeInv /\ GoalInv
    BY DEF GoalsKept, QuietInv, StrongInv
  <2>2. PICK g \in Goals : Ready + Cardinality(Coming) + ToStart("create") <= g
    BY <2>1 DEF GoalInv
  <2>3. /\ Ready \in Nat /\ Cardinality(Coming) \in Nat /\ g \in Nat
        /\ ToStart("create") \in Nat
    BY <2>1, GoalTypes, ToStartType
  <2>4. Ready + Cardinality(Coming) <= g
    BY <2>2, <2>3
  <2>5. QED
    BY <2>4 DEF NoOvershoot, Ready
<1>3. QED
  BY <1>1, <1>2, GoalsInit, GoalsNext, PTL DEF Spec

\* Nor do deletions in flight, together with the workers already gone, take the
\* cluster below every target, under the same conditions.
THEOREM NoUndershootCorrect ==
  ASSUME Faults \subseteq {"get", "create"}
  PROVE  Spec => []NoUndershoot
<1>1. Quiet
  BY DEF Quiet
<1>2. GoalsKept => NoUndershoot
  <2> SUFFICES ASSUME GoalsKept PROVE NoUndershoot
    OBVIOUS
  <2>1. TypeInv /\ GoalInv
    BY DEF GoalsKept, QuietInv, StrongInv
  <2>2. PICK g \in Goals : Cardinality(ReadyNodes \ Leaving) - ToStart("delete") >= g
    BY <2>1 DEF GoalInv
  <2>3. /\ Cardinality(ReadyNodes \ Leaving) \in Nat /\ g \in Nat
        /\ ToStart("delete") \in Nat
    BY <2>1, GoalTypes, ToStartType
  <2>4. Cardinality(ReadyNodes \ Leaving) >= g
    BY <2>2, <2>3
  <2>5. QED
    BY <2>4 DEF NoUndershoot
<1>3. QED
  BY <1>1, <1>2, GoalsInit, GoalsNext, PTL DEF Spec

\* Workers never join and leave at the same time: a plan that creates finds no
\* node on its way out, and a plan that deletes no worker on its way in.
THEOREM NoThrashCorrect ==
  ASSUME Faults \subseteq {"get", "create"}
  PROVE  Spec => []NoThrash
<1>1. Quiet
  BY DEF Quiet
<1>2. GoalsKept => NoThrash
  BY DEF GoalsKept, GoalInv, NoThrash
<1>3. QED
  BY <1>1, <1>2, GoalsInit, GoalsNext, PTL DEF Spec

=============================================================================
