----------------------------- MODULE NodeScaler -----------------------------
(***************************************************************************)
(* The node scaler of custom-scaler: NodeScalingReconciler.Reconcile plans *)
(* worker creations and deletions from the number of Ready worker nodes    *)
(* and the operations recorded in the CustomScaler status, starts one      *)
(* Kubernetes Job per operation, and patches the status.                   *)
(*                                                                         *)
(* One reconcile is several steps (list, one Job read per active operation,*)
(* one Job creation per planned worker, one status patch) and the Jobs,    *)
(* the nodes and the demand move between any two of them.  Every creation  *)
(* gets a fresh node name, so a create Job and its node share one name.    *)
(***************************************************************************)
EXTENDS Integers, Sequences, FiniteSets

CONSTANTS
  InitialNodes,             \* worker nodes that exist before the scaler starts
  JobIds,                   \* names of the Jobs, and of the nodes they create
  MaxConcurrentCreateOps,   \* SCALER_WORKER_MAX_CONCURRENT_CREATE_OPS
  MaxConcurrentDeleteOps,   \* SCALER_WORKER_MAX_CONCURRENT_DELETE_OPS
  MaxBatchSize,             \* spec.workerPrototype.maxBatchSize, 0 when unset
  EnabledOps,               \* operations whose command is configured
  Targets,                  \* worker targets the demand can resolve to
  UnschedulableCounts,      \* numbers of unschedulable pods a plan can see
  MaxRetargets,             \* bound: how often the target moves
  Faults,                   \* what the environment may do, see below
  NoOp                      \* the nil *WorkerOperationStatus

AllFaults ==
  { "jobfail",    \* a Job ends Failed
    "latejoin",   \* the machine a failed create left behind joins after all
    "flap",       \* a node turns NotReady, or Ready again
    "reap",       \* the TTL controller removes a finished Job
    "timeout",    \* an operation waits the observation timeout out
    "get",        \* reading a Job fails
    "create",     \* creating a Job fails
    "lostreply",  \* a Job is created and the call still fails
    "patch",      \* patching the status fails
    "crash",      \* the controller dies inside a reconcile
    "stale" }     \* a reconcile reads the informer before it caught up

Nodes == InitialNodes \union JobIds

ASSUME NodesAssumption ==
  /\ IsFiniteSet(InitialNodes) /\ IsFiniteSet(JobIds)
  /\ InitialNodes \intersect JobIds = {}
ASSUME LimitsAssumption ==
  /\ MaxConcurrentCreateOps \in Int /\ MaxConcurrentDeleteOps \in Int
  /\ MaxBatchSize \in Nat /\ MaxRetargets \in Nat
ASSUME DemandAssumption ==
  Targets \subseteq Nat /\ Targets # {} /\ UnschedulableCounts \subseteq Nat
ASSUME KindsAssumption ==
  EnabledOps \subseteq {"create", "delete"} /\ Faults \subseteq AllFaults

OpTypes == {"create", "delete"}
Phases  == {"Running", "WaitingForObservation"}
Op == [type : OpTypes, node : Nodes, job : JobIds, phase : Phases]
ASSUME NoOpAssumption == NoOp \notin Op

Status == [observed : Nat, pendingCreate : Nat, pendingDelete : Nat,
           effective : Int, ops : Seq(Op), legacy : Op \union {NoOp}]

VARIABLES
  \* the cluster
  nodes,      \* Nodes -> the state of the worker node of that name
  jobs,       \* JobIds -> type, node and state of the Job of that name
  target,     \* the worker target the current demand resolves to
  retargets,  \* how often the target has moved
  expired,    \* Jobs whose operation has waited the observation timeout out
  \* the CustomScaler status, in the API server and in the informer
  status, cached, unseen, dirty,
  \* the reconcile in progress
  pc,             \* "idle", "examine", "start" or "patch"
  base, plan,     \* the status it read, the status it will write
  listed,         \* the Ready nodes it counted
  todo, kept,     \* operations to examine, operations to keep
  createBudget, deleteBudget,
  toCreate, toDelete, started

clusterVars == <<nodes, jobs, target, retargets, expired>>
apiVars == <<status, cached, unseen, dirty>>
reconcileVars == <<pc, base, plan, listed, todo, kept, createBudget,
                   deleteBudget, toCreate, toDelete, started>>
vars == <<clusterVars, apiVars, reconcileVars>>

-----------------------------------------------------------------------------
(* Helpers of the planner.                                                 *)

minInt32(a, b) == IF a < b THEN a ELSE b
maxInt32(a, b) == IF a > b THEN a ELSE b

\* Every operation the executor appends has RequestedCount 1, so the sum of
\* the requested counts of a type is the number of its operations.
CountOps(ops, type) == Cardinality({i \in DOMAIN ops : ops[i].type = type})

LegacyOf(ops) == IF ops = <<>> THEN NoOp ELSE ops[1]

\* A status that lists no operation but still holds the legacy mirror is read
\* as one operation.
ActiveOperations(s) ==
  IF s.ops # <<>> THEN s.ops
  ELSE IF s.legacy # NoOp THEN <<s.legacy>> ELSE <<>>

Effective(s) == s.observed + s.pendingCreate - s.pendingDelete

ReadyNodes == {n \in Nodes : nodes[n] = "ready"}

Limit(n) == IF n <= 0 THEN 1 ELSE n
BatchSize ==
  IF MaxBatchSize > 0 THEN MaxBatchSize
  ELSE maxInt32(Limit(MaxConcurrentCreateOps), Limit(MaxConcurrentDeleteOps))

\* What one plan is computed from: the operations in flight, how many of them
\* the change of the Ready count pays for, and what is left.
Completed(current, observed) ==
  [create |-> IF observed > current.observed
                THEN minInt32(CountOps(ActiveOperations(current), "create"),
                              observed - current.observed)
                ELSE 0,
   delete |-> IF observed < current.observed
                THEN minInt32(CountOps(ActiveOperations(current), "delete"),
                              current.observed - observed)
                ELSE 0]

\* Operations in flight that still hold a slot.
InFlight(current, observed) ==
  [create |-> CountOps(ActiveOperations(current), "create")
                - Completed(current, observed).create,
   delete |-> CountOps(ActiveOperations(current), "delete")
                - Completed(current, observed).delete]

\* Mutant: creates in flight do not count towards the target.
WorkersToCreate_InFlightIgnored(current, observed, goal) ==
  LET inFlight == InFlight(current, observed)
      delta == goal - observed
      slots == maxInt32(Limit(MaxConcurrentCreateOps) - inFlight.create, 0)
  IN  IF delta > 0 /\ inFlight.delete = 0
        THEN minInt32(delta, minInt32(BatchSize, slots)) ELSE 0

WorkersToCreate(current, observed, goal) ==
  LET inFlight == InFlight(current, observed)
      delta == goal - (observed + inFlight.create - inFlight.delete)
      slots == maxInt32(Limit(MaxConcurrentCreateOps) - inFlight.create, 0)
  IN  IF delta > 0 /\ inFlight.delete = 0
        THEN minInt32(delta, minInt32(BatchSize, slots)) ELSE 0

\* Mutant: deletes in flight hold no slot and do not count.
WorkersToDelete_InFlightIgnored(current, observed, goal, unschedulable) ==
  LET inFlight == InFlight(current, observed)
      delta == goal - (observed + inFlight.create)
  IN  IF delta < 0 /\ inFlight.create = 0 /\ unschedulable = 0
        THEN minInt32(-delta, minInt32(BatchSize, Limit(MaxConcurrentDeleteOps)))
        ELSE 0

\* Mutant: creates in flight do not block deletes.
WorkersToDelete_DuringCreates(current, observed, goal, unschedulable) ==
  LET inFlight == InFlight(current, observed)
      delta == goal - (observed + inFlight.create - inFlight.delete)
      slots == maxInt32(Limit(MaxConcurrentDeleteOps) - inFlight.delete, 0)
  IN  IF delta < 0 /\ unschedulable = 0
        THEN minInt32(-delta, minInt32(BatchSize, slots)) ELSE 0

WorkersToDelete(current, observed, goal, unschedulable) ==
  LET inFlight == InFlight(current, observed)
      delta == goal - (observed + inFlight.create - inFlight.delete)
      slots == maxInt32(Limit(MaxConcurrentDeleteOps) - inFlight.delete, 0)
  IN  IF delta < 0 /\ inFlight.create = 0 /\ unschedulable = 0
        THEN minInt32(-delta, minInt32(BatchSize, slots)) ELSE 0

\* ensureWorkers: the status a plan writes before the executor runs.
EnsureWorkers(current, observed, creates, deletes) ==
  LET inFlight == InFlight(current, observed)
      ops == ActiveOperations(current)
  IN  [observed      |-> observed,
       pendingCreate |-> inFlight.create + creates,
       pendingDelete |-> inFlight.delete + deletes,
       effective     |-> observed + (inFlight.create + creates)
                           - (inFlight.delete + deletes),
       ops           |-> ops,
       legacy        |-> LegacyOf(ops)]

\* Mutant: the effective count is not recomputed.
Rollback_EffectiveKept(s, type, count) ==
  [s EXCEPT
     !.pendingCreate = IF type = "create" THEN @ - minInt32(@, count) ELSE @,
     !.pendingDelete = IF type = "delete" THEN @ - minInt32(@, count) ELSE @]

\* Mutant: the pending count is not capped at zero.
Rollback_Uncapped(s, type, count) ==
  LET rolled == [s EXCEPT
        !.pendingCreate = IF type = "create" THEN @ - count ELSE @,
        !.pendingDelete = IF type = "delete" THEN @ - count ELSE @]
  IN  [rolled EXCEPT !.effective = Effective(rolled)]

\* Mutant: the pending counts are left alone.
Rollback_PendingKept(s, type, count) == s

\* rollbackUnstartedWorkerOperations
Rollback(s, type, count) ==
  LET rolled == [s EXCEPT
        !.pendingCreate = IF type = "create" THEN @ - minInt32(@, count) ELSE @,
        !.pendingDelete = IF type = "delete" THEN @ - minInt32(@, count) ELSE @]
  IN  [rolled EXCEPT !.effective = Effective(rolled)]

WithOps(s, ops) == [s EXCEPT !.ops = ops, !.legacy = LegacyOf(ops)]

\* Status().Patch with MergeFrom(base): only the fields that differ from the
\* status the reconcile read are sent, so the others keep the stored value.
MergeField(stored, from, to) == IF to = from THEN stored ELSE to

\* The legacy mirror is an object, so its fields are merged one by one.  What is sent of it to
\* a status that has none is completed to the whole object here.
MergeMirror(stored, from, to) ==
  IF NoOp \in {stored, from, to} THEN MergeField(stored, from, to)
  ELSE [type  |-> MergeField(stored.type, from.type, to.type),
        node  |-> MergeField(stored.node, from.node, to.node),
        job   |-> MergeField(stored.job, from.job, to.job),
        phase |-> MergeField(stored.phase, from.phase, to.phase)]

MergePatch(stored, from, to) ==
  [observed |-> MergeField(stored.observed, from.observed, to.observed),
   pendingCreate |->
     MergeField(stored.pendingCreate, from.pendingCreate, to.pendingCreate),
   pendingDelete |->
     MergeField(stored.pendingDelete, from.pendingDelete, to.pendingDelete),
   effective |-> MergeField(stored.effective, from.effective, to.effective),
   ops    |-> MergeField(stored.ops, from.ops, to.ops),
   legacy |-> MergeMirror(stored.legacy, from.legacy, to.legacy)]

-----------------------------------------------------------------------------
EmptyStatus == [observed |-> 0, pendingCreate |-> 0, pendingDelete |-> 0,
                effective |-> 0, ops |-> <<>>, legacy |-> NoOp]

Init ==
  /\ nodes = [n \in Nodes |-> IF n \in InitialNodes THEN "ready" ELSE "unborn"]
  /\ jobs = [j \in JobIds |-> [type |-> "create", node |-> j, state |-> "unborn"]]
  /\ target \in Targets /\ retargets = 0 /\ expired = {}
  /\ status = EmptyStatus /\ cached = EmptyStatus
  /\ unseen = {} /\ dirty = FALSE
  /\ pc = "idle" /\ base = EmptyStatus /\ plan = EmptyStatus /\ listed = {}
  /\ todo = <<>> /\ kept = <<>> /\ createBudget = 0 /\ deleteBudget = 0
  /\ toCreate = 0 /\ toDelete = 0 /\ started = 0

-----------------------------------------------------------------------------
(* The reconcile.                                                          *)

Wanted == toCreate + toDelete
Kind == IF toCreate > 0 THEN "create" ELSE "delete"

\* The reconcile ends; its local state is gone.
Return ==
  /\ pc' = "idle" /\ base' = EmptyStatus /\ plan' = EmptyStatus /\ listed' = {}
  /\ todo' = <<>> /\ kept' = <<>> /\ createBudget' = 0 /\ deleteBudget' = 0
  /\ toCreate' = 0 /\ toDelete' = 0 /\ started' = 0

\* Read the CustomScaler from the informer, resolve the target, count the
\* Ready nodes and plan.  A reconcile the polling interval triggers comes long
\* after the informers have caught up; only the one that a spec change made
\* during the previous reconcile triggers can overtake them.
PlanSeeing(unschedulable) ==
  LET observed == Cardinality(ReadyNodes)
      ops == ActiveOperations(cached)
      creates == WorkersToCreate(cached, observed, target)
      deletes == WorkersToDelete(cached, observed, target, unschedulable)
  IN  /\ base' = cached
      /\ plan' = EnsureWorkers(cached, observed, creates, deletes)
      /\ listed' = ReadyNodes
      /\ todo' = ops /\ kept' = <<>>
      /\ createBudget' = maxInt32(observed - cached.observed, 0)
      /\ deleteBudget' = maxInt32(cached.observed - observed, 0)
      /\ toCreate' = creates /\ toDelete' = deletes /\ started' = 0
      /\ pc' = IF ops # <<>> THEN "examine"
               ELSE IF creates + deletes > 0 THEN "start" ELSE "patch"

Plan ==
  /\ pc = "idle"
  /\ dirty \/ (cached = status /\ unseen = {})
  /\ \E unschedulable \in UnschedulableCounts : PlanSeeing(unschedulable)
  /\ dirty' = FALSE
  /\ UNCHANGED <<clusterVars, status, cached, unseen>>

\* Mutant: the kept operations are appended to the ones of the status.
Examined_Appended(s, remaining) ==
  /\ todo' = Tail(todo) /\ kept' = remaining
  /\ IF Tail(todo) # <<>>
       THEN plan' = s /\ pc' = "examine"
       ELSE /\ plan' = WithOps(s, s.ops \o remaining)
            /\ pc' = IF Wanted > 0 THEN "start" ELSE "patch"
  /\ UNCHANGED <<clusterVars, apiVars, base, listed, toCreate, toDelete, started>>

\* One round of the loop of reconcileActiveWorkerOperations: the plan becomes
\* s and the operations kept so far become remaining.
Examined(s, remaining) ==
  /\ todo' = Tail(todo) /\ kept' = remaining
  /\ IF Tail(todo) # <<>>
       THEN plan' = s /\ pc' = "examine"
       ELSE /\ plan' = WithOps(s, remaining)
            /\ pc' = IF Wanted > 0 THEN "start" ELSE "patch"
  /\ UNCHANGED <<clusterVars, apiVars, base, listed, toCreate, toDelete, started>>

\* The operation is given up: its Job is gone, or it failed.
ExamineLost ==
  /\ pc = "examine"
  /\ LET op == Head(todo)
     IN  /\ op.job \in unseen \/ jobs[op.job].state \in {"gone", "failed"}
         /\ Examined(Rollback(plan, op.type, 1), kept)
  /\ UNCHANGED <<createBudget, deleteBudget>>

\* The operation as the loop sees it after reading a Job that was found.
Advanced(op) ==
  IF jobs[op.job].state = "complete"
    THEN [op EXCEPT !.phase = "WaitingForObservation"] ELSE op

Budget(type) == IF type = "create" THEN createBudget ELSE deleteBudget
Observable(op) == op.phase = "WaitingForObservation" /\ Budget(op.type) > 0

\* The change of the Ready count acknowledges the operation.
ExamineObserved ==
  /\ pc = "examine"
  /\ LET op == Head(todo)
     IN  /\ op.job \notin unseen /\ jobs[op.job].state \in {"running", "complete"}
         /\ Observable(Advanced(op))
         /\ createBudget' = IF op.type = "create" THEN createBudget - 1 ELSE createBudget
         /\ deleteBudget' = IF op.type = "delete" THEN deleteBudget - 1 ELSE deleteBudget
         /\ Examined(plan, kept)

\* Mutant: the timeout also ends operations whose Job is still running.
TimedOut_WhileRunning(op) == op.phase \in Phases

\* Mutant: no timeout.
TimedOut_Never(op) == FALSE

\* The clock is read once, when the reconcile starts, so an operation whose
\* Job is first found complete now cannot time out in the same reconcile.
TimedOut(op) == op.phase = "WaitingForObservation" /\ op.job \in expired

ExamineTimedOut ==
  /\ pc = "examine"
  /\ LET op == Head(todo)
     IN  /\ op.job \notin unseen /\ jobs[op.job].state \in {"running", "complete"}
         /\ ~Observable(Advanced(op)) /\ TimedOut(op)
         /\ Examined(Rollback(plan, op.type, 1), kept)
  /\ UNCHANGED <<createBudget, deleteBudget>>

ExamineKept ==
  /\ pc = "examine"
  /\ LET op == Head(todo)
     IN  /\ op.job \notin unseen /\ jobs[op.job].state \in {"running", "complete"}
         /\ ~Observable(Advanced(op)) /\ ~TimedOut(op)
         /\ Examined(plan, Append(kept, Advanced(op)))
  /\ UNCHANGED <<createBudget, deleteBudget>>

\* startWorkerOperation counts an operation it could not start as started.
StartSkipped ==
  /\ pc = "start"
  /\ Kind \notin EnabledOps \/ (Kind = "delete" /\ ReadyNodes = {})
  /\ plan' = Rollback(plan, Kind, 1)
  /\ started' = started + 1
  /\ pc' = IF started + 1 < Wanted THEN "start" ELSE "patch"
  /\ UNCHANGED <<clusterVars, apiVars, base, listed, todo, kept, createBudget,
                 deleteBudget, toCreate, toDelete>>

\* The Job object of a create or a delete comes into being.
CreateJob(j, n) ==
  /\ pc = "start" /\ Kind \in EnabledOps
  /\ jobs[j].state = "unborn"
  /\ IF Kind = "create" THEN n = j ELSE n \in ReadyNodes
  /\ jobs' = [jobs EXCEPT ![j] = [type |-> Kind, node |-> n, state |-> "running"]]
  /\ UNCHANGED <<nodes, target, retargets, expired>>

\* Which Ready node a delete picks depends on where the pods are at that
\* moment; nothing keeps it from picking a node already being deleted.
StartJob(j, n) ==
  /\ CreateJob(j, n)
  /\ plan' = WithOps(plan, Append(plan.ops,
               [type |-> Kind, node |-> n, job |-> j, phase |-> "Running"]))
  /\ started' = started + 1
  /\ pc' = IF started + 1 < Wanted THEN "start" ELSE "patch"
  /\ unseen' = IF "stale" \in Faults THEN unseen \union {j} ELSE unseen
  /\ UNCHANGED <<status, cached, dirty, base, listed, todo, kept, createBudget,
                 deleteBudget, toCreate, toDelete>>

\* The creation of a Job returned an error.  If it is the first one the
\* reconcile ends and writes nothing, otherwise the rest is rolled back.
StartError ==
  IF started = 0
    THEN Return
    ELSE /\ plan' = Rollback(plan, Kind, Wanted - started)
         /\ pc' = "patch"
         /\ UNCHANGED <<base, listed, todo, kept, createBudget, deleteBudget,
                        toCreate, toDelete, started>>

\* Listing the nodes or creating the Job fails.  Once every name of JobIds,
\* the bound on the Jobs, is taken, the API server refuses the next one.
StartRejected ==
  /\ pc = "start" /\ Kind \in EnabledOps
  /\ \/ "create" \in Faults
     \/ /\ Kind = "delete" => ReadyNodes # {}
        /\ \A j \in JobIds : jobs[j].state # "unborn"
  /\ StartError
  /\ UNCHANGED <<clusterVars, apiVars>>

StartLostReply(j, n) ==
  /\ "lostreply" \in Faults
  /\ CreateJob(j, n)
  /\ StartError
  /\ UNCHANGED apiVars

Patch ==
  /\ pc = "patch"
  /\ status' = MergePatch(status, base, plan)
  /\ cached' = IF dirty THEN cached ELSE status'
  /\ UNCHANGED <<clusterVars, unseen, dirty>>
  /\ Return

\* The reconcile ends without writing: a Job cannot be read, the patch fails,
\* or the controller dies and restarts.
Abandon ==
  /\ \/ pc = "examine" /\ "get" \in Faults
     \/ pc = "patch" /\ "patch" \in Faults
     \/ pc # "idle" /\ "crash" \in Faults
  /\ Return
  /\ UNCHANGED <<clusterVars, apiVars>>

Reconcile ==
  \/ Plan
  \/ ExamineLost \/ ExamineObserved \/ ExamineTimedOut \/ ExamineKept
  \/ StartSkipped \/ (\E j \in JobIds, n \in Nodes : StartJob(j, n))
  \/ StartRejected
  \/ Patch

-----------------------------------------------------------------------------
(* The cluster: the Jobs (linux-script), the nodes, the demand, the clock. *)

\* create-worker-e2e.py, until the node is Ready.  A script that gives up
\* leaves the machine as it is.
NodeJoins(j) ==
  /\ jobs[j].type = "create" /\ nodes[j] = "unborn"
  /\ \/ jobs[j].state = "running"
     \/ "latejoin" \in Faults /\ jobs[j].state = "failed"
  /\ nodes' = [nodes EXCEPT ![j] = "ready"]
  /\ UNCHANGED <<jobs, target, retargets, expired, apiVars, reconcileVars>>

\* teardown-vultr-worker.py, cordon, drain and delete the node.
NodeRemoved(j) ==
  /\ jobs[j].type = "delete" /\ jobs[j].state = "running"
  /\ nodes[jobs[j].node] \in {"ready", "notready"}
  /\ nodes' = [nodes EXCEPT ![jobs[j].node] = "gone"]
  /\ UNCHANGED <<jobs, target, retargets, expired, apiVars, reconcileVars>>

JobEnds(j, state) ==
  /\ jobs' = [jobs EXCEPT ![j].state = state]
  /\ UNCHANGED <<nodes, target, retargets, expired, apiVars, reconcileVars>>

\* The rest of the script: the load balancer, and for a delete the machine.
JobCompletes(j) ==
  /\ jobs[j].state = "running"
  /\ IF jobs[j].type = "create" THEN nodes[j] # "unborn"
                                ELSE nodes[jobs[j].node] = "gone"
  /\ JobEnds(j, "complete")

JobFails(j) ==
  /\ "jobfail" \in Faults /\ jobs[j].state = "running"
  /\ JobEnds(j, "failed")

\* The TTL is far longer than a reconcile.
JobReaped(j) ==
  /\ "reap" \in Faults /\ pc = "idle" /\ jobs[j].state \in {"complete", "failed"}
  /\ JobEnds(j, "gone")

NodeFlaps(n) ==
  /\ "flap" \in Faults /\ nodes[n] \in {"ready", "notready"}
  /\ nodes' = [nodes EXCEPT ![n] = IF @ = "ready" THEN "notready" ELSE "ready"]
  /\ UNCHANGED <<jobs, target, retargets, expired, apiVars, reconcileVars>>

\* The demand moves.  When the target is set in the spec, the change triggers
\* a reconcile; made during a reconcile, one right behind it.
Retarget ==
  /\ retargets < MaxRetargets
  /\ \E t \in Targets \ {target} : target' = t
  /\ retargets' = retargets + 1
  /\ dirty' = (dirty \/ ("stale" \in Faults /\ pc # "idle"))
  /\ UNCHANGED <<nodes, jobs, expired, status, cached, unseen, reconcileVars>>

\* The observation timeout of a waiting operation runs out.
Expires(j) ==
  /\ "timeout" \in Faults /\ pc = "idle" /\ j \notin expired
  /\ \E i \in DOMAIN status.ops :
       status.ops[i].job = j /\ status.ops[i].phase = "WaitingForObservation"
  /\ expired' = expired \union {j}
  /\ UNCHANGED <<nodes, jobs, target, retargets, apiVars, reconcileVars>>

InformerSyncs ==
  /\ cached # status \/ unseen # {}
  /\ \/ cached' = status /\ unseen' = unseen
     \/ cached' = cached /\ unseen' = {}
  /\ UNCHANGED <<clusterVars, status, dirty, reconcileVars>>

JobStep(j) == NodeJoins(j) \/ NodeRemoved(j) \/ JobCompletes(j)

Environment ==
  \/ \E j \in JobIds : JobStep(j) \/ JobFails(j) \/ JobReaped(j) \/ Expires(j)
  \/ \E n \in Nodes : NodeFlaps(n)
  \/ Retarget
  \/ InformerSyncs

Next ==
  \/ Reconcile
  \/ \E j \in JobIds, n \in Nodes : StartLostReply(j, n)
  \/ Abandon
  \/ Environment

Spec == Init /\ [][Next]_vars

\* The manager requeues the reconcile for ever and a Job that can advance does.
\* The clock runs while the controller waits out its polling interval, again
\* and again, hence the strong fairness.  Faults and demand changes are not fair.
Fairness ==
  /\ WF_vars(Reconcile)
  /\ \A j \in JobIds : WF_vars(JobStep(j)) /\ SF_vars(Expires(j))

FairSpec == Spec /\ Fairness

-----------------------------------------------------------------------------
(* Properties.                                                             *)

NodeStates == {"unborn", "ready", "notready", "gone"}
JobStates  == {"unborn", "running", "complete", "failed", "gone"}

\* Every variable has its type; in particular no count of the status is ever
\* negative but the effective one.
TypeOK ==
  /\ nodes \in [Nodes -> NodeStates]
  /\ jobs \in [JobIds -> [type : OpTypes, node : Nodes, state : JobStates]]
  /\ target \in Targets /\ retargets \in 0..MaxRetargets /\ expired \subseteq JobIds
  /\ status \in Status /\ cached \in Status
  /\ unseen \subseteq JobIds /\ dirty \in BOOLEAN
  /\ pc \in {"idle", "examine", "start", "patch"}
  /\ base \in Status /\ plan \in Status /\ listed \subseteq Nodes
  /\ todo \in Seq(Op) /\ kept \in Seq(Op)
  /\ createBudget \in Nat /\ deleteBudget \in Nat
  /\ toCreate \in Nat /\ toDelete \in Nat /\ started \in Nat

Tracks(ops, j) == \E i \in DOMAIN ops : ops[i].job = j

\* EffectiveWorkerCount is always the Ready count plus the pending creations
\* minus the pending deletions of the same status, through rollbacks, skipped
\* starts and partial starts (types.go, "used by ensure_worker").
EffectiveAddsUp == status.effective = Effective(status)

\* The pending counts never claim more workers than there are operations in
\* flight: no rollback, acknowledgement or skipped start leaves a count that
\* no operation stands for, which would hold back scaling for ever.
PendingHasOperations ==
  /\ status.pendingCreate <= CountOps(status.ops, "create")
  /\ status.pendingDelete <= CountOps(status.ops, "delete")

\* The legacy mirror is the first active operation, and nil when there is
\* none: a mirror left behind would be read back as a live operation.
LegacyMirrorsFirst == status.legacy = LegacyOf(status.ops)

\* No Job is tracked by two operations.
OneOperationPerJob ==
  \A a, b \in DOMAIN status.ops :
    status.ops[a].job = status.ops[b].job => a = b

\* Every Job that is running is tracked by an operation of the status, or of
\* the reconcile that started it and has yet to write the status.
RunningJobsTracked ==
  \A j \in JobIds : jobs[j].state = "running" =>
    Tracks(status.ops, j) \/ Tracks(plan.ops, j)

\* The workers on their way in, and the nodes on their way out.
Coming  == {j \in JobIds : /\ jobs[j].type = "create" /\ jobs[j].state = "running"
                           /\ nodes[j] = "unborn"}
Leaving == {n \in ReadyNodes : \E j \in JobIds :
              jobs[j].type = "delete" /\ jobs[j].state = "running" /\ jobs[j].node = n}

Goals == Targets \union {Cardinality(InitialNodes)}

\* The workers there are and those on their way never exceed every target the
\* demand ever had, however Job progress interleaves with planning: a worker
\* is never paid for twice.
NoOvershoot ==
  \E g \in Goals : Cardinality(ReadyNodes) + Cardinality(Coming) <= g

\* Nor do deletions in flight ever take the cluster below every target.
NoUndershoot ==
  \E g \in Goals : Cardinality(ReadyNodes \ Leaving) >= g

\* Workers are never joining and leaving at the same time.
NoThrash == Coming = {} \/ Leaving = {}

\* An operation leaves the status only once its Job is no longer running: it
\* is never acknowledged, timed out or rolled back under a live Job.
OperationsOutliveJobs ==
  [][\A j \in JobIds : Tracks(status.ops, j) /\ ~Tracks(status'.ops, j)
       => jobs[j].state # "running"]_status

\* PendingCreateCount, when a status is written, counts creations "planned but
\* not yet observed as Ready" (types.go): the nodes it stands for were not
\* among the Ready nodes this reconcile counted.
PendingCreatesUnobserved ==
  [][pc = "patch" =>
       status'.pendingCreate <=
         Cardinality({i \in DOMAIN status'.ops :
           status'.ops[i].type = "create" /\ status'.ops[i].node \notin listed})]_status

\* PendingDeleteCount counts worker deletions: as many distinct nodes are the
\* target of a delete operation.
PendingDeletesDistinct ==
  status.pendingDelete <=
    Cardinality({status.ops[i].node :
      i \in {k \in DOMAIN status.ops : status.ops[k].type = "delete"}})

\* "Delete operations in flight block new creates": no create Job starts while
\* a delete Job is running.
CreatesWaitForDeletes ==
  [][\A j \in JobIds :
       jobs[j].state = "unborn" /\ jobs'[j].state = "running" /\ jobs'[j].type = "create"
       => \A k \in JobIds : ~(jobs[k].type = "delete" /\ jobs[k].state = "running")]_jobs

\* When the demand stops moving, the cluster reaches it and stays.
Converges ==
  \A t \in Targets :
    <>[](target = t) => <>[](Cardinality(ReadyNodes) = t)

\* No operation holds its slot for ever.
OperationsEnd == \A j \in JobIds : Tracks(status.ops, j) ~> ~Tracks(status.ops, j)
====
