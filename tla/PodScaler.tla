------------------------------ MODULE PodScaler ------------------------------
(***************************************************************************)
(* The pod scaling loop (pod_scaling_controller.go) with the arithmetic it *)
(* takes from customscaler_controller.go, and the number of workers that   *)
(* the node scaling loop derives from it (node_scaling_controller.go,      *)
(* worker_capacity.go).  What NodeScaler does with that number is module   *)
(* NodeScaler; here the workers just follow it.                            *)
(*                                                                         *)
(* Both loops read through the cache of the manager, which may be behind   *)
(* the API server, and somebody else may scale the deployment as well.     *)
(***************************************************************************)
EXTENDS Integers, Sequences, FiniteSets

CONSTANTS
  MinReplicas, MaxReplicas, SparePod,
  RequiredPoints,              \* recent points a guardrail decision takes
  IncreaseStep, DecreaseStep,  \* of the reactive bump
  MaxBump,                     \* 0: no maximum
  ReplicaStep,                 \* replicas for one unit of the bump
  SafetyPods, PodsPerWorker,
  MinWorkers, MaxWorkers,      \* MaxWorkers 0: no maximum
  FreeSlots,                   \* pods that fit on a worker beside the other pods there
  Points,                      \* points of a guardrail series in a forecast
  MaxDemand,                   \* bound: replicas the predicted load needs
  HandCounts,                  \* bound: replicas somebody else may set
  MaxDisturbances,             \* bound: changes of load, series that are not calm, other scalers
  MaxFaults                    \* bound: calls that fail, restarts

\* ScalingDefaults.normalized, WorkerCapacityDefaults.normalized, scalingPolicyFor.
PolicyAssumption ==
  /\ {MinReplicas, MaxReplicas, RequiredPoints, IncreaseStep, DecreaseStep, PodsPerWorker,
      Points} \subseteq Nat \ {0}
  /\ {SparePod, MaxBump, ReplicaStep, SafetyPods, MinWorkers, MaxWorkers,
      MaxDemand, MaxDisturbances, MaxFaults} \subseteq Nat
  /\ FreeSlots \in 1..PodsPerWorker
  /\ MinReplicas <= MaxReplicas /\ HandCounts \subseteq Nat
  /\ MaxWorkers > 0 => MinWorkers <= MaxWorkers
ASSUME PolicyAssumption

VARIABLES
  config,         \* scale-down policy and capacity strategy
  replicas,       \* of the deployment
  cachedReplicas, \* of the deployment in the cache
  cacheCurrent,   \* whether the cache has the newest version of the deployment
  status,         \* ReactivePressureBump and LastDesiredReplicas
  cachedStatus,   \* the same in the cache
  pc,             \* where the pod scaling cycle is
  cycle,          \* what it has read and computed
  demand,         \* replicas the load needs
  workers,        \* ready workers
  target,         \* TargetWorkerCount of the last node scaling cycle
  disturbances,
  faults

deploymentVars == <<replicas, cachedReplicas, cacheCurrent>>
statusVars == <<status, cachedStatus>>
cycleVars == <<pc, cycle>>
nodeVars == <<workers, target>>
budgetVars == <<demand, disturbances, faults>>
vars == <<config, deploymentVars, statusVars, cycleVars, nodeVars, budgetVars>>

\* A point of a guardrail series: above its threshold, not above it, or nil.
Series == [1..Points -> {"high", "low", "nil"}]

NoCycle == [bump |-> 0, last |-> 0, next |-> 0, desired |-> 0, read |-> 0, current |-> FALSE,
            pressure |-> FALSE, healthy |-> FALSE]

AtMost(n, limit) == IF n > limit THEN limit ELSE n
AtLeast(n, limit) == IF n < limit THEN limit ELSE n
CeilDiv(n, d) == (n + d - 1) \div d

Init ==
  /\ config \in [safe : BOOLEAN, strategy : {"direct-divide", "free-slots"}]
  /\ replicas = MinReplicas /\ cachedReplicas = replicas /\ cacheCurrent = TRUE
  /\ status = [bump |-> 0, desired |-> 0] /\ cachedStatus = status
  /\ pc = "idle" /\ cycle = NoCycle
  /\ demand \in 0..MaxDemand
  /\ workers = MinWorkers /\ target = MinWorkers
  /\ disturbances = 0 /\ faults = 0

-----------------------------------------------------------------------------
\* The newest RequiredPoints elements of a set of indices; fewer when there are not so many.
Recent(indices) == {i \in indices : Cardinality({j \in indices : j > i}) < RequiredPoints}

\* hasSustainedReactivePressure: at each of the recent points where one is known, one is high.
SustainedPressure(ingress, errors) ==
  LET known == {i \in 1..Points : ingress[i] # "nil" \/ errors[i] # "nil"}
  IN /\ Cardinality(known) >= RequiredPoints
     /\ \A i \in Recent(known) : ingress[i] = "high" \/ errors[i] = "high"

\* allowScaleDown under the policy "safe": the recent known points of each series are low.
RecentlyLow(series) ==
  LET known == {i \in 1..Points : series[i] # "nil"}
  IN /\ Cardinality(known) >= RequiredPoints
     /\ \A i \in Recent(known) : series[i] = "low"

\* What the series of a forecast say.
Observations ==
  {[pressure |-> SustainedPressure(ingress, errors),
    healthy |-> RecentlyLow(ingress) /\ RecentlyLow(errors)] : ingress, errors \in Series}
Calm == [pressure |-> FALSE, healthy |-> TRUE]

\* Mutant: the bump is kept while there is no pressure.
NextBump_Kept(bump, pressure) ==
  IF pressure THEN AtMost(bump + IncreaseStep, MaxBump) ELSE bump

\* nextReactivePressureBump
NextBump(bump, pressure) ==
  IF pressure
  THEN IF MaxBump > 0 THEN AtMost(bump + IncreaseStep, MaxBump) ELSE bump + IncreaseStep
  ELSE AtLeast(bump - DecreaseStep, 0)

\* calculateDesiredReplicas, for the replicas the predicted peak needs.
BaseReplicas(need) ==
  AtMost(AtLeast(IF need > 0 THEN need + SparePod ELSE 0, MinReplicas), MaxReplicas)

DesiredReplicas(need, bump) ==
  IF bump * ReplicaStep > 0 THEN AtMost(BaseReplicas(need) + bump * ReplicaStep, MaxReplicas)
  ELSE BaseReplicas(need)

\* A scale-down that the guardrails do not allow keeps the replicas that were read.
Guarded(desired, read, healthy) ==
  IF desired < read /\ config.safe /\ ~healthy THEN read ELSE desired

-----------------------------------------------------------------------------
\* The pod scaling cycle reads the CustomScaler and asks for a forecast.
StartCycle ==
  /\ pc = "idle"
  /\ pc' = "forecast"
  /\ cycle' = [NoCycle EXCEPT !.bump = cachedStatus.bump, !.last = cachedStatus.desired]
  /\ UNCHANGED <<config, deploymentVars, statusVars, nodeVars, budgetVars>>

\* The forecast comes; the deployment is read after it.
ReceiveForecast(observed) ==
  LET next == NextBump(cycle.bump, observed.pressure)
  IN /\ pc = "forecast"
     /\ cycle' = [cycle EXCEPT !.pressure = observed.pressure, !.healthy = observed.healthy,
                               !.next = next,
                               !.read = cachedReplicas, !.current = cacheCurrent,
                               !.desired = Guarded(DesiredReplicas(demand, next),
                                                   cachedReplicas, observed.healthy)]
     /\ pc' = "scale"
     /\ IF observed = Calm THEN disturbances' = disturbances
        ELSE disturbances < MaxDisturbances /\ disturbances' = disturbances + 1
     /\ UNCHANGED <<config, deploymentVars, statusVars, nodeVars, demand, faults>>

\* What the cycle still needs for the patch.
ToPatch == [cycle EXCEPT !.read = 0, !.current = FALSE, !.pressure = FALSE, !.healthy = FALSE]

\* Mutant: the Update is sent as a patch, without a version.
Scale_Unversioned ==
  /\ pc = "scale" /\ pc' = "patch" /\ cycle' = ToPatch
  /\ IF cycle.desired = cycle.read THEN UNCHANGED deploymentVars
     ELSE replicas' = cycle.desired /\ cacheCurrent' = FALSE /\ cachedReplicas' = cachedReplicas
  /\ UNCHANGED <<config, statusVars, nodeVars, budgetVars>>

\* The Update carries the version that was read: a conflict ends the cycle with an error, and
\* the queue starts another one.
Scale ==
  /\ pc = "scale"
  /\ IF cycle.desired # cycle.read /\ ~cycle.current
     THEN pc' = "idle" /\ cycle' = NoCycle /\ UNCHANGED deploymentVars
     ELSE /\ pc' = "patch" /\ cycle' = ToPatch
          /\ IF cycle.desired = cycle.read THEN UNCHANGED deploymentVars
             ELSE /\ replicas' = cycle.desired /\ cacheCurrent' = FALSE
                  /\ cachedReplicas' = cachedReplicas
  /\ UNCHANGED <<config, statusVars, nodeVars, budgetVars>>

\* patchPodScalingStatus: a merge patch, of what differs from the status that was read.
PatchStatus ==
  /\ pc = "patch"
  /\ status' = [bump |-> IF cycle.next = cycle.bump THEN status.bump ELSE cycle.next,
                desired |-> IF cycle.desired = cycle.last THEN status.desired ELSE cycle.desired]
  /\ pc' = "idle" /\ cycle' = NoCycle
  /\ UNCHANGED <<config, deploymentVars, cachedStatus, nodeVars, budgetVars>>

\* The forecast, the Update or the patch fails, or the manager restarts: nothing of the cycle
\* is kept.
EndCycle ==
  /\ pc # "idle" /\ faults < MaxFaults
  /\ faults' = faults + 1
  /\ pc' = "idle" /\ cycle' = NoCycle
  /\ UNCHANGED <<config, deploymentVars, statusVars, nodeVars, demand, disturbances>>

-----------------------------------------------------------------------------
\* Replicas the node scaling cycle plans for.
PlannedReplicas ==
  IF cachedStatus.desired = 0 THEN cachedReplicas ELSE cachedStatus.desired

\* What a worker really holds: "direct-divide" is for clusters configured to have nothing
\* else on the workers.
Slots == IF config.strategy = "direct-divide" THEN PodsPerWorker ELSE FreeSlots

\* Pods of the deployment that the workers have no room for.
Unschedulable == AtLeast(replicas - workers * Slots, 0)

Bounded(n) ==
  LET raised == AtLeast(n, MinWorkers)
  IN IF MaxWorkers > 0 THEN AtMost(raised, MaxWorkers) ELSE raised

\* Mutant: a target is never lowered.
WorkerTarget_NeverLowered(pods) == AtLeast(Bounded(CeilDiv(pods, PodsPerWorker)), target)

\* resolveWorkerTargetCount for that many pods; when the slots of the ready workers do not
\* suffice, "free-slots" adds whole workers for the rest.
WorkerTarget(pods) ==
  Bounded(IF config.strategy = "direct-divide" THEN CeilDiv(pods, PodsPerWorker)
          ELSE IF pods <= workers * Slots THEN CeilDiv(pods, Slots)
          ELSE workers + CeilDiv(pods - workers * Slots, PodsPerWorker))

NodeCycle ==
  /\ target' = WorkerTarget(PlannedReplicas + SafetyPods + Unschedulable)
  /\ UNCHANGED <<config, deploymentVars, statusVars, cycleVars, workers, budgetVars>>

\* NodeScaler brings the workers to the target.
FollowTarget ==
  /\ workers # target
  /\ workers' = IF workers < target THEN workers + 1 ELSE workers - 1
  /\ UNCHANGED <<config, deploymentVars, statusVars, cycleVars, target, budgetVars>>

-----------------------------------------------------------------------------
SyncDeployment ==
  /\ ~cacheCurrent
  /\ cachedReplicas' = replicas /\ cacheCurrent' = TRUE
  /\ UNCHANGED <<config, replicas, statusVars, cycleVars, nodeVars, budgetVars>>

SyncStatus ==
  /\ cachedStatus # status
  /\ cachedStatus' = status
  /\ UNCHANGED <<config, deploymentVars, status, cycleVars, nodeVars, budgetVars>>

\* Somebody else scales the deployment.
ScaledByHand(n) ==
  /\ disturbances < MaxDisturbances /\ disturbances' = disturbances + 1
  /\ n # replicas /\ replicas' = n
  /\ cacheCurrent' = FALSE
  /\ cycle' = [cycle EXCEPT !.current = FALSE]
  /\ UNCHANGED <<config, cachedReplicas, statusVars, pc, nodeVars, demand, faults>>

LoadChanges(n) ==
  /\ disturbances < MaxDisturbances /\ disturbances' = disturbances + 1
  /\ n # demand /\ demand' = n
  /\ UNCHANGED <<config, deploymentVars, statusVars, cycleVars, nodeVars, faults>>

Forecasted == \E observed \in Observations : ReceiveForecast(observed)

Next ==
  \/ StartCycle \/ Forecasted \/ Scale \/ PatchStatus \/ EndCycle
  \/ NodeCycle \/ FollowTarget
  \/ SyncDeployment \/ SyncStatus
  \/ \E n \in HandCounts : ScaledByHand(n)
  \/ \E n \in 0..MaxDemand : LoadChanges(n)

Spec == Init /\ [][Next]_vars

\* Every call is answered or fails, the loops run again and again, the cache catches up.
Fairness ==
  /\ WF_vars(StartCycle) /\ WF_vars(Forecasted) /\ WF_vars(Scale) /\ WF_vars(PatchStatus)
  /\ WF_vars(NodeCycle) /\ WF_vars(FollowTarget)
  /\ WF_vars(SyncDeployment) /\ WF_vars(SyncStatus)

FairSpec == Spec /\ Fairness

-----------------------------------------------------------------------------
\* Properties.

\* Every value the variables take (PodScalingReconciler).
TypeOK ==
  /\ config.safe \in BOOLEAN /\ config.strategy \in {"direct-divide", "free-slots"}
  /\ {replicas, cachedReplicas, demand, workers, target} \subseteq Nat
  /\ cacheCurrent \in BOOLEAN
  /\ {status, cachedStatus} \subseteq [bump : Nat, desired : Nat]
  /\ pc \in {"idle", "forecast", "scale", "patch"}
  /\ cycle \in [bump : Nat, last : Nat, next : Nat, desired : Nat, read : Nat, current : BOOLEAN,
                pressure : BOOLEAN, healthy : BOOLEAN]
  /\ disturbances \in 0..MaxDisturbances /\ faults \in 0..MaxFaults

\* Under the "safe" policy a cycle never takes away replicas the deployment really has, be it
\* that it read an old count or that somebody has added some meanwhile, unless the guardrails
\* were healthy and the series show no sustained pressure, whatever points of them are missing.
\* Under the other policy it may take them away at any time, under pressure too.  Whatever the
\* policy, what it sets lies within the bounds (Reconcile, allowScaleDown,
\* hasSustainedReactivePressure).
ScaleDownGuarded ==
  [][Scale /\ replicas' # replicas =>
       /\ replicas' \in MinReplicas..MaxReplicas
       /\ replicas' < replicas => ~config.safe \/ (cycle.healthy /\ ~cycle.pressure)]_vars

\* When the load stays as it is, the series are calm and nobody interferes, the bump is worked
\* off and the deployment and the status come to what the load needs.
Steady ==
  /\ replicas = BaseReplicas(demand)
  /\ status = [bump |-> 0, desired |-> BaseReplicas(demand)]
ReplicasSettle == <>[]Steady

\* Then the workers settle as well, at the fewest that hold the pods and the safety pods: that
\* the unschedulable pods are counted twice, or the rest over whole workers, is undone.
WorkersNeeded ==
  Bounded(CeilDiv(BaseReplicas(demand) + SafetyPods, Slots))
WorkersSettle == <>[](workers = WorkersNeeded /\ target = WorkersNeeded)
=============================================================================
