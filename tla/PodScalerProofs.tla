--------------------------- MODULE PodScalerProofs ---------------------------
(***************************************************************************)
(* Theorems of PodScaler, for every policy: a pod scaling cycle takes away *)
(* no replica the guardrails protect, whatever is missing in the series of *)
(* a forecast and however old the cache is.                                *)
(***************************************************************************)
EXTENDS PodScaler, FiniteSetTheorems, WellFoundedInduction, TLAPS

\* The cache tells the truth when it is current.
CacheHolds == cacheCurrent => cachedReplicas = replicas

\* The cycle holds the count the deployment has, or its version is not the newest.
ReadHolds == cycle.current => cycle.read = replicas

\* What a cycle is about to set follows from what it has read.
DecisionHolds ==
  pc = "scale" =>
    /\ cycle.desired # cycle.read => cycle.desired \in MinReplicas..MaxReplicas
    /\ cycle.desired < cycle.read => ~config.safe \/ cycle.healthy
    /\ ~(cycle.healthy /\ cycle.pressure)

IInv == TypeOK /\ CacheHolds /\ ReadHolds /\ DecisionHolds

-----------------------------------------------------------------------------
(* The series of a forecast.                                               *)

\* A set of indices that is not empty has a newest one.
LEMMA NewestIndex ==
  ASSUME NEW indices \in SUBSET (1..Points), indices # {}
  PROVE  \E i \in indices : \A j \in indices : ~(j > i)
<1>1. PICK p \in Nat : p = Points
  BY PolicyAssumption DEF PolicyAssumption
<1> DEFINE distances == {d \in Nat : \E i \in indices : d = p - i}
<1>2. distances \subseteq Nat /\ distances # {}
  <2>1. PICK i \in indices : i \in 1..p
    BY <1>1
  <2>2. p - i \in Nat
    BY <2>1
  <2>3. QED
    BY <2>2
<1> HIDE DEF distances
<1>3. PICK d \in distances : \A e \in distances : ~(<<e, d>> \in OpToRel(<, Nat))
  BY <1>2, NatLessThanWellFounded, WFMin
<1>4. \A e \in distances : ~(e < d)
  BY <1>2, <1>3 DEF OpToRel
<1>5. PICK i \in indices : d = p - i
  BY DEF distances
<1>6. \A j \in indices : ~(p - j < p - i)
  <2>1. \A j \in indices : p - j \in Nat
    BY <1>1
  <2>2. QED
    BY <2>1, <1>4, <1>5 DEF distances
<1>7. \A j \in indices : ~(j > i)
  BY <1>1, <1>6
<1>8. QED
  BY <1>7

\* The newest known point is a recent one.
LEMMA NewestIsRecent ==
  ASSUME NEW indices, NEW i \in indices, \A j \in indices : ~(j > i)
  PROVE  i \in Recent(indices)
<1>1. {j \in indices : j > i} = {}
  OBVIOUS
<1>2. Cardinality({j \in indices : j > i}) < RequiredPoints
  BY <1>1, FS_EmptySet, PolicyAssumption DEF PolicyAssumption
<1>3. QED
  BY <1>2 DEF Recent

\* Series that show a sustained pressure are not healthy, wherever points are missing.
LEMMA PressureIsNotHealth ==
  ASSUME NEW ingress \in Series, NEW errors \in Series, SustainedPressure(ingress, errors)
  PROVE  ~(RecentlyLow(ingress) /\ RecentlyLow(errors))
<1> DEFINE known == {i \in 1..Points : ingress[i] # "nil" \/ errors[i] # "nil"}
           knownOf(series) == {i \in 1..Points : series[i] # "nil"}
<1>1. Cardinality(known) >= RequiredPoints
      /\ \A i \in Recent(known) : ingress[i] = "high" \/ errors[i] = "high"
  BY DEF SustainedPressure
<1>2. known # {}
  BY <1>1, FS_EmptySet, PolicyAssumption DEF PolicyAssumption
<1>3. PICK i \in known : \A j \in known : ~(j > i)
  BY <1>2, NewestIndex
<1>4. i \in Recent(known)
  BY <1>3, NewestIsRecent
<1>5. ASSUME NEW series \in {ingress, errors}, series[i] = "high"
      PROVE  ~RecentlyLow(series)
  <2>1. i \in knownOf(series) /\ \A j \in knownOf(series) : ~(j > i)
    BY <1>3, <1>5
  <2>2. i \in Recent(knownOf(series))
    BY <2>1, NewestIsRecent
  <2>3. QED
    BY <2>2, <1>5 DEF RecentlyLow
<1>6. QED
  BY <1>1, <1>4, <1>5

-----------------------------------------------------------------------------
(* The arithmetic.                                                         *)

LEMMA Constants ==
  /\ MinReplicas \in Nat \ {0} /\ MaxReplicas \in Nat \ {0} /\ MinReplicas <= MaxReplicas
  /\ RequiredPoints \in Nat \ {0} /\ Points \in Nat \ {0}
  /\ IncreaseStep \in Nat \ {0} /\ DecreaseStep \in Nat \ {0}
  /\ PodsPerWorker \in Nat \ {0} /\ FreeSlots \in Nat \ {0}
  /\ SparePod \in Nat /\ MaxBump \in Nat /\ ReplicaStep \in Nat /\ SafetyPods \in Nat
  /\ MinWorkers \in Nat /\ MaxWorkers \in Nat
  /\ MaxDemand \in Nat /\ MaxDisturbances \in Nat /\ MaxFaults \in Nat
  /\ HandCounts \subseteq Nat
BY PolicyAssumption DEF PolicyAssumption

LEMMA NextBumpType ==
  ASSUME NEW bump \in Nat, NEW pressure \in BOOLEAN
  PROVE  NextBump(bump, pressure) \in Nat
BY Constants DEF NextBump, AtMost, AtLeast

LEMMA BaseInBounds ==
  ASSUME NEW need \in Nat
  PROVE  BaseReplicas(need) \in Nat /\ BaseReplicas(need) \in MinReplicas..MaxReplicas
BY Constants DEF BaseReplicas, AtMost, AtLeast

LEMMA DesiredInBounds ==
  ASSUME NEW need \in Nat, NEW bump \in Nat
  PROVE  DesiredReplicas(need, bump) \in Nat
         /\ DesiredReplicas(need, bump) \in MinReplicas..MaxReplicas
<1>1. PICK base \in Nat : base = BaseReplicas(need) /\ base \in MinReplicas..MaxReplicas
  BY BaseInBounds
<1>2. PICK extra \in Int : extra = bump * ReplicaStep
  BY Constants
<1>3. DesiredReplicas(need, bump) = IF extra > 0 THEN AtMost(base + extra, MaxReplicas) ELSE base
  BY <1>1, <1>2 DEF DesiredReplicas
<1>4. QED
  BY <1>1, <1>3, Constants DEF AtMost

LEMMA WorkerTargetType ==
  ASSUME NEW n \in Int
  PROVE  Bounded(n) \in Nat
BY Constants DEF Bounded, AtLeast, AtMost

LEMMA CeilDivType ==
  ASSUME NEW n \in Int, NEW d \in Nat \ {0}
  PROVE  CeilDiv(n, d) \in Int
BY DEF CeilDiv

-----------------------------------------------------------------------------
(* Every action keeps the invariant.                                       *)

LEMMA IInvInit ==
  ASSUME Init
  PROVE  IInv
<1>1. TypeOK
  BY Constants DEF Init, TypeOK, NoCycle
<1>2. CacheHolds /\ ReadHolds /\ DecisionHolds
  BY DEF Init, CacheHolds, ReadHolds, DecisionHolds, NoCycle
<1>3. QED
  BY <1>1, <1>2 DEF IInv

LEMMA StartCycleKeeps ==
  ASSUME IInv, StartCycle
  PROVE  IInv'
<1>1. /\ UNCHANGED <<config, deploymentVars, statusVars, nodeVars, budgetVars>>
      /\ pc' = "forecast"
      /\ cycle' = [NoCycle EXCEPT !.bump = cachedStatus.bump, !.last = cachedStatus.desired]
  BY DEF StartCycle
<1>2. TypeOK'
  BY <1>1 DEF IInv, TypeOK, NoCycle, deploymentVars, statusVars, nodeVars, budgetVars
<1>3. (CacheHolds /\ ReadHolds /\ DecisionHolds)'
  BY <1>1 DEF IInv, CacheHolds, ReadHolds, DecisionHolds, NoCycle, deploymentVars
<1>4. QED
  BY <1>2, <1>3 DEF IInv

LEMMA ReceiveForecastKeeps ==
  ASSUME IInv, NEW observed \in Observations, ReceiveForecast(observed)
  PROVE  IInv'
<1>1. observed.pressure \in BOOLEAN /\ observed.healthy \in BOOLEAN
      /\ ~(observed.healthy /\ observed.pressure)
  <2>1. PICK ingress \in Series, errors \in Series :
          observed = [pressure |-> SustainedPressure(ingress, errors),
                      healthy |-> RecentlyLow(ingress) /\ RecentlyLow(errors)]
    BY DEF Observations
  <2>2. observed.pressure \in BOOLEAN /\ observed.healthy \in BOOLEAN
    BY <2>1 DEF SustainedPressure, RecentlyLow
  <2>3. QED
    BY <2>1, <2>2, PressureIsNotHealth
<1>2. PICK next \in Nat : next = NextBump(cycle.bump, observed.pressure)
  BY <1>1, NextBumpType DEF IInv, TypeOK
<1>3. PICK wanted \in Nat : /\ wanted = DesiredReplicas(demand, next)
                            /\ wanted \in MinReplicas..MaxReplicas
  BY <1>2, DesiredInBounds DEF IInv, TypeOK
<1>4. PICK desired \in Nat :
        /\ desired = Guarded(wanted, cachedReplicas, observed.healthy)
        /\ desired # cachedReplicas => desired \in MinReplicas..MaxReplicas
        /\ desired < cachedReplicas => ~config.safe \/ observed.healthy
  BY <1>3 DEF Guarded, IInv, TypeOK
<1>5. /\ UNCHANGED <<config, deploymentVars, statusVars, nodeVars, demand, faults>>
      /\ cycle' = [cycle EXCEPT !.pressure = observed.pressure, !.healthy = observed.healthy,
                                !.next = next, !.read = cachedReplicas,
                                !.current = cacheCurrent, !.desired = desired]
      /\ pc' = "scale"
      /\ disturbances' = disturbances
         \/ (disturbances < MaxDisturbances /\ disturbances' = disturbances + 1)
  BY <1>2, <1>3, <1>4 DEF ReceiveForecast
<1>6. TypeOK'
  <2>1. disturbances' \in 0..MaxDisturbances
    BY <1>5, Constants DEF IInv, TypeOK
  <2>2. cycle' \in [bump : Nat, last : Nat, next : Nat, desired : Nat, read : Nat,
                    current : BOOLEAN, pressure : BOOLEAN, healthy : BOOLEAN]
    BY <1>1, <1>5 DEF IInv, TypeOK
  <2>3. QED
    BY <1>5, <2>1, <2>2 DEF IInv, TypeOK, deploymentVars, statusVars, nodeVars
<1>7. /\ cycle'.pressure = observed.pressure /\ cycle'.healthy = observed.healthy
      /\ cycle'.read = cachedReplicas /\ cycle'.current = cacheCurrent
      /\ cycle'.desired = desired
  BY <1>5 DEF IInv, TypeOK
<1>8. (CacheHolds /\ ReadHolds)'
  BY <1>5, <1>7 DEF IInv, CacheHolds, ReadHolds, deploymentVars
<1>9. DecisionHolds'
  BY <1>1, <1>4, <1>5, <1>7 DEF DecisionHolds
<1>10. QED
  BY <1>6, <1>8, <1>9 DEF IInv

LEMMA NoCycleType ==
  /\ NoCycle \in [bump : Nat, last : Nat, next : Nat, desired : Nat, read : Nat,
                  current : BOOLEAN, pressure : BOOLEAN, healthy : BOOLEAN]
  /\ ~NoCycle.current
BY DEF NoCycle

LEMMA ToPatchType ==
  ASSUME IInv
  PROVE  /\ ToPatch \in [bump : Nat, last : Nat, next : Nat, desired : Nat, read : Nat,
                         current : BOOLEAN, pressure : BOOLEAN, healthy : BOOLEAN]
         /\ ~ToPatch.current
BY DEF ToPatch, IInv, TypeOK

\* An Update that changes the count was decided on the count the deployment has.
LEMMA ScaleKeeps ==
  ASSUME IInv, Scale
  PROVE  /\ IInv'
         /\ replicas' # replicas =>
              /\ replicas' \in MinReplicas..MaxReplicas
              /\ replicas' < replicas => ~config.safe \/ (cycle.healthy /\ ~cycle.pressure)
<1>1. /\ UNCHANGED <<config, statusVars, nodeVars, budgetVars>>
      /\ pc = "scale" /\ pc' \in {"idle", "patch"}
      /\ cycle' \in {NoCycle, ToPatch}
  BY DEF Scale
<1>2. \/ UNCHANGED deploymentVars
      \/ /\ cycle.desired # cycle.read /\ cycle.current
         /\ replicas' = cycle.desired /\ cacheCurrent' = FALSE
         /\ cachedReplicas' = cachedReplicas
  BY DEF Scale
<1>3. TypeOK'
  <2>1. cycle' \in [bump : Nat, last : Nat, next : Nat, desired : Nat, read : Nat,
                    current : BOOLEAN, pressure : BOOLEAN, healthy : BOOLEAN]
    BY <1>1, NoCycleType, ToPatchType
  <2>2. {replicas', cachedReplicas'} \subseteq Nat /\ cacheCurrent' \in BOOLEAN
    BY <1>2 DEF IInv, TypeOK, deploymentVars
  <2>3. QED
    BY <1>1, <2>1, <2>2 DEF IInv, TypeOK, statusVars, nodeVars, budgetVars
<1>4. ~cycle'.current
  BY <1>1, NoCycleType, ToPatchType
<1>5. (CacheHolds /\ ReadHolds /\ DecisionHolds)'
  BY <1>1, <1>2, <1>4 DEF IInv, CacheHolds, ReadHolds, DecisionHolds, deploymentVars
<1>6. ASSUME replicas' # replicas
      PROVE  /\ replicas' \in MinReplicas..MaxReplicas
             /\ replicas' < replicas => ~config.safe \/ (cycle.healthy /\ ~cycle.pressure)
  <2>1. cycle.desired # cycle.read /\ cycle.read = replicas /\ replicas' = cycle.desired
    BY <1>2, <1>6 DEF IInv, ReadHolds, deploymentVars
  <2>2. QED
    BY <1>1, <2>1 DEF IInv, DecisionHolds
<1>7. QED
  BY <1>3, <1>5, <1>6 DEF IInv

LEMMA PatchStatusKeeps ==
  ASSUME IInv, PatchStatus
  PROVE  IInv'
<1>1. /\ UNCHANGED <<config, deploymentVars, cachedStatus, nodeVars, budgetVars>>
      /\ pc' = "idle" /\ cycle' = NoCycle
  BY DEF PatchStatus
<1>2. status' \in [bump : Nat, desired : Nat]
  BY DEF PatchStatus, IInv, TypeOK
<1>3. TypeOK'
  BY <1>1, <1>2 DEF IInv, TypeOK, NoCycle, deploymentVars, nodeVars, budgetVars
<1>4. (CacheHolds /\ ReadHolds /\ DecisionHolds)'
  BY <1>1 DEF IInv, CacheHolds, ReadHolds, DecisionHolds, NoCycle, deploymentVars
<1>5. QED
  BY <1>3, <1>4 DEF IInv

LEMMA EndCycleKeeps ==
  ASSUME IInv, EndCycle
  PROVE  IInv'
<1>1. /\ UNCHANGED <<config, deploymentVars, statusVars, nodeVars, demand, disturbances>>
      /\ pc' = "idle" /\ cycle' = NoCycle
      /\ faults < MaxFaults /\ faults' = faults + 1
  BY DEF EndCycle
<1>2. faults' \in 0..MaxFaults
  BY <1>1, Constants DEF IInv, TypeOK
<1>3. TypeOK'
  BY <1>1, <1>2 DEF IInv, TypeOK, NoCycle, deploymentVars, statusVars, nodeVars
<1>4. (CacheHolds /\ ReadHolds /\ DecisionHolds)'
  BY <1>1 DEF IInv, CacheHolds, ReadHolds, DecisionHolds, NoCycle, deploymentVars
<1>5. QED
  BY <1>3, <1>4 DEF IInv

LEMMA NodeCycleKeeps ==
  ASSUME IInv, NodeCycle
  PROVE  IInv'
<1>1. /\ UNCHANGED <<config, deploymentVars, statusVars, cycleVars, workers, budgetVars>>
      /\ target' = WorkerTarget(PlannedReplicas + SafetyPods + Unschedulable)
  BY DEF NodeCycle
<1>2. PICK slots \in Nat \ {0} : slots = Slots
  BY Constants DEF Slots
<1>3. PICK w \in Nat : w = workers
  BY DEF IInv, TypeOK
<1>4. w * slots \in Int
  BY <1>2, <1>3
<1>5. Unschedulable \in Int /\ PlannedReplicas \in Int
  BY <1>2, <1>3, <1>4 DEF Unschedulable, PlannedReplicas, AtLeast, IInv, TypeOK
<1>6. PICK pods \in Int : pods = PlannedReplicas + SafetyPods + Unschedulable
  BY <1>5, Constants
<1>7. WorkerTarget(pods) \in Nat
  <2>1. /\ CeilDiv(pods, PodsPerWorker) \in Int /\ CeilDiv(pods, slots) \in Int
        /\ w + CeilDiv(pods - w * slots, PodsPerWorker) \in Int
    BY <1>4, CeilDivType, Constants
  <2>2. QED
    BY <2>1, <1>2, <1>3, WorkerTargetType DEF WorkerTarget
<1>8. target' \in Nat
  BY <1>1, <1>6, <1>7
<1>9. TypeOK'
  BY <1>1, <1>8 DEF IInv, TypeOK, deploymentVars, statusVars, cycleVars, budgetVars
<1>10. (CacheHolds /\ ReadHolds /\ DecisionHolds)'
  BY <1>1 DEF IInv, CacheHolds, ReadHolds, DecisionHolds, deploymentVars, cycleVars
<1>11. QED
  BY <1>9, <1>10 DEF IInv

LEMMA FollowTargetKeeps ==
  ASSUME IInv, FollowTarget
  PROVE  IInv'
<1>1. /\ UNCHANGED <<config, deploymentVars, statusVars, cycleVars, target, budgetVars>>
      /\ workers # target
      /\ workers' = IF workers < target THEN workers + 1 ELSE workers - 1
  BY DEF FollowTarget
<1>2. workers' \in Nat
  BY <1>1 DEF IInv, TypeOK
<1>3. TypeOK'
  BY <1>1, <1>2 DEF IInv, TypeOK, deploymentVars, statusVars, cycleVars, budgetVars
<1>4. (CacheHolds /\ ReadHolds /\ DecisionHolds)'
  BY <1>1 DEF IInv, CacheHolds, ReadHolds, DecisionHolds, deploymentVars, cycleVars
<1>5. QED
  BY <1>3, <1>4 DEF IInv

LEMMA SyncKeeps ==
  ASSUME IInv, SyncDeployment \/ SyncStatus
  PROVE  IInv'
<1>1. /\ UNCHANGED <<config, replicas, status, cycleVars, nodeVars, budgetVars>>
      /\ cachedReplicas' \in {replicas, cachedReplicas}
      /\ cachedStatus' \in {status, cachedStatus}
      /\ cacheCurrent' \in BOOLEAN
      /\ cacheCurrent' => cachedReplicas' = replicas
  <2>1. CASE SyncDeployment
    BY <2>1 DEF SyncDeployment, statusVars
  <2>2. CASE SyncStatus
    BY <2>2 DEF SyncStatus, deploymentVars, IInv, TypeOK, CacheHolds
  <2>3. QED
    BY <2>1, <2>2
<1>2. TypeOK'
  BY <1>1 DEF IInv, TypeOK, cycleVars, nodeVars, budgetVars
<1>3. (CacheHolds /\ ReadHolds /\ DecisionHolds)'
  BY <1>1 DEF IInv, CacheHolds, ReadHolds, DecisionHolds, cycleVars
<1>4. QED
  BY <1>2, <1>3 DEF IInv

LEMMA ScaledByHandKeeps ==
  ASSUME IInv, NEW n \in HandCounts, ScaledByHand(n)
  PROVE  IInv'
<1>1. /\ UNCHANGED <<config, cachedReplicas, statusVars, pc, nodeVars, demand, faults>>
      /\ disturbances < MaxDisturbances /\ disturbances' = disturbances + 1
      /\ replicas' = n /\ n \in Nat
      /\ cacheCurrent' = FALSE
      /\ cycle' = [cycle EXCEPT !.current = FALSE]
  BY Constants DEF ScaledByHand
<1>2. disturbances' \in 0..MaxDisturbances
  BY <1>1, Constants DEF IInv, TypeOK
<1>3. /\ cycle' \in [bump : Nat, last : Nat, next : Nat, desired : Nat, read : Nat,
                     current : BOOLEAN, pressure : BOOLEAN, healthy : BOOLEAN]
      /\ ~cycle'.current
      /\ cycle'.desired = cycle.desired /\ cycle'.read = cycle.read
      /\ cycle'.healthy = cycle.healthy /\ cycle'.pressure = cycle.pressure
  BY <1>1 DEF IInv, TypeOK
<1>4. TypeOK'
  <2>1. {replicas, cachedReplicas, demand, workers, target}' \subseteq Nat
    BY <1>1 DEF IInv, TypeOK, nodeVars
  <2>2. /\ ({status, cachedStatus} \subseteq [bump : Nat, desired : Nat])'
        /\ UNCHANGED <<config, pc, faults>> /\ cacheCurrent' \in BOOLEAN
    BY <1>1 DEF IInv, TypeOK, statusVars
  <2>3. QED
    BY <1>2, <1>3, <2>1, <2>2 DEF IInv, TypeOK
<1>5. (CacheHolds /\ ReadHolds)'
  BY <1>1, <1>3 DEF CacheHolds, ReadHolds
<1>6. DecisionHolds'
  BY <1>1, <1>3 DEF IInv, DecisionHolds
<1>7. QED
  BY <1>4, <1>5, <1>6 DEF IInv

LEMMA LoadChangesKeeps ==
  ASSUME IInv, NEW n \in 0..MaxDemand, LoadChanges(n)
  PROVE  IInv'
<1>1. /\ UNCHANGED <<config, deploymentVars, statusVars, cycleVars, nodeVars, faults>>
      /\ disturbances < MaxDisturbances /\ disturbances' = disturbances + 1
      /\ demand' = n
  BY DEF LoadChanges
<1>2. disturbances' \in 0..MaxDisturbances /\ demand' \in Nat
  BY <1>1, Constants DEF IInv, TypeOK
<1>3. TypeOK'
  BY <1>1, <1>2 DEF IInv, TypeOK, deploymentVars, statusVars, cycleVars, nodeVars
<1>4. (CacheHolds /\ ReadHolds /\ DecisionHolds)'
  BY <1>1 DEF IInv, CacheHolds, ReadHolds, DecisionHolds, deploymentVars, cycleVars
<1>5. QED
  BY <1>3, <1>4 DEF IInv

LEMMA IInvNext ==
  ASSUME IInv, [Next]_vars
  PROVE  IInv'
<1>1. CASE UNCHANGED vars
  <2>1. UNCHANGED <<config, deploymentVars, statusVars, cycleVars, nodeVars, budgetVars>>
    BY <1>1 DEF vars
  <2>2. TypeOK'
    BY <2>1 DEF IInv, TypeOK, deploymentVars, statusVars, cycleVars, nodeVars, budgetVars
  <2>3. (CacheHolds /\ ReadHolds /\ DecisionHolds)'
    BY <2>1 DEF IInv, CacheHolds, ReadHolds, DecisionHolds, deploymentVars, cycleVars
  <2>4. QED
    BY <2>2, <2>3 DEF IInv
<1>2. CASE StartCycle
  BY <1>2, StartCycleKeeps
<1>3. CASE Forecasted
  BY <1>3, ReceiveForecastKeeps DEF Forecasted
<1>4. CASE Scale
  BY <1>4, ScaleKeeps
<1>5. CASE PatchStatus
  BY <1>5, PatchStatusKeeps
<1>6. CASE EndCycle
  BY <1>6, EndCycleKeeps
<1>7. CASE NodeCycle
  BY <1>7, NodeCycleKeeps
<1>8. CASE FollowTarget
  BY <1>8, FollowTargetKeeps
<1>9. CASE SyncDeployment \/ SyncStatus
  BY <1>9, SyncKeeps
<1>10. CASE \E n \in HandCounts : ScaledByHand(n)
  BY <1>10, ScaledByHandKeeps
<1>11. CASE \E n \in 0..MaxDemand : LoadChanges(n)
  BY <1>11, LoadChangesKeeps
<1>12. QED
  BY <1>1, <1>2, <1>3, <1>4, <1>5, <1>6, <1>7, <1>8, <1>9, <1>10, <1>11 DEF Next

-----------------------------------------------------------------------------
(* The theorems.                                                           *)

\* The state of the pod scaling loop keeps its types: neither the bump nor a replica or worker
\* count becomes negative, with a maximum or without one (PodScalingReconciler,
\* resolveWorkerTargetCount).
THEOREM TypeCorrect == Spec => []TypeOK
<1>1. Init => IInv
  BY IInvInit
<1>2. IInv /\ [Next]_vars => IInv'
  BY IInvNext
<1>3. IInv => TypeOK
  BY DEF IInv
<1>4. QED
  BY <1>1, <1>2, <1>3, PTL DEF Spec

\* For series of any length, with any points missing: a cycle under the "safe" policy takes
\* replicas away only when the guardrails were healthy and there was no sustained pressure, also
\* when it has read an old count.  Of the other policy, which scales down under pressure too,
\* only the bounds are said, which hold for both (Reconcile, allowScaleDown,
\* hasSustainedReactivePressure).
THEOREM ScaleDownAlwaysGuarded == Spec => ScaleDownGuarded
<1>1. Init => IInv
  BY IInvInit
<1>2. IInv /\ [Next]_vars => IInv'
  BY IInvNext
<1>3. IInv /\ [Next]_vars =>
        [Scale /\ replicas' # replicas =>
           /\ replicas' \in MinReplicas..MaxReplicas
           /\ replicas' < replicas => ~config.safe \/ (cycle.healthy /\ ~cycle.pressure)]_vars
  BY ScaleKeeps
<1>4. QED
  BY <1>1, <1>2, <1>3, PTL DEF Spec, ScaleDownGuarded
=============================================================================
