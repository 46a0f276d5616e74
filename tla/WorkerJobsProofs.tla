-------------------------- MODULE WorkerJobsProofs --------------------------
(***************************************************************************)
(* Theorems of WorkerJobs, for any number of workers, of Jobs that run at  *)
(* the same time and of failures, with and without a VPC: what a completed *)
(* create Job leaves serves, the load balancer lists only what serves, and *)
(* a machine is destroyed only when the load balancer has let it go and    *)
(* its node has gone, or was taken to be.                                  *)
(***************************************************************************)
EXTENDS WorkerJobs, TLAPS

USE DEF historyVars

CreateLabels ==
  {"idle", "boot", "ssh", "install", "restart", "ready", "resolve", "lbGet", "lbPatch",
   "lbPoll"} \cup Ended
DeleteLabels ==
  {"idle", "resolve", "cordon", "drain", "deleteNode", "lbGet", "lbPatch", "lbPoll",
   "destroy", "gone"} \cup Ended

C(w) == pc[<<w, "create">>]
D(w) == pc[<<w, "delete">>]

\* The steps of one kind of Job are not those of the other.
LabelsOK ==
  \A w \in Workers : C(w) \in CreateLabels /\ D(w) \in DeleteLabels

TypeInv == TypeOK /\ LabelsOK

-----------------------------------------------------------------------------
(* What a worker that nobody interferes with looks like at each step of    *)
(* its two Jobs.                                                           *)

\* Before its create Job has sent the PATCH, nobody knows the worker.
Unlisted == {"idle", "boot", "ssh", "install", "restart", "ready", "resolve", "lbGet", "lbPatch"}

CreateInv(w) ==
  /\ C(w) = "idle" => machine[w] = "none"
  /\ C(w) \in {"idle", "boot", "ssh", "install"} => agent[w] = "off" /\ node[w] = "absent"
  /\ C(w) \in {"ssh", "install", "restart", "ready", "resolve", "lbGet", "lbPatch", "lbPoll"}
       => machine[w] = "ok" /\ privateIp[w] = "set"
  /\ C(w) \in {"resolve", "lbGet", "lbPatch", "lbPoll"} => node[w] = "ready"
  /\ C(w) \in Unlisted => w \notin lb /\ w \notin lbNext
  /\ C(w) = "lbPoll" => w \in lbNext
  /\ C(w) = "done" /\ D(w) = "idle" =>
       /\ machine[w] = "ok" /\ privateIp[w] = "set" /\ node[w] = "ready"
       /\ w \in lb /\ w \in lbNext

Detached(w) == node[w] = "absent" \/ w \in overlooked

DeleteInv(w) ==
  /\ D(w) # "idle" => C(w) \in Ended /\ agent[w] # "registering"
  /\ D(w) = "idle" => node[w] # "cordoned"
  /\ D(w) \in {"lbGet", "lbPatch", "lbPoll", "destroy", "gone", "done"} => Detached(w)
  /\ D(w) = "lbPatch" => w \in lb /\ w \in lbNext
  /\ D(w) = "lbPoll" => w \notin lbNext
  /\ D(w) \in {"destroy", "gone", "done"} => w \notin lb /\ w \notin lbNext
  /\ D(w) = "gone" => machine[w] \in {"destroying", "gone"}
  /\ D(w) = "done" => machine[w] = "gone"

ListInv(w) ==
  /\ w \in lb \/ w \in lbNext => machine[w] = "ok" /\ (D(w) = "idle" => node[w] = "ready")
  /\ machine[w] \in {"destroying", "gone"} => Detached(w)

WorkerInv(w) == CreateInv(w) /\ DeleteInv(w) /\ ListInv(w)

IInv == TypeInv /\ \A w \in Workers \ disturbed : WorkerInv(w)

-----------------------------------------------------------------------------
(* Types.                                                                  *)

LEMMA JobIs ==
  ASSUME NEW j \in Jobs
  PROVE  /\ Worker(j) \in Workers
         /\ IF Creates(j) THEN j = <<Worker(j), "create">> ELSE j = <<Worker(j), "delete">>
BY DEF Jobs, Worker, Creates

\* What a step of a Job does to the labels.
LEMMA GotoIs ==
  ASSUME TypeInv, NEW j \in Jobs, NEW label, Goto(j, label),
         label \in IF Creates(j) THEN CreateLabels ELSE DeleteLabels
  PROVE  /\ pc' \in [Jobs -> CreateLabels \cup DeleteLabels] /\ LabelsOK'
         /\ \A w \in Workers :
              /\ C(w)' = IF w = Worker(j) /\ Creates(j) THEN label ELSE C(w)
              /\ D(w)' = IF w = Worker(j) /\ ~Creates(j) THEN label ELSE D(w)
<1>1. pc \in [Jobs -> CreateLabels \cup DeleteLabels]
  BY DEF TypeInv, TypeOK, Waits, Ended, CreateLabels, DeleteLabels
<1>2. pc' = [pc EXCEPT ![j] = label]
  BY DEF Goto
<1>3. \A w \in Workers : <<w, "create">> \in Jobs /\ <<w, "delete">> \in Jobs
  BY DEF Jobs
<1>4. \A w \in Workers : /\ j = <<w, "create">> <=> w = Worker(j) /\ Creates(j)
                         /\ j = <<w, "delete">> <=> w = Worker(j) /\ ~Creates(j)
  BY JobIs DEF Worker, Creates
<1>5. \A w \in Workers :
        /\ C(w)' = IF w = Worker(j) /\ Creates(j) THEN label ELSE C(w)
        /\ D(w)' = IF w = Worker(j) /\ ~Creates(j) THEN label ELSE D(w)
  BY <1>1, <1>2, <1>3, <1>4 DEF C, D
<1>6. LabelsOK'
  BY <1>5 DEF TypeInv, LabelsOK
<1>7. QED
  BY <1>1, <1>2, <1>5, <1>6

\* Every variable but pc has its type after the step.
Typed ==
  /\ machine' \in [Workers -> {"none", "pending", "active", "ok", "destroying", "gone"}]
  /\ privateIp' \in [Workers -> {"none", "attaching", "set"}]
  /\ agent' \in [Workers -> {"off", "registering", "registered"}]
  /\ node' \in [Workers -> {"absent", "joined", "ready", "cordoned"}]
  /\ {lb', lbNext', disturbed', overlooked'} \subseteq SUBSET Workers
  /\ read' \in [Jobs -> SUBSET Workers]
  /\ faults' \in 0..MaxFaults

LEMMA TypedPc ==
  ASSUME TypeInv, Typed, pc' \in [Jobs -> CreateLabels \cup DeleteLabels], LabelsOK'
  PROVE  TypeInv'
<1>1. CreateLabels \cup DeleteLabels \subseteq
        Waits \cup Ended \cup {"idle", "install", "restart", "cordon", "deleteNode", "lbGet",
                               "lbPatch", "destroy"}
  BY DEF CreateLabels, DeleteLabels, Waits, Ended
<1>2. QED
  BY <1>1 DEF Typed, TypeInv, TypeOK

LEMMA TypeMoves ==
  ASSUME TypeInv, Typed, NEW j \in Jobs, NEW label, Goto(j, label),
         label \in IF Creates(j) THEN CreateLabels ELSE DeleteLabels
  PROVE  TypeInv'
BY GotoIs, TypedPc

\* A step of the cloud or the cluster, where no Job moves.
LEMMA TypeStays ==
  ASSUME TypeInv, Typed, pc' = pc
  PROVE  TypeInv'
BY DEF Typed, TypeInv, TypeOK, LabelsOK, C, D

\* Where a Job is depends on its kind.
LEMMA LabelIs ==
  ASSUME TypeInv, NEW j \in Jobs
  PROVE  IF Creates(j) THEN pc[j] \in CreateLabels ELSE pc[j] \in DeleteLabels
BY JobIs DEF TypeInv, LabelsOK, C, D

LEMMA TypeInit == Init => TypeInv
<1> SUFFICES ASSUME Init PROVE TypeInv
  OBVIOUS
<1>1. \A j \in Jobs : pc[j] \in {"done", "idle"}
  BY DEF Init
<1>2. \A w \in Workers : <<w, "create">> \in Jobs /\ <<w, "delete">> \in Jobs
  BY DEF Jobs
<1>3. LabelsOK
  BY <1>1, <1>2 DEF LabelsOK, C, D, CreateLabels, DeleteLabels, Ended, Init, Creates
<1>4. TypeOK
  BY JobsAssumption DEF Init, TypeOK, JobsAssumption, Ended
<1>5. QED
  BY <1>3, <1>4 DEF TypeInv

LEMMA TypeCreateStep ==
  ASSUME TypeInv, NEW j \in Jobs,
         \/ CreateInstance(j) \/ WaitForInstanceReady(j) \/ WaitForSsh(j) \/ InstallAgent(j)
         \/ RestartAgent(j) \/ WaitForNodeReady(j)
  PROVE  TypeInv'
<1>1. Worker(j) \in Workers /\ (IF Creates(j) THEN pc[j] \in CreateLabels ELSE pc[j] \in DeleteLabels)
  BY JobIs, LabelIs
<1>2. Typed
  BY <1>1 DEF TypeInv, TypeOK, Typed, CreateInstance, WaitForInstanceReady, WaitForSsh,
     InstallAgent, RestartAgent, WaitForNodeReady, cloudVars, clusterVars
<1>3. Creates(j)
  BY <1>1 DEF CreateInstance, WaitForInstanceReady, WaitForSsh, InstallAgent, RestartAgent,
     WaitForNodeReady, DeleteLabels, Ended
<1>4. \E label \in CreateLabels : Goto(j, label)
  BY DEF CreateInstance, WaitForInstanceReady, WaitForSsh, InstallAgent, RestartAgent,
     WaitForNodeReady, CreateLabels, Ended
<1>5. QED
  BY <1>2, <1>3, <1>4, TypeMoves

LEMMA TypeDeleteStep ==
  ASSUME TypeInv, NEW j \in Jobs,
         \/ StartTeardown(j) \/ CordonNode(j) \/ DrainNode(j) \/ DeleteNode(j)
         \/ DestroyInstance(j) \/ WaitForGone(j)
  PROVE  TypeInv'
<1>1. Worker(j) \in Workers /\ (IF Creates(j) THEN pc[j] \in CreateLabels ELSE pc[j] \in DeleteLabels)
  BY JobIs, LabelIs
<1>2. Typed
  <2>1. faults < MaxFaults => faults + 1 \in 0..MaxFaults
    BY JobsAssumption DEF TypeInv, TypeOK, JobsAssumption
  <2>2. CASE CordonNode(j)
    BY <1>1, <2>1, <2>2 DEF TypeInv, TypeOK, Typed, CordonNode, cloudVars
  <2>3. CASE ~CordonNode(j)
    BY <1>1, <2>3 DEF TypeInv, TypeOK, Typed, StartTeardown, DrainNode, DeleteNode,
       DestroyInstance, WaitForGone, cloudVars, clusterVars
  <2>4. QED
    BY <2>2, <2>3
<1>3. ~Creates(j)
  BY <1>1 DEF StartTeardown, CordonNode, DrainNode, DeleteNode, DestroyInstance, WaitForGone,
     CreateLabels, Ended
<1>4. \E label \in DeleteLabels : Goto(j, label)
  BY DEF StartTeardown, CordonNode, DrainNode, DeleteNode, DestroyInstance, WaitForGone,
     DeleteLabels, Ended
<1>5. QED
  BY <1>2, <1>3, <1>4, TypeMoves

LEMMA TypeCommonStep ==
  ASSUME TypeInv, NEW j \in Jobs,
         \/ ResolveInstance(j) \/ GetLoadBalancer(j) \/ PatchLoadBalancer(j)
         \/ PollLoadBalancer(j) \/ Deadline(j) \/ MachineLost(j) \/ Fail(j)
  PROVE  TypeInv'
<1>1. Worker(j) \in Workers
  BY JobIs
<1>2. faults < MaxFaults => faults + 1 \in 0..MaxFaults
  BY JobsAssumption DEF TypeInv, TypeOK, JobsAssumption
<1>3. Typed
  <2>1. read[j] \subseteq Workers /\ Payload(j) \subseteq Workers
    BY <1>1 DEF TypeInv, TypeOK, Payload
  <2>2. CASE PatchLoadBalancer(j)
    BY <1>1, <2>1, <2>2 DEF TypeInv, TypeOK, Typed, PatchLoadBalancer, clusterVars
  <2>3. CASE GetLoadBalancer(j)
    BY <1>1, <2>3 DEF TypeInv, TypeOK, Typed, GetLoadBalancer, cloudVars, clusterVars
  <2>4. CASE ResolveInstance(j) \/ PollLoadBalancer(j) \/ Deadline(j) \/ MachineLost(j) \/ Fail(j)
    BY <1>2, <2>4 DEF TypeInv, TypeOK, Typed, ResolveInstance, PollLoadBalancer, Deadline,
       MachineLost, Fail, cloudVars, clusterVars
  <2>5. QED
    BY <2>2, <2>3, <2>4
<1>4. \E label \in IF Creates(j) THEN CreateLabels ELSE DeleteLabels : Goto(j, label)
  BY DEF ResolveInstance, GetLoadBalancer, PatchLoadBalancer, PollLoadBalancer, Deadline,
     MachineLost, Fail, AfterLb, CreateLabels, DeleteLabels, Ended
<1>5. QED
  BY <1>3, <1>4, TypeMoves

LEMMA TypeEnvironment ==
  ASSUME TypeInv,
         \/ \E w \in Workers :
              MachineProgress(w) \/ PrivateIpSet(w) \/ NodeJoins(w) \/ NodeBecomesReady(w)
         \/ LoadBalancerUpdated
  PROVE  TypeInv'
<1>1. Typed /\ pc' = pc
  BY DEF TypeInv, TypeOK, Typed, MachineProgress, PrivateIpSet, NodeJoins, NodeBecomesReady,
     LoadBalancerUpdated, cloudVars, clusterVars
<1>2. QED
  BY <1>1, TypeStays

LEMMA TypeNext == TypeInv /\ [Next]_vars => TypeInv'
<1> SUFFICES ASSUME TypeInv, [Next]_vars PROVE TypeInv'
  OBVIOUS
<1>1. CASE UNCHANGED vars
  <2>1. Typed /\ pc' = pc
    BY <1>1 DEF TypeInv, TypeOK, Typed, vars, cloudVars, clusterVars
  <2>2. QED
    BY <2>1, TypeStays
<1>2. CASE Next
  BY <1>2, TypeCreateStep, TypeDeleteStep, TypeCommonStep, TypeEnvironment DEF Next, JobStep
<1>3. QED
  BY <1>1, <1>2

-----------------------------------------------------------------------------
(* A step is about one worker, but for what it may undo at the load        *)
(* balancer; and then the other worker is disturbed.                       *)

LEMMA WorkerSame ==
  ASSUME NEW w, WorkerInv(w), C(w)' = C(w), D(w)' = D(w),
         machine'[w] = machine[w], privateIp'[w] = privateIp[w],
         agent'[w] = agent[w], node'[w] = node[w],
         w \in lb' <=> w \in lb, w \in lbNext' <=> w \in lbNext,
         overlooked \subseteq overlooked'
  PROVE  WorkerInv(w)'
BY DEF WorkerInv, CreateInv, DeleteInv, Detached, ListInv

Elsewhere(own) ==
  /\ disturbed \subseteq disturbed' /\ overlooked \subseteq overlooked'
  /\ \A w \in Workers \ {own} :
       /\ machine'[w] = machine[w] /\ privateIp'[w] = privateIp[w]
       /\ agent'[w] = agent[w] /\ node'[w] = node[w]
       /\ w \notin disturbed' => (w \in lb' <=> w \in lb) /\ (w \in lbNext' <=> w \in lbNext)

\* The next label of one Job, and of nobody else.
Moves(own, c, d) ==
  /\ C(own)' = c /\ D(own)' = d
  /\ \A w \in Workers \ {own} : C(w)' = C(w) /\ D(w)' = D(w)

LEMMA WorkerStep ==
  ASSUME IInv, TypeInv', NEW own \in Workers, Elsewhere(own),
         NEW c, NEW d, Moves(own, c, d), own \notin disturbed' => WorkerInv(own)'
  PROVE  IInv'
<1>1. \A w \in Workers \ disturbed' : WorkerInv(w)'
  <2> SUFFICES ASSUME NEW w \in Workers \ disturbed', w # own PROVE WorkerInv(w)'
    OBVIOUS
  <2>1. WorkerInv(w)
    BY DEF IInv, Elsewhere
  <2>2. QED
    BY <2>1, WorkerSame DEF Elsewhere, Moves
<1>2. QED
  BY <1>1 DEF IInv

\* What a step of a Job knows.
LEMMA CreateKnows ==
  ASSUME TypeInv, NEW w \in Workers, NEW j \in Jobs, NEW label \in CreateLabels,
         j = <<w, "create">>, Goto(j, label)
  PROVE  Moves(w, label, D(w))
<1>1. Creates(j) /\ Worker(j) = w
  BY DEF Creates, Worker
<1>2. QED
  BY <1>1, GotoIs DEF Moves

LEMMA DeleteKnows ==
  ASSUME TypeInv, NEW w \in Workers, NEW j \in Jobs, NEW label \in DeleteLabels,
         j = <<w, "delete">>, Goto(j, label)
  PROVE  Moves(w, C(w), label)
<1>1. ~Creates(j) /\ Worker(j) = w
  BY DEF Creates, Worker
<1>2. QED
  BY <1>1, GotoIs DEF Moves

LEMMA IInvInit == Init => IInv
<1> SUFFICES ASSUME Init PROVE IInv
  OBVIOUS
<1>1. \A w \in Workers : <<w, "create">> \in Jobs /\ <<w, "delete">> \in Jobs
  BY DEF Jobs
<1>2. \A w \in Workers : C(w) = (IF w \in Existing THEN "done" ELSE "idle") /\ D(w) = "idle"
  BY <1>1 DEF Init, C, D, Creates, Worker
<1>3. \A w \in Workers : WorkerInv(w)
  BY <1>2 DEF Init, WorkerInv, CreateInv, DeleteInv, Detached, ListInv, Unlisted, Ended
<1>4. QED
  BY <1>3, TypeInit DEF IInv

-----------------------------------------------------------------------------
(* The steps of a create Job.                                              *)

LEMMA CreateStep ==
  ASSUME IInv, TypeInv', NEW w \in Workers, NEW j \in Jobs, j = <<w, "create">>,
         \/ CreateInstance(j) \/ WaitForInstanceReady(j) \/ WaitForSsh(j) \/ InstallAgent(j)
         \/ RestartAgent(j) \/ WaitForNodeReady(j)
  PROVE  IInv'
<1>1. /\ TypeInv /\ Worker(j) = w /\ Creates(j) /\ pc[j] = C(w)
      /\ w \notin disturbed => WorkerInv(w)
  BY DEF IInv, Worker, Creates, C
<1>2. /\ machine \in [Workers -> {"none", "pending", "active", "ok", "destroying", "gone"}]
      /\ privateIp \in [Workers -> {"none", "attaching", "set"}]
      /\ agent \in [Workers -> {"off", "registering", "registered"}]
      /\ node \in [Workers -> {"absent", "joined", "ready", "cordoned"}]
  BY <1>1 DEF TypeInv, TypeOK
<1> USE DEF WorkerInv, CreateInv, DeleteInv, Detached, ListInv, Unlisted, Ended
<1>3. CASE CreateInstance(j)
  <2>1. Moves(w, "boot", D(w))
    BY <1>1, <1>3, CreateKnows DEF CreateInstance, CreateLabels
  <2>2. /\ C(w) = "idle" /\ UNCHANGED <<privateIp, lb, lbNext, agent, node, disturbed, overlooked>>
        /\ machine' = [machine EXCEPT ![w] = "pending"]
    BY <1>1, <1>3 DEF CreateInstance, clusterVars
  <2>3. w \notin disturbed' => WorkerInv(w)'
    BY <1>1, <1>2, <2>1, <2>2 DEF Moves
  <2>4. Elsewhere(w)
    BY <1>2, <2>2 DEF Elsewhere
  <2>5. QED
    BY <2>1, <2>3, <2>4, WorkerStep
<1>4. CASE WaitForInstanceReady(j)
  <2>1. PICK label \in {"boot", "ssh", "failed"} :
          /\ Goto(j, label)
          /\ label = "ssh" => machine[w] = "ok" /\ privateIp[w] = "set" /\ privateIp' = privateIp
    BY <1>1, <1>2, <1>4 DEF WaitForInstanceReady
  <2>2. Moves(w, label, D(w))
    BY <1>1, <2>1, CreateKnows DEF CreateLabels
  <2>3. /\ C(w) = "boot" /\ UNCHANGED <<machine, lb, lbNext, agent, node, disturbed, overlooked>>
        /\ \A v \in Workers \ {w} : privateIp'[v] = privateIp[v]
    BY <1>1, <1>2, <1>4 DEF WaitForInstanceReady, clusterVars
  <2>4. w \notin disturbed' => WorkerInv(w)'
    BY <1>1, <1>2, <2>1, <2>2, <2>3 DEF Moves
  <2>5. Elsewhere(w)
    BY <1>2, <2>3 DEF Elsewhere
  <2>6. QED
    BY <2>2, <2>4, <2>5, WorkerStep
<1>5. CASE WaitForSsh(j)
  <2>1. Moves(w, "install", D(w))
    BY <1>1, <1>5, CreateKnows DEF WaitForSsh, CreateLabels
  <2>2. C(w) = "ssh" /\ UNCHANGED <<machine, privateIp, lb, lbNext, agent, node, disturbed, overlooked>>
    BY <1>1, <1>5 DEF WaitForSsh, cloudVars, clusterVars
  <2>3. w \notin disturbed' => WorkerInv(w)'
    BY <1>1, <2>1, <2>2 DEF Moves
  <2>4. QED
    BY <2>1, <2>2, <2>3, WorkerStep DEF Elsewhere
<1>6. CASE InstallAgent(j) \/ RestartAgent(j)
  <2>1. /\ C(w) \in {"install", "restart"}
        /\ agent' = [agent EXCEPT ![w] = "registering"]
        /\ UNCHANGED <<machine, privateIp, lb, lbNext, node, disturbed, overlooked>>
    BY <1>1, <1>6 DEF InstallAgent, RestartAgent, cloudVars
  <2>2. PICK label \in {"restart", "ready"} : Moves(w, label, D(w))
    BY <1>1, <1>6, CreateKnows DEF InstallAgent, RestartAgent, CreateLabels
  <2>3. w \notin disturbed' => WorkerInv(w)'
    BY <1>1, <1>2, <2>1, <2>2 DEF Moves
  <2>4. Elsewhere(w)
    BY <1>2, <2>1 DEF Elsewhere
  <2>5. QED
    BY <2>2, <2>3, <2>4, WorkerStep
<1>7. CASE WaitForNodeReady(j)
  <2>1. Moves(w, "resolve", D(w))
    BY <1>1, <1>7, CreateKnows DEF WaitForNodeReady, CreateLabels
  <2>2. /\ C(w) = "ready" /\ node[w] \in {"ready", "cordoned"}
        /\ UNCHANGED <<machine, privateIp, lb, lbNext, agent, node, disturbed, overlooked>>
    BY <1>1, <1>7 DEF WaitForNodeReady, cloudVars, clusterVars
  <2>3. w \notin disturbed' => WorkerInv(w)'
    BY <1>1, <2>1, <2>2 DEF Moves
  <2>4. QED
    BY <2>1, <2>2, <2>3, WorkerStep DEF Elsewhere
<1>8. QED
  BY <1>3, <1>4, <1>5, <1>6, <1>7

-----------------------------------------------------------------------------
(* The steps of a delete Job.                                              *)

LEMMA DeleteStep ==
  ASSUME IInv, TypeInv', NEW w \in Workers, NEW j \in Jobs, j = <<w, "delete">>,
         \/ StartTeardown(j) \/ CordonNode(j) \/ DrainNode(j) \/ DeleteNode(j)
         \/ DestroyInstance(j) \/ WaitForGone(j)
  PROVE  IInv'
<1>1. /\ TypeInv /\ Worker(j) = w /\ ~Creates(j) /\ pc[j] = D(w)
      /\ C(w) \in CreateLabels
      /\ w \notin disturbed => WorkerInv(w)
  BY DEF IInv, TypeInv, LabelsOK, Worker, Creates, D
<1>2. /\ machine \in [Workers -> {"none", "pending", "active", "ok", "destroying", "gone"}]
      /\ privateIp \in [Workers -> {"none", "attaching", "set"}]
      /\ agent \in [Workers -> {"off", "registering", "registered"}]
      /\ node \in [Workers -> {"absent", "joined", "ready", "cordoned"}]
  BY <1>1 DEF TypeInv, TypeOK
<1>3. CASE StartTeardown(j)
  <2>1. Moves(w, C(w), "resolve")
    BY <1>1, <1>3, DeleteKnows DEF StartTeardown, DeleteLabels
  <2>2. /\ D(w) = "failed" \/ (D(w) = "idle" /\ node[w] \in {"ready", "cordoned"})
        /\ UNCHANGED <<machine, privateIp, lb, lbNext, agent, node>>
        /\ disturbed \subseteq disturbed' /\ overlooked \subseteq overlooked'
    BY <1>1, <1>3 DEF StartTeardown, cloudVars, clusterVars
  <2>3. w \notin disturbed' => C(w) \in Ended \cup {"idle"} /\ agent[w] # "registering"
    BY <1>1, <1>3 DEF StartTeardown, Overlapping, Running, C
  <2>4. w \notin disturbed' => WorkerInv(w)'
    BY <1>1, <2>1, <2>2, <2>3
    DEF Moves, WorkerInv, CreateInv, DeleteInv, Detached, ListInv, Unlisted, Ended
  <2>5. QED
    BY <2>1, <2>2, <2>4, WorkerStep DEF Elsewhere
<1> USE DEF WorkerInv, CreateInv, DeleteInv, Detached, ListInv, Unlisted, Ended
<1>4. CASE CordonNode(j)
  <2>1. D(w) = "cordon" /\ UNCHANGED <<machine, privateIp, lb, lbNext, agent, disturbed>>
    BY <1>1, <1>4 DEF CordonNode, cloudVars
  <2>2. PICK label \in {"lbGet", "drain"} :
          Goto(j, label) /\ (label = "lbGet" => Detached(w)') /\ overlooked \subseteq overlooked'
    BY <1>1, <1>4 DEF CordonNode, Detached
  <2>3. node' \in {node, [node EXCEPT ![w] = IF @ = "ready" THEN "cordoned" ELSE @]}
    BY <1>1, <1>4 DEF CordonNode
  <2>4. Moves(w, C(w), label)
    BY <1>1, <2>2, DeleteKnows DEF DeleteLabels
  <2>5. w \notin disturbed' => WorkerInv(w)'
    BY <1>1, <1>2, <2>1, <2>2, <2>3, <2>4 DEF Moves
  <2>6. Elsewhere(w)
    BY <1>2, <2>1, <2>2, <2>3 DEF Elsewhere
  <2>7. QED
    BY <2>4, <2>5, <2>6, WorkerStep
<1>5. CASE DrainNode(j)
  <2>1. Moves(w, C(w), "deleteNode")
    BY <1>1, <1>5, DeleteKnows DEF DrainNode, DeleteLabels
  <2>2. /\ D(w) = "drain" /\ node' = [node EXCEPT ![w] = IF @ = "ready" THEN "cordoned" ELSE @]
        /\ UNCHANGED <<machine, privateIp, lb, lbNext, agent, disturbed, overlooked>>
    BY <1>1, <1>5 DEF DrainNode, cloudVars
  <2>3. w \notin disturbed' => WorkerInv(w)'
    BY <1>1, <1>2, <2>1, <2>2 DEF Moves
  <2>4. Elsewhere(w)
    BY <1>2, <2>2 DEF Elsewhere
  <2>5. QED
    BY <2>1, <2>3, <2>4, WorkerStep
<1>6. CASE DeleteNode(j)
  <2>1. Moves(w, C(w), "lbGet")
    BY <1>1, <1>6, DeleteKnows DEF DeleteNode, DeleteLabels
  <2>2. /\ D(w) = "deleteNode" /\ node' = [node EXCEPT ![w] = "absent"]
        /\ UNCHANGED <<machine, privateIp, lb, lbNext, agent, disturbed, overlooked>>
    BY <1>1, <1>6 DEF DeleteNode, cloudVars
  <2>3. w \notin disturbed' => WorkerInv(w)'
    BY <1>1, <1>2, <2>1, <2>2 DEF Moves
  <2>4. Elsewhere(w)
    BY <1>2, <2>2 DEF Elsewhere
  <2>5. QED
    BY <2>1, <2>3, <2>4, WorkerStep
<1>7. CASE DestroyInstance(j)
  <2>1. Moves(w, C(w), "gone")
    BY <1>1, <1>7, DeleteKnows DEF DestroyInstance, DeleteLabels
  <2>2. /\ D(w) = "destroy" /\ machine' = [machine EXCEPT ![w] = "destroying"]
        /\ UNCHANGED <<privateIp, lb, lbNext, agent, node, disturbed, overlooked>>
    BY <1>1, <1>7 DEF DestroyInstance, clusterVars
  <2>3. w \notin disturbed' => WorkerInv(w)'
    BY <1>1, <1>2, <2>1, <2>2 DEF Moves
  <2>4. Elsewhere(w)
    BY <1>2, <2>2 DEF Elsewhere
  <2>5. QED
    BY <2>1, <2>3, <2>4, WorkerStep
<1>8. CASE WaitForGone(j)
  <2>1. Moves(w, C(w), "done")
    BY <1>1, <1>8, DeleteKnows DEF WaitForGone, DeleteLabels
  <2>2. /\ D(w) = "gone" /\ machine[w] \in {"none", "gone"}
        /\ UNCHANGED <<machine, privateIp, lb, lbNext, agent, node, disturbed, overlooked>>
    BY <1>1, <1>2, <1>8 DEF WaitForGone, InstanceListed, cloudVars, clusterVars
  <2>3. w \notin disturbed' => WorkerInv(w)'
    BY <1>1, <2>1, <2>2 DEF Moves
  <2>4. QED
    BY <2>1, <2>2, <2>3, WorkerStep DEF Elsewhere
<1>9. QED
  BY <1>3, <1>4, <1>5, <1>6, <1>7, <1>8

-----------------------------------------------------------------------------
(* The steps both Jobs have.                                               *)

\* A step of a Job that changes nothing but where it is.
LEMMA OnlyMoves ==
  ASSUME IInv, TypeInv', NEW w \in Workers, NEW c, NEW d, Moves(w, c, d),
         UNCHANGED <<cloudVars, clusterVars>>, disturbed \subseteq disturbed',
         overlooked \subseteq overlooked',
         w \notin disturbed' => WorkerInv(w)'
  PROVE  IInv'
<1>1. Elsewhere(w)
  BY DEF Elsewhere, cloudVars, clusterVars
<1>2. QED
  BY <1>1, WorkerStep

\* A Job that fails leaves its worker as it is; another one starts from there.
LEMMA CreateFails ==
  ASSUME NEW w, WorkerInv(w), UNCHANGED <<cloudVars, clusterVars>>,
         overlooked \subseteq overlooked',
         C(w)' = "failed", D(w)' = D(w)
  PROVE  WorkerInv(w)'
BY DEF WorkerInv, CreateInv, DeleteInv, Detached, ListInv, Unlisted, Ended, cloudVars,
   clusterVars

LEMMA DeleteFails ==
  ASSUME NEW w, WorkerInv(w), UNCHANGED <<cloudVars, clusterVars>>,
         overlooked \subseteq overlooked',
         C(w)' = C(w), D(w)' = "failed", D(w) # "idle"
  PROVE  WorkerInv(w)'
BY DEF WorkerInv, CreateInv, DeleteInv, Detached, ListInv, Unlisted, Ended, cloudVars,
   clusterVars

\* The PATCH of a Job leaves the other workers alone, or disturbs them.
LEMMA PatchElsewhere ==
  ASSUME IInv, NEW w \in Workers, NEW j \in Jobs, Worker(j) = w, PatchLoadBalancer(j)
  PROVE  Elsewhere(w) /\ UNCHANGED <<machine, privateIp, agent, node, lb>>
BY DEF PatchLoadBalancer, Elsewhere, clusterVars

LEMMA CreateCommonStep ==
  ASSUME IInv, TypeInv', NEW w \in Workers, NEW j \in Jobs, j = <<w, "create">>,
         \/ ResolveInstance(j) \/ GetLoadBalancer(j) \/ PatchLoadBalancer(j)
         \/ PollLoadBalancer(j) \/ Deadline(j) \/ MachineLost(j) \/ Fail(j)
  PROVE  IInv'
<1>1. /\ TypeInv /\ Worker(j) = w /\ Creates(j) /\ pc[j] = C(w)
      /\ w \notin disturbed => WorkerInv(w)
  BY DEF IInv, Worker, Creates, C
<1>2. CASE ResolveInstance(j)
  <2>1. Moves(w, "lbGet", D(w))
    BY <1>1, <1>2, CreateKnows DEF ResolveInstance, CreateLabels
  <2>2. C(w) = "resolve" /\ UNCHANGED <<cloudVars, clusterVars, disturbed, overlooked>>
    BY <1>1, <1>2 DEF ResolveInstance, cloudVars, clusterVars
  <2>3. w \notin disturbed' => WorkerInv(w)'
    BY <1>1, <2>1, <2>2 DEF Moves, WorkerInv, CreateInv, DeleteInv, Detached, ListInv,
       Unlisted, Ended,
       cloudVars, clusterVars
  <2>4. QED
    BY <2>1, <2>2, <2>3, OnlyMoves
<1>3. CASE GetLoadBalancer(j)
  <2>1. PICK label \in {"done", "lbPatch"} :
          Goto(j, label) /\ (label = "done" => w \in lb)
    BY <1>1, <1>3 DEF GetLoadBalancer, AfterLb, Settled
  <2>2. Moves(w, label, D(w))
    BY <1>1, <2>1, CreateKnows DEF CreateLabels, Ended
  <2>3. /\ C(w) = "lbGet" /\ UNCHANGED <<cloudVars, clusterVars>>
        /\ disturbed \subseteq disturbed' /\ overlooked \subseteq overlooked'
    BY <1>1, <1>3 DEF GetLoadBalancer, cloudVars, clusterVars
  <2>4. w \notin disturbed' => WorkerInv(w)'
    BY <1>1, <2>1, <2>2, <2>3 DEF Moves, WorkerInv, CreateInv, DeleteInv, Detached, ListInv,
       Unlisted,
       Ended, cloudVars, clusterVars
  <2>5. QED
    BY <2>2, <2>3, <2>4, OnlyMoves
<1>4. CASE PatchLoadBalancer(j)
  <2>1. Moves(w, "lbPoll", D(w))
    BY <1>1, <1>4, CreateKnows DEF PatchLoadBalancer, CreateLabels
  <2>2. C(w) = "lbPatch" /\ w \in lbNext' /\ disturbed \subseteq disturbed' /\ overlooked \subseteq overlooked'
    BY <1>1, <1>4 DEF PatchLoadBalancer, Payload
  <2>3. Elsewhere(w) /\ UNCHANGED <<machine, privateIp, agent, node, lb>>
    BY <1>1, <1>4, PatchElsewhere
  <2>4. w \notin disturbed' => WorkerInv(w)'
    BY <1>1, <2>1, <2>2, <2>3 DEF Moves, WorkerInv, CreateInv, DeleteInv, Detached, ListInv,
       Unlisted,
       Ended
  <2>5. QED
    BY <2>1, <2>3, <2>4, WorkerStep
<1>5. CASE PollLoadBalancer(j)
  <2>1. Moves(w, "done", D(w))
    BY <1>1, <1>5, CreateKnows DEF PollLoadBalancer, AfterLb, CreateLabels, Ended
  <2>2. /\ C(w) = "lbPoll" /\ w \in lb
        /\ UNCHANGED <<cloudVars, clusterVars, disturbed, overlooked>>
    BY <1>1, <1>5 DEF PollLoadBalancer, Settled, cloudVars, clusterVars
  <2>3. w \notin disturbed' => WorkerInv(w)'
    BY <1>1, <2>1, <2>2 DEF Moves, WorkerInv, CreateInv, DeleteInv, Detached, ListInv,
       Unlisted, Ended,
       cloudVars, clusterVars
  <2>4. QED
    BY <2>1, <2>2, <2>3, OnlyMoves
<1>6. CASE Deadline(j) \/ MachineLost(j) \/ Fail(j)
  <2>1. Goto(j, "failed") /\ UNCHANGED <<cloudVars, clusterVars, disturbed, overlooked>>
    BY <1>6 DEF Deadline, MachineLost, Fail, cloudVars, clusterVars
  <2>2. Moves(w, "failed", D(w))
    BY <1>1, <2>1, CreateKnows DEF CreateLabels, Ended
  <2>3. w \notin disturbed' => WorkerInv(w)'
    BY <1>1, <2>1, <2>2, CreateFails DEF Moves
  <2>4. QED
    BY <2>1, <2>2, <2>3, OnlyMoves
<1>7. QED
  BY <1>2, <1>3, <1>4, <1>5, <1>6

\* The list a delete Job reads shows the worker as the last PATCH left it, or the worker is
\* disturbed.
LEMMA DeleteCommonStep ==
  ASSUME IInv, TypeInv', NEW w \in Workers, NEW j \in Jobs, j = <<w, "delete">>,
         \/ ResolveInstance(j) \/ GetLoadBalancer(j) \/ PatchLoadBalancer(j)
         \/ PollLoadBalancer(j) \/ Deadline(j) \/ MachineLost(j) \/ Fail(j)
  PROVE  IInv'
<1>1. /\ TypeInv /\ Worker(j) = w /\ ~Creates(j) /\ pc[j] = D(w)
      /\ w \notin disturbed => WorkerInv(w)
  BY DEF IInv, Worker, Creates, D
<1>2. CASE ResolveInstance(j)
  <2>1. Moves(w, C(w), "cordon")
    BY <1>1, <1>2, DeleteKnows DEF ResolveInstance, DeleteLabels
  <2>2. D(w) = "resolve" /\ UNCHANGED <<cloudVars, clusterVars, disturbed, overlooked>>
    BY <1>1, <1>2 DEF ResolveInstance, cloudVars, clusterVars
  <2>3. w \notin disturbed' => WorkerInv(w)'
    BY <1>1, <2>1, <2>2 DEF Moves, WorkerInv, CreateInv, DeleteInv, Detached, ListInv,
       Unlisted, Ended,
       cloudVars, clusterVars
  <2>4. QED
    BY <2>1, <2>2, <2>3, OnlyMoves
<1>3. CASE GetLoadBalancer(j)
  <2>1. PICK label \in {"destroy", "lbPatch"} :
          Goto(j, label) /\ (label = "destroy" <=> w \notin lb)
    BY <1>1, <1>3 DEF GetLoadBalancer, AfterLb, Settled, Creates
  <2>2. Moves(w, C(w), label)
    BY <1>1, <2>1, DeleteKnows DEF DeleteLabels
  <2>3. /\ D(w) = "lbGet" /\ UNCHANGED <<cloudVars, clusterVars>>
        /\ disturbed \subseteq disturbed' /\ overlooked \subseteq overlooked'
        /\ w \notin disturbed' => (w \in lb <=> w \in lbNext)
    BY <1>1, <1>3 DEF GetLoadBalancer, Settled, Creates, cloudVars, clusterVars
  <2>4. w \notin disturbed' => WorkerInv(w)'
    BY <1>1, <2>1, <2>2, <2>3 DEF Moves, WorkerInv, CreateInv, DeleteInv, Detached, ListInv,
       Unlisted,
       Ended, cloudVars, clusterVars
  <2>5. QED
    BY <2>2, <2>3, <2>4, OnlyMoves
<1>4. CASE PatchLoadBalancer(j)
  <2>1. Moves(w, C(w), "lbPoll")
    BY <1>1, <1>4, DeleteKnows DEF PatchLoadBalancer, DeleteLabels
  <2>2. D(w) = "lbPatch" /\ w \notin lbNext' /\ disturbed \subseteq disturbed' /\ overlooked \subseteq overlooked'
    BY <1>1, <1>4 DEF PatchLoadBalancer, Payload
  <2>3. Elsewhere(w) /\ UNCHANGED <<machine, privateIp, agent, node, lb>>
    BY <1>1, <1>4, PatchElsewhere
  <2>4. w \notin disturbed' => WorkerInv(w)'
    BY <1>1, <2>1, <2>2, <2>3 DEF Moves, WorkerInv, CreateInv, DeleteInv, Detached, ListInv,
       Unlisted,
       Ended
  <2>5. QED
    BY <2>1, <2>3, <2>4, WorkerStep
<1>5. CASE PollLoadBalancer(j)
  <2>1. Moves(w, C(w), "destroy")
    BY <1>1, <1>5, DeleteKnows DEF PollLoadBalancer, AfterLb, DeleteLabels
  <2>2. /\ D(w) = "lbPoll" /\ w \notin lb
        /\ UNCHANGED <<cloudVars, clusterVars, disturbed, overlooked>>
    BY <1>1, <1>5 DEF PollLoadBalancer, Settled, cloudVars, clusterVars
  <2>3. w \notin disturbed' => WorkerInv(w)'
    BY <1>1, <2>1, <2>2 DEF Moves, WorkerInv, CreateInv, DeleteInv, Detached, ListInv,
       Unlisted, Ended,
       cloudVars, clusterVars
  <2>4. QED
    BY <2>1, <2>2, <2>3, OnlyMoves
<1>6. CASE Deadline(j) \/ MachineLost(j) \/ Fail(j)
  <2>1. /\ Goto(j, "failed") /\ UNCHANGED <<cloudVars, clusterVars, disturbed, overlooked>>
        /\ D(w) # "idle"
    BY <1>1, <1>6 DEF Deadline, Waits, MachineLost, Fail, Running, cloudVars, clusterVars
  <2>2. Moves(w, C(w), "failed")
    BY <1>1, <2>1, DeleteKnows DEF DeleteLabels, Ended
  <2>3. w \notin disturbed' => WorkerInv(w)'
    BY <1>1, <2>1, <2>2, DeleteFails DEF Moves
  <2>4. QED
    BY <2>1, <2>2, <2>3, OnlyMoves
<1>7. QED
  BY <1>2, <1>3, <1>4, <1>5, <1>6

-----------------------------------------------------------------------------
(* The cloud and the cluster.                                              *)

LEMMA WorkerProgress ==
  ASSUME IInv, TypeInv', NEW w \in Workers,
         MachineProgress(w) \/ PrivateIpSet(w) \/ NodeJoins(w) \/ NodeBecomesReady(w)
  PROVE  IInv'
<1>1. /\ machine \in [Workers -> {"none", "pending", "active", "ok", "destroying", "gone"}]
      /\ privateIp \in [Workers -> {"none", "attaching", "set"}]
      /\ agent \in [Workers -> {"off", "registering", "registered"}]
      /\ node \in [Workers -> {"absent", "joined", "ready", "cordoned"}]
      /\ C(w) \in CreateLabels
  BY DEF IInv, TypeInv, TypeOK, LabelsOK
<1>2. pc' = pc /\ UNCHANGED <<lb, lbNext, disturbed, overlooked>> /\ Moves(w, C(w), D(w))
  BY DEF MachineProgress, PrivateIpSet, NodeJoins, NodeBecomesReady, cloudVars, clusterVars,
     Moves, C, D
<1>3. Elsewhere(w)
  BY <1>1, <1>2 DEF Elsewhere, MachineProgress, PrivateIpSet, NodeJoins, NodeBecomesReady,
     cloudVars, clusterVars
<1>4. ASSUME w \notin disturbed' PROVE WorkerInv(w)'
  <2>1. WorkerInv(w)
    BY <1>2, <1>4 DEF IInv
  <2> USE DEF WorkerInv, CreateInv, DeleteInv, Detached, ListInv, CreateLabels, Unlisted, Ended
  <2>2. CASE MachineProgress(w)
    BY <1>1, <1>2, <2>1, <2>2 DEF MachineProgress, clusterVars, Moves
  <2>3. CASE PrivateIpSet(w)
    BY <1>1, <1>2, <2>1, <2>3 DEF PrivateIpSet, clusterVars, Moves
  <2>4. CASE NodeJoins(w)
    BY <1>1, <1>2, <2>1, <2>4 DEF NodeJoins, cloudVars, Moves
  <2>5. CASE NodeBecomesReady(w)
    BY <1>1, <1>2, <2>1, <2>5 DEF NodeBecomesReady, cloudVars, Moves
  <2>6. QED
    BY <2>2, <2>3, <2>4, <2>5
<1>5. QED
  BY <1>2, <1>3, <1>4, WorkerStep

\* The update takes effect for every worker at once.
LEMMA ListUpdated ==
  ASSUME IInv, TypeInv', LoadBalancerUpdated
  PROVE  IInv'
<1>1. /\ lb' = lbNext
      /\ UNCHANGED <<machine, privateIp, lbNext, agent, node, pc, disturbed, overlooked>>
  BY DEF LoadBalancerUpdated, clusterVars
<1>2. ASSUME NEW w \in Workers \ disturbed PROVE WorkerInv(w)'
  <2>1. WorkerInv(w) /\ C(w)' = C(w) /\ D(w)' = D(w)
    BY <1>1 DEF IInv, C, D
  <2>2. QED
    BY <1>1, <2>1 DEF WorkerInv, CreateInv, DeleteInv, Detached, ListInv, Unlisted
<1>3. QED
  BY <1>1, <1>2 DEF IInv

LEMMA IInvNext == IInv /\ [Next]_vars => IInv'
<1> SUFFICES ASSUME IInv, [Next]_vars PROVE IInv'
  OBVIOUS
<1>1. TypeInv'
  BY TypeNext DEF IInv
<1>2. CASE UNCHANGED vars
  BY <1>2 DEF IInv, TypeInv, TypeOK, LabelsOK, WorkerInv, CreateInv, DeleteInv, Detached,
     ListInv, C, D,
     vars, cloudVars, clusterVars
<1>3. ASSUME NEW j \in Jobs, CreateInstance(j) \/ StartTeardown(j) \/ JobStep(j) \/ Fail(j)
      PROVE  IInv'
  <2>1. PICK w \in Workers : j = <<w, "create">> \/ j = <<w, "delete">>
    BY DEF Jobs
  <2>2. CASE j = <<w, "create">>
    <3>1. Creates(j) /\ pc[j] \in CreateLabels
      BY <2>2 DEF Creates, IInv, TypeInv, LabelsOK, C
    <3>2. \/ CreateInstance(j) \/ WaitForInstanceReady(j) \/ WaitForSsh(j) \/ InstallAgent(j)
          \/ RestartAgent(j) \/ WaitForNodeReady(j)
          \/ ResolveInstance(j) \/ GetLoadBalancer(j) \/ PatchLoadBalancer(j)
          \/ PollLoadBalancer(j) \/ Deadline(j) \/ MachineLost(j) \/ Fail(j)
      BY <1>3, <3>1 DEF JobStep, StartTeardown, CordonNode, DrainNode, DeleteNode,
         DestroyInstance, WaitForGone, CreateLabels, Ended
    <3>3. QED
      BY <1>1, <2>2, <3>2, CreateStep, CreateCommonStep
  <2>3. CASE j = <<w, "delete">>
    <3>1. ~Creates(j) /\ pc[j] \in DeleteLabels
      BY <2>3 DEF Creates, IInv, TypeInv, LabelsOK, D
    <3>2. \/ StartTeardown(j) \/ CordonNode(j) \/ DrainNode(j) \/ DeleteNode(j)
          \/ DestroyInstance(j) \/ WaitForGone(j)
          \/ ResolveInstance(j) \/ GetLoadBalancer(j) \/ PatchLoadBalancer(j)
          \/ PollLoadBalancer(j) \/ Deadline(j) \/ MachineLost(j) \/ Fail(j)
      BY <1>3, <3>1 DEF JobStep, CreateInstance, WaitForInstanceReady, WaitForSsh,
         InstallAgent, RestartAgent, WaitForNodeReady, DeleteLabels, Ended
    <3>3. QED
      BY <1>1, <2>3, <3>2, DeleteStep, DeleteCommonStep
  <2>4. QED
    BY <2>1, <2>2, <2>3
<1>4. CASE Next
  BY <1>1, <1>3, <1>4, WorkerProgress, ListUpdated DEF Next
<1>5. QED
  BY <1>2, <1>4

LEMMA IInvCorrect == Spec => []IInv
<1>1. QED
  BY IInvInit, IInvNext, PTL DEF Spec

-----------------------------------------------------------------------------
(* Theorems.                                                               *)

\* A create Job that completed leaves a worker that serves until its teardown starts, unless
\* the PATCH of another Job changed its entry (create-worker-e2e.py).
THEOREM CompletedServesCorrect == Spec => []CompletedServes
<1>1. IInv => CompletedServes
  BY DEF IInv, TypeInv, WorkerInv, CreateInv, CompletedServes, C, D
<1>2. QED
  BY <1>1, IInvCorrect, PTL

\* The load balancer lists only workers that are there and became ready
\* (attach-vm-to-lb.py, teardown-vultr-worker.py).
THEOREM BackendsServeCorrect == Spec => []BackendsServe
<1>1. IInv => BackendsServe
  BY DEF IInv, TypeInv, TypeOK, WorkerInv, ListInv, BackendsServe, D
<1>2. QED
  BY <1>1, IInvCorrect, PTL

\* A machine is destroyed only when the load balancer no longer lists it and its node is gone,
\* or was taken to be because kubectl failed (teardown-vultr-worker.py).
THEOREM DestroyedIsDetachedCorrect == Spec => []DestroyedIsDetached
<1>1. IInv => DestroyedIsDetached
  BY DEF IInv, WorkerInv, DeleteInv, Detached, ListInv, DestroyedIsDetached, D
<1>2. QED
  BY <1>1, IInvCorrect, PTL
=============================================================================
