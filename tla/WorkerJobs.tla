----------------------------- MODULE WorkerJobs -----------------------------
(***************************************************************************)
(* The create and the delete Job of a worker (linux-script/): the scripts  *)
(* that make a machine, join it to the cluster and list it at the load     *)
(* balancer, and the one that takes all of that back.  NodeScaler knows    *)
(* these Jobs only by how they end; here are their steps, and what Jobs of *)
(* several workers do to the list they share.                              *)
(*                                                                         *)
(* A step is one call to the cloud, the machine or the cluster.  The list  *)
(* of the load balancer has no version: a Job reads it, and sends back a   *)
(* whole new one.  The cloud, the agent on the machine and the scheduler   *)
(* of the Jobs are outside of the scripts and modelled from their use.     *)
(***************************************************************************)
EXTENDS Integers, FiniteSets

CONSTANTS
  Workers,      \* workers the scaler names, each name used once
  Existing,     \* those that serve at the start
  VpcConfigured, \* VULTR_VPC_ID is set
  MaxCreates,   \* create Jobs that run at the same time
  MaxDeletes,   \* delete Jobs that run at the same time
  MaxFaults     \* bound: calls that fail, Jobs that are killed

JobsAssumption ==
  /\ Existing \subseteq Workers /\ IsFiniteSet(Workers)
  /\ VpcConfigured \in BOOLEAN
  /\ {MaxCreates, MaxDeletes, MaxFaults} \subseteq Nat
ASSUME JobsAssumption

VARIABLES
  machine,   \* the instance of each worker, as the cloud reports it
  privateIp, \* workers whose machine has its internal_ip, or is about to get it
  agent,     \* k3s-agent on each machine
  node,      \* the node object of each worker
  lb,        \* instances of the load balancer, as GET shows them
  lbNext,    \* what the last accepted PATCH makes of them
  pc,        \* where each Job is
  read,      \* the instances each Job got from its GET
  faults,
  disturbed, \* workers another Job interfered with (history)
  overlooked \* workers whose node a delete Job did not find though it is there (history)

cloudVars == <<machine, privateIp, lb, lbNext>>
clusterVars == <<agent, node>>
historyVars == <<disturbed, overlooked>>
vars == <<cloudVars, clusterVars, pc, read, faults, historyVars>>

Jobs == Workers \X {"create", "delete"}
Worker(j) == j[1]
Creates(j) == j[2] = "create"

Ended == {"done", "failed"}
Running(j) == pc[j] \notin Ended \cup {"idle"}
Overlapping(w) == Running(<<w, "create">>)

\* The machine is in the answer to GET /instances.
InstanceListed(w) == machine[w] \notin {"none", "gone"}

Init ==
  /\ machine = [w \in Workers |-> IF w \in Existing THEN "ok" ELSE "none"]
  /\ privateIp = [w \in Workers |-> IF w \in Existing THEN "set" ELSE "none"]
  /\ agent = [w \in Workers |-> IF w \in Existing THEN "registered" ELSE "off"]
  /\ node = [w \in Workers |-> IF w \in Existing THEN "ready" ELSE "absent"]
  /\ lb = Existing /\ lbNext = Existing
  /\ pc = [j \in Jobs |-> IF Creates(j) /\ Worker(j) \in Existing THEN "done" ELSE "idle"]
  /\ read = [j \in Jobs |-> {}]
  /\ faults = 0 /\ disturbed = {} /\ overlooked = {}

Goto(j, label) == pc' = [pc EXCEPT ![j] = label]

-----------------------------------------------------------------------------
\* The create Job.

\* create-worker-e2e: POST /instances.
CreateInstance(j) ==
  /\ Creates(j) /\ pc[j] = "idle"
  /\ Cardinality({k \in Jobs : Creates(k) /\ Running(k)}) < MaxCreates
  /\ machine' = [machine EXCEPT ![Worker(j)] = "pending"]
  /\ Goto(j, "boot")
  /\ UNCHANGED <<privateIp, lb, lbNext, clusterVars, read, faults, historyVars>>

\* Mutant: the private address is not awaited.
WaitForInstanceReady_AddressNotAwaited(j) ==
  LET w == Worker(j)
      attach == machine[w] \in {"active", "ok"} /\ VpcConfigured /\ privateIp[w] = "none"
  IN /\ pc[j] = "boot"
     /\ attach \/ machine[w] = "ok"
     /\ privateIp' = [privateIp EXCEPT ![w] = IF attach THEN "attaching" ELSE @]
     /\ Goto(j, IF attach THEN "boot" ELSE "ssh")
     /\ UNCHANGED <<machine, lb, lbNext, clusterVars, read, faults, historyVars>>

\* The VPC is attached once, when the machine is active; after that the loop waits for
\* the server and for the private address.
WaitForInstanceReady(j) ==
  LET w == Worker(j)
      attach == machine[w] \in {"active", "ok"} /\ VpcConfigured /\ privateIp[w] = "none"
      ready == machine[w] = "ok" /\ (VpcConfigured => privateIp[w] = "set")
  IN /\ pc[j] = "boot"
     /\ attach \/ ready
     /\ privateIp' = [privateIp EXCEPT ![w] = IF attach THEN "attaching" ELSE @]
     \* create-worker-e2e refuses a result without a private address.
     /\ Goto(j, IF attach THEN "boot" ELSE IF privateIp[w] = "set" THEN "ssh" ELSE "failed")
     /\ UNCHANGED <<machine, lb, lbNext, clusterVars, read, faults, historyVars>>

WaitForSsh(j) ==
  /\ pc[j] = "ssh" /\ machine[Worker(j)] = "ok"
  /\ Goto(j, "install")
  /\ UNCHANGED <<cloudVars, clusterVars, read, faults, historyVars>>

\* bootstrap-k3s-worker on the machine: the installed agent is started, then restarted.
InstallAgent(j) ==
  /\ pc[j] = "install" /\ machine[Worker(j)] = "ok"
  /\ agent' = [agent EXCEPT ![Worker(j)] = "registering"]
  /\ Goto(j, "restart")
  /\ UNCHANGED <<cloudVars, node, read, faults, historyVars>>

RestartAgent(j) ==
  /\ pc[j] = "restart" /\ machine[Worker(j)] = "ok"
  /\ agent' = [agent EXCEPT ![Worker(j)] = "registering"]
  /\ Goto(j, "ready")
  /\ UNCHANGED <<cloudVars, node, read, faults, historyVars>>

\* Mutant: a node that has joined counts as ready.
WaitForNodeReady_Joined(j) ==
  /\ pc[j] = "ready" /\ node[Worker(j)] # "absent"
  /\ Goto(j, "resolve")
  /\ UNCHANGED <<cloudVars, clusterVars, read, faults, historyVars>>

WaitForNodeReady(j) ==
  /\ pc[j] = "ready" /\ node[Worker(j)] \in {"ready", "cordoned"}
  /\ Goto(j, "resolve")
  /\ UNCHANGED <<cloudVars, clusterVars, read, faults, historyVars>>

-----------------------------------------------------------------------------
\* The delete Job.

\* The scaler starts it for a ready node; after a failure it is started again, by the
\* scaler or by hand.
StartTeardown(j) ==
  LET w == Worker(j)
  IN /\ ~Creates(j)
     /\ \/ pc[j] = "idle" /\ node[w] \in {"ready", "cordoned"}
        \/ pc[j] = "failed"
     /\ Cardinality({k \in Jobs : ~Creates(k) /\ Running(k)}) < MaxDeletes
     /\ Goto(j, "resolve")
     /\ disturbed' = IF Overlapping(w) \/ agent[w] = "registering" THEN disturbed \cup {w}
                     ELSE disturbed
     /\ UNCHANGED <<cloudVars, clusterVars, read, faults, overlooked>>

\* detach_node_from_cluster: any error of kubectl get reads as a node that is absent, and the
\* script goes on without it; an error of kubectl cordon is ignored, the drain cordons too.
CordonNode(j) ==
  LET w == Worker(j)
  IN /\ pc[j] = "cordon"
     /\ \/ /\ node[w] = "absent"
           /\ Goto(j, "lbGet")
           /\ UNCHANGED <<node, faults, overlooked>>
        \/ /\ node[w] # "absent" /\ faults < MaxFaults
           /\ Goto(j, "lbGet")
           /\ faults' = faults + 1 /\ overlooked' = overlooked \cup {w}
           /\ UNCHANGED node
        \/ /\ node[w] # "absent"
           /\ Goto(j, "drain")
           /\ node' \in {node, [node EXCEPT ![w] = IF @ = "ready" THEN "cordoned" ELSE @]}
           /\ UNCHANGED <<faults, overlooked>>
     /\ UNCHANGED <<cloudVars, agent, read, disturbed>>

DrainNode(j) ==
  /\ pc[j] = "drain"
  /\ node' = [node EXCEPT ![Worker(j)] = IF @ = "ready" THEN "cordoned" ELSE @]
  /\ Goto(j, "deleteNode")
  /\ UNCHANGED <<cloudVars, agent, read, faults, historyVars>>

DeleteNode(j) ==
  /\ pc[j] = "deleteNode"
  /\ node' = [node EXCEPT ![Worker(j)] = "absent"]
  /\ Goto(j, "lbGet")
  /\ UNCHANGED <<cloudVars, agent, read, faults, historyVars>>

DestroyInstance(j) ==
  /\ pc[j] = "destroy" /\ InstanceListed(Worker(j))
  /\ machine' = [machine EXCEPT ![Worker(j)] = "destroying"]
  /\ Goto(j, "gone")
  /\ UNCHANGED <<privateIp, lb, lbNext, clusterVars, read, faults, historyVars>>

WaitForGone(j) ==
  /\ pc[j] = "gone" /\ ~InstanceListed(Worker(j))
  /\ Goto(j, "done")
  /\ UNCHANGED <<cloudVars, clusterVars, read, faults, historyVars>>

-----------------------------------------------------------------------------
\* Both Jobs: the machine is looked up, and the list of the load balancer is brought up to
\* date.  The Job that has nothing to change there skips the PATCH.

ResolveInstance(j) ==
  /\ pc[j] = "resolve" /\ InstanceListed(Worker(j))
  /\ Goto(j, IF Creates(j) THEN "lbGet" ELSE "cordon")
  /\ UNCHANGED <<cloudVars, clusterVars, read, faults, historyVars>>

\* The list has the worker for a create Job, and not for a delete Job.
Settled(j, list) == (Worker(j) \in list) = Creates(j)

AfterLb(j) == IF Creates(j) THEN "done" ELSE "destroy"

GetLoadBalancer(j) ==
  /\ pc[j] = "lbGet"
  /\ read' = [read EXCEPT ![j] = lb]
  /\ Goto(j, IF Settled(j, lb) THEN AfterLb(j) ELSE "lbPatch")
  /\ disturbed' = IF Settled(j, lb) = Settled(j, lbNext) THEN disturbed
                  ELSE disturbed \cup {Worker(j)}
  /\ UNCHANGED <<cloudVars, clusterVars, faults, overlooked>>

\* build_patch_payload and build_detach_payload.
Payload(j) == IF Creates(j) THEN read[j] \cup {Worker(j)} ELSE read[j] \ {Worker(j)}

\* Mutant: the update of the load balancer is not awaited.
PatchLoadBalancer_NotAwaited(j) ==
  /\ pc[j] = "lbPatch"
  /\ lbNext' = Payload(j)
  /\ disturbed' = disturbed \cup
       {v \in Workers \ {Worker(j)} : (v \in lbNext') # (v \in lbNext)}
  /\ read' = [read EXCEPT ![j] = {}]
  /\ Goto(j, AfterLb(j))
  /\ UNCHANGED <<machine, privateIp, lb, clusterVars, faults, overlooked>>

PatchLoadBalancer(j) ==
  /\ pc[j] = "lbPatch"
  /\ lbNext' = Payload(j)
  /\ disturbed' = disturbed \cup
       {v \in Workers \ {Worker(j)} : (v \in lbNext') # (v \in lbNext)}
  /\ read' = [read EXCEPT ![j] = {}]
  /\ Goto(j, "lbPoll")
  /\ UNCHANGED <<machine, privateIp, lb, clusterVars, faults, overlooked>>

PollLoadBalancer(j) ==
  /\ pc[j] = "lbPoll" /\ Settled(j, lb)
  /\ Goto(j, AfterLb(j))
  /\ UNCHANGED <<cloudVars, clusterVars, read, faults, historyVars>>

\* Mutant: the wait for the load balancer has none.
Waits_WithoutLoadBalancer == {"boot", "ssh", "ready", "resolve", "drain", "gone"}

\* Every wait has a deadline, and the Job fails at it.
Waits == {"boot", "ssh", "ready", "resolve", "drain", "lbPoll", "gone"}
Deadline(j) ==
  /\ pc[j] \in Waits
  /\ Goto(j, "failed")
  /\ UNCHANGED <<cloudVars, clusterVars, read, faults, historyVars>>

\* A call about a machine that was destroyed in between answers with an error.
MachineLost(j) ==
  /\ \/ pc[j] \in {"boot", "install", "restart"} /\ machine[Worker(j)] \in {"destroying", "gone"}
     \/ pc[j] = "destroy" /\ machine[Worker(j)] = "gone"
  /\ Goto(j, "failed")
  /\ UNCHANGED <<cloudVars, clusterVars, read, faults, historyVars>>

\* A call answers with an error, or the pod of the Job is killed: whatever was done stays.
Fail(j) ==
  /\ Running(j) /\ faults < MaxFaults
  /\ Goto(j, "failed") /\ faults' = faults + 1
  /\ UNCHANGED <<cloudVars, clusterVars, read, historyVars>>

-----------------------------------------------------------------------------
\* What the scripts wait for.

MachineProgress(w) ==
  /\ \/ machine[w] = "pending" /\ machine' = [machine EXCEPT ![w] = "active"]
     \/ machine[w] = "active" /\ machine' = [machine EXCEPT ![w] = "ok"]
     \/ machine[w] = "destroying" /\ machine' = [machine EXCEPT ![w] = "gone"]
  /\ UNCHANGED <<privateIp, lb, lbNext, clusterVars, pc, read, faults, historyVars>>

PrivateIpSet(w) ==
  /\ privateIp[w] = "attaching" /\ InstanceListed(w)
  /\ privateIp' = [privateIp EXCEPT ![w] = "set"]
  /\ UNCHANGED <<machine, lb, lbNext, clusterVars, pc, read, faults, historyVars>>

\* An agent that starts registers its node when there is none.
NodeJoins(w) ==
  /\ agent[w] = "registering" /\ machine[w] = "ok"
  /\ agent' = [agent EXCEPT ![w] = "registered"]
  /\ node' = [node EXCEPT ![w] = IF @ = "absent" THEN "joined" ELSE @]
  /\ UNCHANGED <<cloudVars, pc, read, faults, historyVars>>

NodeBecomesReady(w) ==
  /\ node[w] = "joined" /\ agent[w] = "registered" /\ machine[w] = "ok"
  /\ node' = [node EXCEPT ![w] = "ready"]
  /\ UNCHANGED <<cloudVars, agent, pc, read, faults, historyVars>>

LoadBalancerUpdated ==
  /\ lb # lbNext /\ lb' = lbNext
  /\ UNCHANGED <<machine, privateIp, lbNext, clusterVars, pc, read, faults, historyVars>>

-----------------------------------------------------------------------------
JobStep(j) ==
  \/ WaitForInstanceReady(j) \/ WaitForSsh(j) \/ InstallAgent(j) \/ RestartAgent(j)
  \/ WaitForNodeReady(j)
  \/ CordonNode(j) \/ DrainNode(j) \/ DeleteNode(j) \/ DestroyInstance(j) \/ WaitForGone(j)
  \/ ResolveInstance(j) \/ GetLoadBalancer(j) \/ PatchLoadBalancer(j) \/ PollLoadBalancer(j)
  \/ Deadline(j) \/ MachineLost(j)

Next ==
  \/ \E j \in Jobs : CreateInstance(j) \/ StartTeardown(j) \/ JobStep(j) \/ Fail(j)
  \/ \E w \in Workers :
       MachineProgress(w) \/ PrivateIpSet(w) \/ NodeJoins(w) \/ NodeBecomesReady(w)
  \/ LoadBalancerUpdated

Spec == Init /\ [][Next]_vars

\* Every call of a running Job returns; nothing else has to happen.
FairSpec == Spec /\ \A j \in Jobs : WF_vars(JobStep(j))

-----------------------------------------------------------------------------
\* Properties.  They are about the workers no other Job interfered with: disturbed has the
\* others: those whose entry at the load balancer was undone by a Job with an older list,
\* or was read before the last update of it took effect, and those torn down while their
\* create Job ran or their agent still registered.

\* Every value the variables take (the scripts under linux-script/).
TypeOK ==
  /\ machine \in [Workers -> {"none", "pending", "active", "ok", "destroying", "gone"}]
  /\ privateIp \in [Workers -> {"none", "attaching", "set"}]
  /\ agent \in [Workers -> {"off", "registering", "registered"}]
  /\ node \in [Workers -> {"absent", "joined", "ready", "cordoned"}]
  /\ {lb, lbNext, disturbed, overlooked} \subseteq SUBSET Workers
  /\ pc \in [Jobs -> Waits \cup Ended \cup
                     {"idle", "install", "restart", "cordon", "deleteNode", "lbGet", "lbPatch",
                      "destroy"}]
  /\ read \in [Jobs -> SUBSET Workers]
  /\ faults \in 0..MaxFaults

\* A create Job that completed leaves a worker that serves until its teardown starts, also
\* while other Jobs run and fail half way, unless another Job's PATCH changed its entry at the
\* load balancer: that lost update is OthersStayListed's.
CompletedServes ==
  /\ TypeOK
  /\ \A w \in Workers \ disturbed :
    pc[<<w, "create">>] = "done" /\ pc[<<w, "delete">>] = "idle" =>
      machine[w] = "ok" /\ privateIp[w] = "set" /\ node[w] = "ready" /\ w \in lb \cap lbNext

\* The load balancer sends traffic only to workers whose node became ready and whose machine
\* is there, also when the create or the delete Job failed half way or is repeated.
BackendsServe ==
  \A w \in (lb \cup lbNext) \ disturbed :
    /\ machine[w] = "ok"
    /\ pc[<<w, "delete">>] = "idle" => node[w] = "ready"

\* A machine is destroyed only after the load balancer has let it go and its node has left the
\* cluster, or a look at the node failed and was taken for its absence; a completed delete
\* Job leaves no machine, also when an earlier one failed.
DestroyedIsDetached ==
  \A w \in Workers \ disturbed :
    /\ machine[w] \in {"destroying", "gone"} =>
         w \notin lb \cup lbNext /\ (node[w] = "absent" \/ w \in overlooked)
    /\ pc[<<w, "delete">>] = "done" => machine[w] = "gone"

\* The list that a Job sends has every other worker that is listed: it is "merged" with what
\* is there (attach-vm-to-lb.py).
OthersStayListed ==
  [][\A j \in Jobs :
       PatchLoadBalancer(j) => lbNext \ {Worker(j)} \subseteq lbNext']_vars

\* A Job whose calls all return ends, whatever they answer and whatever the machine and the
\* other Jobs do, also when what it waits for was undone by another Job.  The fairness of
\* JobStep is the assumption: urlopen has no timeout, and a call that is never answered keeps
\* its Job.
JobsEnd == \A j \in Jobs : Running(j) ~> ~Running(j)
=============================================================================
