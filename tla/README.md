# Verification of the predictive autoscaler

TLA+ models of the autoscaling system in `src/`, model-checked with TLC, and
theorems about them checked with TLAPS.

## 1. The system

A forecasting service predicts the request rate of an application. An operator
(`custom-scaler`, Go) turns the forecast into a number of pods and the pods
into a number of worker nodes; worker nodes are virtual machines that Kubernetes
Jobs create and destroy with the scripts of `linux-script`. The other services
generate the load, serve it, and show what happened.

| component | state | operations | talks to |
|---|---|---|---|
| **Node scaler** `custom-scaler/internal/controller/{node_scaling_controller,worker_prototype,worker_executor,worker_operations}.go` | `status.workerPrototype` of the CustomScaler: Ready count, pending counts, active operations and their legacy mirror | one periodic reconcile: plan, examine the operations, start Jobs, patch | nodes, Jobs and pods through the API server and its informers; reads `lastDesiredReplicas` |
| **Worker capacity** `worker_capacity.go` | none | target resolution (manual, direct-divide, free-slots), node choice for a deletion | called by the node scaler |
| **Pod scaler** `pod_scaling_controller.go`, `customscaler_controller.go` | `status.reactivePressureBump`, `lastDesiredReplicas` | forecast, demand, bump, scale-down guards, replica update, patch | forecasting service, Deployment |
| **Worker Jobs** `create-worker-e2e.py`, `teardown-vultr-worker.py`, `attach-vm-to-lb.py`, ... | the machine, the node, the load balancer's instance list | create, bootstrap, attach; drain, delete, detach, destroy | cloud API, cluster |
| **Resource demand pool** `resource-demand.service.ts` | worker slots, bounded queue | execute, dispatch, complete, fail and replace, shut down | worker threads |
| **Load sender** `load_sender.py` | token counter, backlog, per-second reports | dispatch, backlog loop, execute, flush; sharding over processes | the application |
| **Showcase** `snapshot_service.py`, `loop_history_store.py` | snapshot cache, history file | poll, refresh, read | Kubernetes, Prometheus |
| **Script chart** `script_range_store.py` | index of the file, built once | seek, read, fill, average | a script file; the load sender replays one of its own |
| **Forecasting** `service.py`, `clients.py` | none across requests; one request fetches its series one by one | align, fetch, predict | Prometheus, the model server |

What is hard:

* **Interleaving.** A reconcile is a sequence of API calls; the Jobs, the nodes,
  the demand and the pods move between any two of them. A node joins before its
  Job completes, leaves before its Job completes, and the plan sees only a count.
* **Crashes and partial failure.** A Job is created before the status that
  records it is written.
* **Staleness.** The operator reads informers and writes merge patches without
  a resource version.
* **Timeouts.** An operation whose Job completed waits for the Ready count to
  move, and is given up after the observation timeout.
* **Shared data without a lock.** Jobs of different workers write the load
  balancer's list as a whole; a parent merges report files while its workers append
  to them; a poller and the snapshots of clients write one history file.
* **Boundaries.** A bounded queue with failing threads, tokens with an expiring
  backlog, an index and buckets whose bounds are rounded, series with missing points.

What makes each component correct: the *node scaler* never pays for a worker
twice nor takes the cluster below its target, its status is consistent with
itself and with the running Jobs, every operation ends, and a steady demand is
reached. The *pod scaler* stays within its bounds and, under the "safe" policy, never
scales down under pressure or on guardrails it does not know (the "dangerous" policy
does). The *worker Jobs* leave the load balancer listing only workers that can serve, and
end if their calls return. The *pool* settles every task once, keeps its queue bounded and never
idles a worker beside a queue. The *load sender* accounts for every request
exactly once and returns every token. The *history* is append-only, in order,
without duplicates, and a *chart* or a *forecast* speaks of the instants it names.

`PROJECT.json` lists the hazards at their lines, with the properties that cover
each, or the reason why none does.

## 2. Modules

| module | content |
|---|---|
| `NodeScaler`, `MCNodeScaler` | the node scaler and its environment; the symmetry of its instances |
| `PodScaler` | the pod scaling loop, and the worker target derived from it |
| `WorkerJobs` | the create and delete Jobs of several workers over one load balancer |
| `BoundedService` | abstract: what a server with bounded slots and a bounded waiting room promises |
| `DemandPool` | the thread pool of the application; implements `BoundedService` |
| `LoadSender`, `MCLoadSender` | one load generator process; implements `BoundedService` |
| `LoadWorkers` | the load generator's parent over its worker processes |
| `ScriptTimeline` | a script file, as the load generator turns it into seconds |
| `ScriptRange`, `MCScriptRange` | the chart of a script, over `ScriptTimeline` |
| `LoopHistory` | poller, snapshots, cache and history file of the showcase |
| `Forecast`, `MCForecast` | one request to the forecasting service |
| `NodeScalerProofs`, `PodScalerProofs`, `WorkerJobsProofs`, `DemandPoolProofs`, `LoadSenderProofs`, `LoadWorkersProofs`, `ShowcaseProofs`, `ForecastProofs` | the theorems of section 4; that of `BoundedService` stands in `LoadSenderProofs`, those of `LoopHistory` and `ScriptRange` in `ShowcaseProofs` |

Each module holds its properties and, next to the definition they change, the mutated
operators (`Name_Mutation`) the properties are tested against. How they interact:

* `PodScaler` computes the worker target that is a choice from `Targets` in
  `NodeScaler`; `NodeScaler` moves the workers that just follow the target in
  `PodScaler`. They share the number alone, so each stands for the other by that.
* `WorkerJobs` has the steps of the Jobs that `NodeScaler` knows by their ends.
* `LoadSender` is what one worker of `LoadWorkers` does; there a worker is one that
  records the requests of its shard and writes them in any number of flushes.
* `ScriptRange` and `LoadSender` read files of one format, each its own
  (`scaled-aggregated-1s.csv` of the image and the mounted `test_script.csv`), and different columns
  of it: `ChartIsTheLoad` compares what they make of one content.
* `LoopHistory` shows the loops that the scalers write into their status.

### NodeScaler

**State.** `status` is `status.workerPrototype` in the API server, `cached` the
copy in the informer (`unseen` holds the Jobs the Job informer has not shown
yet). The variables from `pc` on are the locals of one reconcile; `pc` says which
API call comes next. `nodes` and `jobs` are the cluster: every creation has a
fresh name that the Job and its node share, so `JobIds` names both. A Job is
`unborn` (never created), `running`, `complete`, `failed` or `gone` (collected).

**Actions.**

| action | code |
|---|---|
| `Plan` | `Reconcile` up to and including `ensureWorkers`: read the CustomScaler, count the Ready nodes, plan |
| `ExamineLost`, `ExamineObserved`, `ExamineTimedOut`, `ExamineKept` | one round of the loop of `reconcileActiveWorkerOperations`, one action per outcome; the last round also writes the operation list and its mirror |
| `StartJob`, `StartSkipped`, `StartRejected`, `StartLostReply` | one round of `startWorkerOperations`: created; command not configured or no node; error; created, but the reply is lost |
| `Patch` | `patchWorkerPrototypeStatus`: a merge patch against the object read, the legacy mirror field by field (`MergeMirror`) |
| `Abandon` | every other way out without a write: a read or the patch fails, or the process dies |
| `NodeJoins`, `NodeRemoved`, `JobCompletes`, `JobFails` | the worker Jobs, as the scaler sees them |
| `JobReaped`, `NodeFlaps`, `InformerSyncs`, `Retarget`, `Expires` | Job TTL, kubelet, informers, demand, clock |

**Abstractions.** The target the demand resolves to is a choice from `Targets`
that moves at most `MaxRetargets` times; the number of unschedulable pods is a
choice per plan, because pods become unschedulable independently of the scaler.
Each operation has `RequestedCount` 1 (the only value the executor writes), so
the code's sums of counts are numbers of operations. The node a delete
picks is any node Ready at that moment, because the choice follows pod placement.
The clock is the set `expired`: a waiting operation joins it while no reconcile
runs, since the code reads the clock once per reconcile. `LastAction`,
`LastReason` and the loop report are display text and are left out. A Job that
the informer still shows as running after it ended is the same as one that ended
later, so only Jobs the informer does not show at all are modelled (`unseen`).

**Staleness.** A reconcile the polling interval triggers starts minutes after the
last patch; only the one triggered by a spec change that arrived during a
reconcile (`dirty`) follows without delay, and only that one may read a cache that
has not caught up. This is the fault `stale`.

**Faults** are a constant, a set: a run names exactly the ones it allows. One of them,
`timeout`, is the observation timeout of an operation (`worker_executor.go:32`, ten
minutes): a Job that completed whose node is not counted within it is given up.

**Fairness.** `WF(Reconcile)`: every path of `Reconcile` returns `RequeueAfter`, so
the manager calls it again for ever. `WF(JobStep(j))`: a Job's Pod runs until its
script ends, and every wait of the scripts has its own timeout. `SF(Expires(j))`:
time passes while the controller sleeps; the timeout of a waiting operation is
enabled only between reconciles, again and again, hence strong fairness. Faults,
the moves of the demand and the informer under `stale` are not fair. The liveness
run allows `timeout` only, which `OperationsEnd` needs: a Job that never completes would block its slot for ever (the
code gives a running Job no timeout), which is what the hazard list says of it.

### PodScaler

**State.** `replicas` with the copy in the manager's cache (`cachedReplicas`,
`cacheCurrent` says whether the version is the newest), `status` (bump and
`LastDesiredReplicas`) with its copy, `pc` and `cycle` for the cycle under way,
`demand`, `workers`, `target`.

**Actions.** `StartCycle` and `ReceiveForecast` are `Reconcile` up to the decision;
`Scale` the versioned `Update`, which conflicts when the cache was behind;
`PatchStatus` the merge patch of what differs from the object that was read; `EndCycle`
a failed forecast, update or patch, or a restart; `NodeCycle` the target resolution of
the node scaler. `SyncDeployment`, `SyncStatus`, `ScaledByHand`, `LoadChanges`
and `FollowTarget` are the environment.

**Abstractions.** A guardrail point is high, low or nil; the predicted load is the
number of replicas it needs; the workers are alike, with `FreeSlots` pods each. The
guardrail operators (`SustainedPressure`, `RecentlyLow`) work on whole series, and
`Observations` is computed from all of them.

**Fairness.** Weak for the steps of both loops (each returns `RequeueAfter`), for the
cache and for `FollowTarget` (which is what `Converges` says of `NodeScaler`).
Changes of the load, series that are not calm, other scalers and faults are
bounded, so that there is a last one.

### WorkerJobs

**State.** Per worker the machine as the cloud reports it, its private address, the
agent, the node; `lb` is the instance list as GET shows it and `lbNext` what the last
accepted PATCH makes of it; per Job `pc` and the list it has `read`. `disturbed` is a
history variable: the workers whose entry in the list another Job's PATCH undid, or was read
before it took effect, and those torn down while their create Job or their agent was still
at work. The properties are about the others; that a PATCH can undo another's is
`OthersStayListed` (section 5). `overlooked`, also history, has the workers whose node a
delete Job took for absent although it was there.

**Actions.** One per call of the scripts: `CreateInstance` .. `WaitForNodeReady`
(create), `StartTeardown`, `CordonNode` .. `WaitForGone` (delete), and `ResolveInstance`,
`GetLoadBalancer`, `PatchLoadBalancer`, `PollLoadBalancer` for both. `Deadline` is the
timeout of every wait, `MachineLost` an error answer, `Fail` a failed call or a
killed pod at any point. `CordonNode` takes any error of `kubectl get` for the absence of the
node, as the script does, and goes on to detach and destroy. Cloud, agent and kubelet
are external.

**Fairness.** Weak for the steps of a running Job: every call returns, with whatever answer.
Nothing else is assumed of the cloud, so `JobsEnd` rests on the deadlines of the waits. The
code does not guarantee the assumption: `urlopen` has no timeout (section 7).

### BoundedService, DemandPool, LoadSender

`BoundedService` counts requests: arrived, waiting, running, refused, given up, settled.
A request is refused only when every slot and every place is taken, or after the close;
what waits or runs is settled or given up, once.

* `DemandPool`: an action of the service is one callback of its event loop (`Execute`,
  `HandleMessage`, `HandleFailure`, `Shutdown`); `Finish` and `Crash` are the threads,
  whose events wait in `events` until the loop comes to them. Refinement: running is
  the number of slots that have a request, waiting the length of the queue, settled the
  number of resolved and rejected promises. The CPU work is left out. Fairness: the
  event loop comes to every event, and a thread that lives finishes.
* `LoadSender`: an action is what a task does between two awaits: `DispatchSecond`,
  `DispatchMore`, `BacklogLoop`, `ExecuteRequest`, `ProgressLoop`, `Finish`; `Tick` is
  time, which also passes while a task is late, and `RequestStop` a signal at any
  moment. Refinement: running is `inflight`, waiting the backlog, given up what expired
  in it. Report rows are kept as counts per second. Fairness: the loop runs what is ready
  and the clock moves; a request ends because it runs under `asyncio.timeout`.

### LoadWorkers

A report is the set of requests it counts. A worker resets its file (`Reset`), records,
flushes and appends in pieces, and succeeds, is stopped or dies; the parent starts the
workers, polls, reads the files one by one, empties the merged report (`OpenMerged`),
rewrites it in pieces (`WriteMerged`, `CloseMerged`), and unlinks the files at the end. An
interrupt (`Interrupt`) or an error (`Fail`) ends it anywhere, also inside a write, and the
workers go on without it. `output` is the report as it is, `merged` the last one that was
written to its end. The three reports of a run are merged in the same way one after the
other; the module follows one. Files of an earlier, killed run may be there (`old`). Weak
fairness for the parent and for the workers, which may die at any point but do not hang.

### LoopHistory

A loop is its number; `PerMinute` of them share a bucket. Clients take the lock of the
cache, list in a thread, build and cache a page; the poller lists without a lock, syncs
and clears the cache. A listing fails or the process restarts at most `MaxFaults`
times, also while the file is written. Strong fairness for `PollClear`, because the lock is
an `asyncio.Lock`, which is FIFO; weak for the rest. `overtaken`, `shown` (the listing each
cached page was built from) and `changed` (that of the poller's last change) are auxiliary:
they say what the properties are about and guard nothing. That no page outlives a change
needs the lock: the mutant that clears without it is caught by a page that is being
built.

### ScriptTimeline and ScriptRange

A line has its timestamp in ticks, two ticks a second, the sum of its columns of the
classes, which the generator sends, its column of all requests, which the chart shows, and
whether each of the two can read it. `Timeline` is `load_script_points`; `ScriptRange` is the index under its lock, line by line, the search
in it, filling and averaging, with bounds rounded to even and means rounded to hundredths. `SeriesIsTheFile` compares an
answer with a scan of the whole file, which is the reference definition. Definitions of
`ScriptRange` that `LoopHistory` has by the same name carry `Range` (`RangeSpec`), so that one
module can extend both.

### Forecast

The value of a metric at an instant is that instant, so that a value shows where it
comes from. `Receive` fixes the origin, `Fetch` is one query, and then the answer is
computed here or by a model, which may return any number of rows with any dates
(`ModelTimes`): the code cuts the rows to the horizon and does not look at their dates. Points
reach Prometheus late, in any order or never, and the clock moves meanwhile.

## 3. Runs

Every run passes. Symmetry over nodes and Jobs is used in the safety runs of
`NodeScaler` only.

| run | instance | distinct states | shows |
|---|---|---|---|
| `batch` | 2 nodes, 4 Jobs, limits 2/2, targets 1, 3, 4; the only faults are reads and creations of Jobs that fail | 145 000 | under these faults alone: a worker is never paid for twice, deletions never go below every target, joining and leaving never overlap, every running Job is tracked |
| `faults` | 1 node, 2 Jobs, limits 2/2, every fault but `stale` | 921 000 | the status is consistent with itself, no operation is dropped under a live Job |
| `lag` | 1 node, 3 Jobs, limits 2/2, `stale`, `timeout`, failing and collected Jobs | 458 000 | no Job is listed twice |
| `converges` | 2 nodes, 3 Jobs, limits 1/1, `timeout` | 64 000 | a steady demand is reached, every operation ends |
| `pod` | replicas 1 to 3, four points of which two decide, a bump with a maximum, 2 disturbances, 1 fault | 1 265 000 | no unguarded scale-down under the safe policy; replicas, status and workers settle |
| `shared_lb` | 2 workers, one of them serving, one create and one delete Job at a time, 1 fault | 553 000 | of undisturbed workers: a completed one serves, backends can serve, nothing is destroyed under a backend; every Job ends |
| `bounded` | 6 requests, 2 threads, queue of 2, 2 crashes | 120 000 | served in order, no late answer believed, only the dead lose, every request settled, implements `BoundedService` |
| `replay` | seconds of 3, 0, 1 requests, 1 token, backlog of 2 | 577 000 | every request counted once, complete reports but for the planned column, fresh starts, ends, implements `BoundedService` |
| `merge` | 2 workers, 3 requests | 869 000 | success is complete, nothing twice, nothing taken back by a report written to its end, the parent ends |
| `cached` | 2 clients, 1 page, 5 loops, limit 2, 2 faults | 392 000 | history in order, no page older than a finished change, the last loop recorded |
| `chart` | 2 threads, every sorted file of up to 4 lines within three seconds, at most one of them bad for a reader, stride 2, at most 4 points | 2 424 000 | the chart is the file, and the mean of what the load generator sends |
| `instants` | lookback 3, horizon 2, step 2, five contracts, two dates for the rows of a model | 3 638 000 | series are aligned by time, the forecast is about the history |

**Bounds.**

* `NodeScaler`: three Jobs (in `batch` four) are more than the limit of two, so an
  operation can be replaced while another is in flight; one move of the demand lets
  it turn round under operations in flight (the planner keeps no other history than
  the last Ready count). Once `JobIds` is used up the API server refuses creations,
  so that path is explored in every run. `NoOvershoot` and `NoUndershoot` compare with
  every target the demand has had or may have and the size the cluster started with,
  since the code never takes an operation back.
* `PodScaler`: two disturbances are a change while the effect of another is still under way;
  with four points of which two decide, the points that pressure and health look at can
  differ. `HandCounts` is above the maximum, where the guard and the bound pull apart.
* `WorkerJobs`: the conflict on the list takes two Jobs of two workers; a fault in one
  makes the delete Job run again.
* `DemandPool`: two threads, two places and six requests fill the pool and have one
  refused, and leave one to come after a slot was freed; two crashes are one at work
  and one of its replacement.
* `LoadSender`: three requests for one token and two places are a start and two that wait in
  order, and the fourth is dropped when they are still there; the silent second lets the backlog expire; half-second ticks let a task
  be late by less than a second, and the backlog expire inside one.
* `LoadWorkers`: with three requests over two workers one shard has two, so that it can be
  flushed in parts.
* `LoopHistory`: five loops, two a minute, are three minutes, one more than the limit. The
  pages of the cache do not interact, so one is enough.
* `ScriptRange`: four lines with a stride of two are two indexed lines; half seconds
  give two lines in one second; five seconds over four points give a bucket of two. One bad
  line stands before, between or behind good ones.
* `Forecast`: a clock of five ticks passes two whole steps while the series are fetched; of
  the two dates one can be right for a row, and both can be wrong.

Deadlock is not checked where the system ends: when the budgets of the
environment are used up (`pod`, `bounded`), all Jobs have ended (`shared_lb`),
or the process has exited (`replay`, `merge`, `instants`).

## 4. Theorems

All are about `Spec` (`RangeSpec` in `ScriptRange`), without fairness, for every value of the constants that
the named assumptions of the modules allow: any finite set of nodes, Jobs or requests, any
limits, capacities, policies and lengths. They assume no more about the code than the
models do.

| theorem | establishes |
|---|---|
| `NodeScalerProofs!TypeCorrect` | `TypeOK`, under all faults |
| `NodeScalerProofs!EffectiveCorrect` | `EffectiveAddsUp`, all faults but `stale` |
| `NodeScalerProofs!LegacyCorrect` | `LegacyMirrorsFirst`, all faults but `stale` |
| `NodeScalerProofs!PendingCorrect` | `PendingHasOperations`, all faults but `stale` |
| `NodeScalerProofs!OperationsOutliveJobsCorrect` | `OperationsOutliveJobs`, all faults but `stale` |
| `NodeScalerProofs!RunningJobsTrackedCorrect` | `RunningJobsTracked`, all faults but `stale`, `patch`, `lostreply`, `crash` |
| `NodeScalerProofs!OneOperationPerJobCorrect` | `OneOperationPerJob`, all faults |
| `NodeScalerProofs!NoOvershootCorrect` | `NoOvershoot`, faults `get` and `create` |
| `NodeScalerProofs!NoUndershootCorrect` | `NoUndershoot`, faults `get` and `create` |
| `NodeScalerProofs!NoThrashCorrect` | `NoThrash`, faults `get` and `create` |
| `PodScalerProofs!TypeCorrect` | `TypeOK` |
| `PodScalerProofs!ScaleDownAlwaysGuarded` | `ScaleDownGuarded`: the guardrails under the safe policy, the bounds under both |
| `WorkerJobsProofs!CompletedServesCorrect` | `CompletedServes`, of undisturbed workers |
| `WorkerJobsProofs!BackendsServeCorrect` | `BackendsServe`, of undisturbed workers |
| `WorkerJobsProofs!DestroyedIsDetachedCorrect` | `DestroyedIsDetached`, of undisturbed workers; the node is gone or was taken for gone |
| `DemandPoolProofs!QueueAlwaysServed` | `QueueIsServed` |
| `DemandPoolProofs!ThreadsAlwaysServeTheirSlot` | `ThreadsServeTheirSlot` |
| `DemandPoolProofs!OnlyTheDeadEverLose` | `OnlyTheDeadLose` |
| `DemandPoolProofs!PoolImplementsBoundedService` | `ServiceSpec` |
| `LoadSenderProofs!RequestsAlwaysAccounted` | `RequestsAccounted` |
| `LoadSenderProofs!StartsAlwaysFresh` | `StartsAreFresh` |
| `LoadSenderProofs!ReportsAlwaysComplete` | `ReportsComplete`, and `StatisticsAddUp` in it: every column but the planned one |
| `LoadSenderProofs!ImplementsBoundedService` | `ServiceSpec` |
| `LoadSenderProofs!ServiceAccounted` | `Accounted` of `BoundedService`: every request is in exactly one place, the limits hold |
| `LoadWorkersProofs!SuccessAlwaysComplete` | `SuccessIsComplete` |
| `LoadWorkersProofs!NeverCountedTwice` | `NothingCountedTwice` |
| `LoadWorkersProofs!ReportsAlwaysGrow` | `ReportsGrow`, of reports written to their end |
| `ShowcaseProofs!HistoryAlwaysOrdered` | `HistoryOrdered` |
| `ShowcaseProofs!NoPageEverOutlivesPoll` | `NoPageOutlivesPoll` |
| `ShowcaseProofs!SeriesAlwaysIsTheFile` | `SeriesIsTheFile` |
| `ShowcaseProofs!ChartIsAlwaysTheLoad` | `ChartIsTheLoad`, of one content for both, with lines of whole seconds |
| `ForecastProofs!InstantsAlwaysAgree` | `InstantsAgree` |
| `ForecastProofs!GuardrailsAlwaysAlign` | `GuardrailsAlign` |
| `ForecastProofs!ForecastAlwaysFollows` | `ForecastFollowsHistory`: a last-value forecast continues the history, a model's rows are passed on |

The conditions on the faults of `NodeScaler` matter: `stale_patch` violates the
effective count under `stale`, `lost_patch` the tracking of Jobs after a crash, and
`late_join` and `early_timeout` the number of workers when a Job fails or an operation is
given up (section 5). `NoOvershoot`, `NoUndershoot` and `NoThrash` are proved under `get` and
`create` alone: failing or collected Jobs, the observation timeout, flapping nodes, stale
reads, lost patches or replies and crashes are all excluded.

**The arguments.** No property is inductive as it stands. Each invariant below was
checked with TLC before it was proved.

*NodeScaler.* Each theorem rests on an invariant that also speaks of the middle of a
reconcile, built on the one before it:

* `ControlOK` (with `TypeOK`: `TypeInv`): in the loops an operation is left to
  examine, or a Job to start. `Head(todo)` would be untyped without it.
* `ConsistentInv`: without `stale` the informer and the API server agree, the object
  a patch is computed against is the stored one, so the merge patch stores the
  plan; and the plan is consistent after every step, not only when it is written.
* `PendingInv`: halfway through a reconcile the plan has pending workers without an
  operation. It says how many: in the examination those not started yet and
  at most the operations the Ready count has not paid for (`Unpaid`), in the
  start loop those left to start (`Unstarted`). That a plan never both creates and
  deletes is part of it, since only one kind is started.
* `TrackingInv`: the operations listed anywhere are of Jobs that have been
  created, one that waits for observation is of a Job that ended, and every running Job
  of the stored status is in what is left to examine or was kept (`Accounted`). The
  environment preserves it because a Job only moves forward (`Forward`).
* `RunningInv`: only a reconcile that has started a Job knows a Job the status does
  not, so every way out before that loses nothing.
* `OneInv`: the operations are distinct and created, in the status, the informer's
  copy, the base of the patch and the plan, so that a merge of any two is
  too; and the mirror, read back as an operation when the list is empty, is created.

* `GoalsKept` (`NoOvershoot`, `NoUndershoot`, `NoThrash`) relates the status to the numbers of
  nodes, although the Ready count moves while a reconcile works on an older one.
  `WorldInv` says which node each Job stands for and that a Job which completed did its
  work. `BalanceInv` is the reason why a rise of the Ready count may acknowledge
  operations without asking which: it is never more than the listed operations whose
  node has joined (`Joined`), in what is left to examine and what was kept, and the
  fall is never more than those whose node has gone (`Removed`). `GoalInv` is the three
  properties with the workers this reconcile still has to start, so that
  it also holds between the plan and the last start; and that while some come
  nothing is to be deleted, and the other way round.

*PodScaler.* `IInv` is `TypeOK`, `CacheHolds` (a current cache has the real count),
`ReadHolds` (what a cycle decided on is the real count as long as its version is current)
and `DecisionHolds` (the desired count is guarded and within the bounds). The last needs
`PressureIsNotHealth`: series under sustained pressure are never healthy, although the two
look at different points. Its proof takes the newest known point: it is among the
recent ones of both, and cannot be high and low.

*WorkerJobs.* `IInv` says of each worker that is not `disturbed` what is true at every step of
its two Jobs: of the machine, the agent and the node (`CreateInv`, `DeleteInv`), and of both
lists of the load balancer (`ListInv`). Each step is of one worker. What it does to another can only
be through the list it sends; the other is then in the new list as it was in the old one, or it
is disturbed by that very step.

*DemandPool.* `IInv` adds to the type of the events: `Unsettled` (a request that waits or
has a slot has come, is not settled, and is there once), `Ordered` (the queue
increases, and every later request waits or was refused), `SlotsHold` (a slot is busy
as long as it has a request, and until the shutdown no longer; a queue means no free slot)
and `ThreadsHold` (a thread works for its slot, a failure waits only of a dead one, and an
answer that waits is of no request that still waits or will come). The refinement adds how the
numbers of settled requests, active slots and places change with one step.

*LoadSender.* `IInv` is the balance of requests and tokens in one formula (`Balanced`), that
a second is left while the dispatch loop runs, that what expired was counted as
dropped, and that no item of the backlog is of the future or out of order (`Aged`),
without which dropping from the head would not drop the oldest. `RInv` is what the reports
keep while they are written: `Books` ties the rows in the file and in memory, the request report
and the counters together after every step, also between the planned count of a second and its
requests; `Open` says that neither file holds a second that is not over, which is why a
count never comes too late for its row; and the rest says in which order the tasks end. The
sums over rows are a recursive function. What appending, adding to and cutting out rows does to
them (`SumAppended`, `SumGrown`, `SumCut`) follows from one lemma, that the partial
sums exist and are unique, proved by a least counterexample: `LeastExists`, from the
well-foundedness of the natural numbers, is induction without an operator parameter.

*LoadWorkers.* `IInv` says what the files hold (`InShards`, `FilesHold`: only requests of the
shard, nothing old once the worker reset it), what a merge under way has read (`SumHolds`)
and what the last merge that was written to its end had, which the report is unless one is
being written (`OutputHolds`): since files only grow until they are unlinked, a sum over the
first files is at least that merge there. `LastMerge`
ties the final merge to workers that have all exited.

*LoopHistory.* `IInv` has what the file holds of each kind (`Stored`: loops of different minutes
next to each other, no more than the limit) and that a caller who applies a listing has one.
`_append_if_new` appends, replaces or leaves the last item, and then drops the first: each is a
lemma (`AppendKeeps`, `ReplaceKeeps`, `TailKeeps`). The order needs that a listing that
is not newer than the stored one sets `overtaken`. For the pages, `ListingsInv` says that
outside of the poller's clear no page, and no snapshot being built, is of a listing behind
the poller's last change; that nothing is being built at the clear is what the lock gives,
and what a build lists after it is not older, since the status only moves forward.

*ScriptRange.* `RangeInv` says that the index is right at every moment of its making, also when
a read fails half way (`IndexInv`: every entry is a readable line with its timestamp), that
a call under way has a duration, and that every answer is what a scan finds (`Shown`). It needs
no more of the index than that, since the search may begin at any line that is not later than
the start of the range (`StartingLineIs`, `FilledIsFound`). That no second is lost is the
arithmetic of the rounded ends: more seconds than points make them distinct (`RoundedGrows`),
and the last one is exact (`RoundedWhole`).

`ChartIsTheLoad` then compares two computations over the same file. `LineLoaded` says of
each accepted line where its point stands and what it carries (`Carries`), through the
recursion of `Timeline`, one line at a time; the chart's second of a line is that point,
counted from the start (`SecondIsPoint`). So the lines a bucket adds up and the points
that send something in it correspond one to one, and `SameSum` concludes that the two
sums are equal, hence the means. Sums over sets are folds that take out an element of their own
choice: `WeightsExist` and `FoldIs` tie them to a function on subsets, `WeighsAny` says that
every choice gives the same, and `WeighsAgree` that corresponding sets have the same sum, all by
a least counterexample.

*Forecast.* `IInv` says of each series that was fetched that its k-th point is of the
k-th instant before the origin, or missing (`Aligned`), which the clock and later points cannot change
since the origin is fixed and points only come; that no series is fetched before the origin is
fixed; and that an answer is about the fetched series and the rows the model served (`AnswerInv`). `ModelGetsHistory` is the lemma
that the two ways the code walks through the series, newest first and oldest
first, name the same rows.

**Only model-checked.** Every safety invariant and every property of steps that a run checks
is a theorem. Liveness is out of the prover's reach and stays with TLC: `Converges`,
`OperationsEnd`, `ReplicasSettle`, `WorkersSettle`, `JobsEnd`, `EveryRequestSettled`,
`Terminates`, `ParentEnds`, `LatestRecorded`. Each is checked under the fairness that
section 2 gives for its module.

## 5. Where the code and its documentation differ

For each there is an instance whose counterexample TLC finds, for example
`tlc -config MCNodeScaler_late_join.cfg MCNodeScaler`. They are demonstrations: the
error TLC reports is the point.

| instance | what happens | what it departs from |
|---|---|---|
| `MCNodeScaler_late_join` | the machine of a failed create joins after its replacement was planned: more workers than the maximum | `customscaler_types.go:187` "Maximum worker count allowed by policy." |
| `MCNodeScaler_lost_window` | a node joins between the node list and its Job's failure; the rise it causes acknowledges another creation | the same |
| `MCNodeScaler_early_timeout` | of two creations the node of one is counted, but the rise acknowledges the other, whose node joins after the list; the operation of the first is given up by the timeout, and the next rise is taken for that of its replacement, which is still at work: one worker too many | the same |
| `MCNodeScaler_lost_patch` | a Job is created before the status is written; a crash in between loses track of it | `:236` "In-flight worker operations managed by the prototype executor." |
| `MCNodeScaler_stale_patch` | a merge patch from a stale read mixes two plans | `:228` "effective = ready + pendingCreate - pendingDelete" |
| `MCNodeScaler_double_count` | a Ready node whose Job has not completed is counted as observed and as pending | `:224` "planned but not yet observed as Ready" |
| `MCNodeScaler_same_node_twice` | two concurrent deletions of one node | `:226` "planned but not yet observed as gone" |
| `MCNodeScaler_early_slot` | a creation starts while a deletion's Job is still running | `worker_prototype.go:185` "delete operations in flight block new creates" |
| `MCLoadSender_lost_planned` | the planned requests of seconds behind a stop are in no row of the statistics (`load_sender.py:638`) | `work-load.md:481-485` "one row per wall-clock second with: planned ..." |
| `MCScriptRange_two_lines_a_second` (`MCScriptRange`) | two lines at fractions of one second are accepted and move the seconds behind them (`load_sender.py:237`) | `work-load.md:70` "duplicate normalized seconds are rejected" |
| `WorkerJobs_lost_backend` (`WorkerJobs`) | a Job that read the list before another Job's PATCH undoes it (`teardown-vultr-worker.py:442`) | `attach-vm-to-lb.py:107` "with merged backend list" and `:123` "This confirms the LB configuration now includes the instance." |

Two more need no instance. `teardown-vultr-worker.py:391` takes every error of `kubectl get`
for the absence of the node and destroys the machine under a live one, although it reports
it "already absent"; `DestroyedIsDetached` says what holds in spite of that (the machine is
off the load balancer), and the workers it happened to are in `overlooked`. And the merged
reports of the load generator are rewritten in place (`load_sender.py:1100`): a parent that
is interrupted inside a write leaves a report that counts less than the one before.

The runs of section 3 say what holds all the same: `RunningJobsTracked` without the
faults that lose a Job, the properties of `WorkerJobs` for the workers that are not
`disturbed`, `ReportsComplete` without the planned column, and `ReportsGrow` for reports
written to their end.

## 6. Plan

Done: `NodeScaler` with its theorems, `PodScaler`, `WorkerJobs`, `BoundedService` with
both refinements, `LoadSender`, `LoadWorkers`, `LoopHistory`, `Forecast`, `ScriptRange`.
Left: worker capacity with nodes that differ, the greedy count against the choice of the
node to delete.

## 7. Not modelled

* Worker capacity: the manual target, and the slots of nodes that differ (module
  `PodScaler` has both demand strategies for workers that are alike, `NodeScaler` any choice of
  a node). `reconcileIngressDeployment` is never called.
* Load sender: the heartbeat log, the incident writer, the metadata file and the
  sampling of `workload.py`, which only format or draw what the loops give them.
* Showcase: `load_test_store.py` (each call writes one file under one lock), the
  normalization and pagination of loops for display, the HTTP clients, the routes, the
  frontend.
* Resource demand: parsing and sampling of the profiles, the CPU work of a thread.
* Forecasting: the formulas of the metrics and the inference of the trained model.
* The master bootstrap (one-shot and sequential), manifests, dashboards, notebooks, locust
  scenarios, and the parsing of configuration everywhere.
* Calls without a timeout (the forecast call of the pod scaler, the cloud calls of the
  scripts) are assumed to end; the hazard list says so. A worker process of the load generator
  that hangs would keep its parent, and is left out by the fairness of `ParentEnds`.
* Whether the rows of a model are of the instants the answer is for: the code does not
  look at the dates the model server gives them, and `Forecast` passes them on as the code does.
* That the chart shows the load that is really sent: the showcase and the load generator are
  each configured with a file, and nothing compares the two. `ChartIsTheLoad` is of one
  content, with lines of whole seconds whose columns add up.
* `NodeScaler` completes a legacy mirror that a merge patch sends in part to a status that has
  none (`MergeMirror`); this is possible under `stale` only, and no theorem without it
  depends on it.
* `DemandPool` has no exit with code 0, which the exit listener leaves alone: the code of a
  thread has nothing that would end it so.
