----------------------------- MODULE DemandPool -----------------------------
(***************************************************************************)
(* ResourceDemandService of general-resource-demand-service: requests are  *)
(* run by a pool of worker threads, wait in a bounded queue, or are        *)
(* refused.  The service is one event loop; a worker thread talks to it by *)
(* events, which wait until the loop comes to them, while the thread may   *)
(* already be dead.  A thread that fails is replaced, and the request it   *)
(* had is rejected.  The shutdown rejects what there is.                   *)
(*                                                                         *)
(* The requests are numbered in the order in which they come.              *)
(***************************************************************************)
EXTENDS Integers, Sequences, FiniteSets, FiniteSetsExt

CONSTANTS
  MaxRequests,    \* bound: requests that come
  PoolSize,       \* WORKER_POOL_SIZE
  QueueCapacity,  \* PENDING_QUEUE_SIZE
  MaxCrashes      \* bound: worker threads that crash

PoolAssumption ==
  /\ PoolSize \in Nat \ {0} /\ QueueCapacity \in Nat
  /\ MaxRequests \in Nat /\ MaxCrashes \in Nat
ASSUME PoolAssumption

VARIABLES
  queue,     \* pendingQueue
  busy,      \* slot.busy
  active,    \* request of slot.activeTask
  task,      \* request the thread of the slot works on, Idle, or Dead
  events,    \* events of the thread the loop has not handled yet
  outcome,   \* how the promise of a request was settled, "none" before
  came,      \* how many requests have come
  shutdown,  \* isShuttingDown
  crashes

slotVars == <<busy, active, task, events>>
vars == <<queue, slotVars, outcome, came, shutdown, crashes>>

Requests == 1..MaxRequests
None == 0
Idle == -1
Dead == -2
Slots == 1..PoolSize
Message(r) == [kind |-> "message", request |-> r]
Failure(kind) == [kind |-> kind, request |-> None]

Init ==
  /\ queue = <<>>
  /\ busy = [s \in Slots |-> FALSE] /\ active = [s \in Slots |-> None]
  /\ task = [s \in Slots |-> Idle] /\ events = [s \in Slots |-> <<>>]
  /\ outcome = [r \in Requests |-> "none"] /\ came = 0
  /\ shutdown = FALSE /\ crashes = 0

\* findFreeWorker, given the busy flags: the first free slot.
Free(flags) == {s \in Slots : ~flags[s]}
FirstFree(flags) == Min(Free(flags))

\* assignTaskToWorker: what is posted to a dead thread is lost.
Assigned(slots, s, r) ==
  [busy |-> [slots.busy EXCEPT ![s] = TRUE], active |-> [slots.active EXCEPT ![s] = r],
   task |-> [slots.task EXCEPT ![s] = IF @ = Dead THEN @ ELSE r]]

SlotsNow == [busy |-> busy, active |-> active, task |-> task]
SetSlots(slots) == busy' = slots.busy /\ active' = slots.active /\ task' = slots.task

-----------------------------------------------------------------------------
\* Mutant: the queue has one place too many.
Execute_QueueOffByOne(r) ==
  /\ r = came + 1 /\ came' = r
  /\ IF Free(busy) # {}
     THEN /\ SetSlots(Assigned(SlotsNow, FirstFree(busy), r))
          /\ UNCHANGED <<queue, outcome>>
     ELSE /\ IF Len(queue) > QueueCapacity
             THEN outcome' = [outcome EXCEPT ![r] = "refused"] /\ queue' = queue
             ELSE queue' = Append(queue, r) /\ outcome' = outcome
          /\ UNCHANGED <<busy, active, task>>
  /\ UNCHANGED <<events, shutdown, crashes>>

\* executeRequestClass: also after the shutdown has begun.
Execute(r) ==
  /\ r = came + 1 /\ came' = r
  /\ IF Free(busy) # {}
     THEN /\ SetSlots(Assigned(SlotsNow, FirstFree(busy), r))
          /\ UNCHANGED <<queue, outcome>>
     ELSE /\ IF Len(queue) >= QueueCapacity
             THEN outcome' = [outcome EXCEPT ![r] = "refused"] /\ queue' = queue
             ELSE queue' = Append(queue, r) /\ outcome' = outcome
          /\ UNCHANGED <<busy, active, task>>
  /\ UNCHANGED <<events, shutdown, crashes>>

\* Mutant: the newest request of the queue is dispatched.
Freed_NewestFirst(s, thread, result) ==
  LET freed == [busy |-> [busy EXCEPT ![s] = FALSE], active |-> [active EXCEPT ![s] = None],
                task |-> [task EXCEPT ![s] = thread]]
  IN /\ outcome' = IF active[s] = None THEN outcome ELSE [outcome EXCEPT ![active[s]] = result]
     /\ IF ~shutdown /\ queue # <<>>
        THEN /\ SetSlots(Assigned(freed, FirstFree(freed.busy), queue[Len(queue)]))
             /\ queue' = SubSeq(queue, 1, Len(queue) - 1)
        ELSE SetSlots(freed) /\ queue' = queue

\* A slot is free again, its request settled, and dispatchNextPendingTask runs.
Freed(s, thread, result) ==
  LET freed == [busy |-> [busy EXCEPT ![s] = FALSE], active |-> [active EXCEPT ![s] = None],
                task |-> [task EXCEPT ![s] = thread]]
      dispatches == ~shutdown /\ queue # <<>> /\ Free(freed.busy) # {}
  IN /\ outcome' = IF active[s] = None THEN outcome ELSE [outcome EXCEPT ![active[s]] = result]
     /\ SetSlots(IF dispatches THEN Assigned(freed, FirstFree(freed.busy), Head(queue))
                 ELSE freed)
     /\ queue' = IF dispatches THEN Tail(queue) ELSE queue

\* The message listener: an answer to another task than the active one is ignored.
HandleMessage(s) ==
  /\ events[s] # <<>> /\ Head(events[s]).kind = "message"
  /\ events' = [events EXCEPT ![s] = Tail(@)]
  /\ LET r == Head(events[s]).request
     IN IF active[s] = None \/ active[s] # r
        THEN UNCHANGED <<queue, busy, active, task, outcome>>
        ELSE \E result \in {"resolved", "rejected"} : Freed(s, task[s], result)
  /\ UNCHANGED <<came, shutdown, crashes>>

\* Mutant: the listeners of the dead thread stay.
HandleFailure_ListenersKept(s) ==
  /\ events[s] # <<>> /\ Head(events[s]).kind \in {"error", "exit"}
  /\ events' = [events EXCEPT ![s] = Tail(@)]
  /\ IF shutdown THEN UNCHANGED <<queue, busy, active, task, outcome>>
     ELSE Freed(s, Idle, "rejected")
  /\ UNCHANGED <<came, shutdown, crashes>>

\* Mutant: the error alone counts, a thread may just exit.
HandleFailure_ExitIgnored(s) ==
  /\ events[s] # <<>> /\ Head(events[s]).kind \in {"error", "exit"}
  /\ IF shutdown \/ Head(events[s]).kind = "exit"
     THEN /\ events' = [events EXCEPT ![s] = Tail(@)]
          /\ UNCHANGED <<queue, busy, active, task, outcome>>
     ELSE events' = [events EXCEPT ![s] = <<>>] /\ Freed(s, Idle, "rejected")
  /\ UNCHANGED <<came, shutdown, crashes>>

\* The error and exit listeners, handleWorkerFailure: the listeners of the thread are taken
\* off, with the events that still wait, and the slot gets a new thread.  An exit with code 0
\* would be left alone; the thread's code never exits by itself, so every exit of Crash has
\* another code.
HandleFailure(s) ==
  /\ events[s] # <<>> /\ Head(events[s]).kind \in {"error", "exit"}
  /\ IF shutdown
     THEN /\ events' = [events EXCEPT ![s] = Tail(@)]
          /\ UNCHANGED <<queue, busy, active, task, outcome>>
     ELSE /\ events' = [events EXCEPT ![s] = <<>>]
          /\ Freed(s, Idle, "rejected")
  /\ UNCHANGED <<came, shutdown, crashes>>

\* Mutant: the threads are not terminated.
Shutdown_ThreadsKept ==
  /\ ~shutdown /\ shutdown' = TRUE
  /\ outcome' = [r \in Requests |->
       IF (\E i \in DOMAIN queue : queue[i] = r) \/ (\E s \in Slots : active[s] = r)
       THEN "rejected" ELSE outcome[r]]
  /\ queue' = <<>> /\ active' = [s \in Slots |-> None]
  /\ UNCHANGED <<busy, task, events, came, crashes>>

\* onModuleDestroy: slots keep their busy flag.
Shutdown ==
  /\ ~shutdown /\ shutdown' = TRUE
  /\ outcome' = [r \in Requests |->
       IF (\E i \in DOMAIN queue : queue[i] = r) \/ (\E s \in Slots : active[s] = r)
       THEN "rejected" ELSE outcome[r]]
  /\ queue' = <<>> /\ active' = [s \in Slots |-> None]
  /\ task' = [s \in Slots |-> Dead]
  /\ events' = [s \in Slots |->
       IF task[s] = Dead THEN events[s] ELSE Append(events[s], Failure("exit"))]
  /\ UNCHANGED <<busy, came, crashes>>

-----------------------------------------------------------------------------
\* A worker thread.

Finish(s) ==
  /\ task[s] \notin {Idle, Dead}
  /\ events' = [events EXCEPT ![s] = Append(@, Message(task[s]))]
  /\ task' = [task EXCEPT ![s] = Idle]
  /\ UNCHANGED <<queue, busy, active, outcome, came, shutdown, crashes>>

\* It dies at work or idle, with or without an error event before the exit.
Crash(s) ==
  /\ task[s] # Dead /\ crashes < MaxCrashes
  /\ crashes' = crashes + 1
  /\ task' = [task EXCEPT ![s] = Dead]
  /\ \E how \in {<<Failure("error"), Failure("exit")>>, <<Failure("exit")>>} :
       events' = [events EXCEPT ![s] = @ \o how]
  /\ UNCHANGED <<queue, busy, active, outcome, came, shutdown>>

Handle(s) == HandleMessage(s) \/ HandleFailure(s)

Next ==
  \/ \E r \in Requests : Execute(r)
  \/ \E s \in Slots : Handle(s) \/ Finish(s) \/ Crash(s)
  \/ Shutdown

Spec == Init /\ [][Next]_vars

\* The event loop comes to every event, and a thread that lives finishes its work.
FairSpec == Spec /\ \A s \in Slots : WF_vars(Handle(s)) /\ WF_vars(Finish(s))

-----------------------------------------------------------------------------
\* Properties.

Active == {s \in Slots : active[s] # None}
With(outcomes) == {r \in Requests : outcome[r] \in outcomes}

\* Every value the variables take (ResourceDemandService).
TypeOK ==
  /\ queue \in Seq(Requests)
  /\ busy \in [Slots -> BOOLEAN] /\ active \in [Slots -> Requests \cup {None}]
  /\ task \in [Slots -> Requests \cup {Idle, Dead}]
  /\ outcome \in [Requests -> {"none", "resolved", "rejected", "refused"}]
  /\ came \in 0..MaxRequests /\ shutdown \in BOOLEAN /\ crashes \in 0..MaxCrashes

\* A thread works on the request of its slot and on no other, and an answer that will be
\* believed comes from it: no request gets the result of another, and none runs twice at once.
ThreadsServeTheirSlot ==
  \A s \in Slots :
    /\ task[s] \in Requests => task[s] = active[s]
    /\ \A i \in DOMAIN events[s] :
         LET e == events[s][i]
         IN e.kind = "message" /\ e.request = active[s] => task[s] \in {Idle, Dead}
    /\ \A t \in Slots \ {s} : active[s] = active[t] => active[s] = None

\* Until the shutdown a request is rejected only by its own answer, or when the thread it was
\* given to is dead: one death costs one request, not also the next one of the slot.
OnlyTheDeadLose ==
  [][\A s \in Slots :
       LET r == active[s]
       IN r # None /\ ~shutdown' /\ outcome'[r] = "rejected" =>
            task[s] = Dead \/ Head(events[s]).kind = "message"]_vars

\* A request that waits is served before every one that came after it; until the shutdown
\* none waits beside a free slot, and a slot is busy exactly as long as it has a request, also
\* when its thread dies with events waiting or is replaced.
Waits(r) == \E k \in DOMAIN queue : queue[k] = r
QueueIsServed ==
  /\ TypeOK
  /\ \A i, j \in 1..came : i < j /\ Waits(i) => Waits(j) \/ outcome[j] = "refused"
  /\ ~shutdown =>
       /\ queue # <<>> => Free(busy) = {}
       /\ \A s \in Slots : busy[s] = (active[s] # None)

\* What the pool promises: BoundedService, with the slots that have a request for those that run.
Service == INSTANCE BoundedService WITH
  Slots <- PoolSize, Room <- QueueCapacity,
  arrived <- came, waiting <- Len(queue), running <- Cardinality(Active),
  refused <- Cardinality(With({"refused"})), givenUp <- 0,
  settled <- Cardinality(With({"resolved", "rejected"})), closed <- shutdown
ServiceSpec == Service!Spec

\* Every request that came before the shutdown is answered in the end, whatever the threads do.
EveryRequestSettled ==
  \A r \in Requests : r <= came /\ ~shutdown ~> outcome[r] # "none"
=============================================================================
