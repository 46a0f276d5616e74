-------------------------- MODULE DemandPoolProofs --------------------------
(***************************************************************************)
(* Theorems of DemandPool, for any number of threads, places and requests: *)
(* the queue is served in order, no request gets the answer of another,    *)
(* only the dead lose theirs, and the pool implements BoundedService.      *)
(***************************************************************************)
EXTENDS DemandPool, FiniteSetTheorems, WellFoundedInduction, TLAPS

Events ==
  [kind : {"message"}, request : Requests] \cup [kind : {"error", "exit"}, request : {None}]

\* A request that waits or has a slot has come, is not settled, and is there once.
Unsettled ==
  /\ \A r \in Requests : r > came => outcome[r] = "none"
  /\ \A r \in Requests : Waits(r) => r <= came /\ outcome[r] = "none"
  /\ \A s \in Slots : active[s] # None =>
       /\ active[s] <= came /\ outcome[active[s]] = "none" /\ ~Waits(active[s])
       /\ \A t \in Slots : active[t] = active[s] => t = s

\* The queue is within its capacity and in the order of arrival, and whoever came after a
\* waiting request waits as well or was refused.
Ordered ==
  /\ Len(queue) <= QueueCapacity
  /\ \A i, j \in DOMAIN queue : i < j => queue[i] < queue[j]
  /\ \A i, j \in 1..came : i < j /\ Waits(i) => Waits(j) \/ outcome[j] = "refused"

SlotsHold ==
  /\ \A s \in Slots : active[s] # None => busy[s]
  /\ ~shutdown => \A s \in Slots : busy[s] => active[s] # None
  /\ queue # <<>> => \A s \in Slots : busy[s]

\* A thread works for its slot; a failure waits only of a dead one; an answer is of no request
\* that waits or will come, and one that will be believed comes before the shutdown from a thread
\* that does nothing else.
ThreadsHold ==
  \A s \in Slots :
    /\ task[s] \in Requests => task[s] = active[s]
    /\ shutdown => task[s] = Dead
    /\ \A i \in DOMAIN events[s] :
         LET e == events[s][i]
         IN /\ e.kind # "message" => task[s] = Dead
            /\ e.kind = "message" =>
                 /\ e.request <= came /\ ~Waits(e.request)
                 /\ e.request = active[s] => ~shutdown /\ task[s] \in {Idle, Dead}

IInv ==
  /\ TypeOK /\ events \in [Slots -> Seq(Events)]
  /\ Unsettled /\ Ordered /\ SlotsHold /\ ThreadsHold

LEMMA Constants ==
  /\ PoolSize \in Nat \ {0} /\ QueueCapacity \in Nat
  /\ MaxRequests \in Nat /\ MaxCrashes \in Nat
  /\ \A r \in Requests : r \in Nat \ {0} /\ r # None /\ r # Idle /\ r # Dead
  /\ None # Idle /\ None # Dead /\ Idle # Dead
BY PoolAssumption DEF PoolAssumption, Requests, None, Idle, Dead

-----------------------------------------------------------------------------
(* Slots and sequences.                                                    *)

\* A slot is found when there is a free one.
LEMMA FirstFreeIs ==
  ASSUME NEW flags, Free(flags) # {}
  PROVE  FirstFree(flags) \in Free(flags)
<1>1. Free(flags) \subseteq Nat
  BY Constants DEF Free, Slots
<1>2. PICK f \in Free(flags) : \A g \in Free(flags) : ~(<<g, f>> \in OpToRel(<, Nat))
  BY <1>1, NatLessThanWellFounded, WFMin
<1>3. \A g \in Free(flags) : f <= g
  <2>1. \A g \in Free(flags) : ~(g < f)
    BY <1>1, <1>2 DEF OpToRel
  <2>2. QED
    BY <1>1, <2>1
<1>4. QED
  BY <1>3 DEF FirstFree, Min

\* The only free slot is found.
LEMMA OnlyFree ==
  ASSUME NEW flags, NEW s \in Slots, Free(flags) = {s}
  PROVE  FirstFree(flags) = s
BY FirstFreeIs

LEMMA TailIs ==
  ASSUME NEW T, NEW q \in Seq(T), q # <<>>
  PROVE  /\ Tail(q) \in Seq(T) /\ Head(q) \in T /\ Len(q) \in Nat \ {0}
         /\ Len(Tail(q)) = Len(q) - 1
         /\ \A i \in DOMAIN Tail(q) : /\ i \in Nat \ {0} /\ i + 1 \in DOMAIN q
                                     /\ Tail(q)[i] = q[i + 1]
         /\ \A i \in DOMAIN q : i = 1 \/ /\ i - 1 \in DOMAIN Tail(q) /\ 1 < i
                                         /\ Tail(q)[i - 1] = q[i]
         /\ 1 \in DOMAIN q /\ q[1] = Head(q)
OBVIOUS

LEMMA AppendIs ==
  ASSUME NEW T, NEW q \in Seq(T), NEW x \in T
  PROVE  /\ Append(q, x) \in Seq(T) /\ Len(q) \in Nat
         /\ Len(Append(q, x)) = Len(q) + 1 /\ Append(q, x) # <<>>
         /\ \A i \in DOMAIN q : i \in DOMAIN Append(q, x) /\ Append(q, x)[i] = q[i]
         /\ \A i \in DOMAIN Append(q, x) : i \in DOMAIN q \/ i = Len(q) + 1
         /\ Append(q, x)[Len(q) + 1] = x /\ Len(q) + 1 \in DOMAIN Append(q, x)
OBVIOUS

LEMMA LeqNext ==
  ASSUME NEW n \in Nat, NEW m \in Nat, m <= n
  PROVE  m <= n + 1 /\ m # n + 1
OBVIOUS

LEMMA IInvInit ==
  ASSUME Init
  PROVE  IInv
<1>1. TypeOK /\ events \in [Slots -> Seq(Events)]
  <2>1. queue \in Seq(Requests)
    BY DEF Init
  <2>2. events \in [Slots -> Seq(Events)]
    BY DEF Init
  <2>3. busy \in [Slots -> BOOLEAN] /\ active \in [Slots -> Requests \cup {None}]
        /\ task \in [Slots -> Requests \cup {Idle, Dead}]
    BY DEF Init
  <2>4. outcome \in [Requests -> {"none", "resolved", "rejected", "refused"}]
    BY DEF Init
  <2>5. came \in 0..MaxRequests /\ shutdown \in BOOLEAN /\ crashes \in 0..MaxCrashes
    <3>1. 0 \in 0..MaxRequests /\ 0 \in 0..MaxCrashes
      BY PoolAssumption DEF PoolAssumption
    <3>2. QED
      BY <3>1 DEF Init
  <2>6. QED
    BY <2>1, <2>2, <2>3, <2>4, <2>5 DEF TypeOK
<1>2. \A r : ~Waits(r)
  BY DEF Init, Waits
<1>3. Unsettled
  BY <1>2 DEF Init, Unsettled
<1>4. Ordered
  BY <1>2, Constants DEF Init, Ordered
<1>5. SlotsHold
  BY DEF Init, SlotsHold
<1>6. ThreadsHold
  BY Constants DEF Init, ThreadsHold
<1>7. QED
  BY <1>1, <1>3, <1>4, <1>5, <1>6 DEF IInv

-----------------------------------------------------------------------------
(* A request comes: it gets a slot, or is refused, or waits.               *)

LEMMA ExecuteTakes ==
  ASSUME IInv, NEW r \in Requests, Execute(r)
  PROVE  /\ came' = r /\ r = came + 1 /\ UNCHANGED <<events, shutdown, crashes>>
         /\ \/ /\ UNCHANGED <<queue, outcome>> /\ queue = <<>>
               /\ \E f \in Slots :
                    /\ ~busy[f] /\ active[f] = None
                    /\ busy' = [busy EXCEPT ![f] = TRUE]
                    /\ active' = [active EXCEPT ![f] = r]
                    /\ task' = [task EXCEPT ![f] = IF task[f] = Dead THEN Dead ELSE r]
            \/ /\ UNCHANGED <<busy, active, task>>
               /\ \A s \in Slots : busy[s]
               /\ \/ /\ Len(queue) = QueueCapacity /\ queue' = queue
                     /\ outcome' = [outcome EXCEPT ![r] = "refused"]
                  \/ /\ Len(queue) < QueueCapacity /\ outcome' = outcome
                     /\ queue' = Append(queue, r)
<1>1. came' = r /\ r = came + 1 /\ UNCHANGED <<events, shutdown, crashes>>
  BY DEF Execute
<1>2. CASE Free(busy) # {}
  <2>1. PICK f \in Slots : f = FirstFree(busy) /\ ~busy[f]
    BY <1>2, FirstFreeIs DEF Free
  <2>2. active[f] = None /\ queue = <<>>
    BY <2>1 DEF IInv, SlotsHold
  <2>3. /\ busy' = [busy EXCEPT ![f] = TRUE]
        /\ active' = [active EXCEPT ![f] = r]
        /\ task' = [task EXCEPT ![f] = IF task[f] = Dead THEN Dead ELSE r]
        /\ UNCHANGED <<queue, outcome>>
    BY <1>2, <2>1 DEF Execute, SetSlots, Assigned, SlotsNow
  <2>4. QED
    BY <1>1, <2>1, <2>2, <2>3
<1>3. CASE Free(busy) = {}
  <2>1. \A s \in Slots : busy[s]
    BY <1>3 DEF Free
  <2>2. UNCHANGED <<busy, active, task>>
    BY <1>3 DEF Execute
  <2>3. PICK n \in Nat : n = Len(queue) /\ n <= QueueCapacity
    BY DEF IInv, TypeOK, Ordered
  <2>4. \/ /\ n >= QueueCapacity /\ queue' = queue
           /\ outcome' = [outcome EXCEPT ![r] = "refused"]
        \/ /\ ~(n >= QueueCapacity) /\ outcome' = outcome
           /\ queue' = Append(queue, r)
    BY <1>3, <2>3 DEF Execute
  <2>5. n >= QueueCapacity <=> n = QueueCapacity
    BY <2>3, Constants
  <2>6. QED
    BY <1>1, <2>1, <2>2, <2>3, <2>4, <2>5, Constants
<1>4. QED
  BY <1>2, <1>3

LEMMA ExecuteKeeps ==
  ASSUME IInv, NEW r \in Requests, Execute(r)
  PROVE  IInv'
<1>1. /\ came' = r /\ r = came + 1 /\ UNCHANGED <<events, shutdown, crashes>>
      /\ came \in Nat /\ came \in 0..MaxRequests /\ r \in Nat \ {0} /\ r \in 0..MaxRequests
  BY ExecuteTakes, Constants DEF IInv, TypeOK, Requests
<1>2. \A x \in Requests : Waits(x) => x < r /\ outcome[x] = "none"
  BY <1>1, Constants DEF IInv, Unsettled
<1>3. outcome[r] = "none" /\ ~Waits(r) /\ \A s \in Slots : active[s] # r
  BY <1>1, <1>2, Constants DEF IInv, Unsettled
<1>4. /\ \A s \in Slots : active[s] # None =>
           /\ active[s] \in Requests /\ active[s] <= r /\ active[s] # r
           /\ outcome[active[s]] = "none" /\ ~Waits(active[s])
      /\ \A s, t \in Slots : active[s] # None /\ active[t] = active[s] => t = s
  <2>1. ASSUME NEW s \in Slots, active[s] # None
        PROVE  /\ active[s] \in Requests /\ active[s] <= r /\ active[s] # r
               /\ outcome[active[s]] = "none" /\ ~Waits(active[s])
               /\ \A t \in Slots : active[t] = active[s] => t = s
    <3>1. active[s] \in Requests
      BY <2>1 DEF IInv, TypeOK
    <3>2. active[s] <= came
      BY <2>1 DEF IInv, Unsettled
    <3>3. active[s] <= r
      BY <1>1, <3>1, <3>2, Constants, LeqNext
    <3>4. QED
      BY <1>3, <2>1, <3>1, <3>3 DEF IInv, Unsettled
  <2>2. QED
    BY <2>1
<1>5. /\ events' \in [Slots -> Seq(Events)]
      /\ came' \in 0..MaxRequests /\ shutdown' \in BOOLEAN /\ crashes' \in 0..MaxCrashes
  BY <1>1 DEF IInv, TypeOK
<1>6. \A s \in Slots : \A i \in DOMAIN events[s] :
        events[s][i].kind = "message" => /\ events[s][i].request \in Requests
                                         /\ events[s][i].request <= r
                                         /\ events[s][i].request # r
  <2> SUFFICES ASSUME NEW s \in Slots, NEW i \in DOMAIN events[s],
                      events[s][i].kind = "message"
               PROVE  /\ events[s][i].request \in Requests
                      /\ events[s][i].request <= r /\ events[s][i].request # r
    OBVIOUS
  <2>1. events[s][i] \in Events
    BY DEF IInv
  <2>2. events[s][i].request \in Requests /\ events[s][i].request <= came
    BY <2>1 DEF Events, IInv, ThreadsHold
  <2>3. QED
    BY <1>1, <2>2, Constants, LeqNext
<1>7. ASSUME UNCHANGED <<queue, outcome>>, queue = <<>>, NEW f \in Slots,
             ~busy[f], active[f] = None,
             busy' = [busy EXCEPT ![f] = TRUE],
             active' = [active EXCEPT ![f] = r],
             task' = [task EXCEPT ![f] = IF task[f] = Dead THEN Dead ELSE r]
      PROVE  IInv'
  <2>1. TypeOK'
    BY <1>5, <1>7 DEF IInv, TypeOK
  <2>2. \A x : ~Waits(x) /\ ~Waits(x)'
    BY <1>7 DEF Waits
  <2>3. Unsettled'
    <3>1. \A x \in Requests : x > r => outcome[x] = "none"
      BY <1>1, Constants DEF IInv, Unsettled
    <3>2. \A s \in Slots : active'[s] # None =>
            /\ active'[s] <= r /\ outcome[active'[s]] = "none"
            /\ \A t \in Slots : active'[t] = active'[s] => t = s
      <4>1. /\ \A s \in Slots : active'[s] = IF s = f THEN r ELSE active[s]
            /\ r <= r /\ r # None
        BY <1>1, <1>7, Constants DEF IInv, TypeOK
      <4>2. QED
        BY <1>3, <1>4, <4>1
    <3>3. QED
      BY <1>1, <1>7, <2>2, <3>1, <3>2 DEF Unsettled
  <2>4. Ordered'
    BY <1>7, <2>2 DEF IInv, Ordered
  <2>5. SlotsHold'
    <3>1. \A s \in Slots : /\ busy'[s] = (s = f \/ busy[s])
                           /\ active'[s] = IF s = f THEN r ELSE active[s]
      BY <1>7 DEF IInv, TypeOK
    <3>2. QED
      BY <1>1, <1>7, <3>1, Constants DEF IInv, SlotsHold
  <2>6. ThreadsHold'
    <3> SUFFICES ASSUME NEW s \in Slots
                 PROVE  /\ task'[s] \in Requests => task'[s] = active'[s]
                        /\ shutdown' => task'[s] = Dead
                        /\ \A i \in DOMAIN events[s] :
                             /\ events[s][i].kind # "message" => task'[s] = Dead
                             /\ events[s][i].kind = "message" =>
                                  /\ events[s][i].request <= r
                                  /\ events[s][i].request = active'[s] =>
                                       ~shutdown' /\ task'[s] \in {Idle, Dead}
      BY <1>1, <2>2 DEF ThreadsHold
    <3>1. /\ task'[s] = IF s = f /\ task[f] # Dead THEN r ELSE task[s]
          /\ active'[s] = IF s = f THEN r ELSE active[s]
          /\ task[s] \in Requests \cup {Idle, Dead}
      BY <1>7 DEF IInv, TypeOK
    <3>2. task[f] \in {Idle, Dead}
      BY <1>7, Constants DEF IInv, TypeOK, ThreadsHold
    <3>3. /\ task[s] \in Requests => task[s] = active[s]
          /\ shutdown => task[s] = Dead
          /\ \A i \in DOMAIN events[s] :
               /\ events[s][i].kind # "message" => task[s] = Dead
               /\ events[s][i].kind = "message" =>
                    (events[s][i].request = active[s] => ~shutdown /\ task[s] \in {Idle, Dead})
      BY DEF IInv, ThreadsHold
    <3>4. task'[s] \in Requests => task'[s] = active'[s]
      BY <3>1, <3>2, <3>3, Constants
    <3>5. (shutdown => task'[s] = Dead) /\ (task[s] = Dead => task'[s] = Dead)
      BY <1>7, <3>1, <3>3
    <3>6. ASSUME NEW i \in DOMAIN events[s], events[s][i].kind = "message",
                 events[s][i].request = active'[s]
          PROVE  ~shutdown /\ task'[s] \in {Idle, Dead}
      <4>1. s # f
        BY <1>6, <3>1, <3>6
      <4>2. QED
        BY <3>1, <3>3, <3>6, <4>1
    <3>7. QED
      BY <1>1, <1>6, <3>3, <3>4, <3>5, <3>6
  <2>7. QED
    BY <1>5, <2>1, <2>3, <2>4, <2>5, <2>6 DEF IInv
<1>8. ASSUME UNCHANGED <<busy, active, task>>, \A s \in Slots : busy[s], queue' = queue,
             outcome' = [outcome EXCEPT ![r] = "refused"]
      PROVE  IInv'
  <2>1. TypeOK'
    BY <1>5, <1>8 DEF IInv, TypeOK
  <2>2. \A x : Waits(x)' = Waits(x)
    BY <1>8 DEF Waits
  <2>3. \A x \in Requests : outcome'[x] = IF x = r THEN "refused" ELSE outcome[x]
    BY <1>8 DEF IInv, TypeOK
  <2>4. Unsettled'
    <3>1. \A x \in Requests : x > r => outcome'[x] = "none"
      BY <1>1, <2>3, Constants DEF IInv, Unsettled
    <3>2. \A x \in Requests : Waits(x) => x <= r /\ outcome'[x] = "none"
      BY <1>1, <1>2, <2>3, Constants
    <3>3. \A s \in Slots : active[s] # None =>
            /\ active[s] <= r /\ outcome'[active[s]] = "none" /\ ~Waits(active[s])
            /\ \A t \in Slots : active[t] = active[s] => t = s
      BY <1>4, <2>3
    <3>4. QED
      BY <1>1, <1>8, <2>2, <3>1, <3>2, <3>3 DEF Unsettled
  <2>5. Ordered'
    <3>1. \A i, j \in 1..r : i < j /\ Waits(i) => Waits(j) \/ outcome'[j] = "refused"
      <4> SUFFICES ASSUME NEW i \in 1..r, NEW j \in 1..r, i < j, Waits(i)
                   PROVE  Waits(j) \/ outcome'[j] = "refused"
        OBVIOUS
      <4>1. j \in Requests /\ (j = r \/ (i \in 1..came /\ j \in 1..came))
        BY <1>1, Constants DEF Requests
      <4>2. QED
        BY <2>3, <4>1 DEF IInv, Ordered
    <3>2. QED
      BY <1>1, <1>8, <2>2, <3>1 DEF IInv, Ordered
  <2>6. SlotsHold'
    BY <1>1, <1>8 DEF IInv, SlotsHold
  <2>7. ThreadsHold'
    <3>1. \A n : n \in Requests /\ n < r => n <= r
      BY <1>1, Constants
    <3>2. QED
      BY <1>1, <1>6, <1>8, <2>2, <3>1 DEF IInv, ThreadsHold
  <2>8. QED
    BY <1>5, <2>1, <2>4, <2>5, <2>6, <2>7 DEF IInv
<1>9. ASSUME UNCHANGED <<busy, active, task>>, \A s \in Slots : busy[s],
             Len(queue) < QueueCapacity, outcome' = outcome, queue' = Append(queue, r)
      PROVE  IInv'
  <2>1. TypeOK'
    BY <1>5, <1>9, AppendIs DEF IInv, TypeOK
  <2>2. \A x : Waits(x)' <=> Waits(x) \/ x = r
    BY <1>9, AppendIs DEF IInv, TypeOK, Waits
  <2>3. Unsettled'
    <3>1. \A x \in Requests : x > r => outcome[x] = "none"
      BY <1>1, Constants DEF IInv, Unsettled
    <3>2. \A x \in Requests : Waits(x)' => x <= r /\ outcome[x] = "none"
      BY <1>1, <1>2, <1>3, <2>2, Constants
    <3>3. ASSUME NEW s \in Slots, active[s] # None
          PROVE  \A k \in DOMAIN queue' : queue'[k] # active[s]
      <4>1. PICK x \in Requests : x = active[s] /\ x # r /\ ~Waits(x)
        BY <1>4, <3>3
      <4>2. ~Waits(x)'
        BY <2>2, <4>1
      <4>3. QED
        BY <4>1, <4>2 DEF Waits
    <3>4. \A s \in Slots : active'[s] # None =>
            /\ active'[s] <= r /\ outcome'[active'[s]] = "none" /\ ~Waits(active[s])'
            /\ \A t \in Slots : active'[t] = active'[s] => t = s
      BY <1>4, <1>9, <3>3 DEF Waits
    <3>5. QED
      BY <1>1, <1>9, <3>1, <3>2, <3>4 DEF Unsettled
  <2>4. Ordered'
    <3>1. PICK n \in Nat : n = Len(queue) /\ n < QueueCapacity
      BY <1>9 DEF IInv, TypeOK
    <3>2. Len(queue') <= QueueCapacity
      BY <1>9, <3>1, AppendIs, Constants DEF IInv, TypeOK
    <3>3. ASSUME NEW i \in DOMAIN queue', NEW j \in DOMAIN queue', i < j
          PROVE  queue'[i] < queue'[j]
      <4>1. i \in 1..(n + 1) /\ j \in 1..(n + 1) /\ i \in 1..n
        BY <1>9, <3>1, <3>3, AppendIs DEF IInv, TypeOK
      <4>2. queue'[i] = queue[i] /\ Waits(queue[i]) /\ queue[i] \in Requests
        BY <1>9, <3>1, <4>1, AppendIs DEF IInv, TypeOK, Waits
      <4>3. CASE j \in 1..n
        BY <1>9, <3>1, <3>3, <4>1, <4>2, <4>3, AppendIs DEF IInv, TypeOK, Ordered
      <4>4. CASE j = n + 1
        BY <1>2, <1>9, <3>1, <4>2, <4>4, AppendIs DEF IInv, TypeOK
      <4>5. QED
        BY <4>1, <4>3, <4>4
    <3>4. \A i, j \in 1..r : i < j /\ Waits(i)' => Waits(j)' \/ outcome[j] = "refused"
      BY <1>1, <2>2 DEF IInv, Ordered
    <3>5. QED
      BY <1>1, <1>9, <3>2, <3>3, <3>4 DEF Ordered
  <2>5. SlotsHold'
    BY <1>1, <1>9 DEF IInv, SlotsHold
  <2>6. ThreadsHold'
    <3>1. \A n : n \in Requests /\ n < r => n <= r /\ n # r
      BY <1>1, Constants
    <3>2. QED
      BY <1>1, <1>6, <1>9, <2>2, <3>1 DEF IInv, ThreadsHold
  <2>7. QED
    BY <1>5, <2>1, <2>3, <2>4, <2>5, <2>6 DEF IInv
<1>10. QED
  BY <1>7, <1>8, <1>9, ExecuteTakes

-----------------------------------------------------------------------------
(* A slot becomes free: its request is settled, and the first of the queue *)
(* gets the slot, since no other one is free.                              *)

LEMMA FreedTakes ==
  ASSUME IInv, NEW s \in Slots, ~shutdown, NEW thread, NEW result, Freed(s, thread, result)
  PROVE  /\ outcome' = IF active[s] = None THEN outcome
                       ELSE [outcome EXCEPT ![active[s]] = result]
         /\ \/ /\ queue = <<>> /\ queue' = queue
               /\ busy' = [busy EXCEPT ![s] = FALSE]
               /\ active' = [active EXCEPT ![s] = None]
               /\ task' = [task EXCEPT ![s] = thread]
            \/ /\ queue # <<>> /\ queue' = Tail(queue)
               /\ active[s] # None /\ busy' = busy
               /\ active' = [active EXCEPT ![s] = Head(queue)]
               /\ task' = [task EXCEPT ![s] = IF thread = Dead THEN Dead ELSE Head(queue)]
<1> DEFINE freed == [busy |-> [busy EXCEPT ![s] = FALSE], active |-> [active EXCEPT ![s] = None],
                     task |-> [task EXCEPT ![s] = thread]]
           dispatches == ~shutdown /\ queue # <<>> /\ Free(freed.busy) # {}
<1>1. /\ outcome' = IF active[s] = None THEN outcome
                    ELSE [outcome EXCEPT ![active[s]] = result]
      /\ SetSlots(IF dispatches THEN Assigned(freed, FirstFree(freed.busy), Head(queue))
                  ELSE freed)
      /\ queue' = IF dispatches THEN Tail(queue) ELSE queue
  BY DEF Freed
<1>2. /\ busy \in [Slots -> BOOLEAN] /\ active \in [Slots -> Requests \cup {None}]
      /\ task \in [Slots -> Requests \cup {Idle, Dead}]
  BY DEF IInv, TypeOK
<1>3. CASE queue = <<>>
  BY <1>1, <1>3 DEF SetSlots
<1>4. CASE queue # <<>>
  <2>1. \A t \in Slots : busy[t]
    BY <1>4 DEF IInv, SlotsHold
  <2>2. Free(freed.busy) = {s}
    BY <1>2, <2>1 DEF Free
  <2>3. FirstFree(freed.busy) = s
    BY <2>2, OnlyFree
  <2>4. SetSlots(Assigned(freed, s, Head(queue))) /\ queue' = Tail(queue)
    BY <1>1, <1>4, <2>2, <2>3
  <2>5. /\ busy' = [busy EXCEPT ![s] = TRUE]
        /\ active' = [active EXCEPT ![s] = Head(queue)]
        /\ task' = [task EXCEPT ![s] = IF thread = Dead THEN Dead ELSE Head(queue)]
    BY <1>2, <2>4 DEF SetSlots, Assigned
  <2>6. busy' = busy
    BY <1>2, <2>1, <2>5
  <2>7. active[s] # None
    BY <2>1 DEF IInv, SlotsHold
  <2>8. QED
    BY <1>1, <1>4, <2>4, <2>5, <2>6, <2>7
<1>5. QED
  BY <1>3, <1>4

LEMMA FreedKeeps ==
  ASSUME IInv, NEW s \in Slots, ~shutdown, NEW thread \in {Idle, Dead},
         NEW result \in {"resolved", "rejected"}, Freed(s, thread, result),
         NEW es \in Seq(Events), events' = [events EXCEPT ![s] = es],
         \A i \in DOMAIN es : \E j \in DOMAIN events[s] : es[i] = events[s][j],
         es = <<>> \/ thread = task[s],
         UNCHANGED <<came, shutdown, crashes>>
  PROVE  IInv'
<1>1. /\ queue \in Seq(Requests) /\ busy \in [Slots -> BOOLEAN]
      /\ active \in [Slots -> Requests \cup {None}]
      /\ task \in [Slots -> Requests \cup {Idle, Dead}]
      /\ events \in [Slots -> Seq(Events)]
      /\ outcome \in [Requests -> {"none", "resolved", "rejected", "refused"}]
  BY DEF IInv, TypeOK
<1>2. /\ \A t \in Slots : active[t] # None =>
           /\ active[t] \in Requests /\ active[t] <= came
           /\ outcome[active[t]] = "none" /\ ~Waits(active[t])
      /\ \A t, u \in Slots : active[t] # None /\ active[u] = active[t] => u = t
  BY <1>1 DEF IInv, Unsettled
<1>3. /\ \A r \in Requests : r > came => outcome[r] = "none"
      /\ \A r \in Requests : Waits(r) => r <= came /\ outcome[r] = "none"
  BY DEF IInv, Unsettled
<1>4. \A r \in Requests : r # active[s] => outcome'[r] = outcome[r]
  BY <1>1, FreedTakes
<1>5. \A r \in Requests : outcome[r] # "none" => outcome'[r] = outcome[r]
  BY <1>2, <1>4, Constants
<1>6. /\ outcome' \in [Requests -> {"none", "resolved", "rejected", "refused"}]
      /\ events' \in [Slots -> Seq(Events)]
      /\ came' \in 0..MaxRequests /\ shutdown' \in BOOLEAN /\ crashes' \in 0..MaxCrashes
  <2>1. outcome' \in [Requests -> {"none", "resolved", "rejected", "refused"}]
    <3>1. outcome' = outcome \/ outcome' = [outcome EXCEPT ![active[s]] = result]
      BY FreedTakes
    <3>2. QED
      BY <1>1, <3>1
  <2>2. events' \in [Slots -> Seq(Events)]
    BY <1>1
  <2>3. QED
    BY <2>1, <2>2 DEF IInv, TypeOK
<1>7. \A t \in Slots : \A i \in DOMAIN events'[t] :
        /\ \E j \in DOMAIN events[t] : events'[t][i] = events[t][j]
        /\ t = s => thread = task[s]
  BY <1>1
<1>8. ASSUME NEW n \in Requests \cup {None}, n # None => Waits(n),
             active' = [active EXCEPT ![s] = n],
             task' = [task EXCEPT ![s] = IF thread = Dead \/ n = None THEN thread ELSE n],
             \A r : Waits(r)' => Waits(r) /\ r # n
      PROVE  Unsettled' /\ ThreadsHold'
  <2>1. /\ \A t \in Slots : active'[t] = IF t = s THEN n ELSE active[t]
        /\ \A t \in Slots \ {s} : task'[t] = task[t]
        /\ task'[s] = IF thread = Dead \/ n = None THEN thread ELSE n
    BY <1>1, <1>8
  <2>2. \A r \in Requests : r > came => outcome'[r] = "none"
    <3>1. active[s] \in Requests => ~(active[s] > came)
      BY <1>1, <1>2, Constants DEF IInv, TypeOK
    <3>2. QED
      BY <1>3, <1>4, <3>1
  <2>3. \A r \in Requests : Waits(r)' => r <= came /\ outcome'[r] = "none"
    BY <1>2, <1>3, <1>4, <1>8, Constants
  <2>4. ASSUME NEW t \in Slots, active'[t] # None
        PROVE  /\ active'[t] <= came /\ outcome'[active'[t]] = "none"
               /\ \A k \in DOMAIN queue' : queue'[k] # active'[t]
               /\ \A u \in Slots : active'[u] = active'[t] => u = t
    <3>1. PICK x \in Requests : x = active'[t]
      BY <1>1, <1>8, <2>1, <2>4
    <3>2. x <= came /\ outcome[x] = "none" /\ x # active[s]
      BY <1>2, <1>3, <1>8, <2>1, <2>4, <3>1
    <3>3. ~Waits(x)'
      BY <1>2, <1>8, <2>1, <2>4, <3>1
    <3>4. \A u \in Slots : active'[u] = x => u = t
      BY <1>2, <1>8, <2>1, <2>4, <3>1
    <3>5. QED
      BY <1>4, <3>1, <3>2, <3>3, <3>4 DEF Waits
  <2>5. Unsettled'
    BY <2>2, <2>3, <2>4 DEF Unsettled, Waits
  <2>6. ASSUME NEW t \in Slots
        PROVE  /\ task'[t] \in Requests => task'[t] = active'[t]
               /\ \A i \in DOMAIN events'[t] :
                    /\ events'[t][i].kind # "message" => task'[t] = Dead
                    /\ events'[t][i].kind = "message" =>
                         /\ events'[t][i].request <= came
                         /\ ~Waits(events[t][i].request)'
                         /\ events'[t][i].request = active'[t] => task'[t] \in {Idle, Dead}
    <3>1. task'[t] \in Requests => task'[t] = active'[t]
      BY <2>1, Constants DEF IInv, ThreadsHold
    <3>2. ASSUME NEW i \in DOMAIN events'[t]
          PROVE  /\ events'[t][i].kind # "message" => task'[t] = Dead
                 /\ events'[t][i].kind = "message" =>
                      /\ events'[t][i].request <= came
                      /\ \A k \in DOMAIN queue' : queue'[k] # events'[t][i].request
                      /\ events'[t][i].request = active'[t] => task'[t] \in {Idle, Dead}
      <4>1. PICK j \in DOMAIN events[t] : events'[t][i] = events[t][j]
        BY <1>7, <3>2
      <4>2. PICK e \in Events : e = events[t][j]
        BY <1>1, <4>1
      <4>3. /\ e.kind # "message" => task[t] = Dead
            /\ e.kind = "message" =>
                 /\ e.request <= came /\ ~Waits(e.request)
                 /\ e.request = active[t] => task[t] \in {Idle, Dead}
        BY <4>2 DEF IInv, ThreadsHold
      <4>4. e.kind = "message" => e.request \in Requests /\ ~Waits(e.request)'
        BY <1>8, <4>3 DEF Events
      <4>5. e.kind # "message" => task'[t] = Dead
        BY <1>7, <2>1, <3>2, <4>3
      <4>6. e.kind = "message" /\ e.request = active'[t] => task'[t] \in {Idle, Dead}
        BY <1>8, <2>1, <4>3, <4>4, Constants
      <4>7. QED
        BY <4>1, <4>2, <4>3, <4>4, <4>5, <4>6 DEF Waits
    <3>3. QED
      BY <3>1, <3>2 DEF Waits
  <2>7. QED
    BY <2>5, <2>6 DEF ThreadsHold
<1>9. CASE /\ queue = <<>> /\ queue' = queue
           /\ busy' = [busy EXCEPT ![s] = FALSE]
           /\ active' = [active EXCEPT ![s] = None]
           /\ task' = [task EXCEPT ![s] = thread]
  <2>1. TypeOK'
    BY <1>1, <1>6, <1>9 DEF IInv, TypeOK
  <2>2. \A r : ~Waits(r) /\ ~Waits(r)'
    BY <1>9 DEF Waits
  <2>3. Unsettled' /\ ThreadsHold'
    BY <1>8, <1>9, <2>2
  <2>4. Ordered'
    BY <1>9, <2>2 DEF IInv, Ordered
  <2>5. \A t \in Slots : /\ active'[t] = IF t = s THEN None ELSE active[t]
                         /\ busy'[t] = (t # s /\ busy[t])
    BY <1>1, <1>9
  <2>6. SlotsHold'
    BY <1>9, <2>5 DEF IInv, SlotsHold
  <2>7. QED
    BY <1>6, <2>1, <2>3, <2>4, <2>6 DEF IInv
<1>10. CASE /\ queue # <<>> /\ queue' = Tail(queue)
            /\ active[s] # None /\ busy' = busy
            /\ active' = [active EXCEPT ![s] = Head(queue)]
            /\ task' = [task EXCEPT ![s] = IF thread = Dead THEN Dead ELSE Head(queue)]
  <2>1. PICK h \in Requests : h = Head(queue)
    BY <1>1, <1>10, TailIs
  <2>2. Waits(h) /\ h # None
    BY <1>1, <1>10, <2>1, TailIs, Constants DEF Waits
  <2>3. \A r : Waits(r)' => Waits(r)
    BY <1>1, <1>10, TailIs DEF Waits
  <2>4. \A r \in Requests : Waits(r) /\ r # h => Waits(r)' /\ h < r
    <3> SUFFICES ASSUME NEW r \in Requests, Waits(r), r # h
                 PROVE  Waits(r)' /\ h < r
      OBVIOUS
    <3>1. PICK k \in DOMAIN queue : queue[k] = r
      BY DEF Waits
    <3>2. k # 1 /\ 1 \in DOMAIN queue /\ queue[1] = h
      BY <1>1, <1>10, <2>1, <3>1, TailIs
    <3>3. k - 1 \in DOMAIN queue' /\ queue'[k - 1] = r /\ 1 < k
      BY <1>1, <1>10, <3>1, <3>2, TailIs
    <3>4. QED
      BY <3>1, <3>2, <3>3 DEF IInv, Ordered, Waits
  <2>5. ~Waits(h)'
    <3>1. ASSUME NEW k \in DOMAIN queue'
          PROVE  queue'[k] \in Requests /\ h < queue'[k]
      <4>1. /\ k \in Nat \ {0} /\ k + 1 \in DOMAIN queue /\ queue'[k] = queue[k + 1]
            /\ 1 \in DOMAIN queue /\ queue[1] = h
        BY <1>1, <1>10, <2>1, <3>1, TailIs
      <4>2. queue[k + 1] \in Requests /\ 1 < k + 1
        BY <1>1, <4>1
      <4>3. QED
        BY <4>1, <4>2 DEF IInv, Ordered
    <3>2. QED
      BY <3>1, Constants DEF Waits
  <2>6. TypeOK'
    <3>1. task' \in [Slots -> Requests \cup {Idle, Dead}]
      BY <1>1, <1>10, <2>1
    <3>2. QED
      BY <1>1, <1>6, <1>10, <2>1, <3>1, TailIs DEF IInv, TypeOK
  <2>7. Unsettled' /\ ThreadsHold'
    <3>1. task' = [task EXCEPT ![s] = IF thread = Dead \/ h = None THEN thread ELSE h]
      BY <1>10, <2>1, <2>2
    <3>2. QED
      BY <1>8, <1>10, <2>1, <2>2, <2>3, <2>5, <3>1
  <2>8. Ordered'
    <3>1. PICK n \in Nat \ {0} : n = Len(queue) /\ n <= QueueCapacity /\ Len(queue') = n - 1
      BY <1>1, <1>10, TailIs DEF IInv, Ordered
    <3>2. Len(queue') <= QueueCapacity
      BY <3>1, Constants
    <3>3. ASSUME NEW i \in DOMAIN queue', NEW j \in DOMAIN queue', i < j
          PROVE  queue'[i] < queue'[j]
      <4>1. /\ i \in Nat /\ i + 1 \in DOMAIN queue /\ queue'[i] = queue[i + 1]
            /\ j \in Nat /\ j + 1 \in DOMAIN queue /\ queue'[j] = queue[j + 1]
        BY <1>1, <1>10, <3>3, TailIs
      <4>2. i + 1 < j + 1
        BY <3>3, <4>1
      <4>3. QED
        BY <4>1, <4>2 DEF IInv, Ordered
    <3>4. ASSUME NEW i \in 1..came, NEW j \in 1..came, i < j, Waits(i)'
          PROVE  Waits(j)' \/ outcome'[j] = "refused"
      <4>1. i \in Requests /\ j \in Requests
        BY Constants DEF IInv, TypeOK, Requests
      <4>2. h < i
        BY <2>3, <2>4, <2>5, <3>4, <4>1
      <4>3. j # h
        BY <2>1, <3>4, <4>1, <4>2, Constants
      <4>4. Waits(j) \/ outcome[j] = "refused"
        BY <2>3, <3>4 DEF IInv, Ordered
      <4>5. QED
        BY <1>5, <2>4, <4>1, <4>3, <4>4
    <3>5. QED
      BY <3>2, <3>3, <3>4 DEF Ordered
  <2>9. SlotsHold'
    BY <1>1, <1>10, <2>1, <2>2 DEF IInv, SlotsHold
  <2>10. QED
    BY <1>6, <2>6, <2>7, <2>8, <2>9 DEF IInv
<1>11. QED
  BY <1>9, <1>10, FreedTakes

-----------------------------------------------------------------------------
(* The events of a thread.                                                 *)

LEMMA AppendedIs ==
  ASSUME NEW q \in Seq(Events), NEW more \in Seq(Events)
  PROVE  /\ q \o more \in Seq(Events)
         /\ \A i \in DOMAIN (q \o more) :
              \/ \E j \in DOMAIN q : (q \o more)[i] = q[j]
              \/ \E j \in DOMAIN more : (q \o more)[i] = more[j]
<1>1. PICK n \in Nat, m \in Nat : n = Len(q) /\ m = Len(more)
  OBVIOUS
<1>2. q \o more \in Seq(Events) /\ Len(q \o more) = n + m
  BY <1>1
<1>3. ASSUME NEW i \in 1..(n + m)
      PROVE  \/ i \in 1..n /\ (q \o more)[i] = q[i]
             \/ i - n \in 1..m /\ (q \o more)[i] = more[i - n]
  BY <1>1
<1>4. QED
  BY <1>1, <1>2, <1>3

\* What the threads promise, of the events of one slot.
ThreadHolds(s, evs, thread) ==
  /\ thread \in Requests => thread = active[s]
  /\ shutdown => thread = Dead
  /\ \A i \in DOMAIN evs :
       /\ evs[i].kind # "message" => thread = Dead
       /\ evs[i].kind = "message" =>
            /\ evs[i].request <= came /\ ~Waits(evs[i].request)
            /\ evs[i].request = active[s] => ~shutdown /\ thread \in {Idle, Dead}

\* Only the thread of a slot and its events change.
LEMMA ThreadKeeps ==
  ASSUME IInv, NEW s \in Slots, NEW evs \in Seq(Events),
         NEW thread \in Requests \cup {Idle, Dead}, ThreadHolds(s, evs, thread),
         events' = [events EXCEPT ![s] = evs], task' = [task EXCEPT ![s] = thread],
         UNCHANGED <<queue, busy, active, outcome, came, shutdown>>,
         crashes' \in 0..MaxCrashes
  PROVE  IInv'
<1>1. TypeOK' /\ events' \in [Slots -> Seq(Events)]
  BY DEF IInv, TypeOK
<1>2. \A r : Waits(r)' = Waits(r)
  BY DEF Waits
<1>3. Unsettled' /\ Ordered' /\ SlotsHold'
  BY <1>2 DEF IInv, Unsettled, Ordered, SlotsHold
<1>4. \A t \in Slots : /\ events'[t] = IF t = s THEN evs ELSE events[t]
                       /\ task'[t] = IF t = s THEN thread ELSE task[t]
  BY DEF IInv, TypeOK
<1>5. ASSUME NEW t \in Slots
      PROVE  ThreadHolds(t, events'[t], task'[t])
  BY <1>4 DEF IInv, ThreadsHold, ThreadHolds
<1>6. ThreadsHold'
  BY <1>2, <1>5 DEF ThreadsHold, ThreadHolds
<1>7. QED
  BY <1>1, <1>3, <1>6 DEF IInv

\* An event that is ignored is taken off.
LEMMA IgnoredKeeps ==
  ASSUME IInv, NEW s \in Slots, events[s] # <<>>,
         events' = [events EXCEPT ![s] = Tail(events[s])],
         UNCHANGED <<queue, busy, active, task, outcome, came, shutdown, crashes>>
  PROVE  IInv'
<1>1. PICK q \in Seq(Events) : q = events[s] /\ q # <<>>
  BY DEF IInv
<1>2. Tail(q) \in Seq(Events) /\ \A i \in DOMAIN Tail(q) : \E j \in DOMAIN q : Tail(q)[i] = q[j]
  BY <1>1, TailIs
<1>3. ThreadHolds(s, q, task[s])
  BY <1>1 DEF IInv, ThreadsHold, ThreadHolds
<1>4. ThreadHolds(s, Tail(q), task[s])
  BY <1>2, <1>3 DEF ThreadHolds
<1>5. /\ task[s] \in Requests \cup {Idle, Dead} /\ task' = [task EXCEPT ![s] = task[s]]
      /\ crashes' \in 0..MaxCrashes
  BY DEF IInv, TypeOK
<1>6. QED
  BY <1>1, <1>2, <1>4, <1>5, ThreadKeeps

LEMMA HandleMessageTakes ==
  ASSUME IInv, NEW s \in Slots, HandleMessage(s)
  PROVE  /\ events[s] # <<>> /\ Head(events[s]).kind = "message"
         /\ events' = [events EXCEPT ![s] = Tail(events[s])]
         /\ UNCHANGED <<came, shutdown, crashes>>
         /\ \/ UNCHANGED <<queue, busy, active, task, outcome>>
            \/ /\ ~shutdown /\ task[s] \in {Idle, Dead} /\ active[s] # None
               /\ \E result \in {"resolved", "rejected"} : Freed(s, task[s], result)
<1>1. /\ events[s] # <<>> /\ Head(events[s]).kind = "message"
      /\ events' = [events EXCEPT ![s] = Tail(events[s])]
      /\ UNCHANGED <<came, shutdown, crashes>>
  BY DEF HandleMessage
<1>2. CASE active[s] = None \/ active[s] # Head(events[s]).request
  BY <1>1, <1>2 DEF HandleMessage
<1>3. CASE active[s] # None /\ active[s] = Head(events[s]).request
  <2>1. \E result \in {"resolved", "rejected"} : Freed(s, task[s], result)
    BY <1>3 DEF HandleMessage
  <2>2. events[s] \in Seq(Events)
    BY DEF IInv
  <2>3. 1 \in DOMAIN events[s] /\ events[s][1] = Head(events[s])
    BY <1>1, <2>2, TailIs
  <2>4. ~shutdown /\ task[s] \in {Idle, Dead}
    BY <1>1, <1>3, <2>3 DEF IInv, ThreadsHold
  <2>5. QED
    BY <1>1, <1>3, <2>1, <2>4
<1>4. QED
  BY <1>2, <1>3

LEMMA HandleFailureTakes ==
  ASSUME IInv, NEW s \in Slots, HandleFailure(s)
  PROVE  /\ events[s] # <<>> /\ task[s] = Dead
         /\ UNCHANGED <<came, shutdown, crashes>>
         /\ \/ /\ events' = [events EXCEPT ![s] = Tail(events[s])]
               /\ UNCHANGED <<queue, busy, active, task, outcome>>
            \/ /\ ~shutdown /\ events' = [events EXCEPT ![s] = <<>>]
               /\ Freed(s, Idle, "rejected")
<1>1. /\ events[s] # <<>> /\ Head(events[s]).kind \in {"error", "exit"}
      /\ UNCHANGED <<came, shutdown, crashes>>
  BY DEF HandleFailure
<1>2. events[s] \in Seq(Events)
  BY DEF IInv
<1>3. 1 \in DOMAIN events[s] /\ events[s][1] = Head(events[s])
  BY <1>1, <1>2, TailIs
<1>4. task[s] = Dead
  BY <1>1, <1>3 DEF IInv, ThreadsHold
<1>5. QED
  BY <1>1, <1>4 DEF HandleFailure

LEMMA HandleKeeps ==
  ASSUME IInv, NEW s \in Slots, Handle(s)
  PROVE  IInv'
<1>1. events[s] \in Seq(Events)
  BY DEF IInv
<1>2. CASE HandleMessage(s)
  <2>1. CASE UNCHANGED <<queue, busy, active, task, outcome>>
    BY <1>2, <2>1, HandleMessageTakes, IgnoredKeeps
  <2>2. CASE /\ ~shutdown /\ task[s] \in {Idle, Dead}
             /\ \E result \in {"resolved", "rejected"} : Freed(s, task[s], result)
    <3>1. /\ Tail(events[s]) \in Seq(Events)
          /\ \A i \in DOMAIN Tail(events[s]) :
               \E j \in DOMAIN events[s] : Tail(events[s])[i] = events[s][j]
      BY <1>1, <1>2, HandleMessageTakes, TailIs
    <3>2. QED
      BY <1>2, <2>2, <3>1, HandleMessageTakes, FreedKeeps
  <2>3. QED
    BY <1>2, <2>1, <2>2, HandleMessageTakes
<1>3. CASE HandleFailure(s)
  <2>1. CASE /\ events' = [events EXCEPT ![s] = Tail(events[s])]
             /\ UNCHANGED <<queue, busy, active, task, outcome>>
    BY <1>3, <2>1, HandleFailureTakes, IgnoredKeeps
  <2>2. CASE /\ ~shutdown /\ events' = [events EXCEPT ![s] = <<>>]
             /\ Freed(s, Idle, "rejected")
    <3>1. <<>> \in Seq(Events) /\ DOMAIN <<>> = {}
      OBVIOUS
    <3>2. QED
      BY <1>3, <2>2, <3>1, HandleFailureTakes, FreedKeeps
  <2>3. QED
    BY <1>3, <2>1, <2>2, HandleFailureTakes
<1>4. QED
  BY <1>2, <1>3 DEF Handle

LEMMA FinishKeeps ==
  ASSUME IInv, NEW s \in Slots, Finish(s)
  PROVE  IInv'
<1>1. PICK r \in Requests : r = task[s]
  BY DEF Finish, IInv, TypeOK
<1>2. /\ events' = [events EXCEPT ![s] = Append(events[s], Message(r))]
      /\ task' = [task EXCEPT ![s] = Idle]
      /\ UNCHANGED <<queue, busy, active, outcome, came, shutdown, crashes>>
  BY <1>1 DEF Finish
<1>3. PICK q \in Seq(Events) : q = events[s]
  BY DEF IInv
<1>4. /\ Append(q, Message(r)) \in Seq(Events)
      /\ \A i \in DOMAIN Append(q, Message(r)) :
           \/ Append(q, Message(r))[i] = Message(r)
           \/ i \in DOMAIN q /\ Append(q, Message(r))[i] = q[i]
  BY AppendIs DEF Events, Message
<1>5. ThreadHolds(s, q, r)
  BY <1>1, <1>3 DEF IInv, ThreadsHold, ThreadHolds
<1>6. /\ active[s] = r /\ ~shutdown /\ r # Dead /\ r # None
      /\ r <= came /\ ~Waits(r)
  BY <1>1, <1>5, Constants DEF ThreadHolds, IInv, Unsettled
<1>7. ThreadHolds(s, Append(q, Message(r)), Idle)
  <2>1. \A i \in DOMAIN q : q[i].kind = "message"
    BY <1>5, <1>6 DEF ThreadHolds
  <2>2. QED
    BY <1>4, <1>5, <1>6, <2>1, Constants DEF ThreadHolds, Message
<1>8. QED
  BY <1>2, <1>3, <1>4, <1>7, ThreadKeeps DEF IInv, TypeOK

LEMMA CrashKeeps ==
  ASSUME IInv, NEW s \in Slots, Crash(s)
  PROVE  IInv'
<1>1. PICK how \in {<<Failure("error"), Failure("exit")>>, <<Failure("exit")>>} :
        events' = [events EXCEPT ![s] = events[s] \o how]
  BY DEF Crash
<1>2. /\ task' = [task EXCEPT ![s] = Dead] /\ crashes' \in 0..MaxCrashes
      /\ UNCHANGED <<queue, busy, active, outcome, came, shutdown>>
  <2>1. crashes < MaxCrashes /\ crashes' = crashes + 1 /\ crashes \in 0..MaxCrashes
    BY DEF Crash, IInv, TypeOK
  <2>2. QED
    BY <2>1, Constants DEF Crash
<1>3. PICK q \in Seq(Events) : q = events[s]
  BY DEF IInv
<1>4. how \in Seq(Events) /\ \A j \in DOMAIN how : how[j].kind # "message"
  <2>1. PICK e \in Events, x \in Events : /\ e = Failure("error") /\ x = Failure("exit")
                                         /\ e.kind # "message" /\ x.kind # "message"
    <3>1. \A k \in {"error", "exit"} : Failure(k) \in Events /\ Failure(k).kind = k
      BY DEF Failure, Events
    <3>2. QED
      BY <3>1
  <2>2. CASE how = <<e, x>>
    BY <2>1, <2>2
  <2>3. CASE how = <<x>>
    BY <2>1, <2>3
  <2>4. QED
    BY <1>1, <2>1, <2>2, <2>3
<1>5. q \o how \in Seq(Events)
      /\ \A i \in DOMAIN (q \o how) : \/ \E j \in DOMAIN q : (q \o how)[i] = q[j]
                                      \/ (q \o how)[i].kind # "message"
  BY <1>4, AppendedIs
<1>6. ThreadHolds(s, q, task[s])
  BY <1>3 DEF IInv, ThreadsHold, ThreadHolds
<1>7. ThreadHolds(s, q \o how, Dead)
  BY <1>5, <1>6, Constants DEF ThreadHolds
<1>8. QED
  BY <1>1, <1>2, <1>3, <1>5, <1>7, ThreadKeeps

-----------------------------------------------------------------------------
(* The shutdown.                                                           *)

LEMMA ShutdownKeeps ==
  ASSUME IInv, Shutdown
  PROVE  IInv'
<1>1. /\ ~shutdown /\ shutdown' = TRUE /\ queue' = <<>>
      /\ outcome' = [r \in Requests |->
           IF (\E i \in DOMAIN queue : queue[i] = r) \/ (\E s \in Slots : active[s] = r)
           THEN "rejected" ELSE outcome[r]]
      /\ active' = [s \in Slots |-> None] /\ task' = [s \in Slots |-> Dead]
      /\ events' = [s \in Slots |->
           IF task[s] = Dead THEN events[s] ELSE Append(events[s], Failure("exit"))]
      /\ UNCHANGED <<busy, came, crashes>>
  BY DEF Shutdown
<1>2. Failure("exit") \in Events /\ Failure("exit").kind # "message"
  BY DEF Failure, Events
<1>3. ASSUME NEW s \in Slots
      PROVE  /\ events'[s] \in Seq(Events)
             /\ \A i \in DOMAIN events'[s] :
                  events'[s][i].kind = "message" =>
                    /\ events'[s][i].request \in Requests
                    /\ events'[s][i].request <= came
  <2>1. PICK q \in Seq(Events) : q = events[s]
    BY DEF IInv
  <2>2. \A i \in DOMAIN q : q[i].kind = "message" =>
          q[i].request \in Requests /\ q[i].request <= came
    BY <2>1 DEF IInv, ThreadsHold, Events
  <2>3. CASE task[s] = Dead
    BY <1>1, <2>1, <2>2, <2>3
  <2>4. CASE task[s] # Dead
    <3>1. events'[s] = Append(q, Failure("exit"))
      BY <1>1, <2>1, <2>4
    <3>2. \A i \in DOMAIN Append(q, Failure("exit")) :
            \/ Append(q, Failure("exit"))[i] = Failure("exit")
            \/ i \in DOMAIN q /\ Append(q, Failure("exit"))[i] = q[i]
      BY <1>2, AppendIs
    <3>3. QED
      BY <1>2, <2>2, <3>1, <3>2, AppendIs
  <2>5. QED
    BY <2>3, <2>4
<1>4. events' \in [Slots -> Seq(Events)]
  BY <1>1, <1>3
<1>5. TypeOK'
  <2>1. <<>> \in Seq(Requests)
    OBVIOUS
  <2>2. outcome' \in [Requests -> {"none", "resolved", "rejected", "refused"}]
    BY <1>1 DEF IInv, TypeOK
  <2>3. QED
    BY <1>1, <2>1, <2>2 DEF IInv, TypeOK
<1>6. \A r : ~Waits(r)'
  BY <1>1 DEF Waits
<1>7. Unsettled'
  <2>1. \A r \in Requests : r > came => outcome'[r] = "none"
    <3> SUFFICES ASSUME NEW r \in Requests, r > came
                 PROVE  outcome'[r] = "none"
      OBVIOUS
    <3>1. outcome[r] = "none" /\ ~(r <= came) /\ r # None
      BY Constants DEF IInv, TypeOK, Unsettled
    <3>2. ~Waits(r) /\ \A s \in Slots : active[s] # r
      BY <3>1 DEF IInv, Unsettled
    <3>3. QED
      BY <1>1, <3>1, <3>2 DEF Waits
  <2>2. QED
    BY <1>1, <1>6, <2>1 DEF Unsettled
<1>8. Ordered'
  BY <1>1, <1>6, Constants DEF Ordered
<1>9. SlotsHold'
  BY <1>1 DEF SlotsHold
<1>10. ThreadsHold'
  BY <1>1, <1>3, <1>6, Constants DEF ThreadsHold
<1>11. QED
  BY <1>4, <1>5, <1>7, <1>8, <1>9, <1>10 DEF IInv

LEMMA IInvNext ==
  ASSUME IInv, [Next]_vars
  PROVE  IInv'
<1>1. CASE UNCHANGED vars
  <2>1. UNCHANGED <<queue, busy, active, task, events, outcome, came, shutdown, crashes>>
    BY <1>1 DEF vars, slotVars
  <2>2. \A r : Waits(r)' = Waits(r)
    BY <2>1 DEF Waits
  <2>3. TypeOK' /\ (events \in [Slots -> Seq(Events)])'
    BY <2>1 DEF IInv, TypeOK
  <2>4. Unsettled' /\ Ordered' /\ SlotsHold' /\ ThreadsHold'
    BY <2>1, <2>2 DEF IInv, Unsettled, Ordered, SlotsHold, ThreadsHold
  <2>5. QED
    BY <2>3, <2>4 DEF IInv
<1>2. CASE \E r \in Requests : Execute(r)
  BY <1>2, ExecuteKeeps
<1>3. CASE \E s \in Slots : Handle(s) \/ Finish(s) \/ Crash(s)
  BY <1>3, HandleKeeps, FinishKeeps, CrashKeeps
<1>4. CASE Shutdown
  BY <1>4, ShutdownKeeps
<1>5. QED
  BY <1>1, <1>2, <1>3, <1>4 DEF Next

LEMMA Invariant == Spec => []IInv
<1>1. Init => IInv
  BY IInvInit
<1>2. IInv /\ [Next]_vars => IInv'
  BY IInvNext
<1>3. QED
  BY <1>1, <1>2, PTL DEF Spec

-----------------------------------------------------------------------------
(* The theorems.                                                           *)

\* The queue is served in order and not beside a free slot, with any number of threads that die
\* at any point (executeRequestClass, dispatchNextPendingTask, handleWorkerFailure).
THEOREM QueueAlwaysServed == Spec => []QueueIsServed
<1>1. ASSUME IInv
      PROVE  QueueIsServed
  <2>1. TypeOK /\ \A i, j \in 1..came : i < j /\ Waits(i) => Waits(j) \/ outcome[j] = "refused"
    BY <1>1 DEF IInv, Ordered
  <2>2. ASSUME ~shutdown
        PROVE  /\ queue # <<>> => Free(busy) = {}
               /\ \A s \in Slots : busy[s] = (active[s] # None)
    BY <1>1, <2>2 DEF IInv, TypeOK, SlotsHold, Free
  <2>3. QED
    BY <2>1, <2>2 DEF QueueIsServed
<1>2. QED
  BY <1>1, Invariant, PTL

\* A thread works for its slot, an answer that will be believed is that of the slot's request, and
\* no request has two slots (assignTaskToWorker, the message listener).
THEOREM ThreadsAlwaysServeTheirSlot == Spec => []ThreadsServeTheirSlot
<1>1. ASSUME IInv
      PROVE  ThreadsServeTheirSlot
  BY <1>1 DEF IInv, Unsettled, ThreadsHold, ThreadsServeTheirSlot
<1>2. QED
  BY <1>1, Invariant, PTL

\* What one step does to the requests that have a slot.
LEMMA LossesAre ==
  ASSUME IInv, [Next]_vars, NEW s \in Slots, NEW r \in Requests, r = active[s],
         ~shutdown', outcome'[r] = "rejected"
  PROVE  task[s] = Dead \/ Head(events[s]).kind = "message"
<1>1. /\ outcome[r] = "none" /\ r # None
      /\ \A t \in Slots : active[t] = r => t = s
      /\ outcome \in [Requests -> {"none", "resolved", "rejected", "refused"}]
  BY Constants DEF IInv, TypeOK, Unsettled
<1>2. outcome' # outcome
  BY <1>1
<1>3. CASE \E x \in Requests : Execute(x)
  <2>1. PICK x \in Requests : outcome' = [outcome EXCEPT ![x] = "refused"]
    BY <1>2, <1>3, ExecuteTakes
  <2>2. QED
    BY <1>1, <2>1
<1>4. ASSUME NEW t \in Slots, NEW thread, NEW result, ~shutdown, Freed(t, thread, result)
      PROVE  t = s
  <2>1. outcome' = [outcome EXCEPT ![active[t]] = result]
    BY <1>2, <1>4, FreedTakes
  <2>2. QED
    BY <1>1, <2>1
<1>5. ASSUME NEW t \in Slots, Handle(t)
      PROVE  t = s /\ (task[s] = Dead \/ Head(events[s]).kind = "message")
  <2>1. CASE HandleMessage(t)
    BY <1>2, <1>4, <2>1, HandleMessageTakes
  <2>2. CASE HandleFailure(t)
    BY <1>2, <1>4, <2>2, HandleFailureTakes
  <2>3. QED
    BY <1>5, <2>1, <2>2 DEF Handle
<1>6. ~(\E t \in Slots : Finish(t) \/ Crash(t)) /\ ~Shutdown /\ ~UNCHANGED vars
  BY <1>2 DEF Finish, Crash, Shutdown, vars
<1>7. QED
  BY <1>3, <1>5, <1>6 DEF Next

\* One death costs at most the one request the dead thread had: until the shutdown, a request
\* that is rejected without an answer of its own was with a thread that is dead
\* (handleWorkerFailure, the listeners it takes off).
THEOREM OnlyTheDeadEverLose == Spec => OnlyTheDeadLose
<1> DEFINE A == \A s \in Slots :
                  LET r == active[s]
                  IN r # None /\ ~shutdown' /\ outcome'[r] = "rejected" =>
                       task[s] = Dead \/ Head(events[s]).kind = "message"
<1>1. ASSUME IInv, [Next]_vars
      PROVE  A
  <2>1. \A s \in Slots : active[s] # None => active[s] \in Requests
    BY <1>1 DEF IInv, TypeOK
  <2>2. QED
    BY <1>1, <2>1, LossesAre
<1>2. IInv /\ [Next]_vars => [A]_vars
  BY <1>1
<1>3. QED
  BY <1>2, Invariant, PTL DEF Spec, OnlyTheDeadLose

-----------------------------------------------------------------------------
(* The pool is a bounded service.                                          *)

Refused == With({"refused"})
Settled == With({"resolved", "rejected"})
WaitSet == {queue[k] : k \in DOMAIN queue}
ActiveSet == {active[s] : s \in Active}

LEMMA SlotsFinite ==
  IsFiniteSet(Slots) /\ Cardinality(Slots) = PoolSize /\ IsFiniteSet(Requests)
<1>1. PICK n \in Nat : n = PoolSize /\ n >= 1
  BY Constants
<1>2. IsFiniteSet(1..n) /\ Cardinality(1..n) = n
  BY <1>1, FS_Interval
<1>3. IsFiniteSet(1..MaxRequests)
  BY FS_Interval, Constants
<1>4. QED
  BY <1>1, <1>2, <1>3 DEF Slots, Requests

LEMMA ActiveCount ==
  /\ IsFiniteSet(Active) /\ Cardinality(Active) \in Nat
  /\ Cardinality(Active) <= PoolSize
  /\ (\A s \in Slots : active[s] # None) => Cardinality(Active) = PoolSize
<1>1. Active \in SUBSET Slots
  BY DEF Active
<1>2. IsFiniteSet(Active) /\ Cardinality(Active) <= PoolSize
  BY <1>1, SlotsFinite, FS_Subset
<1>3. ASSUME \A s \in Slots : active[s] # None
      PROVE  Cardinality(Active) = PoolSize
  <2>1. Active = Slots
    BY <1>3 DEF Active
  <2>2. QED
    BY <2>1, SlotsFinite
<1>4. QED
  BY <1>2, <1>3, FS_CardinalityType

LEMMA WithCount ==
  ASSUME NEW outcomes
  PROVE  IsFiniteSet(With(outcomes)) /\ Cardinality(With(outcomes)) \in Nat
<1>1. With(outcomes) \in SUBSET Requests
  BY DEF With
<1>2. QED
  BY <1>1, SlotsFinite, FS_Subset, FS_CardinalityType

LEMMA QueueCount ==
  ASSUME IInv
  PROVE  /\ Len(queue) \in Nat /\ Len(queue) <= QueueCapacity
         /\ IsFiniteSet(WaitSet) /\ Cardinality(WaitSet) = Len(queue)
<1>1. PICK n \in Nat : n = Len(queue) /\ n <= QueueCapacity
  BY DEF IInv, TypeOK, Ordered
<1>2. /\ queue \in [1..n -> WaitSet] /\ queue \in Seq(Requests) /\ DOMAIN queue = 1..n
      /\ WaitSet \subseteq Requests
  BY <1>1 DEF IInv, TypeOK, WaitSet
<1>3. ASSUME NEW i \in 1..n, NEW j \in 1..n, queue[i] = queue[j]
      PROVE  i = j
  <2>1. queue[i] \in Nat /\ queue[j] \in Nat
    BY <1>2, Constants
  <2>2. ~(i < j) /\ ~(j < i)
    BY <1>2, <1>3, <2>1 DEF IInv, Ordered
  <2>3. QED
    BY <2>2
<1>4. queue \in Bijection(1..n, WaitSet)
  <2>1. \A x \in WaitSet : \E i \in 1..n : queue[i] = x
    BY <1>2 DEF WaitSet
  <2>2. IsInjective(queue)
    BY <1>2, <1>3 DEF IsInjective
  <2>3. QED
    BY <1>2, <2>1, <2>2 DEF Bijection, Injection, Surjection
<1>5. ExistsBijection(1..n, WaitSet)
  BY <1>4 DEF ExistsBijection
<1>6. Cardinality(WaitSet) = n
  BY <1>5, FS_CountingElements
<1>7. IsFiniteSet(WaitSet)
  BY <1>2, SlotsFinite, FS_Subset
<1>8. QED
  BY <1>1, <1>6, <1>7

\* The requests that have a slot are as many as the slots that have a request.
LEMMA ActiveSetCount ==
  ASSUME IInv
  PROVE  IsFiniteSet(ActiveSet) /\ Cardinality(ActiveSet) = Cardinality(Active)
<1> DEFINE f == [s \in Active |-> active[s]]
<1>1. f \in Bijection(Active, ActiveSet)
  <2>1. f \in [Active -> ActiveSet] /\ \A x \in ActiveSet : \E s \in Active : f[s] = x
    BY DEF ActiveSet
  <2>2. \A s, t \in Active : f[s] = f[t] => s = t
    BY DEF Active, IInv, Unsettled
  <2>3. QED
    BY <2>1, <2>2 DEF Bijection, Injection, Surjection, IsInjective
<1>2. ExistsBijection(Active, ActiveSet)
  BY <1>1 DEF ExistsBijection
<1>3. QED
  BY <1>2, ActiveCount, FS_Bijection

LEMMA DisjointCount ==
  ASSUME NEW S, NEW T, IsFiniteSet(S), IsFiniteSet(T), S \cap T = {}
  PROVE  IsFiniteSet(S \cup T) /\ Cardinality(S \cup T) = Cardinality(S) + Cardinality(T)
<1>1. Cardinality(S \cap T) = 0
  BY FS_EmptySet
<1>2. PICK n \in Nat, m \in Nat : n = Cardinality(S) /\ m = Cardinality(T)
  BY FS_CardinalityType
<1>3. IsFiniteSet(S \cup T) /\ Cardinality(S \cup T) = n + m - 0
  BY <1>1, <1>2, FS_Union
<1>4. QED
  BY <1>2, <1>3

LEMMA ServiceInit ==
  ASSUME Init
  PROVE  Service!Init
<1>1. Active = {} /\ Refused = {} /\ Settled = {}
  BY DEF Init, Active, Refused, Settled, With
<1>2. Cardinality(Active) = 0 /\ Cardinality(Refused) = 0 /\ Cardinality(Settled) = 0
  BY <1>1, FS_EmptySet
<1>3. QED
  BY <1>2 DEF Init, Service!Init, Refused, Settled

\* What the counts of the service stand for does not change with a step that changes none of them.
LEMMA ServiceStutter ==
  ASSUME UNCHANGED <<queue, active, outcome, came, shutdown>>
  PROVE  UNCHANGED Service!vars
BY DEF Service!vars, Active, With

LEMMA ServiceExecute ==
  ASSUME IInv, NEW r \in Requests, Execute(r)
  PROVE  Service!Arrive
<1>1. /\ came' = r /\ r = came + 1 /\ came \in Nat /\ r \in Nat /\ UNCHANGED shutdown
      /\ outcome[r] = "none" /\ \A s \in Slots : active[s] # r
  BY ExecuteTakes, Constants DEF IInv, TypeOK, Unsettled
<1>2. /\ active \in [Slots -> Requests \cup {None}]
      /\ outcome \in [Requests -> {"none", "resolved", "rejected", "refused"}]
  BY DEF IInv, TypeOK
<1>3. PICK a \in Nat : a = Cardinality(Active) /\ a <= PoolSize
  BY ActiveCount
<1>4. PICK w \in Nat : w = Len(queue) /\ w <= QueueCapacity
  BY QueueCount
<1>5. PICK f \in Nat : f = Cardinality(Refused)
  BY WithCount DEF Refused
<1>6. CASE /\ UNCHANGED <<queue, outcome>>
           /\ \E s \in Slots : active[s] = None /\ active' = [active EXCEPT ![s] = r]
  <2>1. PICK s \in Slots : active[s] = None /\ active' = [active EXCEPT ![s] = r]
    BY <1>6
  <2>2. Active' = Active \cup {s} /\ s \notin Active /\ Active \cup {s} \subseteq Slots
    BY <1>2, <2>1, Constants DEF Active
  <2>3. Cardinality(Active \cup {s}) = a + 1
    BY <1>3, <2>2, ActiveCount, FS_AddElement
  <2>4. Cardinality(Active \cup {s}) <= PoolSize
    BY <2>2, SlotsFinite, FS_Subset
  <2>5. Cardinality(Active)' = a + 1 /\ a + 1 <= PoolSize
    BY <2>2, <2>3, <2>4
  <2>6. /\ Len(queue)' = w /\ Cardinality(Refused)' = f
        /\ Cardinality(Settled)' = Cardinality(Settled)
    BY <1>4, <1>5, <1>6 DEF Refused, Settled, With
  <2>7. /\ a + 1 \in a..PoolSize /\ w \in w..QueueCapacity
        /\ (a + 1) - a = 1 /\ w - w = 0 /\ f - f = 0 /\ f >= f /\ ~(f > f)
        /\ came' = came + 1 + 0 + 0
    BY <1>1, <1>4, <2>5, Constants
  <2>8. QED
    BY <1>1, <1>3, <1>4, <1>5, <2>5, <2>6, <2>7 DEF Service!Arrive, Refused, Settled
<1>7. CASE UNCHANGED <<active, queue>> /\ outcome' = [outcome EXCEPT ![r] = "refused"]
           /\ Len(queue) = QueueCapacity /\ \A s \in Slots : busy[s]
  <2>1. /\ \A x \in Requests : outcome'[x] = IF x = r THEN "refused" ELSE outcome[x]
        /\ outcome[r] = "none"
    BY <1>1, <1>2, <1>7
  <2>2. Refused' = Refused \cup {r} /\ r \notin Refused /\ Settled' = Settled
    BY <2>1 DEF Refused, Settled, With
  <2>3. Cardinality(Refused)' = f + 1
    BY <1>5, <2>2, WithCount, FS_AddElement DEF Refused
  <2>4. /\ Len(queue)' = w /\ w = QueueCapacity /\ Cardinality(Active)' = a
        /\ Cardinality(Settled)' = Cardinality(Settled)
    BY <1>3, <1>4, <1>7, <2>2 DEF Active
  <2>5. shutdown \/ a = PoolSize
    BY <1>3, <1>7, ActiveCount DEF IInv, SlotsHold
  <2>6. /\ a \in a..PoolSize /\ w \in w..QueueCapacity
        /\ a - a = 0 /\ w - w = 0 /\ (f + 1) - f = 1 /\ f + 1 >= f /\ f + 1 \in Nat
        /\ came' = came + 0 + 0 + 1
    BY <1>1, <1>3, <1>4, Constants
  <2>7. QED
    BY <1>1, <1>3, <1>4, <1>5, <2>3, <2>4, <2>5, <2>6 DEF Service!Arrive, Refused, Settled
<1>8. CASE /\ UNCHANGED <<active, outcome>> /\ Len(queue) < QueueCapacity
           /\ queue' = Append(queue, r)
  <2>1. Len(queue)' = w + 1 /\ w + 1 <= QueueCapacity
    BY <1>4, <1>8, AppendIs, Constants DEF IInv, TypeOK
  <2>2. /\ Cardinality(Active)' = a /\ Cardinality(Refused)' = f
        /\ Cardinality(Settled)' = Cardinality(Settled)
    BY <1>3, <1>5, <1>8 DEF Active, Refused, Settled, With
  <2>3. /\ a \in a..PoolSize /\ w + 1 \in w..QueueCapacity
        /\ a - a = 0 /\ (w + 1) - w = 1 /\ f - f = 0 /\ f >= f /\ ~(f > f)
        /\ came' = came + 0 + 1 + 0
    BY <1>1, <1>3, <1>4, <2>1, Constants
  <2>4. QED
    BY <1>1, <1>3, <1>4, <1>5, <2>1, <2>2, <2>3 DEF Service!Arrive, Refused, Settled
<1>9. QED
  BY <1>6, <1>7, <1>8, ExecuteTakes

LEMMA ServiceFreed ==
  ASSUME IInv, NEW s \in Slots, ~shutdown, NEW thread, NEW result \in {"resolved", "rejected"},
         Freed(s, thread, result), UNCHANGED <<came, shutdown>>
  PROVE  [Service!Next]_(Service!vars)
<1>1. /\ active \in [Slots -> Requests \cup {None}] /\ queue \in Seq(Requests)
      /\ outcome \in [Requests -> {"none", "resolved", "rejected", "refused"}]
  BY DEF IInv, TypeOK
<1>2. CASE active[s] = None
  <2>1. outcome' = outcome /\ queue' = queue /\ active' = [active EXCEPT ![s] = None]
    BY <1>2, FreedTakes
  <2>2. active' = active
    BY <1>1, <1>2, <2>1
  <2>3. QED
    BY <2>1, <2>2, ServiceStutter
<1>3. CASE active[s] # None
  <2>1. PICK r \in Requests : /\ r = active[s] /\ outcome[r] = "none"
                              /\ outcome' = [outcome EXCEPT ![r] = result]
    BY <1>1, <1>3, FreedTakes DEF IInv, Unsettled
  <2>2. \A x \in Requests : outcome'[x] = IF x = r THEN result ELSE outcome[x]
    BY <1>1, <2>1
  <2>3. Refused' = Refused /\ Settled' = Settled \cup {r} /\ r \notin Settled
    BY <2>1, <2>2 DEF Refused, Settled, With
  <2>4. PICK g \in Nat : g = Cardinality(Settled)
    BY WithCount DEF Settled
  <2>5. Cardinality(Settled)' = g + 1 /\ Cardinality(Refused)' = Cardinality(Refused)
    BY <2>3, <2>4, WithCount, FS_AddElement DEF Settled
  <2>6. PICK a \in Nat : a = Cardinality(Active) /\ a > 0
    <3>1. s \in Active
      BY <1>3 DEF Active
    <3>2. Cardinality(Active) # 0
      BY <3>1, ActiveCount, FS_EmptySet
    <3>3. QED
      BY <3>2, ActiveCount
  <2>7. PICK w \in Nat : w = Len(queue)
    BY QueueCount
  <2>8. CASE queue' = queue /\ active' = [active EXCEPT ![s] = None]
    <3>1. Active' = Active \ {s} /\ s \in Active
      BY <1>1, <1>3, <2>8 DEF Active
    <3>2. Cardinality(Active)' = a - 1
      BY <2>6, <3>1, ActiveCount, FS_RemoveElement
    <3>3. w - ((a - 1) - (a - 1)) = w /\ w >= 0
      BY <2>6
    <3>4. QED
      BY <2>4, <2>5, <2>6, <2>7, <2>8, <3>2, <3>3
         DEF Service!Settle, Service!Next, Refused, Settled
  <2>9. CASE /\ queue # <<>> /\ queue' = Tail(queue)
             /\ active' = [active EXCEPT ![s] = Head(queue)]
    <3>1. Head(queue) \in Requests /\ Len(queue)' = w - 1 /\ w >= 1
      BY <1>1, <2>7, <2>9, TailIs
    <3>2. Active' = Active
      BY <1>1, <1>3, <2>9, <3>1, Constants DEF Active
    <3>3. w - (a - (a - 1)) = w - 1 /\ w - 1 >= 0
      BY <2>6, <3>1
    <3>4. QED
      BY <2>4, <2>5, <2>6, <2>7, <2>9, <3>1, <3>2, <3>3
         DEF Service!Settle, Service!Next, Refused, Settled
  <2>10. QED
    BY <2>8, <2>9, FreedTakes
<1>4. QED
  BY <1>2, <1>3

\* What waits and what has a slot are settled together, and each once.
LEMMA ServiceShutdown ==
  ASSUME IInv, Shutdown
  PROVE  Service!Close
<1>1. /\ ~shutdown /\ shutdown' = TRUE /\ queue' = <<>> /\ came' = came
      /\ active' = [s \in Slots |-> None]
      /\ \A r \in Requests :
           outcome'[r] = IF (\E i \in DOMAIN queue : queue[i] = r) \/ (\E s \in Slots : active[s] = r)
                         THEN "rejected" ELSE outcome[r]
  BY DEF Shutdown
<1>2. /\ WaitSet \subseteq Requests /\ ActiveSet \subseteq Requests
      /\ \A x \in WaitSet : outcome[x] = "none"
      /\ \A x \in ActiveSet : outcome[x] = "none" /\ x \notin WaitSet
      /\ \A r \in Requests : r \in WaitSet \cup ActiveSet <=>
           (\E i \in DOMAIN queue : queue[i] = r) \/ (\E s \in Slots : active[s] = r)
  <2>1. WaitSet \subseteq Requests /\ \A x \in WaitSet : Waits(x)
    BY DEF WaitSet, Waits, IInv, TypeOK
  <2>2. \A s \in Active : active[s] \in Requests /\ active[s] # None /\ s \in Slots
    BY DEF Active, IInv, TypeOK
  <2>3. \A r \in Requests : r \in ActiveSet <=> \E s \in Slots : active[s] = r
    BY Constants DEF ActiveSet, Active
  <2>4. \A r : r \in WaitSet <=> \E i \in DOMAIN queue : queue[i] = r
    BY DEF WaitSet
  <2>5. \A x \in ActiveSet : x \in Requests /\ outcome[x] = "none" /\ x \notin WaitSet
    BY <2>1, <2>2, <2>4 DEF ActiveSet, IInv, Unsettled, Waits
  <2>6. QED
    BY <2>1, <2>3, <2>4, <2>5 DEF IInv, Unsettled
<1>3. \A r \in Requests : outcome'[r] = IF r \in WaitSet \cup ActiveSet THEN "rejected"
                                        ELSE outcome[r]
  BY <1>1, <1>2
<1>4. /\ Refused' = Refused /\ Settled' = Settled \cup (WaitSet \cup ActiveSet)
      /\ Settled \cap (WaitSet \cup ActiveSet) = {} /\ WaitSet \cap ActiveSet = {}
  BY <1>2, <1>3 DEF Refused, Settled, With
<1>5. PICK g \in Nat, w \in Nat, a \in Nat :
        g = Cardinality(Settled) /\ w = Cardinality(WaitSet) /\ a = Cardinality(ActiveSet)
  BY WithCount, QueueCount, ActiveCount, ActiveSetCount DEF Settled
<1>6. /\ IsFiniteSet(Settled) /\ IsFiniteSet(WaitSet) /\ IsFiniteSet(ActiveSet)
  BY WithCount, QueueCount, ActiveSetCount DEF Settled
<1>7. PICK S, W, A : S = Settled /\ W = WaitSet /\ A = ActiveSet
  OBVIOUS
<1>8. Cardinality(S \cup (W \cup A)) = g + w + a
  <2>1. /\ W \cap A = {} /\ S \cap (W \cup A) = {}
        /\ IsFiniteSet(W) /\ IsFiniteSet(A) /\ IsFiniteSet(S)
        /\ Cardinality(W) = w /\ Cardinality(A) = a /\ Cardinality(S) = g
    BY <1>4, <1>5, <1>6, <1>7
  <2>2. /\ IsFiniteSet(W \cup A)
        /\ Cardinality(W \cup A) = Cardinality(W) + Cardinality(A)
    BY <2>1, DisjointCount, Zenon
  <2>3. Cardinality(S \cup (W \cup A)) = Cardinality(S) + Cardinality(W \cup A)
    BY <2>1, <2>2, DisjointCount, Zenon
  <2>4. QED
    BY <2>1, <2>2, <2>3
<1>9. /\ Cardinality(Settled)' = g + w + a /\ Cardinality(Refused)' = Cardinality(Refused)
  BY <1>4, <1>7, <1>8
<1>10. Len(queue) = w /\ Cardinality(Active) = a
  BY <1>5, QueueCount, ActiveSetCount
<1>11. Active' = {} /\ Len(queue)' = 0 /\ Cardinality(Active)' = 0
  <2>1. Active' = {} /\ Len(queue)' = 0
    BY <1>1 DEF Active
  <2>2. QED
    BY <2>1, FS_EmptySet
<1>12. QED
  BY <1>1, <1>5, <1>9, <1>10, <1>11 DEF Service!Close, Refused, Settled

LEMMA ServiceStep ==
  ASSUME IInv, [Next]_vars
  PROVE  [Service!Next]_(Service!vars)
<1>1. CASE \E r \in Requests : Execute(r)
  BY <1>1, ServiceExecute DEF Service!Next
<1>2. CASE Shutdown
  BY <1>2, ServiceShutdown DEF Service!Next
<1>3. ASSUME NEW s \in Slots, HandleMessage(s)
      PROVE  [Service!Next]_(Service!vars)
  <2>1. CASE UNCHANGED <<queue, active, outcome>>
    BY <1>3, <2>1, HandleMessageTakes, ServiceStutter
  <2>2. CASE /\ ~shutdown
             /\ \E result \in {"resolved", "rejected"} : Freed(s, task[s], result)
    BY <1>3, <2>2, HandleMessageTakes, ServiceFreed
  <2>3. QED
    BY <1>3, <2>1, <2>2, HandleMessageTakes
<1>4. ASSUME NEW s \in Slots, HandleFailure(s)
      PROVE  [Service!Next]_(Service!vars)
  <2>1. CASE UNCHANGED <<queue, active, outcome>>
    BY <1>4, <2>1, HandleFailureTakes, ServiceStutter
  <2>2. CASE ~shutdown /\ Freed(s, Idle, "rejected")
    BY <1>4, <2>2, HandleFailureTakes, ServiceFreed
  <2>3. QED
    BY <1>4, <2>1, <2>2, HandleFailureTakes
<1>5. CASE (\E s \in Slots : Finish(s) \/ Crash(s)) \/ UNCHANGED vars
  <2>1. UNCHANGED <<queue, active, outcome, came, shutdown>>
    BY <1>5 DEF Finish, Crash, vars, slotVars
  <2>2. QED
    BY <2>1, ServiceStutter
<1>6. QED
  BY <1>1, <1>2, <1>3, <1>4, <1>5 DEF Next, Handle

\* Whatever its threads do, the pool is a bounded service: every request that came is refused,
\* waits, has a slot or is settled, once, none is refused while there is room, and no limit is
\* passed (ResourceDemandService as a whole).
THEOREM PoolImplementsBoundedService == Spec => ServiceSpec
<1>1. Init => Service!Init
  BY ServiceInit
<1>2. IInv /\ [Next]_vars => [Service!Next]_(Service!vars)
  BY ServiceStep
<1>3. QED
  BY <1>1, <1>2, Invariant, PTL DEF Spec, ServiceSpec, Service!Spec
=============================================================================
