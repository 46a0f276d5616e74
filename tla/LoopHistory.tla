---------------------------- MODULE LoopHistory ----------------------------
(***************************************************************************)
(* The showcase backend: SnapshotService (system-showcase/app/             *)
(* snapshot_service.py) over LoopHistoryStore (loop_history_store.py).     *)
(* The controller overwrites the last loop of each kind in the scaler's    *)
(* status; a background poller and every snapshot a client makes it build  *)
(* copy what they listed into one history file, and finished snapshots are *)
(* cached per page.  Kubernetes is listed in a thread, so other requests   *)
(* run meanwhile, and a listing may be applied after a newer one.          *)
(*                                                                         *)
(* One scaler.  A loop is its number in publication order, which stands    *)
(* for its loopKey; PerMinute consecutive loops share a minute bucket.     *)
(***************************************************************************)
EXTENDS Naturals, Sequences

CONSTANTS
  Kinds,       \* "pod" and "node": the two loops of the status
  Clients,     \* concurrent calls of get_snapshot
  Pages,       \* cache keys: page and page size
  Limit,       \* loop_history_limit
  PerMinute,   \* loops the controller runs in one minute
  MaxLoop,     \* bound: loops published of each kind
  MaxFaults,   \* bound: failed listings and restarts
  None         \* no page, no listing

HistoryAssumption ==
  /\ Limit \in Nat \ {0} /\ PerMinute \in Nat \ {0}
  /\ MaxLoop \in Nat /\ MaxFaults \in Nat
  /\ "poller" \notin Clients /\ "free" \notin Clients
ASSUME HistoryAssumption

VARIABLES
  published,  \* last loop of each kind in the status, 0 before the first
  history,    \* the history file, loops oldest first
  cache,      \* _cache: the pages with a snapshot younger than cache_ttl_seconds
  shown,      \* auxiliary: the listing a cached page was built from, or None
  changed,    \* auxiliary: the listing of the poller's last change
  cacheLock,  \* who holds _cache_lock
  pc,         \* where each client and the poller are
  page,       \* page a client asked for
  force,      \* force_refresh of a client
  seen,       \* listing a client or the poller holds
  overtaken,  \* auxiliary: some listing was applied after a newer one
  faults      \* listings failed and restarts so far

clientVars == <<page, force>>
storeVars == <<history, overtaken>>
cacheVars == <<cache, shown>>
vars == <<published, storeVars, cacheVars, changed, cacheLock, pc, clientVars, seen, faults>>

Callers == Clients \union {"poller"}
Loops == 1..MaxLoop
Listing == [Kinds -> 0..MaxLoop]

MinuteBucket(loop) == (loop - 1) \div PerMinute
LastOf(items) == items[Len(items)]

\* Mutant: the newest item is looked for at the other end.
Appended_ComparedWithOldest(items, loop) ==
  LET longer == Append(items, loop)
  IN IF loop = 0 THEN items
     ELSE IF items = <<>> THEN <<loop>>
     ELSE IF Head(items) = loop THEN items
     ELSE IF MinuteBucket(Head(items)) = MinuteBucket(loop) THEN [items EXCEPT ![1] = loop]
     ELSE IF Len(longer) > Limit THEN Tail(longer) ELSE longer

\* Mutant: the limit keeps one item too few, and minutes keep their first loop.
Appended_Trimmed(items, loop) ==
  LET longer == Append(items, loop)
  IN IF loop = 0 THEN items
     ELSE IF items = <<>> THEN <<loop>>
     ELSE IF MinuteBucket(LastOf(items)) = MinuteBucket(loop) THEN items
     ELSE IF Len(longer) > Limit THEN SubSeq(longer, 3, Len(longer)) ELSE longer

\* _append_if_new: a loop with the key of the last one is not new; one of the same minute
\* takes its place; any other is appended, and the oldest go when there are too many.
Appended(items, loop) ==
  LET longer == Append(items, loop)
  IN IF loop = 0 THEN items
     ELSE IF items = <<>> THEN <<loop>>
     ELSE IF LastOf(items) = loop THEN items
     ELSE IF MinuteBucket(LastOf(items)) = MinuteBucket(loop)
          THEN [items EXCEPT ![Len(items)] = loop]
     ELSE IF Len(longer) > Limit THEN Tail(longer) ELSE longer

Synced(listing) == [k \in Kinds |-> Appended(history[k], listing[k])]

\* sync_latest, one step of the event loop: the file is read, and written if it changed.
SyncLatest(listing) ==
  /\ history' = Synced(listing)
  /\ overtaken' = (overtaken \/ \E k \in Kinds :
                     history[k] # <<>> /\ listing[k] < LastOf(history[k]))

Init ==
  /\ published = [k \in Kinds |-> 0] /\ changed = published
  /\ history = [k \in Kinds |-> <<>>] /\ overtaken = FALSE
  /\ cache = {} /\ shown = [p \in Pages |-> None] /\ cacheLock = "free"
  /\ pc = [c \in Callers |-> "idle"]
  /\ page = [c \in Clients |-> None] /\ force = [c \in Clients |-> FALSE]
  /\ seen = [c \in Callers |-> None]
  /\ faults = 0

\* The controller ends another loop and puts it in the status.
Publish(k) ==
  /\ published[k] < MaxLoop
  /\ published' = [published EXCEPT ![k] = @ + 1]
  /\ UNCHANGED <<storeVars, cacheVars, changed, cacheLock, pc, clientVars, seen, faults>>

\* list_custom_scalers answers in its thread, or fails.
Listed(c) ==
  \/ seen' = [seen EXCEPT ![c] = published] /\ UNCHANGED faults
  \/ faults < MaxFaults /\ faults' = faults + 1 /\ seen' = [seen EXCEPT ![c] = None]

-----------------------------------------------------------------------------
\* get_snapshot.

\* A page that is cached and fresh is returned at once; otherwise the call waits for the
\* lock of the cache.
Request(c) ==
  /\ pc[c] = "idle"
  /\ \E p \in Pages, f \in BOOLEAN :
       /\ f \/ p \notin cache
       /\ page' = [page EXCEPT ![c] = p] /\ force' = [force EXCEPT ![c] = f]
  /\ pc' = [pc EXCEPT ![c] = "lock"]
  /\ UNCHANGED <<published, storeVars, cacheVars, changed, cacheLock, seen, faults>>

Return(c) ==
  /\ pc' = [pc EXCEPT ![c] = "idle"]
  /\ page' = [page EXCEPT ![c] = None] /\ force' = [force EXCEPT ![c] = FALSE]

\* Under the lock the cache is looked up once more: another call may have filled it.
TakeLock(c) ==
  /\ pc[c] = "lock" /\ cacheLock = "free"
  /\ IF ~force[c] /\ page[c] \in cache
     THEN Return(c) /\ UNCHANGED cacheLock
     ELSE /\ cacheLock' = c /\ pc' = [pc EXCEPT ![c] = "list"]
          /\ UNCHANGED clientVars
  /\ UNCHANGED <<published, storeVars, cacheVars, changed, seen, faults>>

ListForBuild(c) ==
  /\ pc[c] = "list"
  /\ Listed(c)
  /\ pc' = [pc EXCEPT ![c] = "build"]
  /\ UNCHANGED <<published, storeVars, cacheVars, changed, cacheLock, clientVars>>

\* After the other reads the listing is synced into the history and the page is cached;
\* when the listing failed, the page is built from the history as it is, and cached too.
Build(c) ==
  /\ pc[c] = "build"
  /\ IF seen[c] = None THEN UNCHANGED storeVars ELSE SyncLatest(seen[c])
  /\ cache' = cache \union {page[c]} /\ shown' = [shown EXCEPT ![page[c]] = seen[c]]
  /\ cacheLock' = "free"
  /\ seen' = [seen EXCEPT ![c] = None]
  /\ Return(c)
  /\ UNCHANGED <<published, changed, faults>>

\* cache_ttl_seconds pass: the entry counts as missing.
Expire(p) ==
  /\ p \in cache
  /\ cache' = cache \ {p} /\ shown' = [shown EXCEPT ![p] = None]
  /\ UNCHANGED <<published, storeVars, changed, cacheLock, pc, clientVars, seen, faults>>

-----------------------------------------------------------------------------
\* The poller.

\* poll_history_once lists the scalers before it takes any lock.
PollList ==
  /\ pc["poller"] = "idle"
  /\ Listed("poller")
  /\ pc' = [pc EXCEPT !["poller"] = IF seen'["poller"] = None THEN "idle" ELSE "sync"]
  /\ UNCHANGED <<published, storeVars, cacheVars, changed, cacheLock, clientVars>>

\* Nothing awaits inside the history lock, so it is never held when a task runs.
PollSync ==
  /\ pc["poller"] = "sync"
  /\ SyncLatest(seen["poller"])
  /\ seen' = [seen EXCEPT !["poller"] = None]
  /\ IF history' = history
     THEN pc' = [pc EXCEPT !["poller"] = "idle"] /\ UNCHANGED changed
     ELSE pc' = [pc EXCEPT !["poller"] = "clear"] /\ changed' = seen["poller"]
  /\ UNCHANGED <<published, cacheVars, cacheLock, clientVars, faults>>

ClearCache ==
  /\ pc["poller"] = "clear"
  /\ cache' = {} /\ shown' = [p \in Pages |-> None]
  /\ pc' = [pc EXCEPT !["poller"] = "idle"]
  /\ UNCHANGED <<published, storeVars, changed, cacheLock, clientVars, seen, faults>>

\* Mutant: the cache is cleared without its lock.
PollClear_Unlocked == ClearCache

\* What changed the history clears the cache, once no snapshot is being built.
PollClear == cacheLock = "free" /\ ClearCache

\* The process is killed and started again: what it held in memory is gone.  Killed while
\* it writes the file in place, it leaves a file that is not JSON, which is read as empty.
Restart ==
  /\ faults < MaxFaults /\ faults' = faults + 1
  /\ \/ UNCHANGED history
     \/ /\ \E c \in Callers : seen[c] # None /\ Synced(seen[c]) # history
        /\ history' = [k \in Kinds |-> <<>>]
  /\ cache' = {} /\ shown' = [p \in Pages |-> None] /\ cacheLock' = "free"
  /\ pc' = [c \in Callers |-> "idle"]
  /\ page' = [c \in Clients |-> None] /\ force' = [c \in Clients |-> FALSE]
  /\ seen' = [c \in Callers |-> None]
  /\ UNCHANGED <<published, overtaken, changed>>

Poll == PollList \/ PollSync \/ PollClear
Snapshot(c) == TakeLock(c) \/ ListForBuild(c) \/ Build(c)

Next ==
  \/ \E k \in Kinds : Publish(k)
  \/ \E c \in Clients : Request(c) \/ Snapshot(c)
  \/ \E p \in Pages : Expire(p)
  \/ Poll
  \/ Restart

Spec == Init /\ [][Next]_vars

\* The poller runs every background_poll_interval_seconds, the calls of Kubernetes return,
\* and a lock that is free again and again is taken in the end: asyncio.Lock is FIFO.
Fairness ==
  /\ WF_vars(PollList) /\ WF_vars(PollSync) /\ SF_vars(PollClear)
  /\ \A c \in Clients : WF_vars(ListForBuild(c) \/ Build(c))

FairSpec == Spec /\ Fairness

-----------------------------------------------------------------------------
\* Properties.

\* Every value the variables take (snapshot_service.py, loop_history_store.py).
TypeOK ==
  /\ published \in Listing
  /\ \A k \in Kinds : history[k] \in Seq(Loops) /\ Len(history[k]) <= Limit
  /\ overtaken \in BOOLEAN
  /\ cache \subseteq Pages /\ shown \in [Pages -> Listing \union {None}] /\ changed \in Listing
  /\ cacheLock \in Clients \union {"free"}
  /\ \A c \in Clients : pc[c] \in {"idle", "lock", "list", "build"}
  /\ pc["poller"] \in {"idle", "sync", "clear"}
  /\ \A c \in Callers : seen[c] \in Listing \union {None}

\* Two neighbours in the history are never of one minute, whoever wrote them and whichever
\* loops were missed or trimmed between.
OnePerMinute ==
  \A k \in Kinds : \A i \in 1..(Len(history[k]) - 1) :
    MinuteBucket(history[k][i]) # MinuteBucket(history[k][i + 1])

\* Unless a listing was applied after a newer one, the history is in order and has no loop
\* twice, over failed listings, restarts and a file lost while it was written.
HistoryOrdered ==
  /\ TypeOK /\ OnePerMinute
  /\ ~overtaken => \A k \in Kinds : \A i, j \in DOMAIN history[k] :
                     i < j => history[k][i] < history[k][j]

\* Once the poller has cleared the cache after a change, no page is cached that was built from
\* an older listing than the one the change came from, though snapshots were being built all
\* the while, from listings made before it (SnapshotService.poll_history_once, get_snapshot).
NoPageOutlivesPoll ==
  pc["poller"] # "clear" =>
    \A p \in cache : shown[p] # None => \A k \in Kinds : shown[p][k] >= changed[k]

\* When the controller stops publishing, its last loop becomes and stays the last entry of
\* the history, in spite of late listings, failures and restarts.
LatestRecorded ==
  <>[](\A k \in Kinds : published[k] # 0 =>
         history[k] # <<>> /\ LastOf(history[k]) = published[k])
=============================================================================
