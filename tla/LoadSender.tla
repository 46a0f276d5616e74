----------------------------- MODULE LoadSender -----------------------------
(***************************************************************************)
(* One load generator process: LoadSender in custom-load-generator/        *)
(* load_sender.py.  It replays a script second by second, open loop: each  *)
(* request takes one of MaxInflight tokens, waits in a bounded FIFO        *)
(* backlog, or is dropped.  Four tasks share one event loop: the dispatch  *)
(* loop, the backlog loop, the progress loop and one task per request in   *)
(* flight.  An action is what a task does between two awaits, so it takes  *)
(* no time; time passes between actions, for as long as the loop is late.  *)
(*                                                                         *)
(* Requests of one second are alike except for their index, a backlog item *)
(* is the tick it was queued at, and a report row is kept as its counts.   *)
(***************************************************************************)
EXTENDS Integers, Sequences, FiniteSets

CONSTANTS
  Script,            \* requests of each second of the script
  MaxInflight,       \* MAX_INFLIGHT
  BacklogCapacity,   \* BACKLOG_CAPACITY, 0 for no backlog
  BacklogMaxAge,     \* BACKLOG_MAX_AGE_SECONDS, in ticks
  DispatchMode,      \* SCRIPT_DISPATCH_MODE
  WorkerIndex,       \* WORKER_INDEX, 0 when the process is the only one
  WorkerCount,       \* WORKER_COUNT
  ProgressInterval,  \* PROGRESS_LOG_INTERVAL_SEC, in ticks
  Outcomes,          \* how a request may end
  FlushInterval,     \* REQUEST_LOG_FLUSH_INTERVAL_SEC, in ticks
  TicksPerSecond,    \* granularity of the clock
  MaxTime            \* bound: the last tick

\* What load_runtime_config lets through, and a script with at least a row.
ConfigAssumption ==
  /\ Script \in Seq(Nat) /\ Script # <<>>
  /\ MaxInflight \in Nat \ {0}
  /\ BacklogCapacity \in Nat
  /\ BacklogMaxAge \in Nat \ {0}
  /\ DispatchMode \in {"spread", "burst"}
  /\ WorkerCount \in Nat \ {0} /\ WorkerIndex \in 0..(WorkerCount - 1)
  /\ ProgressInterval \in Nat \ {0}
  /\ FlushInterval \in Nat \ {0}
  /\ Outcomes \subseteq {"completed", "failed", "timed_out"}
  /\ TicksPerSecond \in Nat \ {0}
  /\ MaxTime \in Nat
ASSUME ConfigAssumption

VARIABLES
  now,         \* the clock, wall and monotonic
  start,       \* tick of second 0 at which the run started
  pc,          \* where the dispatch loop is
  second,      \* script second it waits for or dispatches
  offset,      \* next request of that second
  stop,        \* stop_requested
  free,        \* tokens in token_queue
  inflight,    \* running request tasks
  backlog,     \* backlog_queue, oldest first
  backlogPc,   \* where the backlog loop waits
  progressAt,  \* when the progress loop wakes, Never when it has ended
  lastFlush,   \* _last_flush_monotonic
  total,       \* the counters of the run
  stats,       \* statistics_writer
  requests     \* report_writer

timeVars == <<now, start>>
dispatchVars == <<pc, second, offset, stop, lastFlush>>
poolVars == <<free, inflight, backlog>>
vars == <<timeVars, dispatchVars, poolVars, backlogPc, progressAt, total, stats, requests>>

Never == -1
Columns == {"planned", "scheduled", "enqueued", "started", "started_immediate",
            "started_from_backlog", "completed", "failed", "timed_out",
            "dropped_capacity", "dropped_backlog_full", "backlog_expired"}
Zero == [c \in Columns |-> 0]
Seconds == 0..(MaxTime \div TicksPerSecond)

Least(a, b) == IF a < b THEN a ELSE b
Most(a, b) == IF a > b THEN a ELSE b

\* Counts with the fields of inc added.
Plus(counts, inc) ==
  [c \in Columns |-> IF c \in DOMAIN inc THEN counts[c] + inc[c] ELSE counts[c]]

-----------------------------------------------------------------------------
\* The script and the shard of this process.

Base[i \in 0..Len(Script)] == IF i = 0 THEN 0 ELSE Base[i - 1] + Script[i]

ShouldHandle(g) == g % WorkerCount = WorkerIndex

\* Requests from..to-1 of second i that belong to this process.
Assigned(i, from, to) ==
  Cardinality({j \in from..(to - 1) : ShouldHandle(Base[i] + j)})

SecondDue(i) == now >= start + i * TicksPerSecond

\* The requests of second i whose moment has come are those below Due.
Due(i) ==
  LET n == Script[i + 1]
      elapsed == now - start - i * TicksPerSecond
  IN IF DispatchMode = "burst" \/ n <= 1 THEN n
     ELSE Cardinality({j \in 0..(n - 1) : j * TicksPerSecond <= elapsed * n})

-----------------------------------------------------------------------------
\* The reports.  stats.pending are the rows still in memory, stats.rows the
\* rows in the file, one per second from second 0 of the wall clock on.

Bucket == now \div TicksPerSecond

Recorded(s, bucket, inc) ==
  [s EXCEPT !.pending[bucket] = Plus(@, inc), !.latest = Most(@, bucket)]

Flushed(s, final) ==
  LET closed == IF final THEN s.latest ELSE Bucket - 1
      open == Len(s.rows)
  IN IF closed < open THEN s
     ELSE [s EXCEPT
            !.rows = @ \o [i \in 1..(closed + 1 - open) |-> s.pending[open + i - 1]],
            !.pending = [b \in Seconds |-> IF b \in open..closed THEN Zero ELSE @[b]]]

RecordedRequests(r, n) == [r EXCEPT !.counts[Bucket] = @ + n]

FlushedRequests(r, final) ==
  [r EXCEPT !.written =
     [b \in Seconds |-> IF @[b] = 0 /\ (final \/ b < Bucket) THEN r.counts[b] ELSE @[b]]]

-----------------------------------------------------------------------------
Init ==
  /\ start \in 0..(TicksPerSecond - 1) /\ now = start
  /\ pc = "waiting" /\ second = 0 /\ offset = 0 /\ stop = FALSE
  /\ free = MaxInflight /\ inflight = 0 /\ backlog = <<>>
  /\ backlogPc = "event"
  /\ progressAt = start + ProgressInterval
  /\ lastFlush = -FlushInterval
  /\ total = Zero
  /\ stats = [pending |-> [b \in Seconds |-> Zero], rows |-> <<>>, latest |-> Never]
  /\ requests = [counts |-> [b \in Seconds |-> 0], written |-> [b \in Seconds |-> 0]]

\* The dispatch loop keeps the event loop while the next second is overdue.
Yielded == pc # "late"

\* Mutant: the last place of the backlog is not used.
Launch_RoomOffByOne(n) ==
  LET immediate == Least(n, free)
      queued == Least(n - immediate, Most(BacklogCapacity - 1 - Len(backlog), 0))
      dropped == n - immediate - queued
  IN [scheduled |-> n, enqueued |-> queued, started |-> immediate,
      started_immediate |-> immediate, dropped_capacity |-> dropped,
      dropped_backlog_full |-> dropped]

\* _launch_or_backlog for n requests at once: a token, else the backlog, else dropped.
Launch(n) ==
  LET immediate == Least(n, free)
      queued == Least(n - immediate, BacklogCapacity - Len(backlog))
      dropped == n - immediate - queued
  IN [scheduled |-> n, enqueued |-> queued, started |-> immediate,
      started_immediate |-> immediate, dropped_capacity |-> dropped,
      dropped_backlog_full |-> IF BacklogCapacity > 0 THEN dropped ELSE 0]

\* The requests of the second below to are sent, sent being their counts; after the last one
\* the reports are flushed if that is due, and the loop goes on to the next second or ends.
Dispatch(to, sent, s) ==
  LET ends == to = Script[second + 1]
      flush == ends /\ to > 0 /\ now - lastFlush >= FlushInterval
      recorded == IF sent.scheduled = 0 THEN s ELSE Recorded(s, Bucket, sent)
      reported == RecordedRequests(requests, sent.started)
  IN /\ free' = free - sent.started /\ inflight' = inflight + sent.started
     /\ backlog' = backlog \o [i \in 1..sent.enqueued |-> now]
     /\ stats' = IF flush THEN Flushed(recorded, FALSE) ELSE recorded
     /\ requests' = IF flush THEN FlushedRequests(reported, FALSE) ELSE reported
     /\ lastFlush' = IF flush THEN now ELSE lastFlush
     /\ second' = IF ends THEN second + 1 ELSE second
     /\ offset' = IF ends THEN 0 ELSE to
     /\ pc' = IF ~ends THEN "spreading"
              ELSE IF stop \/ second + 1 = Len(Script) THEN "draining"
              ELSE IF SecondDue(second + 1) THEN "late" ELSE "waiting"
     /\ progressAt' = IF pc' = "draining" THEN Never ELSE progressAt
     /\ UNCHANGED <<timeVars, stop, backlogPc>>

\* The second is due: its planned count goes to its own wall-clock second, then its
\* first requests are sent.
DispatchSecond ==
  /\ pc \in {"waiting", "late"}
  /\ SecondDue(second)
  /\ \E planned \in {Assigned(second, 0, Script[second + 1])},
        sent \in {Launch(Assigned(second, 0, Due(second)))} :
       /\ Dispatch(Due(second), sent, Recorded(stats, second, [planned |-> planned]))
       /\ total' = Plus(Plus(total, [planned |-> planned]), sent)

\* Spread mode: the sleep before the next request of the second is over.
DispatchMore ==
  /\ pc = "spreading"
  /\ Due(second) > offset
  /\ \E sent \in {Launch(Assigned(second, offset, Due(second)))} :
       /\ Dispatch(Due(second), sent, stats)
       /\ total' = Plus(total, sent)

Expired(queuedAt) == now - queuedAt > BacklogMaxAge

\* Mutant: an item is not looked at again after the wait for a token.
BacklogLoop_ExpiryBeforeToken ==
  /\ Yielded
  /\ \/ backlogPc = "event" /\ (backlog # <<>> \/ pc = "draining")
     \/ backlogPc = "token" /\ free > 0
  /\ \E expired \in 0..Len(backlog) :
       /\ backlogPc = "token" => expired = 0
       /\ \A i \in 1..expired : Expired(backlog[i])
       /\ backlogPc = "event" /\ expired < Len(backlog) => ~Expired(backlog[expired + 1])
       /\ LET begun == Least(free, Len(backlog) - expired)
              inc == [dropped_capacity |-> expired, backlog_expired |-> expired,
                      started |-> begun, started_from_backlog |-> begun]
          IN /\ backlog' = SubSeq(backlog, expired + begun + 1, Len(backlog))
             /\ free' = free - begun /\ inflight' = inflight + begun
             /\ total' = Plus(total, inc)
             /\ stats' = IF backlog' = backlog THEN stats ELSE Recorded(stats, Bucket, inc)
             /\ requests' = RecordedRequests(requests, begun)
  /\ backlogPc' = IF backlog' # <<>> THEN "token"
                  ELSE IF pc = "draining" THEN "done" ELSE "event"
  /\ UNCHANGED <<timeVars, dispatchVars, progressAt>>

\* Mutant: the end of the dispatch loop does not wake it.
BacklogLoop_NoWakeUp ==
  /\ Yielded
  /\ \/ backlogPc = "event" /\ backlog # <<>>
     \/ backlogPc = "token" /\ free > 0
  /\ \E expired \in 0..Len(backlog) :
       /\ \A i \in 1..expired : Expired(backlog[i])
       /\ expired < Len(backlog) => ~Expired(backlog[expired + 1])
       /\ LET begun == Least(free, Len(backlog) - expired)
              inc == [dropped_capacity |-> expired, backlog_expired |-> expired,
                      started |-> begun, started_from_backlog |-> begun]
          IN /\ backlog' = SubSeq(backlog, expired + begun + 1, Len(backlog))
             /\ free' = free - begun /\ inflight' = inflight + begun
             /\ total' = Plus(total, inc)
             /\ stats' = IF backlog' = backlog THEN stats ELSE Recorded(stats, Bucket, inc)
             /\ requests' = RecordedRequests(requests, begun)
  /\ backlogPc' = IF backlog' # <<>> THEN "token"
                  ELSE IF pc = "draining" THEN "done" ELSE "event"
  /\ UNCHANGED <<timeVars, dispatchVars, progressAt>>

\* The backlog loop runs until it waits again: it drops the expired items at the head
\* (items are in order of age), starts what it has tokens for, then waits for a token,
\* or for an item, or ends.
BacklogLoop ==
  /\ Yielded
  /\ \/ backlogPc = "event" /\ (backlog # <<>> \/ pc = "draining")
     \/ backlogPc = "token" /\ free > 0
  /\ \E expired \in 0..Len(backlog) :
       /\ \A i \in 1..expired : Expired(backlog[i])
       /\ expired < Len(backlog) => ~Expired(backlog[expired + 1])
       /\ LET begun == Least(free, Len(backlog) - expired)
              inc == [dropped_capacity |-> expired, backlog_expired |-> expired,
                      started |-> begun, started_from_backlog |-> begun]
          IN /\ backlog' = SubSeq(backlog, expired + begun + 1, Len(backlog))
             /\ free' = free - begun /\ inflight' = inflight + begun
             /\ total' = Plus(total, inc)
             /\ stats' = IF backlog' = backlog THEN stats ELSE Recorded(stats, Bucket, inc)
             /\ requests' = RecordedRequests(requests, begun)
  /\ backlogPc' = IF backlog' # <<>> THEN "token"
                  ELSE IF pc = "draining" THEN "done" ELSE "event"
  /\ UNCHANGED <<timeVars, dispatchVars, progressAt>>

\* Mutant: a timed out request keeps its token.
ExecuteRequest_TokenLost(outcome) ==
  /\ Yielded
  /\ inflight > 0
  /\ inflight' = inflight - 1 /\ free' = free + (IF outcome = "timed_out" THEN 0 ELSE 1)
  /\ LET inc == [c \in {outcome} |-> 1]
     IN /\ total' = Plus(total, inc)
        /\ stats' = Recorded(stats, Bucket, inc)
  /\ UNCHANGED <<timeVars, dispatchVars, backlog, backlogPc, progressAt, requests>>

\* A request ends with a status below 400, with another status or an error, or by its
\* timeout; its token returns in every case.
ExecuteRequest(outcome) ==
  /\ Yielded
  /\ inflight > 0
  /\ inflight' = inflight - 1 /\ free' = free + 1
  /\ LET inc == [c \in {outcome} |-> 1]
     IN /\ total' = Plus(total, inc)
        /\ stats' = Recorded(stats, Bucket, inc)
  /\ UNCHANGED <<timeVars, dispatchVars, backlog, backlogPc, progressAt, requests>>

\* The progress loop flushes the closed seconds and sleeps again, unless a stop was
\* requested.
ProgressLoop ==
  /\ Yielded
  /\ progressAt # Never /\ now >= progressAt
  /\ stats' = Flushed(stats, FALSE)
  /\ requests' = FlushedRequests(requests, FALSE)
  /\ progressAt' = IF stop THEN Never ELSE now + ProgressInterval
  /\ UNCHANGED <<timeVars, dispatchVars, poolVars, backlogPc, total>>

\* SIGINT or SIGTERM: seen by the dispatch loop after the second it is in.
RequestStop ==
  /\ pc \in {"waiting", "spreading"}
  /\ ~stop /\ stop' = TRUE
  /\ UNCHANGED <<timeVars, pc, second, offset, lastFlush, poolVars, backlogPc, progressAt,
                 total, stats, requests>>

\* Mutant: the last flush is one like the others.
Finish_OpenSecondKept ==
  /\ pc = "draining" /\ backlogPc = "done" /\ inflight = 0
  /\ pc' = "finished"
  /\ stats' = Flushed(stats, FALSE)
  /\ requests' = FlushedRequests(requests, FALSE)
  /\ UNCHANGED <<timeVars, second, offset, stop, lastFlush, poolVars, backlogPc, progressAt,
                 total>>

\* After the backlog loop and then the requests have ended, everything is written.
Finish ==
  /\ pc = "draining" /\ backlogPc = "done" /\ inflight = 0
  /\ pc' = "finished"
  /\ stats' = Flushed(stats, TRUE)
  /\ requests' = FlushedRequests(requests, TRUE)
  /\ UNCHANGED <<timeVars, second, offset, stop, lastFlush, poolVars, backlogPc, progressAt,
                 total>>

\* Time passes while no task runs, or while those that could are late.
Tick ==
  /\ Yielded /\ pc # "finished"
  /\ now < MaxTime /\ now' = now + 1
  /\ UNCHANGED <<start, dispatchVars, poolVars, backlogPc, progressAt, total, stats, requests>>

\* A task of the event loop that is ready to run.
LoopStep ==
  \/ DispatchSecond \/ DispatchMore
  \/ BacklogLoop
  \/ \E outcome \in Outcomes : ExecuteRequest(outcome)
  \/ Finish

Next == LoopStep \/ ProgressLoop \/ RequestStop \/ Tick

\* The event loop runs what is ready, the clock moves, and asyncio.timeout makes every
\* request end.
Fairness == WF_vars(LoopStep) /\ WF_vars(Tick)

Spec == Init /\ [][Next]_vars
FairSpec == Spec /\ Fairness

-----------------------------------------------------------------------------
\* Properties.

\* Every value the variables take (all of load_sender.py LoadSender).
TypeOK ==
  /\ now \in Nat /\ start \in 0..(TicksPerSecond - 1)
  /\ pc \in {"waiting", "late", "spreading", "draining", "finished"}
  /\ second \in 0..Len(Script) /\ offset \in Nat /\ stop \in BOOLEAN
  /\ free \in 0..MaxInflight /\ inflight \in 0..MaxInflight
  /\ backlog \in Seq(Nat)
  /\ backlogPc \in {"event", "token", "done"}
  /\ progressAt \in Int /\ lastFlush \in Int
  /\ total \in [Columns -> Nat]

\* Every request that reached its moment is in exactly one place: dropped, expired, in the
\* backlog, in flight or ended; and every token is in the queue or held by a request.  Four
\* tasks move requests and tokens between the places.
RequestsAccounted ==
  /\ TypeOK
  /\ free + inflight = MaxInflight
  /\ Len(backlog) <= BacklogCapacity
  /\ total["scheduled"] = total["started_immediate"] + total["enqueued"]
                            + (total["dropped_capacity"] - total["backlog_expired"])
  /\ total["enqueued"] = total["started_from_backlog"] + total["backlog_expired"] + Len(backlog)
  /\ total["started"] = total["started_immediate"] + total["started_from_backlog"]
  /\ total["started"] = total["completed"] + total["failed"] + total["timed_out"] + inflight

\* The sum of column c over the rows in the file and in memory.
SumRows(rows, c) ==
  LET sum[i \in 0..Len(rows)] == IF i = 0 THEN 0 ELSE sum[i - 1] + rows[i][c]
  IN sum[Len(rows)]
PendingRows == [i \in 1..Cardinality(Seconds) |-> stats.pending[i - 1]]

\* No count but a planned one is recorded for a second whose row is already in the file, where
\* it would never be written, whatever flushes in between.  The planned counts are recorded for
\* the second of the script, which may be written when the dispatch loop comes to it late.
StatisticsAddUp ==
  \A c \in Columns \ {"planned"} :
    /\ SumRows(stats.rows, c) + SumRows(PendingRows, c) = total[c]
    /\ \A b \in 0..(Len(stats.rows) - 1) : stats.pending[b][c] = 0

\* At the end nothing is left behind by a task that ended before another, no request in the
\* backlog or in flight, no second of the script but after a stop; and the reports tell the
\* run: the statistics file has every count of every column but the planned one, and the
\* request report every started request, once.  Planned counts can be missing from the file:
\* those of a second that was dispatched when its row was already written, and those of a
\* second behind the last row of a run that was stopped (PlannedReported).
ReportsComplete ==
  /\ StatisticsAddUp
  /\ pc = "finished" =>
       /\ backlog = <<>> /\ inflight = 0 /\ free = MaxInflight
       /\ total["scheduled"] = total["planned"]
       /\ ~stop => second = Len(Script)
       /\ \A c \in Columns \ {"planned"} : SumRows(stats.rows, c) = total[c]
       /\ requests.written = requests.counts
       /\ \A b \in Seconds :
            requests.counts[b] = IF b < Len(stats.rows) THEN stats.rows[b + 1]["started"] ELSE 0

\* The statistics file also has every planned count.  It does not hold, see above.
PlannedReported ==
  pc = "finished" => SumRows(stats.rows, "planned") = total["planned"]

\* What the pool of tokens and the backlog promise: BoundedService, without a close.
Service == INSTANCE BoundedService WITH
  Slots <- MaxInflight, Room <- BacklogCapacity,
  arrived <- total["scheduled"], waiting <- Len(backlog), running <- inflight,
  refused <- total["dropped_capacity"] - total["backlog_expired"],
  givenUp <- total["backlog_expired"],
  settled <- total["completed"] + total["failed"] + total["timed_out"], closed <- FALSE
ServiceSpec == Service!Spec

\* A request is never started from the backlog past BACKLOG_MAX_AGE_SECONDS, however long
\* the loop waited for the token.
StartsAreFresh ==
  [][LET begun == total'["started_from_backlog"] - total["started_from_backlog"]
         gone == Len(backlog) - Len(backlog')
     IN begun > 0 => \A i \in (gone - begun + 1)..gone : ~Expired(backlog[i])]_vars

\* Each run ends, with or without a stop, also when every request times out.
Terminates == <>(pc = "finished")
=============================================================================
