----------------------------- MODULE ScriptRange -----------------------------
(***************************************************************************)
(* The chart of a script in the showcase: ScriptRangeStore (system-        *)
(* showcase/app/script_range_store.py).  Each call runs in a thread of its *)
(* own.  The first one indexes the file, every Stride-th line, under a     *)
(* lock; then a call seeks to the last indexed line that is not later than *)
(* its start, reads on to its end, fills the seconds without a line, and   *)
(* averages neighbouring seconds when they are more than MaxPoints.        *)
(*                                                                         *)
(* The file is part of the image and does not change; the lines the chart  *)
(* can read are sorted.  Lines are those of ScriptTimeline.  The requests  *)
(* of an answer are counted in hundredths.                                 *)
(*                                                                         *)
(* Names carry Range where LoopHistory, the other part of the backend,     *)
(* has one of its own: ShowcaseProofs extends both.                        *)
(***************************************************************************)
EXTENDS ScriptTimeline, FiniteSets, FiniteSetsExt

CONSTANTS
  Readers,        \* threads that serve calls
  Files,          \* files there may be
  Starts,         \* worldCupStart of a call, or NoTime
  Durations,      \* durationSeconds of a call
  Stride,         \* index_stride
  MaxPoints,      \* max_points
  MaxReadFaults   \* bound: reads of the file that fail

Readable(lines) == {n \in DOMAIN lines : lines[n].shown}

RangeAssumption ==
  /\ \A lines \in Files :
       /\ lines \in Seq(Lines)
       /\ \A i, j \in Readable(lines) : i < j => lines[i].at <= lines[j].at
  /\ Starts \subseteq Nat \cup {NoTime} /\ Durations \subseteq Nat \ {0}
  /\ Stride \in Nat \ {0} /\ MaxPoints \in Nat \ {0} /\ MaxReadFaults \in Nat
ASSUME RangeAssumption

VARIABLES
  file,    \* the lines
  index,   \* _index: line numbers with their timestamps
  ready,   \* _index_ready
  first,   \* _first_timestamp
  final,   \* _last_timestamp
  line,    \* lines the thread that indexes has read
  lock,    \* who holds _index_lock, or "free"
  stage,   \* where each call is
  query,   \* its start and duration
  answer,  \* the last answer given
  readFaults

indexVars == <<index, ready, first, final, line>>
rangeVars == <<file, indexVars, lock, stage, query, answer, readFaults>>

Unavailable == [status |-> "unavailable"]
NoQuery == [start |-> NoTime, duration |-> 0]

RangeInit ==
  /\ file \in Files
  /\ index = <<>> /\ ready = FALSE /\ first = NoTime /\ final = NoTime /\ line = 0
  /\ lock = "free"
  /\ stage = [r \in Readers |-> "idle"] /\ query = [r \in Readers |-> NoQuery]
  /\ answer = Unavailable
  /\ readFaults = 0

-----------------------------------------------------------------------------
\* Mutant: the first indexed line behind the start is taken.
StartingLine_Behind(start) ==
  LET later == {i \in DOMAIN index : index[i].at > start}
  IN IF later = {} THEN 1 ELSE index[Min(later)].line

\* _starting_offset: bisect_right over the timestamps of the index.
StartingLine(start) ==
  LET earlier == {i \in DOMAIN index : index[i].at <= start}
  IN IF earlier = {} THEN 1 ELSE index[Max(earlier)].line

SecondOf(n, start) == (file[n].at - start) \div TicksPerSecond

\* Those of some lines that are the last of their second.
LastOfSecond(lines, start) ==
  {n \in lines : \A k \in lines : k > n => SecondOf(k, start) # SecondOf(n, start)}

\* _slice_filled_series: the lines from there to the first one behind the end; the last of a
\* second counts, and a second without a line has no requests.
Filled(start, duration) ==
  LET end == start + duration * TicksPerSecond
      onward == {n \in Readable(file) : n >= StartingLine(start)}
  IN LastOfSecond({n \in onward : file[n].at >= start
                                  /\ \A k \in onward : k <= n => file[k].at < end}, start)

\* round() of p / q: to the nearest, halves to the even number.
Rounded(p, q) ==
  LET n == p \div q
      twice == 2 * (p % q)
  IN IF twice > q \/ (twice = q /\ n % 2 = 1) THEN n + 1 ELSE n

\* The i-th of MaxPoints buckets of neighbouring seconds.
BucketAt(total, i) ==
  LET from == Rounded((i - 1) * total, MaxPoints)
  IN [from |-> from, to |-> Max({Rounded(i * total, MaxPoints), from + 1})]

\* _downsample_points, for each duration.
Buckets ==
  [total \in Durations |->
     IF total <= MaxPoints THEN [i \in 1..total |-> [from |-> i - 1, to |-> i]]
     ELSE [i \in 1..MaxPoints |-> BucketAt(total, i)]]

\* The requests of some lines in a bucket.
Within(lines, start, bucket) ==
  MapThenSumSet(LAMBDA n : file[n].total,
                {n \in lines : SecondOf(n, start) \in bucket.from..(bucket.to - 1)})

\* The mean over some seconds, rounded to hundredths; the floats decide a tie.
Mean(sum, seconds) ==
  LET low == (100 * sum) \div seconds
  IN CHOOSE h \in {low, low + 1} : 2 * (h * seconds - 100 * sum) \in (-seconds)..seconds

\* The points of a chart; the mean of a second is its own number.
Series(lines, start, buckets) ==
  [i \in DOMAIN buckets |->
     Mean(Within(lines, start, buckets[i]), buckets[i].to - buckets[i].from)]

\* A start outside of the file is moved to its first or last line.
Clamped(start) ==
  IF start = NoTime \/ start < first THEN first ELSE IF start > final THEN final ELSE start

-----------------------------------------------------------------------------
\* get_range: an index that is ready is used without the lock.
Call(r) ==
  /\ stage[r] = "idle"
  /\ \E start \in Starts, duration \in Durations :
       query' = [query EXCEPT ![r] = [start |-> start, duration |-> duration]]
  /\ stage' = [stage EXCEPT ![r] = IF ready THEN "slice" ELSE "lock"]
  /\ UNCHANGED <<file, indexVars, lock, answer, readFaults>>

\* _ensure_index: another call may have made the index meanwhile.
LockIndex(r) ==
  /\ stage[r] = "lock" /\ lock = "free"
  /\ IF ready
     THEN /\ stage' = [stage EXCEPT ![r] = "slice"]
          /\ UNCHANGED <<indexVars, lock>>
     ELSE /\ stage' = [stage EXCEPT ![r] = "index"] /\ lock' = r
          /\ index' = <<>> /\ line' = 0
          /\ UNCHANGED <<ready, first, final>>
  /\ UNCHANGED <<file, query, answer, readFaults>>

IndexLine(r) ==
  /\ stage[r] = "index" /\ line < Len(file)
  /\ line' = line + 1
  /\ LET at == file[line + 1].at
     IN IF ~file[line + 1].shown THEN UNCHANGED <<first, final, index>>
        ELSE /\ first' = IF first = NoTime THEN at ELSE first
             /\ final' = at
             /\ index' = IF line % Stride = 0 THEN Append(index, [at |-> at, line |-> line + 1])
                         ELSE index
  /\ UNCHANGED <<file, ready, lock, stage, query, answer, readFaults>>

IndexReady(r) ==
  /\ stage[r] = "index" /\ line = Len(file)
  /\ ready' = TRUE /\ lock' = "free"
  /\ stage' = [stage EXCEPT ![r] = "slice"]
  /\ UNCHANGED <<file, index, first, final, line, query, answer, readFaults>>

\* The file cannot be read: the call ends with an error, whatever it had indexed stays.
ReadFails(r) ==
  /\ stage[r] \in {"index", "slice"} /\ readFaults < MaxReadFaults
  /\ readFaults' = readFaults + 1
  /\ lock' = IF stage[r] = "index" THEN "free" ELSE lock
  /\ stage' = [stage EXCEPT ![r] = "idle"] /\ query' = [query EXCEPT ![r] = NoQuery]
  /\ UNCHANGED <<file, indexVars, answer>>

Slice(r) ==
  /\ stage[r] = "slice"
  /\ LET start == Clamped(query[r].start)
         points == Filled(start, query[r].duration)
     IN answer' = IF first = NoTime THEN Unavailable
                  ELSE [status |-> "available", start |-> start, duration |-> query[r].duration,
                        series |-> Series(points, start, Buckets[query[r].duration])]
  /\ stage' = [stage EXCEPT ![r] = "idle"] /\ query' = [query EXCEPT ![r] = NoQuery]
  /\ UNCHANGED <<file, indexVars, lock, readFaults>>

Serve(r) == LockIndex(r) \/ IndexLine(r) \/ IndexReady(r) \/ Slice(r)

RangeNext == \E r \in Readers : Call(r) \/ Serve(r) \/ ReadFails(r)

RangeSpec == RangeInit /\ [][RangeNext]_rangeVars

-----------------------------------------------------------------------------
\* Properties.

\* Every value the variables take (ScriptRangeStore).
RangeTypeOK ==
  /\ file \in Seq(Lines)
  /\ index \in Seq([at : Nat, line : Nat]) /\ ready \in BOOLEAN
  /\ first \in Nat \cup {NoTime} /\ final \in Nat \cup {NoTime} /\ line \in 0..Len(file)
  /\ lock \in Readers \cup {"free"}
  /\ stage \in [Readers -> {"idle", "lock", "index", "slice"}]
  /\ query \in [Readers -> [start : Starts \cup {NoTime}, duration : Durations \cup {0}]]
  /\ answer.status \in {"available", "unavailable"}
  /\ readFaults \in 0..MaxReadFaults

Answers == {a \in {answer} : a.status = "available"}

\* What a chart shows is what a scan of the whole file finds: for each second its last
\* readable line, wherever the index lets the reading begin, whoever built it and however
\* often that failed before.  Averaging loses no second and counts none twice: its buckets
\* follow each other from the first second of the range to the last, a second each or more.
SeriesIsTheFile ==
  /\ RangeTypeOK
  /\ \A a \in Answers :
       LET found == LastOfSecond({n \in Readable(file) : file[n].at >= a.start}, a.start)
           buckets == Buckets[a.duration]
           n == Len(a.series)
       IN /\ n = Min({a.duration, MaxPoints})
          /\ a.series = Series(found, a.start, buckets)
          /\ buckets[1].from = 0 /\ buckets[n].to = a.duration
          /\ \A i \in 1..n : buckets[i].from < buckets[i].to
          /\ \A i \in 1..(n - 1) : buckets[i].to = buckets[i + 1].from

\* The chart and the load agree, when the chart and the generator are given one content: the
\* chart's file is scaled-aggregated-1s.csv of its image (settings.py), the one that is
\* replayed is mounted on its own (work-load.md).  Of lines of whole seconds that the generator
\* accepts, that the chart can read, and whose column of all requests is the sum of the
\* classes, the requests shown for the seconds of a point are the mean of those LoadSender
\* sends in them, the start of the file being its second 0.
ChartIsTheLoad ==
  LET loaded == Timeline(file)
      agree == \A n \in DOMAIN file :
                 file[n].shown /\ file[n].total = file[n].sent /\ file[n].at % TicksPerSecond = 0
  IN loaded.ok /\ agree =>
       \A a \in {b \in Answers : b.start % TicksPerSecond = 0} :
         \A i \in DOMAIN a.series :
           LET zero == (a.start - file[1].at) \div TicksPerSecond + 1
               bucket == Buckets[a.duration][i]
               seconds == {s \in DOMAIN loaded.points : s - zero \in bucket.from..(bucket.to - 1)}
           IN a.series[i] = Mean(MapThenSumSet(LAMBDA s : loaded.points[s].requests, seconds),
                                 bucket.to - bucket.from)

\* A file with two lines of one second is rejected by the generator.
DuplicateSecondsRejected ==
  Timeline(file).ok =>
    \A i, j \in DOMAIN file :
      i # j => file[i].at \div TicksPerSecond # file[j].at \div TicksPerSecond
=============================================================================
