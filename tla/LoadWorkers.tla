---------------------------- MODULE LoadWorkers -----------------------------
(***************************************************************************)
(* The load generator with WORKER_COUNT > 1: a parent process that starts  *)
(* one LoadSender process per worker (_run_multi_worker of load_sender.py),*)
(* merges their report files while they run and once more when all have    *)
(* exited, and removes the files.  LoadSender says what one worker does;   *)
(* here it is one that reports the requests of its shard, in any number of *)
(* flushes, or dies at any point.                                          *)
(*                                                                         *)
(* A report is the set of requests it counts.  A row that is only half in  *)
(* the file when the parent reads it counts fewer requests, or none.  The  *)
(* three reports of a worker are merged in the same way, one after the     *)
(* other; the module follows one of them.                                  *)
(***************************************************************************)
EXTENDS Integers, FiniteSets

CONSTANTS
  WorkerCount,  \* WORKER_COUNT
  Requests      \* global indices of the requests of the script, 0..n-1

WorkersAssumption ==
  /\ WorkerCount \in Nat \ {0, 1}
  /\ IsFiniteSet(Requests) /\ Requests = 0..(Cardinality(Requests) - 1)
ASSUME WorkersAssumption

Workers == 0..(WorkerCount - 1)
None == -1

VARIABLES
  process,  \* each worker process
  recorded, \* requests it has recorded and not yet written
  writing,  \* requests of the rows it is writing
  file,     \* requests in its report file
  old,      \* requests in it that an earlier, killed run left there
  exists,   \* the file exists
  parent,   \* where the parent is
  next,     \* the next worker it starts, or whose file it reads
  sum,      \* the merge in progress
  output,   \* the merged report, its counts of this run and those of an earlier one
  torn,     \* it was truncated, and the merge is not yet all in it
  merged,   \* the last merge that was written to its end (history)
  code      \* the exit code

workerVars == <<process, recorded, writing, file, old, exists>>
reportVars == <<output, torn, merged>>
vars == <<workerVars, parent, next, sum, reportVars, code>>

Runs == {"this", "old"}
Reports == [Runs -> [Requests -> Nat]]
Nothing == [run \in Runs |-> [r \in Requests |-> 0]]
Merged(counts, rows) ==
  [run \in Runs |-> [r \in Requests |-> counts[run][r] + (IF r \in rows[run] THEN 1 ELSE 0)]]

\* Mutant: the last request of the script is in two shards.
Shard_Overlapping(w) == {r \in Requests : r % WorkerCount = w \/ r = WorkerCount}

\* _should_handle: the shard of a worker.
Shard(w) == {r \in Requests : r % WorkerCount = w}

Init ==
  /\ process = [w \in Workers |-> "none"]
  /\ recorded = [w \in Workers |-> {}] /\ writing = [w \in Workers |-> {}]
  /\ file = [w \in Workers |-> {}]
  /\ exists \in [Workers -> BOOLEAN]
  /\ old \in [Workers -> SUBSET Requests]
  /\ \A w \in Workers : ~exists[w] => old[w] = {}
  /\ parent = "start" /\ next = 0
  /\ sum = Nothing /\ output = Nothing /\ torn = FALSE /\ merged = Nothing /\ code = None

-----------------------------------------------------------------------------
\* A worker process.

\* Mutant: a worker that died has not exited.
Exited_OnlySuccess(w) == process[w] = "succeeded"

Exited(w) == process[w] \in {"succeeded", "stopped", "died"}

\* The report writers are reset: whatever the file had is gone.
Reset(w) ==
  /\ process[w] = "started"
  /\ process' = [process EXCEPT ![w] = "running"]
  /\ exists' = [exists EXCEPT ![w] = TRUE]
  /\ old' = [old EXCEPT ![w] = {}]
  /\ UNCHANGED <<recorded, writing, file, parent, next, sum, reportVars, code>>

Record(w) ==
  /\ process[w] = "running"
  /\ \E r \in Shard(w) \ (recorded[w] \cup writing[w] \cup file[w]) :
       recorded' = [recorded EXCEPT ![w] = @ \cup {r}]
  /\ UNCHANGED <<process, writing, file, old, exists, parent, next, sum, reportVars, code>>

\* flush_closed: some rows, those of the closed seconds, are appended to the file.
Flush(w) ==
  /\ process[w] = "running" /\ writing[w] = {}
  /\ \E rs \in SUBSET recorded[w] \ {{}} :
       /\ writing' = [writing EXCEPT ![w] = rs]
       /\ recorded' = [recorded EXCEPT ![w] = @ \ rs]
  /\ UNCHANGED <<process, file, old, exists, parent, next, sum, reportVars, code>>

\* They reach the file in pieces.
Append(w) ==
  /\ process[w] = "running"
  /\ \E rs \in SUBSET writing[w] \ {{}} :
       /\ file' = [file EXCEPT ![w] = @ \cup rs]
       /\ writing' = [writing EXCEPT ![w] = @ \ rs]
  /\ UNCHANGED <<process, recorded, old, exists, parent, next, sum, reportVars, code>>

\* The run of the worker is over and everything is flushed.
Succeed(w) ==
  /\ process[w] = "running" /\ file[w] = Shard(w)
  /\ process' = [process EXCEPT ![w] = "succeeded"]
  /\ UNCHANGED <<recorded, writing, file, old, exists, parent, next, sum, reportVars, code>>

\* A stop signal of its own ends it early, with the exit code of success and all it recorded
\* written.
Stop(w) ==
  /\ process[w] = "running" /\ recorded[w] = {} /\ writing[w] = {}
  /\ process' = [process EXCEPT ![w] = "stopped"]
  /\ UNCHANGED <<recorded, writing, file, old, exists, parent, next, sum, reportVars, code>>

\* It dies, before the reset too, or between two pieces of what it writes.
Die(w) ==
  /\ process[w] \in {"started", "running"}
  /\ process' = [process EXCEPT ![w] = "died"]
  /\ writing' = [writing EXCEPT ![w] = {}]
  /\ recorded' = [recorded EXCEPT ![w] = {}]
  /\ UNCHANGED <<file, old, exists, parent, next, sum, reportVars, code>>

-----------------------------------------------------------------------------
\* The parent.

StartWorker ==
  /\ parent = "start"
  /\ process' = [process EXCEPT ![next] = "started"]
  /\ IF next + 1 \in Workers THEN next' = next + 1 /\ parent' = parent
     ELSE next' = 0 /\ parent' = "poll"
  /\ UNCHANGED <<recorded, writing, file, old, exists, sum, reportVars, code>>

\* Mutant: one worker that has exited is enough.
Poll_AnyExited ==
  /\ parent = "poll"
  /\ parent' = IF \E w \in Workers : Exited(w) THEN "final" ELSE "live"
  /\ UNCHANGED <<workerVars, next, sum, reportVars, code>>

\* Either every worker has exited, or the parent sleeps and merges what there is.
Poll ==
  /\ parent = "poll"
  /\ parent' = IF \A w \in Workers : Exited(w) THEN "final" ELSE "live"
  /\ UNCHANGED <<workerVars, next, sum, reportVars, code>>

\* Mutant: the file of a worker that died is skipped.
ReadReport_DeadSkipped ==
  /\ parent \in {"live", "final"} /\ next \in Workers
  /\ sum' = IF exists[next] /\ process[next] # "died"
            THEN Merged(sum, [this |-> file[next], old |-> old[next]]) ELSE sum
  /\ next' = next + 1
  /\ UNCHANGED <<workerVars, parent, reportVars, code>>

\* The report files are read one after the other, a missing one is skipped.
ReadReport ==
  /\ parent \in {"live", "final"} /\ next \in Workers
  /\ sum' = IF exists[next] THEN Merged(sum, [this |-> file[next], old |-> old[next]])
            ELSE sum
  /\ next' = next + 1
  /\ UNCHANGED <<workerVars, parent, reportVars, code>>

\* open("w"): the report is emptied before the first row of the merge is in it.
OpenMerged ==
  /\ parent \in {"live", "final"} /\ next = WorkerCount /\ ~torn
  /\ output' = Nothing /\ torn' = TRUE
  /\ UNCHANGED <<workerVars, parent, next, sum, merged, code>>

\* The rows reach it in pieces.
WriteMerged ==
  /\ parent \in {"live", "final"} /\ torn
  /\ \E rs \in SUBSET Requests :
       output' = [run \in Runs |->
                    [r \in Requests |-> IF r \in rs THEN sum[run][r] ELSE output[run][r]]]
  /\ output' # output
  /\ UNCHANGED <<workerVars, parent, next, sum, torn, merged, code>>

CloseMerged ==
  /\ parent \in {"live", "final"} /\ torn /\ output = sum
  /\ torn' = FALSE /\ merged' = output
  /\ sum' = Nothing /\ next' = 0
  /\ parent' = IF parent = "live" THEN "poll" ELSE "unlink"
  /\ UNCHANGED <<workerVars, output, code>>

\* The files are removed, then the exit codes decide; every worker has exited.
Unlink ==
  /\ parent = "unlink"
  /\ exists' = [w \in Workers |-> FALSE]
  /\ file' = [w \in Workers |-> {}] /\ old' = [w \in Workers |-> {}]
  /\ parent' = "exited"
  /\ code' = IF \A w \in Workers : process[w] # "died" THEN 0 ELSE 1
  /\ UNCHANGED <<process, recorded, writing, next, sum, reportVars>>

\* main: SIGINT, or an exception of a read, a write or a start of a process, ends the parent
\* wherever it is, a report it was writing included; the files and the workers stay.
Leave(exitCode) ==
  /\ parent # "exited"
  /\ parent' = "exited" /\ code' = exitCode
  /\ sum' = Nothing /\ next' = 0
  /\ UNCHANGED <<workerVars, reportVars>>

Interrupt == Leave(130)
Fail == Leave(1)

ParentStep ==
  \/ StartWorker \/ Poll \/ ReadReport
  \/ OpenMerged \/ WriteMerged \/ CloseMerged \/ Unlink
WorkerStep(w) ==
  Reset(w) \/ Record(w) \/ Flush(w) \/ Append(w) \/ Succeed(w)

Next ==
  \/ ParentStep \/ Interrupt \/ Fail
  \/ \E w \in Workers : WorkerStep(w) \/ Stop(w) \/ Die(w)

Spec == Init /\ [][Next]_vars
FairSpec == Spec /\ WF_vars(ParentStep) /\ \A w \in Workers : WF_vars(WorkerStep(w))

-----------------------------------------------------------------------------
\* Properties.

\* Every value the variables take (_run_multi_worker and its workers).
TypeOK ==
  /\ process \in [Workers -> {"none", "started", "running", "succeeded", "stopped", "died"}]
  /\ recorded \in [Workers -> SUBSET Requests]
  /\ writing \in [Workers -> SUBSET Requests]
  /\ file \in [Workers -> SUBSET Requests]
  /\ old \in [Workers -> SUBSET Requests]
  /\ exists \in [Workers -> BOOLEAN]
  /\ parent \in {"start", "poll", "live", "final", "unlink", "exited"}
  /\ next \in 0..WorkerCount
  /\ sum \in Reports /\ output \in Reports /\ merged \in Reports
  /\ torn \in BOOLEAN
  /\ code \in {None, 0, 1, 130}

\* Exit code 0 means a report with every request of the script exactly once, but for the
\* shards that were stopped: no shard is missing, none overlaps, none was read before its
\* last flush, nothing of an earlier run is left in it.
SuccessIsComplete ==
  code = 0 =>
    /\ \A r \in Requests :
         output["this"][r] = 1 \/ \E w \in Workers : r \in Shard(w) /\ process[w] = "stopped"
    /\ output["old"] = Nothing["old"]

\* A merged report counts no request of the run twice, also while rows are being written and
\* when workers die.
NothingCountedTwice ==
  /\ TypeOK
  /\ \A r \in Requests : sum["this"][r] <= 1 /\ output["this"][r] <= 1

\* A merge takes nothing back: what a report counts of the run when it is written to its end,
\* every later one written to its end counts too, through the live merges to the final one,
\* also of a worker that died since.  Between two merges the report is the last of them; only
\* while one is being written, or when the parent ended within, does it count less.
ReportsGrow ==
  [][/\ \A r \in Requests : merged'["this"][r] >= merged["this"][r]
     /\ ~torn' => output' = merged']_vars

\* The parent comes to an end, whether its workers succeed, are stopped or die; a worker that
\* hangs keeps it, and is excluded by the fairness of WorkerStep.
ParentEnds == <>(parent = "exited")
=============================================================================
