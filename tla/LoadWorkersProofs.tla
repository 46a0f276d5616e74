-------------------------- MODULE LoadWorkersProofs --------------------------
(***************************************************************************)
(* Theorems of LoadWorkers, for any number of workers and requests: the    *)
(* merged reports never count twice, a merge written to its end takes      *)
(* nothing back, and a success is complete.                                *)
(***************************************************************************)
EXTENDS LoadWorkers, FiniteSetTheorems, TLAPS

USE DEF reportVars, Reports

\* The worker whose shard a request is in.
Owner(r) == r % WorkerCount

\* What a worker has recorded, is writing or has written is of its shard.
InShards ==
  \A w \in Workers : recorded[w] \subseteq Shard(w) /\ writing[w] \subseteq Shard(w)
                     /\ file[w] \subseteq Shard(w)

\* Until the parent exits: a missing file counts nothing, one that was reset holds only this
\* run, and one of a worker that succeeded holds its shard.
FilesHold ==
  parent # "exited" =>
    \A w \in Workers :
      /\ ~exists[w] => file[w] = {} /\ old[w] = {}
      /\ process[w] \in {"running", "succeeded", "stopped"} => exists[w] /\ old[w] = {}
      /\ process[w] = "succeeded" => file[w] = Shard(w)

\* A merge in progress counts what it has read, once, and no less than the report before it.
SumHolds ==
  /\ parent \notin {"live", "final"} => sum = Nothing
  /\ parent \in {"poll", "unlink"} => next = 0
  /\ parent = "start" => next \in Workers
  /\ parent \in {"live", "final"} =>
       \A r \in Requests :
         /\ sum["this"][r] \in {0, 1}
         /\ Owner(r) >= next => sum["this"][r] = 0
         /\ sum["this"][r] = 1 => r \in file[Owner(r)]
         /\ Owner(r) < next /\ merged["this"][r] = 1 => sum["this"][r] = 1

\* What a merge counts is in a file until the parent exits, and the report is the last merge
\* unless one is being written, of files that were all read.
OutputHolds ==
  /\ \A r \in Requests :
       /\ output["this"][r] \in {0, 1} /\ merged["this"][r] \in {0, 1}
       /\ parent # "exited" /\ merged["this"][r] = 1 => r \in file[Owner(r)]
  /\ ~torn => output = merged
  /\ torn /\ parent # "exited" => parent \in {"live", "final"} /\ next = WorkerCount

\* The last merge reads files that do not change any more.
LastMerge ==
  /\ parent \in {"final", "unlink"} => \A w \in Workers : Exited(w)
  /\ parent = "final" =>
       /\ \A r \in Requests : Owner(r) < next /\ r \in file[Owner(r)] => sum["this"][r] = 1
       /\ (\A w \in Workers : process[w] # "died") => sum["old"] = Nothing["old"]
  /\ parent = "unlink" =>
       /\ \A r \in Requests : r \in file[Owner(r)] => output["this"][r] = 1
       /\ (\A w \in Workers : process[w] # "died") => output["old"] = Nothing["old"]

CodeHolds ==
  /\ parent # "exited" => code = None
  /\ code = 0 => /\ \A w \in Workers : Exited(w)
                 /\ SuccessIsComplete

IInv ==
  TypeOK /\ InShards /\ FilesHold /\ SumHolds /\ OutputHolds /\ LastMerge /\ CodeHolds

LEMMA Constants ==
  /\ WorkerCount \in Nat /\ WorkerCount >= 2 /\ Requests \subseteq Nat
  /\ \A w \in Workers : w \in Nat /\ w < WorkerCount /\ w + 1 \in 0..WorkerCount
  /\ 0 \in Workers
<1>1. WorkerCount \in Nat /\ WorkerCount >= 2
  BY WorkersAssumption DEF WorkersAssumption
<1>2. Requests \subseteq Nat
  <2>1. PICK n \in Nat : n = Cardinality(Requests)
    BY WorkersAssumption, FS_CardinalityType DEF WorkersAssumption
  <2>2. 0..(n - 1) \subseteq Nat
    OBVIOUS
  <2>3. QED
    BY <2>1, <2>2, WorkersAssumption DEF WorkersAssumption
<1>3. QED
  BY <1>1, <1>2 DEF Workers

\* Every request is in the shard of its owner and in no other.
LEMMA OwnerShard ==
  ASSUME NEW r \in Requests
  PROVE  /\ Owner(r) \in Workers /\ Owner(r) \in Nat /\ Owner(r) < WorkerCount
         /\ r \in Shard(Owner(r))
         /\ \A w \in Workers : r \in Shard(w) => w = Owner(r)
<1>1. PICK n \in Nat : n = WorkerCount /\ n >= 2
  BY Constants
<1>2. r \in Nat
  BY Constants
<1>3. r % n \in 0..(n - 1)
  BY <1>1, <1>2
<1>4. Owner(r) \in Workers
  BY <1>1, <1>3 DEF Owner, Workers
<1>5. QED
  BY <1>4, Constants DEF Owner, Shard

LEMMA MergedType ==
  ASSUME NEW counts \in [Runs -> [Requests -> Nat]], NEW rows
  PROVE  /\ Merged(counts, rows) \in [Runs -> [Requests -> Nat]]
         /\ \A run \in Runs, r \in Requests :
              Merged(counts, rows)[run][r] = counts[run][r] + (IF r \in rows[run] THEN 1 ELSE 0)
<1>1. \A run \in Runs, r \in Requests :
        counts[run][r] + (IF r \in rows[run] THEN 1 ELSE 0) \in Nat
  OBVIOUS
<1>2. QED
  BY <1>1 DEF Merged

LEMMA NothingType ==
  /\ Nothing \in [Runs -> [Requests -> Nat]]
  /\ \A run \in Runs, r \in Requests : Nothing[run][r] = 0
BY DEF Nothing

LEMMA IInvInit ==
  ASSUME Init
  PROVE  IInv
<1>1. TypeOK
  <2>1. sum \in Reports /\ output \in Reports /\ merged \in Reports
    BY NothingType DEF Init
  <2>2. 0 \in 0..WorkerCount
    BY Constants
  <2>3. QED
    BY <2>1, <2>2 DEF Init, TypeOK
<1>2. InShards /\ FilesHold
  BY DEF Init, InShards, FilesHold
<1>3. SumHolds /\ LastMerge
  BY Constants DEF Init, SumHolds, LastMerge
<1>4. OutputHolds
  BY NothingType DEF Init, OutputHolds, Runs
<1>5. CodeHolds
  BY DEF Init, CodeHolds, None
<1>6. QED
  BY <1>1, <1>2, <1>3, <1>4, <1>5 DEF IInv

-----------------------------------------------------------------------------
(* The steps of a worker.                                                  *)

\* None is taken by a worker that has exited, and none takes anything out of a file.
LEMMA WorkerKeeps ==
  ASSUME IInv, NEW w \in Workers, WorkerStep(w) \/ Stop(w) \/ Die(w)
  PROVE  IInv' /\ UNCHANGED merged
<1>1. UNCHANGED <<parent, next, sum, output, torn, merged, code>>
  BY DEF WorkerStep, Reset, Record, Flush, Append, Succeed, Stop, Die
<1>2. process[w] \in {"started", "running"} /\ ~Exited(w)
  BY DEF WorkerStep, Reset, Record, Flush, Append, Succeed, Stop, Die, Exited
<1>3. TypeOK'
  <2>1. CASE Reset(w)
    BY <2>1 DEF Reset, IInv, TypeOK
  <2>2. CASE Record(w)
    BY <2>2 DEF Record, IInv, TypeOK, Shard
  <2>3. CASE Flush(w)
    BY <2>3 DEF Flush, IInv, TypeOK
  <2>4. CASE Append(w)
    BY <2>4 DEF Append, IInv, TypeOK
  <2>5. CASE Succeed(w) \/ Stop(w)
    BY <2>5 DEF Succeed, Stop, IInv, TypeOK
  <2>6. CASE Die(w)
    BY <2>6 DEF Die, IInv, TypeOK
  <2>7. QED
    BY <2>1, <2>2, <2>3, <2>4, <2>5, <2>6 DEF WorkerStep
<1>4. InShards' /\ \A v \in Workers : file[v] \subseteq file'[v]
  <2>1. CASE Reset(w) \/ Succeed(w) \/ Stop(w)
    BY <2>1 DEF Reset, Succeed, Stop, IInv, InShards, Shard
  <2>2. CASE Record(w)
    BY <2>2 DEF Record, IInv, TypeOK, InShards, Shard
  <2>3. CASE Flush(w)
    BY <2>3 DEF Flush, IInv, TypeOK, InShards, Shard
  <2>4. CASE Append(w)
    BY <2>4 DEF Append, IInv, TypeOK, InShards, Shard
  <2>5. CASE Die(w)
    BY <2>5 DEF Die, IInv, TypeOK, InShards, Shard
  <2>6. QED
    BY <2>1, <2>2, <2>3, <2>4, <2>5 DEF WorkerStep
<1>5. FilesHold'
  <2>1. CASE Reset(w)
    BY <2>1 DEF Reset, IInv, TypeOK, FilesHold, Shard
  <2>2. CASE Record(w) \/ Flush(w)
    BY <2>2 DEF Record, Flush, IInv, FilesHold, Shard
  <2>3. CASE Append(w)
    BY <2>3 DEF Append, IInv, TypeOK, FilesHold, Shard
  <2>4. CASE Succeed(w)
    BY <2>4 DEF Succeed, IInv, TypeOK, FilesHold, Shard
  <2>5. CASE Stop(w) \/ Die(w)
    BY <2>5 DEF Stop, Die, IInv, TypeOK, FilesHold, Shard
  <2>6. QED
    BY <2>1, <2>2, <2>3, <2>4, <2>5 DEF WorkerStep
<1>6. SumHolds' /\ OutputHolds'
  BY <1>1, <1>4, OwnerShard DEF IInv, SumHolds, OutputHolds
<1>7. LastMerge'
  BY <1>1, <1>2 DEF IInv, LastMerge
<1>8. CodeHolds'
  BY <1>1, <1>2 DEF IInv, CodeHolds
<1>9. QED
  BY <1>1, <1>3, <1>4, <1>5, <1>6, <1>7, <1>8 DEF IInv

-----------------------------------------------------------------------------
(* The steps of the parent.                                                *)

LEMMA StartWorkerKeeps ==
  ASSUME IInv, StartWorker
  PROVE  IInv' /\ UNCHANGED merged
<1>1. /\ UNCHANGED <<recorded, writing, file, old, exists, sum, output, torn, merged, code>>
      /\ parent = "start" /\ parent' \in {"start", "poll"}
      /\ process' = [process EXCEPT ![next] = "started"]
      /\ next \in Workers /\ (next' \in Workers \/ next' = 0)
      /\ parent' = "poll" => next' = 0
      /\ parent' = "start" => next' \in Workers
  BY DEF StartWorker, IInv, SumHolds
<1>2. TypeOK'
  <2>1. process' \in [Workers -> {"none", "started", "running", "succeeded", "stopped", "died"}]
    BY <1>1 DEF IInv, TypeOK
  <2>2. next' \in 0..WorkerCount
    BY <1>1, Constants
  <2>3. parent' \in {"start", "poll", "live", "final", "unlink", "exited"}
    BY <1>1
  <2>4. QED
    BY <1>1, <2>1, <2>2, <2>3 DEF IInv, TypeOK
<1>3. InShards' /\ FilesHold'
  BY <1>1 DEF IInv, TypeOK, InShards, FilesHold, Shard
<1>4. SumHolds' /\ LastMerge'
  BY <1>1 DEF IInv, SumHolds, LastMerge, Nothing
<1>5. OutputHolds'
  BY <1>1 DEF IInv, OutputHolds
<1>6. code # 0 /\ code = None
  BY <1>1 DEF IInv, CodeHolds, None
<1>7. CodeHolds'
  BY <1>1, <1>6 DEF CodeHolds
<1>8. QED
  BY <1>1, <1>2, <1>3, <1>4, <1>5, <1>7 DEF IInv

LEMMA PollKeeps ==
  ASSUME IInv, Poll
  PROVE  IInv' /\ UNCHANGED merged
<1>1. /\ UNCHANGED <<process, recorded, writing, file, old, exists, next, sum, output, torn,
                    merged, code>>
      /\ parent = "poll" /\ parent' \in {"final", "live"} /\ next = 0 /\ sum = Nothing
      /\ parent' = "final" => \A w \in Workers : Exited(w)
  BY DEF Poll, workerVars, IInv, SumHolds
<1>2. TypeOK'
  BY <1>1 DEF IInv, TypeOK
<1>3. InShards' /\ FilesHold' /\ OutputHolds'
  BY <1>1 DEF IInv, InShards, FilesHold, OutputHolds, Shard
<1>4. \A r \in Requests : ~(Owner(r) < 0) /\ sum["this"][r] = 0
  BY <1>1, OwnerShard, NothingType DEF Runs
<1>5. SumHolds'
  BY <1>1, <1>4 DEF SumHolds
<1>6. LastMerge'
  BY <1>1, <1>4 DEF LastMerge, Exited
<1>7. CodeHolds'
  BY <1>1 DEF IInv, CodeHolds, None
<1>8. QED
  BY <1>1, <1>2, <1>3, <1>5, <1>6, <1>7 DEF IInv

LEMMA ReadReportKeeps ==
  ASSUME IInv, ReadReport
  PROVE  IInv' /\ UNCHANGED merged
<1>1. /\ UNCHANGED <<process, recorded, writing, file, old, exists, parent,
                    output, torn, merged, code>>
      /\ parent \in {"live", "final"}
      /\ sum \in [Runs -> [Requests -> Nat]]
  BY DEF ReadReport, workerVars, IInv, TypeOK
<1>2. PICK n \in Workers : n = next /\ n \in Nat /\ next' = n + 1 /\ n + 1 \in 0..WorkerCount
  BY Constants DEF ReadReport
<1>3. PICK s \in [Runs -> [Requests -> Nat]] :
        /\ s = sum'
        /\ \A r \in Requests :
             s["this"][r] = IF r \in file[n] THEN sum["this"][r] + 1 ELSE sum["this"][r]
        /\ old[n] = {} => s["old"] = sum["old"]
  <2>1. CASE exists[n]
    <3> DEFINE rows == [this |-> file[n], old |-> old[n]]
               s == Merged(sum, rows)
    <3>1. /\ s \in [Runs -> [Requests -> Nat]]
          /\ \A run \in Runs, r \in Requests :
               s[run][r] = sum[run][r] + (IF r \in rows[run] THEN 1 ELSE 0)
      BY <1>1, MergedType
    <3>2. sum' = s
      BY <1>2, <2>1 DEF ReadReport
    <3> HIDE DEF s
    <3>3. \A r \in Requests :
            s["this"][r] = IF r \in file[n] THEN sum["this"][r] + 1 ELSE sum["this"][r]
      BY <1>1, <3>1 DEF Runs
    <3>4. ASSUME old[n] = {} PROVE s["old"] = sum["old"]
      <4>1. \A r \in Requests : s["old"][r] = sum["old"][r]
        BY <1>1, <3>1, <3>4 DEF Runs
      <4>2. s["old"] \in [Requests -> Nat] /\ sum["old"] \in [Requests -> Nat]
        BY <1>1, <3>1 DEF Runs
      <4>3. QED
        BY <4>1, <4>2
    <3>5. QED
      BY <3>1, <3>2, <3>3, <3>4
  <2>2. CASE ~exists[n]
    <3>1. sum' = sum /\ file[n] = {}
      BY <1>1, <1>2, <2>2 DEF ReadReport, IInv, FilesHold
    <3>2. QED
      BY <1>1, <3>1
  <2>3. QED
    BY <2>1, <2>2
<1>4. \A r \in Requests : r \in file[n] => Owner(r) = n
  BY OwnerShard DEF IInv, InShards
<1>5. \A r \in Requests :
        /\ Owner(r) >= n + 1 => Owner(r) >= n /\ Owner(r) # n
        /\ Owner(r) < n + 1 => Owner(r) < n \/ Owner(r) = n
        /\ Owner(r) = n => Owner(r) >= n
  BY <1>2, OwnerShard
<1>6. TypeOK'
  BY <1>1, <1>2, <1>3 DEF IInv, TypeOK
<1>7. InShards' /\ FilesHold' /\ OutputHolds'
  <2>1. n # WorkerCount
    BY <1>2, Constants
  <2>2. ~torn
    BY <1>1, <1>2, <2>1 DEF IInv, OutputHolds
  <2>3. QED
    BY <1>1, <2>2 DEF IInv, InShards, FilesHold, OutputHolds, Shard
<1>8. ASSUME NEW r \in Requests
      PROVE  /\ s["this"][r] \in {0, 1}
             /\ Owner(r) >= n + 1 => s["this"][r] = 0
             /\ s["this"][r] = 1 => r \in file[Owner(r)]
             /\ Owner(r) < n + 1 /\ merged["this"][r] = 1 => s["this"][r] = 1
             /\ parent = "final" /\ Owner(r) < n + 1 /\ r \in file[Owner(r)] => s["this"][r] = 1
  <2>1. /\ sum["this"][r] \in {0, 1}
        /\ Owner(r) >= n => sum["this"][r] = 0
        /\ sum["this"][r] = 1 => r \in file[Owner(r)]
        /\ Owner(r) < n /\ merged["this"][r] = 1 => sum["this"][r] = 1
        /\ parent = "final" /\ Owner(r) < n /\ r \in file[Owner(r)] => sum["this"][r] = 1
        /\ merged["this"][r] = 1 => r \in file[Owner(r)]
    BY <1>1, <1>2 DEF IInv, SumHolds, OutputHolds, LastMerge
  <2>2. CASE r \in file[n]
    <3>1. Owner(r) = n /\ sum["this"][r] = 0
      BY <1>4, <1>5, <2>1, <2>2
    <3>2. s["this"][r] = 1
      BY <1>3, <2>2, <3>1
    <3>3. QED
      BY <1>5, <2>2, <3>1, <3>2
  <2>3. CASE r \notin file[n]
    <3>1. s["this"][r] = sum["this"][r]
      BY <1>3, <2>3
    <3>2. QED
      BY <1>5, <2>1, <2>3, <3>1
  <2>4. QED
    BY <2>2, <2>3
<1>9. SumHolds'
  BY <1>1, <1>2, <1>3, <1>8 DEF SumHolds
<1>10. ASSUME parent = "final", \A w \in Workers : process[w] # "died"
       PROVE  s["old"] = Nothing["old"]
  <2>1. process[n] \in {"succeeded", "stopped"}
    BY <1>10 DEF IInv, LastMerge, Exited
  <2>2. old[n] = {}
    BY <1>1, <2>1 DEF IInv, FilesHold
  <2>3. QED
    BY <1>3, <1>10, <2>2 DEF IInv, LastMerge
<1>11. LastMerge'
  BY <1>1, <1>2, <1>3, <1>8, <1>10 DEF IInv, LastMerge, Exited, Nothing
<1>12. CodeHolds'
  BY <1>1 DEF IInv, CodeHolds, None
<1>13. QED
  BY <1>1, <1>6, <1>7, <1>9, <1>11, <1>12 DEF IInv

LEMMA OpenMergedKeeps ==
  ASSUME IInv, OpenMerged
  PROVE  IInv' /\ UNCHANGED merged
<1>1. /\ UNCHANGED <<process, recorded, writing, file, old, exists, parent, next, sum,
                    merged, code>>
      /\ parent \in {"live", "final"} /\ next = WorkerCount
      /\ output' = Nothing /\ torn' = TRUE
  BY DEF OpenMerged, workerVars
<1>2. TypeOK' /\ \A r \in Requests : output'["this"][r] = 0
  BY <1>1, NothingType DEF IInv, TypeOK, Runs
<1>3. InShards' /\ FilesHold' /\ SumHolds' /\ LastMerge' /\ CodeHolds'
  BY <1>1 DEF IInv, InShards, FilesHold, SumHolds, LastMerge, CodeHolds, Exited, Shard,
     Nothing, None
<1>4. OutputHolds'
  BY <1>1, <1>2 DEF IInv, OutputHolds
<1>5. QED
  BY <1>1, <1>2, <1>3, <1>4 DEF IInv

LEMMA WriteMergedKeeps ==
  ASSUME IInv, WriteMerged
  PROVE  IInv' /\ UNCHANGED merged
<1>1. /\ UNCHANGED <<process, recorded, writing, file, old, exists, parent, next, sum, torn,
                    merged, code>>
      /\ parent \in {"live", "final"} /\ torn
  BY DEF WriteMerged, workerVars
<1>2. PICK rs \in SUBSET Requests :
        output' = [run \in Runs |->
                     [r \in Requests |-> IF r \in rs THEN sum[run][r] ELSE output[run][r]]]
  BY DEF WriteMerged
<1>3. sum \in [Runs -> [Requests -> Nat]] /\ output \in [Runs -> [Requests -> Nat]]
  BY DEF IInv, TypeOK
<1>4. \A r \in Requests : output'["this"][r] \in {0, 1}
  BY <1>1, <1>2, <1>3 DEF IInv, SumHolds, OutputHolds, Runs
<1>5. output' \in [Runs -> [Requests -> Nat]]
  BY <1>2, <1>3
<1>6. TypeOK'
  BY <1>1, <1>5 DEF IInv, TypeOK
<1>7. InShards' /\ FilesHold' /\ SumHolds' /\ LastMerge' /\ CodeHolds'
  BY <1>1 DEF IInv, InShards, FilesHold, SumHolds, LastMerge, CodeHolds, Exited, Shard,
     Nothing, None
<1>8. OutputHolds'
  BY <1>1, <1>4 DEF IInv, OutputHolds
<1>9. QED
  BY <1>1, <1>6, <1>7, <1>8 DEF IInv

LEMMA CloseMergedKeeps ==
  ASSUME IInv, CloseMerged
  PROVE  IInv' /\ \A r \in Requests : merged'["this"][r] >= merged["this"][r]
<1>1. /\ UNCHANGED <<process, recorded, writing, file, old, exists, output, code>>
      /\ parent \in {"live", "final"} /\ next = WorkerCount
      /\ torn' = FALSE /\ output = sum /\ merged' = sum /\ sum' = Nothing /\ next' = 0
      /\ parent = "live" => parent' = "poll"
      /\ parent = "final" => parent' = "unlink"
  BY DEF CloseMerged, workerVars, IInv, OutputHolds
<1>2. \A r \in Requests : Owner(r) < next
  BY <1>1, OwnerShard
<1>3. TypeOK'
  <2>1. sum' \in Reports /\ output' \in Reports /\ merged' \in Reports
    BY <1>1, NothingType DEF IInv, TypeOK
  <2>2. next' \in 0..WorkerCount
    BY <1>1, Constants
  <2>3. QED
    BY <1>1, <2>1, <2>2 DEF IInv, TypeOK
<1>4. InShards' /\ FilesHold'
  BY <1>1 DEF IInv, InShards, FilesHold, Shard
<1>5. SumHolds'
  BY <1>1 DEF SumHolds, Nothing
<1>6. OutputHolds'
  BY <1>1 DEF IInv, OutputHolds, SumHolds
<1>7. LastMerge'
  BY <1>1, <1>2 DEF IInv, LastMerge, Exited, Nothing
<1>8. CodeHolds'
  BY <1>1 DEF IInv, CodeHolds, None
<1>9. \A r \in Requests : merged'["this"][r] >= merged["this"][r]
  <2>1. \A r \in Requests :
          /\ sum["this"][r] \in {0, 1} /\ merged["this"][r] \in {0, 1}
          /\ merged["this"][r] = 1 => sum["this"][r] = 1
    BY <1>1, <1>2 DEF IInv, SumHolds, OutputHolds
  <2>2. \A x, y \in {0, 1} : (x = 1 => y = 1) => y >= x
    OBVIOUS
  <2>3. QED
    BY <1>1, <2>1, <2>2
<1>10. QED
  BY <1>3, <1>4, <1>5, <1>6, <1>7, <1>8, <1>9 DEF IInv

LEMMA UnlinkKeeps ==
  ASSUME IInv, Unlink
  PROVE  IInv' /\ UNCHANGED merged
<1>1. /\ UNCHANGED <<process, recorded, writing, next, sum, output, torn, merged>>
      /\ parent = "unlink" /\ parent' = "exited"
      /\ exists' = [w \in Workers |-> FALSE]
      /\ file' = [w \in Workers |-> {}] /\ old' = [w \in Workers |-> {}]
      /\ code' \in {0, 1}
      /\ code' = 0 => \A w \in Workers : process[w] # "died"
  BY DEF Unlink
<1>2. TypeOK'
  BY <1>1 DEF IInv, TypeOK
<1>3. InShards' /\ FilesHold'
  BY <1>1 DEF IInv, InShards, FilesHold, Shard
<1>4. SumHolds' /\ LastMerge'
  BY <1>1 DEF IInv, SumHolds, LastMerge, Nothing
<1>5. OutputHolds'
  BY <1>1 DEF IInv, OutputHolds
<1>6. ASSUME code' = 0
      PROVE  /\ \A r \in Requests :
                  output["this"][r] = 1 \/ \E w \in Workers : r \in Shard(w) /\ process[w] = "stopped"
             /\ output["old"] = Nothing["old"]
  <2>1. \A w \in Workers : process[w] \in {"succeeded", "stopped"}
    BY <1>1, <1>6 DEF IInv, LastMerge, Exited
  <2>2. ASSUME NEW r \in Requests, process[Owner(r)] # "stopped"
        PROVE  output["this"][r] = 1
    <3>1. file[Owner(r)] = Shard(Owner(r))
      BY <1>1, <2>1, <2>2, OwnerShard DEF IInv, FilesHold
    <3>2. QED
      BY <1>1, <3>1, OwnerShard DEF IInv, LastMerge
  <2>3. QED
    BY <1>1, <1>6, <2>2, OwnerShard DEF IInv, LastMerge
<1>7. CodeHolds'
  BY <1>1, <1>6 DEF IInv, LastMerge, CodeHolds, SuccessIsComplete, Exited, Shard, Nothing
<1>8. QED
  BY <1>1, <1>2, <1>3, <1>4, <1>5, <1>7 DEF IInv

LEMMA LeaveKeeps ==
  ASSUME IInv, NEW exitCode \in {1, 130}, Leave(exitCode)
  PROVE  IInv' /\ UNCHANGED merged
<1>1. /\ UNCHANGED <<process, recorded, writing, file, old, exists, output, torn, merged>>
      /\ parent' = "exited" /\ code' = exitCode /\ sum' = Nothing /\ next' = 0
  BY DEF Leave, workerVars
<1>2. TypeOK'
  BY <1>1, NothingType, Constants DEF IInv, TypeOK
<1>3. InShards' /\ FilesHold' /\ OutputHolds' /\ LastMerge' /\ CodeHolds'
  BY <1>1 DEF IInv, InShards, FilesHold, OutputHolds, LastMerge, CodeHolds, Shard
<1>4. SumHolds'
  BY <1>1 DEF SumHolds, Nothing
<1>5. QED
  BY <1>1, <1>2, <1>3, <1>4 DEF IInv

-----------------------------------------------------------------------------

LEMMA StutterKeeps ==
  ASSUME IInv, UNCHANGED vars
  PROVE  IInv' /\ UNCHANGED merged
BY DEF vars, workerVars, IInv, TypeOK, InShards, FilesHold, SumHolds, OutputHolds, LastMerge,
       CodeHolds, SuccessIsComplete, Exited, Shard, Nothing

LEMMA IInvNext ==
  ASSUME IInv, [Next]_vars
  PROVE  /\ IInv'
         /\ \A r \in Requests : merged'["this"][r] >= merged["this"][r]
<1>1. CASE CloseMerged
  BY <1>1, CloseMergedKeeps
<1>2. CASE ~CloseMerged
  <2>1. IInv' /\ UNCHANGED merged
    BY <1>2, WorkerKeeps, StartWorkerKeeps, PollKeeps, ReadReportKeeps, OpenMergedKeeps,
       WriteMergedKeeps, UnlinkKeeps, LeaveKeeps, StutterKeeps
    DEF Next, ParentStep, Interrupt, Fail
  <2>2. \A r \in Requests : merged["this"][r] >= merged["this"][r]
    BY DEF IInv, TypeOK, Runs
  <2>3. QED
    BY <2>1, <2>2
<1>3. QED
  BY <1>1, <1>2

LEMMA Invariant == Spec => []IInv
<1>1. Init => IInv
  BY IInvInit
<1>2. IInv /\ [Next]_vars => IInv'
  BY IInvNext
<1>3. QED
  BY <1>1, <1>2, PTL DEF Spec

\* Exit code 0 means that every request of every shard was merged, with any number of
\* workers, whatever died, was stopped or was left by an earlier run.
THEOREM SuccessAlwaysComplete == Spec => []SuccessIsComplete
<1>1. IInv => SuccessIsComplete
  BY DEF IInv, CodeHolds, SuccessIsComplete
<1>2. QED
  BY <1>1, Invariant, PTL

\* No merged report counts a request of the run twice, though the files it reads grow, are
\* reset and are left half written meanwhile.
THEOREM NeverCountedTwice == Spec => []NothingCountedTwice
<1>1. IInv => NothingCountedTwice
  <2>1. ASSUME IInv, NEW r \in Requests
        PROVE  sum["this"][r] <= 1 /\ output["this"][r] <= 1
    <3>1. output["this"][r] \in {0, 1}
      BY <2>1 DEF IInv, OutputHolds
    <3>2. sum["this"][r] \in {0, 1}
      BY <2>1, NothingType DEF IInv, SumHolds, Runs
    <3>3. QED
      BY <3>1, <3>2
  <2>2. QED
    BY <2>1 DEF IInv, NothingCountedTwice
<1>2. QED
  BY <1>1, Invariant, PTL

\* What a merge written to its end counts, every later one counts too, and the report is the
\* last of them except while one is being written or when the parent ended within
\* (_merge_request_reports, which truncates and rewrites in place).
THEOREM ReportsAlwaysGrow == Spec => ReportsGrow
<1>1. IInv /\ [Next]_vars =>
        /\ \A r \in Requests : merged'["this"][r] >= merged["this"][r]
        /\ ~torn' => output' = merged'
  BY IInvNext DEF IInv, OutputHolds
<1>2. QED
  BY <1>1, Invariant, PTL DEF Spec, ReportsGrow
=============================================================================
