--------------------------- MODULE LoadSenderProofs ---------------------------
(***************************************************************************)
(* Theorems of LoadSender, for every script, shard, number of tokens,      *)
(* backlog and clock: its requests and tokens add up, it implements the    *)
(* bounded service, what it starts from the backlog is fresh, and its      *)
(* reports tell the whole run.  What the bounded service itself promises   *)
(* is the last theorem.                                                    *)
(***************************************************************************)
EXTENDS LoadSender, FiniteSetTheorems, SequenceTheorems, WellFoundedInduction, TLAPS

\* The sums of RequestsAccounted over counts t, f tokens, i requests in flight and b in the
\* backlog.
Balanced(t, f, i, b) ==
  /\ f + i = MaxInflight
  /\ b <= BacklogCapacity
  /\ t["scheduled"] = t["started_immediate"] + t["enqueued"]
                        + (t["dropped_capacity"] - t["backlog_expired"])
  /\ t["enqueued"] = t["started_from_backlog"] + t["backlog_expired"] + b
  /\ t["started"] = t["started_immediate"] + t["started_from_backlog"]
  /\ t["started"] = t["completed"] + t["failed"] + t["timed_out"] + i

\* Items b are in order of age, and none is newer than t.
Aged(b, t) ==
  /\ \A i, j \in 1..Len(b) : i <= j => b[i] <= b[j]
  /\ \A i \in 1..Len(b) : b[i] <= t

\* What is needed besides: there is a second to dispatch while the loop is in it, what expired
\* is a part of what was dropped, and the backlog is in order of age.
IInv ==
  /\ TypeOK
  /\ Balanced(total, free, inflight, Len(backlog))
  /\ pc \in {"waiting", "late", "spreading"} => second < Len(Script)
  /\ total["backlog_expired"] <= total["dropped_capacity"]
  /\ Aged(backlog, now)

LEMMA IInvImplies ==
  ASSUME IInv
  PROVE  RequestsAccounted
BY DEF IInv, Balanced, RequestsAccounted

-----------------------------------------------------------------------------
(* Counts.                                                                 *)

LEMMA PlusType ==
  ASSUME NEW t \in [Columns -> Nat], NEW inc, DOMAIN inc \subseteq Columns,
         \A c \in DOMAIN inc : inc[c] \in Nat
  PROVE  /\ Plus(t, inc) \in [Columns -> Nat]
         /\ \A c \in DOMAIN inc : Plus(t, inc)[c] = t[c] + inc[c]
         /\ \A c \in Columns \ DOMAIN inc : Plus(t, inc)[c] = t[c]
<1>1. \A c \in Columns : (IF c \in DOMAIN inc THEN t[c] + inc[c] ELSE t[c]) \in Nat
  OBVIOUS
<1>2. QED
  BY <1>1 DEF Plus

LEMMA AssignedType ==
  ASSUME NEW i, NEW from \in Int, NEW to \in Int
  PROVE  Assigned(i, from, to) \in Nat
<1>1. IsFiniteSet(from..(to - 1))
  BY FS_Interval
<1>2. IsFiniteSet({j \in from..(to - 1) : ShouldHandle(Base[i] + j)})
  BY <1>1, FS_Subset
<1>3. QED
  BY <1>2, FS_CardinalityType DEF Assigned

LEMMA DueType ==
  ASSUME NEW i \in 0..(Len(Script) - 1)
  PROVE  Script[i + 1] \in Nat /\ Due(i) \in Nat
<1>1. Script[i + 1] \in Nat
  BY ConfigAssumption DEF ConfigAssumption
<1>2. PICK n \in Nat : n = Script[i + 1]
  BY <1>1
<1>3. IsFiniteSet(0..(n - 1))
  BY FS_Interval
<1>4. Cardinality({j \in 0..(Script[i + 1] - 1) :
        j * TicksPerSecond <= (now - start - i * TicksPerSecond) * Script[i + 1]}) \in Nat
  BY <1>2, <1>3, FS_Subset, FS_CardinalityType
<1> DEFINE sent == Cardinality({j \in 0..(Script[i + 1] - 1) :
        j * TicksPerSecond <= (now - start - i * TicksPerSecond) * Script[i + 1]})
<1>5. Due(i) = Script[i + 1] \/ Due(i) = sent
  BY Zenon DEF Due
<1>6. QED
  BY <1>1, <1>4, <1>5, Zenon

LEMMA LaunchType ==
  ASSUME NEW n \in Nat, free \in Nat, BacklogCapacity - Len(backlog) \in Nat
  PROVE  LET s == Launch(n)
         IN /\ DOMAIN s \subseteq Columns /\ \A c \in DOMAIN s : s[c] \in Nat
            /\ s.scheduled = n /\ s.started_immediate = s.started
            /\ s.started \in 0..free /\ s.enqueued \in 0..(BacklogCapacity - Len(backlog))
            /\ n = s.started + s.enqueued + s.dropped_capacity
            /\ s.dropped_capacity > 0 =>
                 s.started = free /\ s.enqueued = BacklogCapacity - Len(backlog)
            /\ DOMAIN s = {"scheduled", "enqueued", "started", "started_immediate",
                           "dropped_capacity", "dropped_backlog_full"}
<1>1. PICK r \in Nat : r = BacklogCapacity - Len(backlog)
  OBVIOUS
<1>2. PICK m \in 0..free : m = Least(n, free) /\ n - m \in Nat /\ (n - m > 0 => m = free)
  BY DEF Least
<1>3. PICK k \in Nat : k = n - m
  BY <1>2
<1>4. PICK q \in 0..r : q = Least(k, r) /\ k - q \in Nat /\ (k - q > 0 => q = r)
  BY DEF Least
<1>5. PICK d \in Nat : d = k - q
  BY <1>4
<1>6. m \in Nat /\ q \in Nat
  OBVIOUS
<1>7. n = m + q + d /\ (k > 0 => m = free) /\ (d > 0 => q = r)
  BY <1>2, <1>3, <1>4, <1>5, <1>6
<1>8. d > 0 => m = free /\ q = r
  BY <1>3, <1>5, <1>6, <1>7
<1>9. Launch(n) = [scheduled |-> n, enqueued |-> q, started |-> m, started_immediate |-> m,
                   dropped_capacity |-> d,
                   dropped_backlog_full |-> IF BacklogCapacity > 0 THEN d ELSE 0]
  BY <1>1, <1>2, <1>3, <1>4, <1>5 DEF Launch
<1> DEFINE s == Launch(n)
<1>10. /\ s.scheduled = n /\ s.enqueued = q /\ s.started = m /\ s.started_immediate = m
       /\ s.dropped_capacity = d
       /\ DOMAIN s = {"scheduled", "enqueued", "started", "started_immediate",
                      "dropped_capacity", "dropped_backlog_full"}
  BY <1>9
<1>11. s.dropped_backlog_full \in Nat
  BY <1>9
<1> HIDE DEF s
<1>12. \A c \in DOMAIN s : c \in Columns /\ s[c] \in Nat
  BY <1>6, <1>10, <1>11 DEF Columns
<1>13. QED
  BY <1>1, <1>7, <1>8, <1>10, <1>12 DEF s

-----------------------------------------------------------------------------
(* The sums, over numbers.                                                 *)

\* Counts t become t1 when m requests start at once, q are queued and d dropped.
SentCounts(t, t1, m, q, d) ==
  /\ t1["scheduled"] = t["scheduled"] + (m + q + d)
  /\ t1["started_immediate"] = t["started_immediate"] + m
  /\ t1["enqueued"] = t["enqueued"] + q
  /\ t1["dropped_capacity"] = t["dropped_capacity"] + d
  /\ t1["started"] = t["started"] + m
  /\ \A c \in {"backlog_expired", "started_from_backlog", "completed", "failed", "timed_out"} :
       t1[c] = t[c]

LEMMA SendBalanced ==
  ASSUME NEW t \in [Columns -> Nat], NEW t1 \in [Columns -> Nat],
         NEW f \in 0..MaxInflight, NEW i \in 0..MaxInflight, NEW b \in Nat,
         Balanced(t, f, i, b), t["backlog_expired"] <= t["dropped_capacity"],
         NEW m \in 0..f, NEW q \in 0..(BacklogCapacity - b), NEW d \in Nat,
         SentCounts(t, t1, m, q, d)
  PROVE  /\ Balanced(t1, f - m, i + m, b + q)
         /\ t1["backlog_expired"] <= t1["dropped_capacity"]
         /\ f - m \in 0..MaxInflight /\ i + m \in 0..MaxInflight /\ b + q \in Nat
<1>1. \A c \in Columns : t[c] \in Nat /\ t1[c] \in Nat
  OBVIOUS
<1>2. MaxInflight \in Nat /\ BacklogCapacity \in Nat
  BY ConfigAssumption DEF ConfigAssumption
<1>3. QED
  BY <1>1, <1>2 DEF SentCounts, Balanced, Columns

LEMMA ServeBalanced ==
  ASSUME NEW t \in [Columns -> Nat], NEW t1 \in [Columns -> Nat],
         NEW f \in 0..MaxInflight, NEW i \in 0..MaxInflight, NEW b \in Nat,
         Balanced(t, f, i, b), t["backlog_expired"] <= t["dropped_capacity"],
         NEW e \in 0..b, NEW m \in 0..f, m <= b - e,
         t1["dropped_capacity"] = t["dropped_capacity"] + e,
         t1["backlog_expired"] = t["backlog_expired"] + e,
         t1["started"] = t["started"] + m,
         t1["started_from_backlog"] = t["started_from_backlog"] + m,
         \A c \in {"scheduled", "started_immediate", "enqueued", "completed", "failed",
                   "timed_out"} : t1[c] = t[c]
  PROVE  /\ Balanced(t1, f - m, i + m, b - e - m)
         /\ t1["backlog_expired"] <= t1["dropped_capacity"]
         /\ f - m \in 0..MaxInflight /\ i + m \in 0..MaxInflight
<1>1. \A c \in Columns : t[c] \in Nat /\ t1[c] \in Nat
  OBVIOUS
<1>2. MaxInflight \in Nat /\ BacklogCapacity \in Nat
  BY ConfigAssumption DEF ConfigAssumption
<1>3. QED
  BY <1>1, <1>2 DEF Balanced, Columns

\* Counts t become t1 when a request ends.
SettledCounts(t, t1, outcome) ==
  /\ outcome \in {"completed", "failed", "timed_out"}
  /\ t1[outcome] = t[outcome] + 1
  /\ \A c \in Columns \ {outcome} : t1[c] = t[c]

LEMMA SettleBalanced ==
  ASSUME NEW t \in [Columns -> Nat], NEW t1 \in [Columns -> Nat],
         NEW f \in 0..MaxInflight, NEW i \in 0..MaxInflight, NEW b \in Nat,
         Balanced(t, f, i, b), t["backlog_expired"] <= t["dropped_capacity"], i > 0,
         NEW outcome, SettledCounts(t, t1, outcome)
  PROVE  /\ Balanced(t1, f + 1, i - 1, b)
         /\ t1["backlog_expired"] <= t1["dropped_capacity"]
         /\ f + 1 \in 0..MaxInflight /\ i - 1 \in 0..MaxInflight
         /\ t1["completed"] + t1["failed"] + t1["timed_out"]
              = (t["completed"] + t["failed"] + t["timed_out"]) + 1
<1>1. \A c \in Columns : t[c] \in Nat /\ t1[c] \in Nat
  OBVIOUS
<1>2. MaxInflight \in Nat /\ BacklogCapacity \in Nat
  BY ConfigAssumption DEF ConfigAssumption
<1>3. /\ outcome \in {"completed", "failed", "timed_out"}
      /\ t1[outcome] = t[outcome] + 1 /\ \A c \in Columns : c # outcome => t1[c] = t[c]
  BY DEF SettledCounts
<1>4. CASE outcome = "completed"
  BY <1>1, <1>2, <1>3, <1>4 DEF Balanced, Columns
<1>5. CASE outcome = "failed"
  BY <1>1, <1>2, <1>3, <1>5 DEF Balanced, Columns
<1>6. CASE outcome = "timed_out"
  BY <1>1, <1>2, <1>3, <1>6 DEF Balanced, Columns
<1>7. QED
  BY <1>3, <1>4, <1>5, <1>6
-----------------------------------------------------------------------------
(* The backlog.                                                            *)

LEMMA QueuedAged ==
  ASSUME NEW b \in Seq(Nat), NEW t \in Nat, Aged(b, t), NEW q \in Nat
  PROVE  LET b1 == b \o [i \in 1..q |-> t]
         IN b1 \in Seq(Nat) /\ Len(b1) = Len(b) + q /\ Aged(b1, t)
<1> DEFINE new == [i \in 1..q |-> t]
           b1 == b \o new
<1>1. new \in Seq(Nat) /\ Len(new) = q /\ \A i \in 1..q : new[i] = t
  OBVIOUS
<1> HIDE DEF new
<1>2. b1 \in Seq(Nat) /\ Len(b1) = Len(b) + q
  BY <1>1
<1>3. \A i \in 1..Len(b1) : b1[i] = IF i <= Len(b) THEN b[i] ELSE new[i - Len(b)]
  BY <1>1
<1>4. \A i \in 1..Len(b1) : i > Len(b) => b1[i] = t
  BY <1>1, <1>2, <1>3
<1>5. \A i \in 1..Len(b1) : i <= Len(b) => i \in 1..Len(b) /\ b1[i] = b[i] /\ b[i] \in Nat
  BY <1>2, <1>3
<1> HIDE DEF b1
<1>6. \A i \in 1..Len(b1) : b1[i] <= t
  BY <1>2, <1>4, <1>5 DEF Aged
<1>7. ASSUME NEW i \in 1..Len(b1), NEW j \in 1..Len(b1), i <= j
      PROVE  b1[i] <= b1[j]
  <2>1. CASE j > Len(b)
    BY <1>4, <1>6, <2>1
  <2>2. CASE j <= Len(b)
    <3>1. i <= Len(b)
      BY <1>2, <1>7, <2>2
    <3>2. QED
      BY <1>5, <1>7, <2>2, <3>1 DEF Aged
  <2>3. QED
    BY <1>2, <2>1, <2>2
<1>8. QED
  BY <1>2, <1>6, <1>7 DEF Aged, b1, new

LEMMA ServedAged ==
  ASSUME NEW b \in Seq(Nat), NEW t \in Nat, Aged(b, t), NEW k \in 0..Len(b)
  PROVE  LET b1 == SubSeq(b, k + 1, Len(b))
         IN b1 \in Seq(Nat) /\ Len(b1) = Len(b) - k /\ Aged(b1, t)
<1> DEFINE b1 == SubSeq(b, k + 1, Len(b))
<1>1. b1 \in Seq(Nat) /\ Len(b1) = Len(b) - k
  OBVIOUS
<1>2. \A i \in 1..Len(b1) : b1[i] = b[i + k] /\ i + k \in 1..Len(b)
  BY <1>1
<1> HIDE DEF b1
<1>3. \A i, j \in 1..Len(b1) : i <= j => i + k <= j + k
  BY <1>1
<1>4. \A i, j \in 1..Len(b1) : i <= j => b1[i] <= b1[j]
  BY <1>2, <1>3 DEF Aged
<1>5. \A i \in 1..Len(b1) : b1[i] <= t
  BY <1>2 DEF Aged
<1>6. QED
  BY <1>1, <1>4, <1>5 DEF Aged, b1

-----------------------------------------------------------------------------
(* The steps.                                                              *)

LEMMA IInvInit ==
  ASSUME Init
  PROVE  IInv
<1>1. Len(Script) \in Nat \ {0}
  BY ConfigAssumption DEF ConfigAssumption
<1>2. start \in Nat /\ -FlushInterval \in Int /\ start + ProgressInterval \in Int
  BY ConfigAssumption DEF Init, ConfigAssumption
<1>3. now \in Nat /\ second \in 0..Len(Script) /\ offset \in Nat /\ free \in 0..MaxInflight
       /\ inflight \in 0..MaxInflight /\ progressAt \in Int /\ lastFlush \in Int
  BY <1>1, <1>2, ConfigAssumption DEF Init, ConfigAssumption
<1>4. backlog \in Seq(Nat) /\ total \in [Columns -> Nat]
  BY DEF Init, Zero
<1>5. TypeOK
  BY <1>3, <1>4 DEF Init, TypeOK
<1>6. \A c \in Columns : total[c] = 0
  BY DEF Init, Zero
<1>7. Balanced(total, free, inflight, Len(backlog)) /\ total["backlog_expired"] <= total["dropped_capacity"]
  BY <1>6, ConfigAssumption DEF Init, Balanced, Columns, ConfigAssumption
<1>8. QED
  BY <1>1, <1>5, <1>7 DEF Init, IInv, Aged

\* Sending the next requests of a second, t being total with the planned count of the second:
\* m start, q wait, and d are dropped, which happens only when the others fill the limits.
LEMMA DispatchTakes ==
  ASSUME IInv, NEW to \in Nat, NEW n \in Nat, NEW s, Dispatch(to, Launch(n), s),
         NEW t \in [Columns -> Nat], \A c \in Columns \ {"planned"} : t[c] = total[c],
         total' = Plus(t, Launch(n))
  PROVE  \E m, q, d \in Nat :
           /\ m <= free /\ q <= BacklogCapacity - Len(backlog)
           /\ d > 0 => m = free /\ q = BacklogCapacity - Len(backlog)
           /\ free' = free - m /\ inflight' = inflight + m
           /\ backlog' = backlog \o [k \in 1..q |-> now]
           /\ total' \in [Columns -> Nat]
           /\ total'["scheduled"] = total["scheduled"] + (m + q + d)
           /\ total'["started_immediate"] = total["started_immediate"] + m
           /\ total'["enqueued"] = total["enqueued"] + q
           /\ total'["dropped_capacity"] = total["dropped_capacity"] + d
           /\ total'["started"] = total["started"] + m
           /\ \A c \in {"backlog_expired", "started_from_backlog", "completed", "failed",
                        "timed_out"} : total'[c] = total[c]
<1> DEFINE sent == Launch(n)
<1>1. PICK cap \in Nat, max \in Nat, b \in Nat :
        cap = BacklogCapacity /\ max = MaxInflight /\ b = Len(backlog) /\ b <= cap
  <2>1. backlog \in Seq(Nat)
    BY DEF IInv, TypeOK
  <2>2. Len(backlog) <= BacklogCapacity
    BY DEF IInv, Balanced
  <2>3. BacklogCapacity \in Nat /\ MaxInflight \in Nat
    BY ConfigAssumption DEF ConfigAssumption
  <2>4. Len(backlog) \in Nat
    BY <2>1
  <2>5. QED
    BY <2>2, <2>3, <2>4, Zenon
<1>2. PICK f \in Nat, r \in Nat : f = free /\ r = BacklogCapacity - Len(backlog)
  <2>1. free \in Nat
    BY <1>1 DEF IInv, TypeOK
  <2>2. cap - b \in Nat
    BY <1>1
  <2>3. QED
    BY <1>1, <2>1, <2>2
<1>3. /\ DOMAIN sent \subseteq Columns /\ \A c \in DOMAIN sent : sent[c] \in Nat
      /\ DOMAIN sent = {"scheduled", "enqueued", "started", "started_immediate",
                        "dropped_capacity", "dropped_backlog_full"}
      /\ sent.scheduled = n /\ sent.started_immediate = sent.started
      /\ sent.started \in 0..f /\ sent.enqueued \in 0..r
      /\ n = sent.started + sent.enqueued + sent.dropped_capacity
      /\ sent.dropped_capacity > 0 => sent.started = f /\ sent.enqueued = r
  BY <1>2, LaunchType
<1>4. PICK m \in 0..f, q \in 0..r, d \in Nat :
        m = sent.started /\ q = sent.enqueued /\ d = sent.dropped_capacity
  BY <1>3
<1>5. m \in Nat /\ m <= f /\ q \in Nat /\ q <= r
  OBVIOUS
<1> HIDE DEF sent
<1>6. total' = Plus(t, sent)
  BY DEF sent
<1>7. /\ total' \in [Columns -> Nat]
      /\ \A c \in DOMAIN sent : total'[c] = t[c] + sent[c]
      /\ \A c \in Columns \ DOMAIN sent : total'[c] = t[c]
  BY <1>3, <1>6, PlusType
<1>8. /\ total'["scheduled"] = total["scheduled"] + (m + q + d)
      /\ total'["started_immediate"] = total["started_immediate"] + m
      /\ total'["enqueued"] = total["enqueued"] + q
      /\ total'["dropped_capacity"] = total["dropped_capacity"] + d
      /\ total'["started"] = total["started"] + m
      /\ \A c \in {"backlog_expired", "started_from_backlog", "completed", "failed",
                    "timed_out"} : total'[c] = total[c]
  BY <1>3, <1>4, <1>7 DEF Columns
<1>9. /\ free' = f - m /\ inflight' = inflight + m
      /\ backlog' = backlog \o [k \in 1..q |-> now]
  BY <1>2, <1>4 DEF Dispatch, sent
<1>10. d > 0 => m = f /\ q = r
  BY <1>3, <1>4
<1>11. QED
  BY <1>2, <1>5, <1>7, <1>8, <1>9, <1>10

LEMMA DispatchKeeps ==
  ASSUME IInv, pc \in {"waiting", "late", "spreading"},
         NEW to \in Nat, NEW n \in Nat, NEW s, Dispatch(to, Launch(n), s),
         NEW t \in [Columns -> Nat], \A c \in Columns \ {"planned"} : t[c] = total[c],
         total' = Plus(t, Launch(n))
  PROVE  IInv'
<1>1. PICK f \in 0..MaxInflight, i \in 0..MaxInflight, b \in Nat :
        f = free /\ i = inflight /\ b = Len(backlog)
  BY DEF IInv, TypeOK
<1>2. /\ Balanced(total, f, i, b) /\ total["backlog_expired"] <= total["dropped_capacity"]
      /\ total \in [Columns -> Nat] /\ backlog \in Seq(Nat) /\ now \in Nat /\ Aged(backlog, now)
  BY <1>1 DEF IInv, TypeOK
<1>3. b <= BacklogCapacity /\ MaxInflight \in Nat /\ BacklogCapacity \in Nat
  BY <1>2, ConfigAssumption DEF Balanced, ConfigAssumption
<1>4. PICK m \in Nat, q \in Nat, d \in Nat :
           /\ m <= f /\ q <= BacklogCapacity - b
           /\ free' = f - m /\ inflight' = i + m
           /\ backlog' = backlog \o [k \in 1..q |-> now]
           /\ total' \in [Columns -> Nat]
           /\ total'["scheduled"] = total["scheduled"] + (m + q + d)
           /\ total'["started_immediate"] = total["started_immediate"] + m
           /\ total'["enqueued"] = total["enqueued"] + q
           /\ total'["dropped_capacity"] = total["dropped_capacity"] + d
           /\ total'["started"] = total["started"] + m
           /\ \A c \in {"backlog_expired", "started_from_backlog", "completed", "failed",
                        "timed_out"} : total'[c] = total[c]
  BY <1>1, DispatchTakes
<1>5. m \in 0..f /\ q \in 0..(BacklogCapacity - b)
  BY <1>3, <1>4
<1>6. /\ Balanced(total', f - m, i + m, b + q)
      /\ total'["backlog_expired"] <= total'["dropped_capacity"]
      /\ f - m \in 0..MaxInflight /\ i + m \in 0..MaxInflight
  <2>1. PICK t0 \in [Columns -> Nat], t1 \in [Columns -> Nat] : t0 = total /\ t1 = total'
    BY <1>2, <1>4
  <2>2. SentCounts(t0, t1, m, q, d)
    BY <1>4, <2>1 DEF SentCounts
  <2>3. Balanced(t0, f, i, b) /\ t0["backlog_expired"] <= t0["dropped_capacity"]
    BY <1>2, <2>1
  <2>4. /\ Balanced(t1, f - m, i + m, b + q) /\ t1["backlog_expired"] <= t1["dropped_capacity"]
        /\ f - m \in 0..MaxInflight /\ i + m \in 0..MaxInflight
    BY <1>5, <2>2, <2>3, SendBalanced
  <2>5. QED
    BY <2>1, <2>4
<1>7. backlog' \in Seq(Nat) /\ Len(backlog') = b + q /\ Aged(backlog', now)
  BY <1>1, <1>2, <1>4, QueuedAged
<1>8. now' = now /\ start' = start /\ stop' = stop /\ backlogPc' = backlogPc
  BY DEF Dispatch, timeVars
<1>9. PICK l \in Nat, k \in Nat : l = Len(Script) /\ k = second /\ k < l
  BY ConfigAssumption DEF IInv, TypeOK, ConfigAssumption
<1>10. second' \in {k, k + 1} /\ offset' \in {0, to}
  BY <1>9 DEF Dispatch
<1>11. second' \in 0..Len(Script) /\ offset' \in Nat
  BY <1>9, <1>10
<1>12. /\ pc' \in {"waiting", "late", "spreading", "draining"}
       /\ lastFlush' \in {now, lastFlush}
       /\ progressAt' \in {Never, progressAt}
  BY DEF Dispatch
<1>13. lastFlush' \in Int /\ progressAt' \in Int
  BY <1>12 DEF IInv, TypeOK, Never
<1>14. pc' \in {"waiting", "late", "spreading"} => second' < Len(Script)
  <2>1. pc' = "spreading" => second' = k
    BY <1>9 DEF Dispatch
  <2>2. pc' \in {"waiting", "late"} => second' = k + 1 /\ k + 1 # l
    BY <1>9 DEF Dispatch
  <2>3. QED
    BY <1>9, <2>1, <2>2
<1>15. TypeOK'
  BY <1>4, <1>6, <1>7, <1>8, <1>11, <1>12, <1>13 DEF IInv, TypeOK
<1>16. QED
  BY <1>4, <1>6, <1>7, <1>8, <1>14, <1>15 DEF IInv

\* A step of the dispatch loop is such a Dispatch.
LEMMA DispatchSteps ==
  ASSUME IInv, DispatchSecond \/ DispatchMore
  PROVE  \E to, n \in Nat : \E s : \E t \in [Columns -> Nat] :
           /\ Dispatch(to, Launch(n), s) /\ total' = Plus(t, Launch(n))
           /\ \A c \in Columns \ {"planned"} : t[c] = total[c]
<1>1. second \in 0..(Len(Script) - 1) /\ total \in [Columns -> Nat] /\ offset \in Nat
  BY ConfigAssumption DEF DispatchSecond, DispatchMore, IInv, TypeOK, ConfigAssumption
<1>2. PICK to \in Nat : to = Due(second)
  BY <1>1, DueType
<1>3. CASE DispatchSecond
  <2>1. PICK n \in Nat : n = Assigned(second, 0, to)
    BY AssignedType
  <2>2. PICK p \in Nat : p = Assigned(second, 0, Script[second + 1])
    BY <1>1, DueType, AssignedType
  <2>3. PICK s, t : /\ Dispatch(to, Launch(n), s)
                    /\ t = Plus(total, [planned |-> p])
                    /\ total' = Plus(t, Launch(n))
    BY <1>2, <1>3, <2>1, <2>2 DEF DispatchSecond
  <2>4. /\ DOMAIN [planned |-> p] = {"planned"} /\ {"planned"} \subseteq Columns
        /\ \A c \in {"planned"} : [planned |-> p][c] \in Nat
    BY DEF Columns
  <2>5. t \in [Columns -> Nat] /\ \A c \in Columns \ {"planned"} : t[c] = total[c]
    BY <1>1, <2>3, <2>4, PlusType
  <2>6. QED
    BY <2>3, <2>5
<1>4. CASE DispatchMore
  <2>1. PICK n \in Nat : n = Assigned(second, offset, to)
    BY <1>1, AssignedType
  <2>2. Dispatch(to, Launch(n), stats) /\ total' = Plus(total, Launch(n))
    BY <1>2, <1>4, <2>1 DEF DispatchMore
  <2>3. QED
    BY <1>1, <2>2
<1>5. QED
  BY <1>3, <1>4

\* What a run of the backlog loop takes from the backlog: e items that expired, then m others,
\* none of which has.
LEMMA BacklogLoopTakes ==
  ASSUME IInv, BacklogLoop
  PROVE  \E e, m \in 0..Len(backlog) :
           /\ m <= Len(backlog) - e /\ m <= free
           /\ backlog' = SubSeq(backlog, e + m + 1, Len(backlog))
           /\ free' = free - m /\ inflight' = inflight + m
           /\ total' \in [Columns -> Nat]
           /\ total'["dropped_capacity"] = total["dropped_capacity"] + e
           /\ total'["backlog_expired"] = total["backlog_expired"] + e
           /\ total'["started"] = total["started"] + m
           /\ total'["started_from_backlog"] = total["started_from_backlog"] + m
           /\ \A c \in {"scheduled", "started_immediate", "enqueued", "completed", "failed",
                        "timed_out"} : total'[c] = total[c]
           /\ m > 0 => ~Expired(backlog[e + 1])
<1>1. PICK b \in Nat, f \in Nat : b = Len(backlog) /\ f = free
  BY ConfigAssumption DEF IInv, TypeOK, ConfigAssumption
<1>2. PICK e \in 0..b :
        /\ e < b => ~Expired(backlog[e + 1])
        /\ backlog' = SubSeq(backlog, e + Least(f, b - e) + 1, b)
        /\ free' = f - Least(f, b - e) /\ inflight' = inflight + Least(f, b - e)
        /\ total' = Plus(total, [dropped_capacity |-> e, backlog_expired |-> e,
                       started |-> Least(f, b - e), started_from_backlog |-> Least(f, b - e)])
  BY <1>1 DEF BacklogLoop
<1>3. PICK m \in 0..b : m = Least(f, b - e) /\ m <= b - e /\ m <= f
  BY DEF Least
<1>4. m > 0 => e < b
  BY <1>3
<1> DEFINE inc == [dropped_capacity |-> e, backlog_expired |-> e, started |-> m,
                   started_from_backlog |-> m]
<1>5. /\ DOMAIN inc = {"dropped_capacity", "backlog_expired", "started", "started_from_backlog"}
      /\ DOMAIN inc \subseteq Columns /\ \A c \in DOMAIN inc : inc[c] \in Nat
      /\ inc["dropped_capacity"] = e /\ inc["backlog_expired"] = e
      /\ inc["started"] = m /\ inc["started_from_backlog"] = m
  BY DEF Columns
<1>6. total' = Plus(total, inc)
  BY <1>2, <1>3
<1> HIDE DEF inc
<1>7. total \in [Columns -> Nat]
  BY DEF IInv, TypeOK
<1>8. PICK t \in [Columns -> Nat], t1 \in [Columns -> Nat] : t = total /\ t1 = total'
  BY <1>5, <1>6, <1>7, PlusType
<1>9. /\ t1["dropped_capacity"] = t["dropped_capacity"] + e
      /\ t1["backlog_expired"] = t["backlog_expired"] + e
      /\ t1["started"] = t["started"] + m
      /\ t1["started_from_backlog"] = t["started_from_backlog"] + m
      /\ \A c \in {"scheduled", "started_immediate", "enqueued", "completed", "failed",
                   "timed_out"} : t1[c] = t[c]
  BY <1>5, <1>6, <1>8, PlusType DEF Columns
<1>10. QED
  BY <1>1, <1>2, <1>3, <1>4, <1>8, <1>9

LEMMA BacklogLoopKeeps ==
  ASSUME IInv, BacklogLoop
  PROVE  IInv'
<1>1. PICK f \in 0..MaxInflight, i \in 0..MaxInflight, b \in Nat :
        f = free /\ i = inflight /\ b = Len(backlog)
  BY DEF IInv, TypeOK
<1>2. /\ Balanced(total, f, i, b) /\ total["backlog_expired"] <= total["dropped_capacity"]
      /\ total \in [Columns -> Nat] /\ backlog \in Seq(Nat) /\ now \in Nat /\ Aged(backlog, now)
  BY <1>1 DEF IInv, TypeOK
<1>3. MaxInflight \in Nat
  BY ConfigAssumption DEF ConfigAssumption
<1>4. PICK e \in 0..b, m \in 0..b :
        /\ m <= b - e /\ m <= f
        /\ backlog' = SubSeq(backlog, e + m + 1, b)
        /\ free' = f - m /\ inflight' = i + m
        /\ total' \in [Columns -> Nat]
        /\ total'["dropped_capacity"] = total["dropped_capacity"] + e
        /\ total'["backlog_expired"] = total["backlog_expired"] + e
        /\ total'["started"] = total["started"] + m
        /\ total'["started_from_backlog"] = total["started_from_backlog"] + m
        /\ \A c \in {"scheduled", "started_immediate", "enqueued", "completed", "failed",
                     "timed_out"} : total'[c] = total[c]
  BY <1>1, BacklogLoopTakes
<1>5. PICK t \in [Columns -> Nat], t1 \in [Columns -> Nat] : t = total /\ t1 = total'
  BY <1>2, <1>4
<1>6. /\ t1["dropped_capacity"] = t["dropped_capacity"] + e
      /\ t1["backlog_expired"] = t["backlog_expired"] + e
      /\ t1["started"] = t["started"] + m
      /\ t1["started_from_backlog"] = t["started_from_backlog"] + m
      /\ \A c \in {"scheduled", "started_immediate", "enqueued", "completed", "failed",
                   "timed_out"} : t1[c] = t[c]
  BY <1>4, <1>5
<1>7. Balanced(t, f, i, b) /\ t["backlog_expired"] <= t["dropped_capacity"] /\ m \in 0..f
  BY <1>2, <1>3, <1>4, <1>5
<1>8. /\ Balanced(t1, f - m, i + m, b - e - m) /\ t1["backlog_expired"] <= t1["dropped_capacity"]
      /\ f - m \in 0..MaxInflight /\ i + m \in 0..MaxInflight
  BY <1>4, <1>6, <1>7, ServeBalanced
<1>9. PICK k \in 0..b : k = e + m /\ b - k = b - e - m
  BY <1>4
<1>10. backlog' \in Seq(Nat) /\ Len(backlog') = b - e - m /\ Aged(backlog', now)
  BY <1>1, <1>2, <1>4, <1>9, ServedAged
<1>11. /\ UNCHANGED <<now, start, pc, second, offset, stop, lastFlush, progressAt>>
       /\ backlogPc' \in {"event", "token", "done"}
  BY DEF BacklogLoop, timeVars, dispatchVars
<1>12. TypeOK'
  BY <1>4, <1>5, <1>8, <1>10, <1>11 DEF IInv, TypeOK
<1>13. QED
  BY <1>4, <1>5, <1>8, <1>10, <1>11, <1>12 DEF IInv

LEMMA ExecuteRequestKeeps ==
  ASSUME IInv, NEW outcome \in Outcomes, ExecuteRequest(outcome)
  PROVE  /\ IInv'
         /\ total'["completed"] + total'["failed"] + total'["timed_out"]
              = (total["completed"] + total["failed"] + total["timed_out"]) + 1
         /\ \A c \in Columns \ {"completed", "failed", "timed_out"} : total'[c] = total[c]
<1>1. PICK f \in 0..MaxInflight, i \in 0..MaxInflight, b \in Nat :
        f = free /\ i = inflight /\ b = Len(backlog) /\ i > 0
  BY DEF IInv, TypeOK, ExecuteRequest
<1>2. /\ Balanced(total, f, i, b) /\ total["backlog_expired"] <= total["dropped_capacity"]
      /\ total \in [Columns -> Nat]
  BY <1>1 DEF IInv, TypeOK
<1>3. outcome \in {"completed", "failed", "timed_out"} /\ outcome \in Columns
  BY ConfigAssumption DEF ConfigAssumption, Columns
<1> DEFINE inc == [c \in {outcome} |-> 1]
<1>4. DOMAIN inc = {outcome} /\ inc[outcome] = 1 /\ 1 \in Nat
  OBVIOUS
<1>5. total' = Plus(total, inc) /\ free' = f + 1 /\ inflight' = i - 1
  BY <1>1 DEF ExecuteRequest
<1> HIDE DEF inc
<1>6. PICK t \in [Columns -> Nat], t1 \in [Columns -> Nat] : t = total /\ t1 = total'
  BY <1>2, <1>3, <1>4, <1>5, PlusType
<1>7. t1[outcome] = t[outcome] + 1 /\ \A c \in Columns \ {outcome} : t1[c] = t[c]
  BY <1>3, <1>4, <1>5, <1>6, PlusType
<1>8. Balanced(t, f, i, b) /\ t["backlog_expired"] <= t["dropped_capacity"]
  BY <1>2, <1>6
<1>9. /\ Balanced(t1, f + 1, i - 1, b) /\ t1["backlog_expired"] <= t1["dropped_capacity"]
      /\ f + 1 \in 0..MaxInflight /\ i - 1 \in 0..MaxInflight
      /\ t1["completed"] + t1["failed"] + t1["timed_out"]
           = (t["completed"] + t["failed"] + t["timed_out"]) + 1
  <2>1. SettledCounts(t, t1, outcome)
    BY <1>3, <1>7 DEF SettledCounts
  <2>2. QED
    BY <1>1, <1>8, <2>1, SettleBalanced
<1>10. UNCHANGED <<now, start, pc, second, offset, stop, lastFlush, backlog, backlogPc, progressAt>>
  BY DEF ExecuteRequest, timeVars, dispatchVars
<1>11. TypeOK'
  BY <1>5, <1>6, <1>9, <1>10 DEF IInv, TypeOK
<1>12. IInv'
  BY <1>1, <1>5, <1>6, <1>9, <1>10, <1>11 DEF IInv
<1>13. QED
  BY <1>3, <1>6, <1>7, <1>9, <1>12

\* The other steps move no request.
LEMMA OthersKeep ==
  ASSUME IInv, Finish \/ ProgressLoop \/ RequestStop \/ Tick \/ UNCHANGED vars
  PROVE  IInv' /\ UNCHANGED <<free, inflight, backlog, total>>
<1>1. now \in Nat /\ now + 1 \in Nat /\ now + ProgressInterval \in Int /\ Never \in Int
  BY ConfigAssumption DEF IInv, TypeOK, ConfigAssumption, Never
<1>2. UNCHANGED <<free, inflight, backlog, total, second, offset, lastFlush, start, backlogPc>>
  BY DEF Finish, ProgressLoop, RequestStop, Tick, vars, timeVars, dispatchVars, poolVars
<1>3. /\ pc' \in {pc, "finished"} /\ stop' \in {stop, TRUE} /\ now' \in {now, now + 1}
      /\ progressAt' \in {progressAt, Never, now + ProgressInterval}
  BY DEF Finish, ProgressLoop, RequestStop, Tick, vars, timeVars, dispatchVars, poolVars
<1>4. TypeOK'
  BY <1>1, <1>2, <1>3 DEF IInv, TypeOK
<1>5. Aged(backlog, now')
  <2>1. backlog \in Seq(Nat) /\ Aged(backlog, now)
    BY DEF IInv, TypeOK
  <2>2. \A k \in Nat : k <= now => k <= now + 1
    BY <1>1
  <2>3. \A j \in 1..Len(backlog) : backlog[j] \in Nat /\ backlog[j] <= now
    BY <2>1 DEF Aged
  <2>4. \A j \in 1..Len(backlog) : backlog[j] <= now'
    BY <1>3, <2>2, <2>3
  <2>5. QED
    BY <2>1, <2>4 DEF Aged
<1>6. QED
  BY <1>2, <1>3, <1>4, <1>5 DEF IInv

LEMMA IInvNext ==
  ASSUME IInv, [Next]_vars
  PROVE  IInv'
<1>1. CASE DispatchSecond \/ DispatchMore
  <2>1. pc \in {"waiting", "late", "spreading"}
    BY <1>1 DEF DispatchSecond, DispatchMore
  <2>2. QED
    BY <1>1, <2>1, DispatchSteps, DispatchKeeps
<1>2. QED
  BY <1>1, BacklogLoopKeeps, ExecuteRequestKeeps, OthersKeep DEF Next, LoopStep

LEMMA Invariant == Spec => []IInv
<1>1. Init => IInv
  BY IInvInit
<1>2. IInv /\ [Next]_vars => IInv'
  BY IInvNext
<1>3. QED
  BY <1>1, <1>2, PTL DEF Spec

\* Every request that reached its moment is in exactly one place and every token is in the
\* queue or held, with any script, shard, number of tokens and backlog, however late the event
\* loop is and whenever the stop comes.
THEOREM RequestsAlwaysAccounted == Spec => []RequestsAccounted
<1>1. IInv => RequestsAccounted
  BY IInvImplies
<1>2. QED
  BY <1>1, Invariant, PTL

-----------------------------------------------------------------------------
(* LoadSender implements BoundedService.                                   *)

LEMMA ArriveNumbers ==
  ASSUME NEW i \in Nat, NEW f \in Nat, NEW b \in Nat, NEW cap \in Nat, NEW max \in Nat,
         NEW m \in Nat, NEW q \in Nat, NEW d \in Nat, NEW drop \in Nat, NEW exp \in Nat,
         NEW sched \in Nat, f + i = max, b <= cap, m <= f, q <= cap - b, exp <= drop,
         d > 0 => m = f /\ q = cap - b
  PROVE  /\ i + m \in i..max /\ b + q \in b..cap
         /\ (drop + d) - exp \in Nat /\ (drop + d) - exp >= drop - exp
         /\ (drop + d) - exp > drop - exp => i + m = max /\ b + q = cap
         /\ sched + (m + q + d)
              = sched + ((i + m) - i) + ((b + q) - b) + (((drop + d) - exp) - (drop - exp))
OBVIOUS

LEMMA ServeNumbers ==
  ASSUME NEW i \in Nat, NEW f \in Nat, NEW b \in Nat, NEW max \in Nat, NEW e \in Nat,
         NEW m \in Nat, NEW drop \in Nat, NEW exp \in Nat, f + i = max,
         m <= f, m <= b - e
  PROVE  /\ b - e - m \in 0..b /\ i + m \in i..max
         /\ exp + e \in Nat /\ exp + e >= exp
         /\ (drop + e) - (exp + e) = drop - exp
         /\ b = (b - e - m) + ((i + m) - i) + ((exp + e) - exp)
OBVIOUS

LEMMA DispatchArrives ==
  ASSUME IInv, NEW to \in Nat, NEW n \in Nat, NEW s, Dispatch(to, Launch(n), s),
         NEW t \in [Columns -> Nat], \A c \in Columns \ {"planned"} : t[c] = total[c],
         total' = Plus(t, Launch(n))
  PROVE  Service!Arrive
<1>1. PICK m \in Nat, q \in Nat, d \in Nat :
           /\ m <= free /\ q <= BacklogCapacity - Len(backlog)
           /\ d > 0 => m = free /\ q = BacklogCapacity - Len(backlog)
           /\ inflight' = inflight + m
           /\ backlog' = backlog \o [k \in 1..q |-> now]
           /\ total'["scheduled"] = total["scheduled"] + (m + q + d)
           /\ total'["dropped_capacity"] = total["dropped_capacity"] + d
           /\ \A c \in {"backlog_expired", "started_from_backlog", "completed", "failed",
                        "timed_out"} : total'[c] = total[c]
  BY DispatchTakes
<1>2. /\ total \in [Columns -> Nat] /\ backlog \in Seq(Nat) /\ now \in Nat
      /\ Aged(backlog, now) /\ free + inflight = MaxInflight
      /\ Len(backlog) <= BacklogCapacity
      /\ total["backlog_expired"] <= total["dropped_capacity"]
      /\ free \in 0..MaxInflight /\ inflight \in 0..MaxInflight
  BY DEF IInv, TypeOK, Balanced
<1>3. PICK cap \in Nat, max \in Nat : cap = BacklogCapacity /\ max = MaxInflight
  BY ConfigAssumption DEF ConfigAssumption
<1>4. PICK b \in Nat : b = Len(backlog)
  BY <1>2
<1>5. PICK i \in Nat, f \in Nat : i = inflight /\ f = free
  BY <1>2, <1>3
<1>6. PICK drop \in Nat, exp \in Nat, sched \in Nat :
        drop = total["dropped_capacity"] /\ exp = total["backlog_expired"] /\ sched = total["scheduled"]
  BY <1>2 DEF Columns
<1>7. Len(backlog') = b + q
  BY <1>1, <1>2, <1>4, QueuedAged
<1>8. /\ inflight' = i + m
      /\ total'["scheduled"] = sched + (m + q + d)
      /\ total'["dropped_capacity"] = drop + d /\ total'["backlog_expired"] = exp
  BY <1>1, <1>5, <1>6
<1>9. /\ f + i = max /\ b <= cap /\ m <= f /\ q <= cap - b /\ exp <= drop
      /\ d > 0 => m = f /\ q = cap - b
  BY <1>1, <1>2, <1>3, <1>4, <1>5, <1>6
<1>10. /\ i + m \in i..max /\ b + q \in b..cap
       /\ (drop + d) - exp \in Nat /\ (drop + d) - exp >= drop - exp
       /\ (drop + d) - exp > drop - exp => i + m = max /\ b + q = cap
       /\ sched + (m + q + d)
            = sched + ((i + m) - i) + ((b + q) - b) + (((drop + d) - exp) - (drop - exp))
  BY <1>9, ArriveNumbers
<1>11. /\ total'["completed"] = total["completed"] /\ total'["failed"] = total["failed"]
       /\ total'["timed_out"] = total["timed_out"]
       /\ total'["backlog_expired"] = total["backlog_expired"]
  BY <1>1
<1>12. QED
  BY <1>3, <1>4, <1>5, <1>6, <1>7, <1>8, <1>10, <1>11 DEF Service!Arrive

LEMMA BacklogLoopServes ==
  ASSUME IInv, BacklogLoop
  PROVE  Service!Serve
<1>1. PICK e \in 0..Len(backlog), m \in 0..Len(backlog) :
        /\ m <= Len(backlog) - e /\ m <= free
        /\ backlog' = SubSeq(backlog, e + m + 1, Len(backlog))
        /\ inflight' = inflight + m
        /\ total'["dropped_capacity"] = total["dropped_capacity"] + e
        /\ total'["backlog_expired"] = total["backlog_expired"] + e
        /\ \A c \in {"scheduled", "completed", "failed", "timed_out"} : total'[c] = total[c]
  BY BacklogLoopTakes
<1>2. /\ total \in [Columns -> Nat] /\ backlog \in Seq(Nat) /\ now \in Nat
      /\ Aged(backlog, now) /\ free + inflight = MaxInflight
      /\ free \in 0..MaxInflight /\ inflight \in 0..MaxInflight
  BY DEF IInv, TypeOK, Balanced
<1>3. PICK max \in Nat, b \in Nat : max = MaxInflight /\ b = Len(backlog)
  <2>1. MaxInflight \in Nat
    BY ConfigAssumption DEF ConfigAssumption
  <2>2. QED
    BY <1>2, <2>1
<1>4. PICK i \in Nat, f \in Nat : i = inflight /\ f = free
  BY <1>2, <1>3
<1>5. PICK drop \in Nat, exp \in Nat :
        drop = total["dropped_capacity"] /\ exp = total["backlog_expired"]
  BY <1>2 DEF Columns
<1>6. e \in Nat /\ m \in Nat /\ m <= f /\ m <= b - e /\ f + i = max
  BY <1>1, <1>2, <1>3, <1>4
<1>7. PICK k \in 0..Len(backlog) : k = e + m /\ b - k = b - e - m
  BY <1>3, <1>6
<1>8. Len(backlog') = b - e - m
  BY <1>1, <1>2, <1>3, <1>7, ServedAged
<1>9. /\ total'["dropped_capacity"] = drop + e /\ total'["backlog_expired"] = exp + e
      /\ total'["scheduled"] = total["scheduled"] /\ total'["completed"] = total["completed"]
      /\ total'["failed"] = total["failed"] /\ total'["timed_out"] = total["timed_out"]
  BY <1>1, <1>5
<1>10. inflight' = i + m
  BY <1>1, <1>4
<1>11. /\ b - e - m \in 0..b /\ i + m \in i..max
       /\ exp + e \in Nat /\ exp + e >= exp
       /\ (drop + e) - (exp + e) = drop - exp
       /\ b = (b - e - m) + ((i + m) - i) + ((exp + e) - exp)
  BY <1>6, ServeNumbers
<1>12. QED
  BY <1>3, <1>4, <1>5, <1>8, <1>9, <1>10, <1>11 DEF Service!Serve

LEMMA ExecuteRequestSettles ==
  ASSUME IInv, NEW outcome \in Outcomes, ExecuteRequest(outcome)
  PROVE  Service!Settle
<1>1. /\ backlog' = backlog /\ inflight' = inflight - 1 /\ inflight > 0
      /\ inflight \in 0..MaxInflight /\ backlog \in Seq(Nat) /\ MaxInflight \in Nat
  BY ConfigAssumption DEF ExecuteRequest, IInv, TypeOK, ConfigAssumption
<1>2. PICK i \in Nat, b \in Nat : i = inflight /\ b = Len(backlog)
  BY <1>1
<1>3. i - 1 \in {i - 1, i} /\ b = b - ((i - 1) - (i - 1)) /\ b >= 0
  OBVIOUS
<1>4. /\ total'["completed"] + total'["failed"] + total'["timed_out"]
           = (total["completed"] + total["failed"] + total["timed_out"]) + 1
      /\ total'["scheduled"] = total["scheduled"]
      /\ total'["dropped_capacity"] = total["dropped_capacity"]
      /\ total'["backlog_expired"] = total["backlog_expired"]
  BY ExecuteRequestKeeps DEF Columns
<1>5. QED
  BY <1>1, <1>2, <1>3, <1>4 DEF Service!Settle

LEMMA ServiceStep ==
  ASSUME IInv, [Next]_vars
  PROVE  [Service!Next]_(Service!vars)
<1>1. CASE DispatchSecond \/ DispatchMore
  BY <1>1, DispatchSteps, DispatchArrives DEF Service!Next
<1>2. CASE BacklogLoop
  BY <1>2, BacklogLoopServes DEF Service!Next
<1>3. ASSUME NEW outcome \in Outcomes, ExecuteRequest(outcome)
      PROVE  [Service!Next]_(Service!vars)
  BY <1>3, ExecuteRequestSettles DEF Service!Next
<1>4. CASE Finish \/ ProgressLoop \/ RequestStop \/ Tick \/ UNCHANGED vars
  BY <1>4, OthersKeep DEF Service!vars
<1>5. QED
  BY <1>1, <1>2, <1>3, <1>4 DEF Next, LoopStep

\* The pool of tokens with its backlog does what a bounded service promises: requests are
\* refused only when every token is taken and the backlog is full, and each one is refused,
\* given up or settled once.
THEOREM ImplementsBoundedService == Spec => ServiceSpec
<1>1. Init => Service!Init
  BY ConfigAssumption DEF Init, Zero, Columns, Service!Init
<1>2. IInv /\ [Next]_vars => [Service!Next]_(Service!vars)
  BY ServiceStep
<1>3. QED
  BY <1>1, <1>2, Invariant, PTL DEF Spec, ServiceSpec, Service!Spec

-----------------------------------------------------------------------------
(* What is started from the backlog.                                       *)

\* Of two items the newer one waits less.
LEMMA NewerIsFresher ==
  ASSUME NEW t \in Nat, NEW x \in Nat, NEW y \in Nat, NEW a \in Nat, x <= y, ~(t - x > a)
  PROVE  ~(t - y > a)
OBVIOUS

\* No request is started from the backlog past its age, for any age, any clock and any wait
\* for a token: the backlog is in order of age, so the first one tells for the others.
THEOREM StartsAlwaysFresh == Spec => StartsAreFresh
<1> DEFINE begun == total'["started_from_backlog"] - total["started_from_backlog"]
           gone == Len(backlog) - Len(backlog')
           Fresh == begun > 0 => \A i \in (gone - begun + 1)..gone : ~Expired(backlog[i])
<1>1. ASSUME IInv, [Next]_vars
      PROVE  Fresh
  <2>1. total \in [Columns -> Nat] /\ backlog \in Seq(Nat) /\ Aged(backlog, now) /\ now \in Nat
    BY <1>1 DEF IInv, TypeOK
  <2>2. PICK c0 \in Nat, b \in Nat : c0 = total["started_from_backlog"] /\ b = Len(backlog)
    BY <2>1 DEF Columns
  <2>3. CASE BacklogLoop
    <3>1. PICK e \in 0..b, m \in 0..b :
            /\ m <= b - e
            /\ backlog' = SubSeq(backlog, e + m + 1, b)
            /\ total'["started_from_backlog"] = total["started_from_backlog"] + m
            /\ m > 0 => ~Expired(backlog[e + 1])
      BY <1>1, <2>2, <2>3, BacklogLoopTakes
    <3>2. e \in Nat /\ m \in Nat
      OBVIOUS
    <3>3. PICK k \in 0..b : k = e + m
      BY <3>1, <3>2
    <3>4. Len(backlog') = b - k
      BY <2>1, <2>2, <3>1, <3>3, ServedAged
    <3>5. total'["started_from_backlog"] = c0 + m
      BY <2>2, <3>1
    <3>6. begun = m /\ gone = e + m
      <4>1. (c0 + m) - c0 = m /\ b - (b - k) = k
        BY <3>2
      <4>2. QED
        BY <2>2, <3>3, <3>4, <3>5, <4>1
    <3>7. ASSUME m > 0, NEW i \in (e + 1)..(e + m)
          PROVE  ~Expired(backlog[i])
      <4>1. i \in 1..b /\ e + 1 \in 1..b /\ e + 1 <= i
        BY <3>1, <3>2, <3>7
      <4>2. PICK x \in Nat, y \in Nat : x = backlog[e + 1] /\ y = backlog[i] /\ x <= y
        BY <2>1, <2>2, <4>1 DEF Aged
      <4>3. ~(now - x > BacklogMaxAge)
        BY <3>1, <3>7, <4>2 DEF Expired
      <4>4. ~(now - y > BacklogMaxAge)
        <5>1. BacklogMaxAge \in Nat /\ now \in Nat
          BY <2>1, ConfigAssumption DEF ConfigAssumption
        <5>2. QED
          BY <4>2, <4>3, <5>1, NewerIsFresher
      <4>5. QED
        BY <4>2, <4>4 DEF Expired
    <3>8. (e + m) - m + 1 = e + 1
      BY <3>2
    <3>9. QED
      BY <3>6, <3>7, <3>8
  <2>4. ASSUME total'["started_from_backlog"] = total["started_from_backlog"]
        PROVE  Fresh
    BY <2>2, <2>4
  <2>5. CASE DispatchSecond \/ DispatchMore
    <3>1. total'["started_from_backlog"] = total["started_from_backlog"]
      BY <1>1, <2>5, DispatchSteps, DispatchTakes
    <3>2. QED
      BY <2>4, <3>1
  <2>6. ASSUME NEW outcome \in Outcomes, ExecuteRequest(outcome)
        PROVE  Fresh
    <3>1. total'["started_from_backlog"] = total["started_from_backlog"]
      BY <1>1, <2>6, ExecuteRequestKeeps DEF Columns
    <3>2. QED
      BY <2>4, <3>1
  <2>7. CASE Finish \/ ProgressLoop \/ RequestStop \/ Tick \/ UNCHANGED vars
    BY <1>1, <2>4, <2>7, OthersKeep
  <2>8. QED
    BY <1>1, <2>3, <2>5, <2>6, <2>7 DEF Next, LoopStep
<1>2. IInv /\ [Next]_vars => Fresh
  BY <1>1
<1>3. QED
  BY <1>2, Invariant, PTL DEF Spec, StartsAreFresh

-----------------------------------------------------------------------------
(* Sums over the rows of a report.                                         *)

\* A least number is what induction over Nat needs: it takes the least counterexample.
LEMMA LeastExists ==
  ASSUME NEW T, T \subseteq Nat, T # {}
  PROVE  \E m \in T : \A k \in T : m <= k
<1>1. \E m \in T : \A k \in T : ~(<<k, m>> \in OpToRel(<, Nat))
  <2>1. IsWellFoundedOn(OpToRel(<, Nat), Nat)
    BY NatLessThanWellFounded, Zenon
  <2>2. QED
    BY ONLY <2>1, WFMin, T \subseteq Nat, T # {}, Zenon
<1>2. \A k, m \in Nat : k < m => <<k, m>> \in OpToRel(<, Nat)
  BY Zenon DEF OpToRel
<1>3. PICK m \in T : \A k \in T : ~(k < m)
  BY <1>1, <1>2, Zenon
<1>4. \A k \in T : m <= k
  BY <1>3
<1>5. QED
  BY <1>4

Rows == Seq([Columns -> Nat])

\* g[i] is the sum of column c over the first i rows.
Sums(g, rows, c) ==
  /\ g \in [0..Len(rows) -> Nat] /\ g[0] = 0
  /\ \A i \in 1..Len(rows) : g[i] = g[i - 1] + rows[i][c]

LEMMA SumsExist ==
  ASSUME NEW rows \in Rows, NEW c \in Columns
  PROVE  \E g : Sums(g, rows, c)
<1> DEFINE Upto(m, g) == /\ g \in [0..m -> Nat] /\ g[0] = 0
                         /\ \A i \in 1..m : g[i] = g[i - 1] + rows[i][c]
           T == {m \in 0..Len(rows) : ~\E g : Upto(m, g)}
<1>1. PICK n \in Nat : n = Len(rows) /\ \A i \in 1..n : rows[i][c] \in Nat
  BY DEF Rows
<1>2. SUFFICES ASSUME T # {} PROVE FALSE
  BY <1>1 DEF Sums
<1>3. PICK m \in T : \A k \in T : m <= k
  <2>1. T \subseteq Nat
    BY <1>1
  <2> HIDE DEF T
  <2>2. QED
    BY <1>2, <2>1, LeastExists
<1>4. m \in 0..n /\ ~\E g : Upto(m, g)
  BY <1>1, <1>3
<1>5. m # 0
  <2>1. Upto(0, [i \in 0..0 |-> 0])
    OBVIOUS
  <2>2. QED
    BY <1>4, <2>1
<1>6. m - 1 \in 0..n /\ m - 1 \notin T
  <2>1. m - 1 \in 0..n /\ ~(m <= m - 1)
    BY <1>4, <1>5
  <2> HIDE DEF T
  <2>2. QED
    BY <1>3, <2>1
<1>7. PICK g : Upto(m - 1, g)
  BY <1>1, <1>6
<1>8. Upto(m, [i \in 0..m |-> IF i = m THEN g[m - 1] + rows[m][c] ELSE g[i]])
  BY <1>1, <1>4, <1>5, <1>7
<1>9. QED
  BY <1>4, <1>8

\* There is one such function, and SumRows is its last value.
LEMMA SumsGive ==
  ASSUME NEW rows \in Rows, NEW c \in Columns, NEW g, Sums(g, rows, c)
  PROVE  SumRows(rows, c) = g[Len(rows)]
<1>1. PICK n \in Nat : n = Len(rows) /\ \A i \in 1..n : rows[i][c] \in Nat
  BY DEF Rows
<1> DEFINE Def(s) == s = [i \in 0..n |-> IF i = 0 THEN 0 ELSE s[i - 1] + rows[i][c]]
           sum == CHOOSE s : Def(s)
<1>2. SumRows(rows, c) = sum[n]
  BY <1>1, Zenon DEF SumRows
<1>3. Def(g)
  BY <1>1 DEF Sums
<1>4. Def(sum)
  BY <1>3, Zenon
<1> HIDE DEF sum
<1>5. /\ sum[0] = 0 /\ \A i \in 1..n : sum[i] = sum[i - 1] + rows[i][c]
  <2> DEFINE Value(i) == IF i = 0 THEN 0 ELSE sum[i - 1] + rows[i][c]
  <2>1. sum = [i \in 0..n |-> Value(i)]
    BY <1>4
  <2>2. \A i \in 0..n : sum[i] = Value(i)
    BY <2>1, Zenon
  <2>3. 0 \in 0..n /\ \A i \in 1..n : i \in 0..n /\ i # 0
    BY <1>1
  <2>4. QED
    BY <2>2, <2>3
<1> HIDE DEF Def
<1>6. g \in [0..n -> Nat] /\ g[0] = 0 /\ \A i \in 1..n : g[i] = g[i - 1] + rows[i][c]
  BY <1>1 DEF Sums
<1> DEFINE T == {m \in 0..n : sum[m] # g[m]}
<1>7. SUFFICES ASSUME T # {} PROVE FALSE
  BY <1>1, <1>2
<1>8. PICK m \in T : \A k \in T : m <= k
  <2>1. T \subseteq Nat
    BY <1>1
  <2> HIDE DEF T
  <2>2. QED
    BY <1>7, <2>1, LeastExists
<1>9. m # 0
  BY <1>5, <1>6, <1>8
<1>10. m - 1 \in 0..n /\ m \in 1..n /\ ~(m <= m - 1)
  BY <1>8, <1>9
<1>11. sum[m - 1] = g[m - 1]
  BY <1>8, <1>10
<1>12. QED
  BY <1>5, <1>6, <1>8, <1>10, <1>11

\* What the lemmas below use of SumRows.
LEMMA SumRowsIs ==
  ASSUME NEW rows \in Rows, NEW c \in Columns
  PROVE  /\ \E g : Sums(g, rows, c)
         /\ \A g : Sums(g, rows, c) => SumRows(rows, c) = g[Len(rows)]
         /\ SumRows(rows, c) \in Nat
<1>1. PICK g : Sums(g, rows, c)
  BY SumsExist
<1>2. Len(rows) \in 0..Len(rows)
  BY DEF Rows
<1>3. QED
  BY <1>1, <1>2, SumsGive DEF Sums

LEMMA SumNone ==
  ASSUME NEW rows \in Rows, NEW c \in Columns, \A i \in 1..Len(rows) : rows[i][c] = 0
  PROVE  SumRows(rows, c) = 0
<1>1. Sums([i \in 0..Len(rows) |-> 0], rows, c) /\ Len(rows) \in Nat
  BY DEF Sums, Rows
<1>2. QED
  BY <1>1, SumRowsIs

LEMMA SumAppended ==
  ASSUME NEW rows \in Rows, NEW more \in Rows, NEW c \in Columns
  PROVE  SumRows(rows \o more, c) = SumRows(rows, c) + SumRows(more, c)
<1>1. PICK g, h : Sums(g, rows, c) /\ Sums(h, more, c)
  BY SumRowsIs
<1>2. PICK n \in Nat, k \in Nat : n = Len(rows) /\ k = Len(more)
  BY DEF Rows
<1> DEFINE all == rows \o more
           f == [i \in 0..(n + k) |-> IF i <= n THEN g[i] ELSE g[n] + h[i - n]]
<1>3. /\ all \in Rows /\ Len(all) = n + k
      /\ \A i \in 1..(n + k) : all[i] = IF i <= n THEN rows[i] ELSE more[i - n]
  BY <1>2 DEF Rows
<1> HIDE DEF all
<1>4. /\ g \in [0..n -> Nat] /\ h \in [0..k -> Nat] /\ g[0] = 0 /\ h[0] = 0
      /\ \A i \in 1..n : g[i] = g[i - 1] + rows[i][c]
      /\ \A i \in 1..k : h[i] = h[i - 1] + more[i][c]
      /\ \A i \in 1..n : rows[i][c] \in Nat
      /\ \A i \in 1..k : more[i][c] \in Nat
  BY <1>1, <1>2 DEF Sums, Rows
<1>5. f \in [0..(n + k) -> Nat] /\ f[0] = 0
  BY <1>4
<1>6. /\ \A i \in 0..n : f[i] = g[i]
      /\ \A i \in (n + 1)..(n + k) : f[i] = g[n] + h[i - n]
  OBVIOUS
<1> HIDE DEF f
<1>7. ASSUME NEW i \in 1..(n + k)
      PROVE  f[i] = f[i - 1] + all[i][c]
  <2>1. CASE i <= n
    <3>1. i \in 1..n /\ i \in 0..n /\ i - 1 \in 0..n
      BY <2>1
    <3>2. all[i] = rows[i] /\ f[i] = g[i] /\ f[i - 1] = g[i - 1]
      BY <1>3, <1>6, <2>1, <3>1
    <3>3. QED
      BY <1>4, <3>1, <3>2
  <2>2. CASE i > n
    <3>1. i - n \in 1..k /\ (i - 1) - n = (i - n) - 1 /\ ~(i <= n)
      BY <2>2
    <3>2. h[i - n] = h[(i - 1) - n] + more[i - n][c]
      BY <1>4, <3>1
    <3>3. f[i - 1] = g[n] + h[(i - 1) - n]
      <4>1. CASE i - 1 = n
        <5>1. f[i - 1] = g[n] /\ (i - 1) - n = 0 /\ g[n] \in Nat
          BY <1>4, <1>6, <4>1
        <5>2. QED
          BY <1>4, <5>1
      <4>2. CASE i - 1 # n
        <5>1. i - 1 \in (n + 1)..(n + k)
          BY <2>2, <4>2
        <5>2. QED
          BY <1>6, <5>1
      <4>3. QED
        BY <4>1, <4>2
    <3>4. f[i] = g[n] + h[i - n] /\ all[i] = more[i - n]
      BY <1>3, <1>6, <2>2, <3>1
    <3>5. (i - 1) - n \in 0..k /\ g[n] \in Nat /\ h[(i - 1) - n] \in Nat /\ more[i - n][c] \in Nat
      BY <1>4, <2>2, <3>1
    <3>6. QED
      BY <3>2, <3>3, <3>4, <3>5
  <2>3. QED
    BY <2>1, <2>2
<1>8. f[n + k] = g[n] + h[k]
  <2>1. CASE k = 0
    BY <1>4, <1>6, <2>1
  <2>2. CASE k # 0
    BY <1>6, <2>2
  <2>3. QED
    BY <2>1, <2>2
<1>9. Sums(f, all, c)
  BY <1>3, <1>5, <1>7 DEF Sums
<1>10. QED
  BY <1>1, <1>2, <1>3, <1>8, <1>9, SumRowsIs DEF all

\* One row grows by k.
LEMMA SumGrown ==
  ASSUME NEW rows \in Rows, NEW grown \in Rows, NEW c \in Columns, Len(grown) = Len(rows),
         NEW j \in 1..Len(rows), NEW k \in Nat, grown[j][c] = rows[j][c] + k,
         \A i \in 1..Len(rows) : i # j => grown[i][c] = rows[i][c]
  PROVE  SumRows(grown, c) = SumRows(rows, c) + k
<1>1. PICK g : Sums(g, rows, c)
  BY SumRowsIs
<1>2. PICK n \in Nat : n = Len(rows) /\ n = Len(grown) /\ j \in 1..n
  BY DEF Rows
<1>3. /\ g \in [0..n -> Nat] /\ g[0] = 0
      /\ \A i \in 1..n : g[i] = g[i - 1] + rows[i][c] /\ rows[i][c] \in Nat
  BY <1>1, <1>2 DEF Sums, Rows
<1> DEFINE f == [i \in 0..n |-> g[i] + (IF i >= j THEN k ELSE 0)]
<1>4. f \in [0..n -> Nat] /\ f[0] = 0 /\ f[n] = g[n] + k
  BY <1>2, <1>3
<1>5. \A i \in 0..n : f[i] = (IF i >= j THEN g[i] + k ELSE g[i])
  BY <1>3
<1> HIDE DEF f
<1>6. ASSUME NEW i \in 1..n
      PROVE  f[i] = f[i - 1] + grown[i][c]
  <2>1. /\ i - 1 \in 0..n /\ i \in 0..n /\ g[i - 1] \in Nat /\ rows[i][c] \in Nat
        /\ g[i] = g[i - 1] + rows[i][c]
    <3>1. i - 1 \in 0..n /\ i \in 0..n
      OBVIOUS
    <3>2. QED
      BY <1>3, <3>1
  <2>2. /\ f[i] = (IF i >= j THEN g[i] + k ELSE g[i])
        /\ f[i - 1] = (IF i - 1 >= j THEN g[i - 1] + k ELSE g[i - 1])
    BY <1>5, <2>1
  <2>3. grown[i][c] = (IF i = j THEN rows[i][c] + k ELSE rows[i][c])
    BY <1>2
  <2>4. QED
    BY <1>2, <2>1, <2>2, <2>3
<1>7. Sums(f, grown, c)
  BY <1>2, <1>4, <1>6 DEF Sums
<1>8. QED
  BY <1>1, <1>2, <1>4, <1>7, SumRowsIs

\* The rows after the first k are cut out, as many as there are in cut.
LEMMA SumCut ==
  ASSUME NEW rows \in Rows, NEW left \in Rows, NEW cut \in Rows, NEW c \in Columns,
         Len(left) = Len(rows), NEW k \in Nat, k + Len(cut) <= Len(rows),
         \A i \in 1..Len(cut) : cut[i][c] = rows[k + i][c],
         \A i \in 1..Len(rows) :
           left[i][c] = IF k < i /\ i <= k + Len(cut) THEN 0 ELSE rows[i][c]
  PROVE  SumRows(rows, c) = SumRows(left, c) + SumRows(cut, c)
<1>1. PICK g, h : Sums(g, left, c) /\ Sums(h, cut, c)
  BY SumRowsIs
<1>2. PICK n \in Nat, m \in Nat : n = Len(rows) /\ n = Len(left) /\ m = Len(cut) /\ k + m <= n
  BY DEF Rows
<1>3. /\ g \in [0..n -> Nat] /\ h \in [0..m -> Nat] /\ g[0] = 0 /\ h[0] = 0
      /\ \A i \in 1..n : g[i] = g[i - 1] + left[i][c] /\ rows[i][c] \in Nat
      /\ \A i \in 1..m : h[i] = h[i - 1] + cut[i][c] /\ cut[i][c] = rows[k + i][c]
  BY <1>1, <1>2 DEF Sums, Rows
<1>4. \A i \in 1..n : left[i][c] = IF k < i /\ i <= k + m THEN 0 ELSE rows[i][c]
  BY <1>2
<1> DEFINE Taken(i) == IF i <= k THEN 0 ELSE IF i <= k + m THEN i - k ELSE m
           f == [i \in 0..n |-> g[i] + h[Taken(i)]]
<1>5. \A i \in 0..n : Taken(i) \in 0..m
  OBVIOUS
<1>6. Taken(0) = 0 /\ Taken(n) = m
  BY <1>2
<1>7. f \in [0..n -> Nat] /\ f[0] = 0 /\ f[n] = g[n] + h[m]
  <2> HIDE DEF Taken
  <2>1. \A i \in 0..n : g[i] \in Nat /\ h[Taken(i)] \in Nat
    BY <1>3, <1>5
  <2>2. f \in [0..n -> Nat]
    BY <2>1
  <2>3. f[0] = g[0] + h[Taken(0)] /\ f[n] = g[n] + h[Taken(n)]
    BY <1>2
  <2> HIDE DEF f
  <2>4. f[n] = g[n] + h[m]
    BY <1>6, <2>3, Zenon
  <2>5. f[0] = 0
    BY <1>3, <1>6, <2>3
  <2>6. QED
    BY <2>2, <2>4, <2>5
<1>8. ASSUME NEW i \in 1..n
      PROVE  f[i] = f[i - 1] + rows[i][c]
  <2>1. i - 1 \in 0..n /\ f[i] = g[i] + h[Taken(i)] /\ f[i - 1] = g[i - 1] + h[Taken(i - 1)]
    <3> HIDE DEF Taken
    <3>1. QED
      OBVIOUS
  <2>2. /\ g[i - 1] \in Nat /\ rows[i][c] \in Nat /\ h[Taken(i - 1)] \in Nat
        /\ g[i] = g[i - 1] + left[i][c]
    BY <1>3, <1>5, <2>1
  <2>3. CASE k < i /\ i <= k + m
    <3>1. /\ Taken(i) = i - k /\ Taken(i - 1) = (i - k) - 1
          /\ i - k \in 1..m /\ k + (i - k) = i
      BY <2>3
    <3>2. h[Taken(i)] = h[Taken(i - 1)] + rows[i][c]
      <4>1. h[i - k] = h[(i - k) - 1] + cut[i - k][c] /\ cut[i - k][c] = rows[k + (i - k)][c]
        BY <1>3, <3>1
      <4>2. QED
        BY ONLY <3>1, <4>1
    <3>3. left[i][c] = 0
      BY <1>4, <2>3
    <3> HIDE DEF Taken, f
    <3>4. QED
      BY <2>1, <2>2, <3>2, <3>3
  <2>4. CASE ~(k < i /\ i <= k + m)
    <3>1. Taken(i) = Taken(i - 1)
      BY <2>4
    <3>2. left[i][c] = rows[i][c]
      BY <1>4, <2>4
    <3> HIDE DEF Taken, f
    <3>3. QED
      BY <2>1, <2>2, <3>1, <3>2
  <2>5. QED
    BY <2>3, <2>4
<1> HIDE DEF f
<1>9. Sums(f, rows, c)
  BY <1>2, <1>7, <1>8 DEF Sums
<1>10. QED
  BY <1>1, <1>2, <1>7, <1>9, SumRowsIs

-----------------------------------------------------------------------------
(* The reports.                                                            *)

Own == Columns \ {"planned"}
InMemory(s) == [i \in 1..Cardinality(Seconds) |-> s.pending[i - 1]]

StatisticsType == [pending : [Seconds -> [Columns -> Nat]], rows : Rows, latest : Int]
RequestsType == [counts : [Seconds -> Nat], written : [Seconds -> Nat]]

\* Statistics s and request report r agree with the counts t at second bucket: the rows in the
\* file and in memory add up, nothing that counts is in memory for a row of the file or for a
\* second to come, both reports have the same starts, and what is written is not counted again.
Books(s, r, t, bucket) ==
  /\ s \in StatisticsType /\ r \in RequestsType
  /\ s.latest <= bucket
  /\ \A k \in Seconds : k > s.latest => s.pending[k] = Zero
  /\ \A c \in Own : SumRows(s.rows, c) + SumRows(InMemory(s), c) = t[c]
  /\ \A k \in Seconds, c \in Own : k < Len(s.rows) => s.pending[k][c] = 0
  /\ \A k \in Seconds :
       r.counts[k] = s.pending[k]["started"]
                       + (IF k < Len(s.rows) THEN s.rows[k + 1]["started"] ELSE 0)
  /\ \A k \in Seconds : r.written[k] \in {0, r.counts[k]}

LEMMA Quotient ==
  ASSUME NEW a \in Nat, NEW d \in Nat \ {0}
  PROVE  a \div d \in Nat
OBVIOUS

LEMMA SecondsAre ==
  \E last \in Nat : Seconds = 0..last /\ Cardinality(Seconds) = last + 1
<1>1. PICK last \in Nat : last = MaxTime \div TicksPerSecond
  <2>1. MaxTime \in Nat /\ TicksPerSecond \in Nat \ {0}
    BY ConfigAssumption DEF ConfigAssumption
  <2>2. QED
    BY <2>1, Quotient
<1>2. Cardinality(0..last) = last + 1
  BY FS_Interval
<1>3. QED
  BY <1>1, <1>2 DEF Seconds

LEMMA InMemoryIs ==
  ASSUME NEW s, s.pending \in [Seconds -> [Columns -> Nat]]
  PROVE  /\ InMemory(s) \in Rows /\ Len(InMemory(s)) = Cardinality(Seconds)
         /\ \A i \in 1..Len(InMemory(s)) : i - 1 \in Seconds /\ InMemory(s)[i] = s.pending[i - 1]
<1>1. PICK last \in Nat : Seconds = 0..last /\ Cardinality(Seconds) = last + 1
  BY SecondsAre
<1>2. \A i \in 1..(last + 1) : i - 1 \in Seconds /\ s.pending[i - 1] \in [Columns -> Nat]
  BY <1>1
<1> DEFINE memory == [i \in 1..(last + 1) |-> s.pending[i - 1]]
<1>3. InMemory(s) = memory
  BY <1>1 DEF InMemory
<1>4. /\ memory \in Seq([Columns -> Nat]) /\ Len(memory) = last + 1
      /\ \A i \in 1..(last + 1) : memory[i] = s.pending[i - 1]
  BY <1>2
<1> HIDE DEF memory
<1>5. QED
  BY <1>1, <1>2, <1>3, <1>4 DEF Rows

\* What column c grows by.
Added(inc, c) == IF c \in DOMAIN inc THEN inc[c] ELSE 0

LEMMA PlusAdded ==
  ASSUME NEW t \in [Columns -> Nat], NEW inc, DOMAIN inc \subseteq Columns,
         \A c \in DOMAIN inc : inc[c] \in Nat
  PROVE  /\ Plus(t, inc) \in [Columns -> Nat]
         /\ \A c \in Columns : Added(inc, c) \in Nat /\ Plus(t, inc)[c] = t[c] + Added(inc, c)
<1>1. \A c \in Columns : t[c] \in Nat /\ t[c] + 0 = t[c]
  OBVIOUS
<1>2. QED
  BY <1>1, PlusType DEF Added

\* Counts inc of second b are recorded, and counted, r1 being the request report with its starts.
LEMMA RecordedBooks ==
  ASSUME NEW s, NEW r, NEW t \in [Columns -> Nat], NEW bucket \in Int, Books(s, r, t, bucket),
         NEW b \in Seconds, b <= bucket,
         NEW inc, DOMAIN inc \subseteq Columns, \A c \in DOMAIN inc : inc[c] \in Nat,
         Len(s.rows) <= b \/ \A c \in Own : Added(inc, c) = 0,
         NEW r1 \in RequestsType, r1.written = r.written,
         \A k \in Seconds :
           r1.counts[k] = IF k = b THEN r.counts[k] + Added(inc, "started") ELSE r.counts[k],
         Added(inc, "started") # 0 => r.written[b] = 0
  PROVE  Books(Recorded(s, b, inc), r1, Plus(t, inc), bucket) /\ Recorded(s, b, inc).rows = s.rows
<1> DEFINE s1 == Recorded(s, b, inc)
           t1 == Plus(t, inc)
           row == Plus(s.pending[b], inc)
<1>1. /\ s.pending \in [Seconds -> [Columns -> Nat]] /\ s.rows \in Rows /\ s.latest \in Int
      /\ s.pending[b] \in [Columns -> Nat] /\ r \in RequestsType /\ Len(s.rows) \in Nat
  BY DEF Books, StatisticsType, Rows
<1>2. /\ row \in [Columns -> Nat]
      /\ \A c \in Columns : Added(inc, c) \in Nat /\ row[c] = s.pending[b][c] + Added(inc, c)
  BY <1>1, PlusAdded
<1>3. t1 \in [Columns -> Nat] /\ \A c \in Columns : t1[c] = t[c] + Added(inc, c)
  BY PlusAdded
<1>4. PICK last \in Nat : Seconds = 0..last /\ Cardinality(Seconds) = last + 1
  BY SecondsAre
<1>5. s1 = [s EXCEPT !.pending = [s.pending EXCEPT ![b] = row], !.latest = Most(s.latest, b)]
  BY DEF Recorded
<1> HIDE DEF row
<1>6. /\ s1.rows = s.rows /\ s1.latest = Most(s.latest, b)
      /\ s1.pending = [s.pending EXCEPT ![b] = row]
      /\ s1 \in [pending : {[s.pending EXCEPT ![b] = row]}, rows : {s.rows}, latest : {Most(s.latest, b)}]
  BY <1>1, <1>5 DEF Books, StatisticsType
<1> HIDE DEF s1
<1>7. /\ s1.pending \in [Seconds -> [Columns -> Nat]]
      /\ s1.pending[b] = row
      /\ \A k \in Seconds : k # b => s1.pending[k] = s.pending[k]
  BY <1>1, <1>2, <1>6
<1>8. s1.latest \in Int /\ s1.latest <= bucket /\ b <= s1.latest /\ s.latest <= s1.latest
  BY <1>1, <1>4, <1>6 DEF Most, Books
<1>9. s1 \in StatisticsType
  BY <1>1, <1>6, <1>7, <1>8 DEF StatisticsType
<1>10. ASSUME NEW k \in Seconds, k > s1.latest
       PROVE  s1.pending[k] = Zero
  <2>1. k # b /\ k > s.latest
    BY <1>1, <1>4, <1>8, <1>10
  <2>2. QED
    BY <1>7, <2>1 DEF Books
<1>11. ASSUME NEW c \in Own
       PROVE  SumRows(s1.rows, c) + SumRows(InMemory(s1), c) = t1[c]
  <2>1. c \in Columns
    BY DEF Own
  <2>2. /\ InMemory(s) \in Rows /\ InMemory(s1) \in Rows
        /\ Len(InMemory(s)) = last + 1 /\ Len(InMemory(s1)) = last + 1
        /\ \A i \in 1..(last + 1) : InMemory(s)[i] = s.pending[i - 1]
        /\ \A i \in 1..(last + 1) : InMemory(s1)[i] = s1.pending[i - 1]
    <3>1. /\ InMemory(s) \in Rows /\ Len(InMemory(s)) = Cardinality(Seconds)
          /\ \A i \in 1..Len(InMemory(s)) : InMemory(s)[i] = s.pending[i - 1]
      BY <1>1, InMemoryIs
    <3>2. /\ InMemory(s1) \in Rows /\ Len(InMemory(s1)) = Cardinality(Seconds)
          /\ \A i \in 1..Len(InMemory(s1)) : InMemory(s1)[i] = s1.pending[i - 1]
      BY <1>7, InMemoryIs
    <3>3. QED
      BY <1>4, <3>1, <3>2
  <2>3. b + 1 \in 1..(last + 1) /\ (b + 1) - 1 = b
    BY <1>4
  <2>4. InMemory(s1)[b + 1][c] = InMemory(s)[b + 1][c] + Added(inc, c)
    BY <1>2, <1>7, <2>1, <2>2, <2>3
  <2>5. \A i \in 1..(last + 1) : i # b + 1 => InMemory(s1)[i][c] = InMemory(s)[i][c]
    <3>1. \A i \in 1..(last + 1) : i # b + 1 => i - 1 \in Seconds /\ i - 1 # b
      BY <1>4
    <3>2. QED
      BY <1>7, <2>2, <3>1
  <2>6. SumRows(InMemory(s1), c) = SumRows(InMemory(s), c) + Added(inc, c)
    <3>1. PICK mem \in Rows, mem1 \in Rows : mem = InMemory(s) /\ mem1 = InMemory(s1)
      BY <2>2
    <3>2. PICK j \in 1..Len(mem), k \in Nat : j = b + 1 /\ k = Added(inc, c)
      BY <1>2, <2>1, <2>2, <2>3, <3>1
    <3>3. /\ Len(mem1) = Len(mem) /\ mem1[j][c] = mem[j][c] + k
          /\ \A i \in 1..Len(mem) : i # j => mem1[i][c] = mem[i][c]
      BY <2>2, <2>4, <2>5, <3>1, <3>2
    <3>4. SumRows(mem1, c) = SumRows(mem, c) + k
      BY <2>1, <3>3, SumGrown
    <3>5. QED
      BY <3>1, <3>2, <3>4
  <2>7. SumRows(s.rows, c) + SumRows(InMemory(s), c) = t[c]
    BY DEF Books
  <2>8. /\ SumRows(s.rows, c) \in Nat /\ SumRows(InMemory(s), c) \in Nat /\ Added(inc, c) \in Nat
        /\ t1[c] = t[c] + Added(inc, c)
    BY <1>1, <1>2, <1>3, <2>1, <2>2, SumRowsIs
  <2>9. QED
    BY <1>6, <2>6, <2>7, <2>8
<1>12. ASSUME NEW k \in Seconds, NEW c \in Own, k < Len(s1.rows)
       PROVE  s1.pending[k][c] = 0
  <2>1. s.pending[k][c] = 0 /\ c \in Columns
    BY <1>6, <1>12 DEF Books, Own
  <2>2. CASE k = b
    <3>1. Added(inc, c) = 0
      BY <1>1, <1>4, <1>6, <1>12, <2>2
    <3>2. QED
      BY <1>2, <1>7, <2>1, <2>2, <3>1
  <2>3. CASE k # b
    BY <1>7, <2>1, <2>3
  <2>4. QED
    BY <2>2, <2>3
<1>13. ASSUME NEW k \in Seconds
       PROVE  r1.counts[k] = s1.pending[k]["started"]
                + (IF k < Len(s1.rows) THEN s1.rows[k + 1]["started"] ELSE 0)
  <2> DEFINE filed == IF k < Len(s.rows) THEN s.rows[k + 1]["started"] ELSE 0
  <2>1. r.counts[k] = s.pending[k]["started"] + filed
    BY DEF Books
  <2>2. "started" \in Columns
    BY DEF Columns
  <2>3. filed \in Nat
    <3>1. CASE k < Len(s.rows)
      <4>1. k + 1 \in 1..Len(s.rows)
        BY <1>1, <1>4, <3>1
      <4>2. s.rows[k + 1] \in [Columns -> Nat]
        BY <1>1, <4>1 DEF Rows
      <4>3. QED
        BY <2>2, <3>1, <4>2
    <3>2. CASE ~(k < Len(s.rows))
      BY <3>2
    <3>3. QED
      BY <3>1, <3>2
  <2> HIDE DEF filed
  <2>4. s.pending[k]["started"] \in Nat
    BY <1>1, <2>2
  <2>5. s1.pending[k]["started"]
          = IF k = b THEN s.pending[k]["started"] + Added(inc, "started") ELSE s.pending[k]["started"]
    BY <1>2, <1>7, <2>2
  <2>6. r1.counts[k] = s1.pending[k]["started"] + filed
    BY <1>2, <2>1, <2>2, <2>3, <2>4, <2>5
  <2>7. QED
    BY <1>6, <2>6 DEF filed
<1>14. ASSUME NEW k \in Seconds
       PROVE  r1.written[k] \in {0, r1.counts[k]}
  <2>1. r.written[k] \in {0, r.counts[k]}
    BY DEF Books
  <2>2. CASE k = b /\ Added(inc, "started") # 0
    BY <2>2
  <2>3. CASE ~(k = b /\ Added(inc, "started") # 0)
    <3>1. r.counts[k] \in Nat
      BY <1>1 DEF RequestsType
    <3>2. r1.counts[k] = r.counts[k]
      BY <2>3, <3>1
    <3>3. QED
      BY <2>1, <3>2
  <2>4. QED
    BY <2>2, <2>3
<1>15. Books(s1, r1, t1, bucket)
  BY <1>8, <1>9, <1>10, <1>11, <1>12, <1>13, <1>14 DEF Books
<1>16. QED
  BY <1>6, <1>15 DEF s1

\* The rows up to second closed go from memory to the file.
LEMMA FlushedBooks ==
  ASSUME NEW s, NEW r, NEW t \in [Columns -> Nat], NEW bucket \in Seconds,
         Books(s, r, t, bucket), NEW final \in BOOLEAN, bucket = Bucket
  PROVE  /\ Books(Flushed(s, final), r, t, bucket)
         /\ Len(s.rows) <= bucket =>
              Len(Flushed(s, final).rows) <= IF final THEN bucket + 1 ELSE bucket
         /\ Flushed(s, final).latest = s.latest
         /\ final => \A k \in Seconds, c \in Own :
                       k <= s.latest => Flushed(s, final).pending[k][c] = 0
<1> DEFINE closed == IF final THEN s.latest ELSE bucket - 1
           open == Len(s.rows)
           s1 == Flushed(s, final)
<1>1. /\ s.pending \in [Seconds -> [Columns -> Nat]] /\ s.rows \in Rows /\ s.latest \in Int
      /\ r \in RequestsType /\ open \in Nat
  BY DEF Books, StatisticsType, Rows
<1>2. PICK last \in Nat : Seconds = 0..last /\ Cardinality(Seconds) = last + 1
  BY SecondsAre
<1>3. closed \in Int /\ closed <= bucket /\ closed <= last /\ (~final => closed = bucket - 1)
  BY <1>1, <1>2 DEF Books
<1> HIDE DEF closed
<1>4. CASE closed < open
  <2>1. s1 = s
    BY <1>4 DEF Flushed, closed
  <2>2. \A k \in Seconds, c \in Own : k <= closed => s.pending[k][c] = 0
    <3>1. \A k \in Seconds : k <= closed => k < open
      BY <1>1, <1>2, <1>3, <1>4
    <3>2. QED
      BY <3>1 DEF Books
  <2>3. QED
    BY <1>1, <1>2, <2>1, <2>2 DEF closed
<1>5. CASE ~(closed < open)
  <2> DEFINE more == [i \in 1..(closed + 1 - open) |-> s.pending[open + i - 1]]
             left == [b \in Seconds |-> IF b \in open..closed THEN Zero ELSE s.pending[b]]
  <2>1. s1 = [s EXCEPT !.rows = s.rows \o more, !.pending = left]
    BY <1>5 DEF Flushed, closed
  <2>2. PICK m \in Nat : m = closed + 1 - open /\ open + m = closed + 1
    <3> HIDE DEF open
    <3>1. closed + 1 - open \in Nat /\ open + (closed + 1 - open) = closed + 1
      BY <1>1, <1>3, <1>5
    <3>2. QED
      BY <3>1
  <2>3. \A i \in 1..m : open + i - 1 \in Seconds /\ open + i - 1 \in open..closed
    BY <1>1, <1>2, <1>3, <2>2
  <2>4. /\ more \in Rows /\ Len(more) = m
        /\ \A i \in 1..m : more[i] = s.pending[open + i - 1]
    <3>1. more = [i \in 1..m |-> s.pending[open + i - 1]]
      BY <2>2
    <3>2. \A i \in 1..m : s.pending[open + i - 1] \in [Columns -> Nat]
      BY <1>1, <2>3
    <3> HIDE DEF more, open
    <3>3. more \in Seq([Columns -> Nat]) /\ Len(more) = m
      BY <3>1, <3>2
    <3>4. QED
      BY <3>1, <3>3 DEF Rows
  <2>5. Zero \in [Columns -> Nat] /\ \A c \in Columns : Zero[c] = 0
    BY DEF Zero
  <2>6. /\ left \in [Seconds -> [Columns -> Nat]]
        /\ \A k \in Seconds : left[k] = IF k \in open..closed THEN Zero ELSE s.pending[k]
    BY <1>1, <2>5
  <2> HIDE DEF more, left
  <2>7. /\ s1.rows = s.rows \o more /\ s1.latest = s.latest /\ s1.pending = left
        /\ s1 \in [pending : {left}, rows : {s.rows \o more}, latest : {s.latest}]
    BY <2>1 DEF Books, StatisticsType
  <2> HIDE DEF s1
  <2>8. /\ s1.rows \in Rows /\ Len(s1.rows) = closed + 1
        /\ \A i \in 1..(closed + 1) : s1.rows[i] = IF i <= open THEN s.rows[i] ELSE more[i - open]
    <3>1. s.rows \in Seq([Columns -> Nat]) /\ more \in Seq([Columns -> Nat]) /\ Len(more) = m
      BY <1>1, <2>4 DEF Rows
    <3>2. /\ s1.rows \in Seq([Columns -> Nat]) /\ Len(s1.rows) = open + m
          /\ \A i \in 1..(open + m) : s1.rows[i] = IF i <= open THEN s.rows[i] ELSE more[i - open]
      <4>1. PICK a \in Seq([Columns -> Nat]), b \in Seq([Columns -> Nat]) :
              a = s.rows /\ b = more /\ Len(b) = m
        BY <3>1
      <4>2. /\ a \o b \in Seq([Columns -> Nat]) /\ Len(a \o b) = Len(a) + m
            /\ \A i \in 1..(Len(a) + m) : (a \o b)[i] = IF i <= Len(a) THEN a[i] ELSE b[i - Len(a)]
        <5>1. a \o b \in Seq([Columns -> Nat]) /\ Len(a \o b) = Len(a) + Len(b) /\ Len(a) \in Nat
          OBVIOUS
        <5>2. \A i \in 1..(Len(a) + Len(b)) :
                (a \o b)[i] = IF i <= Len(a) THEN a[i] ELSE b[i - Len(a)]
          OBVIOUS
        <5>3. QED
          BY <4>1, <5>1, <5>2
      <4>3. QED
        BY <2>7, <4>1, <4>2
    <3>3. QED
      BY <2>2, <3>2 DEF Rows
  <2>9. s1 \in StatisticsType
    BY <1>1, <2>6, <2>7, <2>8 DEF StatisticsType
  <2>10. ASSUME NEW k \in Seconds, k > s1.latest
         PROVE  s1.pending[k] = Zero
    BY <2>6, <2>7, <2>10 DEF Books
  <2>11. ASSUME NEW c \in Own
         PROVE  SumRows(s1.rows, c) + SumRows(InMemory(s1), c) = t[c]
    <3>1. c \in Columns
      BY DEF Own
    <3>2. /\ InMemory(s) \in Rows /\ InMemory(s1) \in Rows
          /\ Len(InMemory(s)) = last + 1 /\ Len(InMemory(s1)) = last + 1
          /\ \A i \in 1..(last + 1) : i - 1 \in Seconds /\ InMemory(s)[i] = s.pending[i - 1]
          /\ \A i \in 1..(last + 1) : InMemory(s1)[i] = left[i - 1]
      <4>1. /\ InMemory(s) \in Rows /\ Len(InMemory(s)) = last + 1
            /\ \A i \in 1..(last + 1) : i - 1 \in Seconds /\ InMemory(s)[i] = s.pending[i - 1]
        BY <1>1, <1>2, InMemoryIs
      <4>2. /\ InMemory(s1) \in Rows /\ Len(InMemory(s1)) = last + 1
            /\ \A i \in 1..(last + 1) : InMemory(s1)[i] = left[i - 1]
        BY <1>2, <2>6, <2>7, InMemoryIs
      <4>3. QED
        BY <4>1, <4>2
    <3>3. open + m <= last + 1
      BY <1>3, <2>2
    <3>4. \A i \in 1..m : more[i][c] = InMemory(s)[open + i][c]
      <4>1. \A i \in 1..m : open + i \in 1..(last + 1) /\ (open + i) - 1 = open + i - 1
        BY <1>1, <3>3
      <4>2. QED
        BY <2>4, <3>2, <4>1
    <3>5. \A i \in 1..(last + 1) : InMemory(s1)[i][c]
             = IF open < i /\ i <= open + m THEN 0 ELSE InMemory(s)[i][c]
      <4>1. \A i \in 1..(last + 1) : i - 1 \in open..closed <=> open < i /\ i <= open + m
        BY <1>1, <1>3, <2>2
      <4>2. QED
        BY <2>5, <2>6, <3>1, <3>2, <4>1
    <3>6. SumRows(InMemory(s), c) = SumRows(InMemory(s1), c) + SumRows(more, c)
      <4>1. PICK mem \in Rows, mem1 \in Rows : mem = InMemory(s) /\ mem1 = InMemory(s1)
        BY <3>2
      <4>2. PICK k \in Nat : k = open
        BY <1>1
      <4>3. /\ Len(mem1) = Len(mem) /\ k + Len(more) <= Len(mem)
            /\ \A i \in 1..Len(more) : more[i][c] = mem[k + i][c]
            /\ \A i \in 1..Len(mem) :
                 mem1[i][c] = IF k < i /\ i <= k + Len(more) THEN 0 ELSE mem[i][c]
        BY <2>4, <3>2, <3>3, <3>4, <3>5, <4>1, <4>2
      <4>4. SumRows(mem, c) = SumRows(mem1, c) + SumRows(more, c)
        BY <2>4, <3>1, <4>3, SumCut
      <4>5. QED
        BY <4>1, <4>4
    <3>7. SumRows(s1.rows, c) = SumRows(s.rows, c) + SumRows(more, c)
      BY <1>1, <2>4, <2>7, <3>1, SumAppended
    <3>8. /\ SumRows(s.rows, c) \in Nat /\ SumRows(InMemory(s1), c) \in Nat /\ SumRows(more, c) \in Nat
      BY <1>1, <2>4, <3>1, <3>2, SumRowsIs
    <3>9. SumRows(s.rows, c) + SumRows(InMemory(s), c) = t[c]
      BY DEF Books
    <3>10. QED
      BY <3>6, <3>7, <3>8, <3>9
  <2>12. ASSUME NEW k \in Seconds, NEW c \in Own, k <= closed
         PROVE  s1.pending[k][c] = 0
    <3>1. CASE k < open
      <4>1. k \notin open..closed /\ s.pending[k][c] = 0
        BY <1>1, <1>2, <3>1 DEF Books
      <4>2. QED
        BY <2>6, <2>7, <4>1
    <3>2. CASE ~(k < open)
      <4>1. k \in open..closed
        BY <1>1, <1>2, <1>3, <2>12, <3>2
      <4>2. QED
        BY <2>5, <2>6, <2>7, <4>1 DEF Own
    <3>3. QED
      BY <3>1, <3>2
  <2>13. \A k \in Seconds : k < Len(s1.rows) <=> k <= closed
    BY <1>2, <1>3, <2>8
  <2>14. ASSUME NEW k \in Seconds
         PROVE  r.counts[k] = s1.pending[k]["started"]
                  + (IF k < Len(s1.rows) THEN s1.rows[k + 1]["started"] ELSE 0)
    <3>1. r.counts[k] = s.pending[k]["started"] + (IF k < open THEN s.rows[k + 1]["started"] ELSE 0)
      BY DEF Books
    <3>2. "started" \in Own /\ "started" \in Columns /\ s.pending[k]["started"] \in Nat
      BY <1>1 DEF Own, Columns
    <3>3. CASE k < open
      <4>1. k <= closed /\ k + 1 \in 1..(closed + 1) /\ k + 1 <= open /\ k \notin open..closed
        BY <1>1, <1>2, <1>3, <1>5, <3>3
      <4>2. s1.rows[k + 1] = s.rows[k + 1] /\ s1.pending[k] = s.pending[k]
        BY <2>6, <2>7, <2>8, <4>1
      <4>3. QED
        BY <2>13, <3>1, <3>3, <4>1, <4>2
    <3>4. CASE k \in open..closed
      <4>1. /\ k <= closed /\ k + 1 \in 1..(closed + 1) /\ ~(k + 1 <= open) /\ ~(k < open)
            /\ (k + 1) - open \in 1..m /\ open + ((k + 1) - open) - 1 = k
        BY <1>1, <1>2, <1>3, <2>2, <3>4
      <4>2. s1.rows[k + 1] = s.pending[k]
        BY <2>4, <2>8, <4>1
      <4>3. s1.pending[k]["started"] = 0
        BY <2>12, <3>2, <4>1
      <4>4. QED
        BY <2>13, <3>1, <3>2, <4>1, <4>2, <4>3
    <3>5. CASE k > closed
      <4>1. ~(k < open) /\ ~(k <= closed) /\ k \notin open..closed
        BY <1>1, <1>2, <1>3, <1>5, <3>5
      <4>2. QED
        BY <2>6, <2>7, <2>13, <3>1, <4>1
    <3>6. QED
      BY <1>1, <1>2, <1>3, <3>3, <3>4, <3>5
  <2>15. Books(s1, r, t, bucket)
    BY <1>1, <2>7, <2>9, <2>10, <2>11, <2>12, <2>13, <2>14 DEF Books
  <2>16. Len(s1.rows) <= IF final THEN bucket + 1 ELSE bucket
    BY <1>2, <1>3, <2>8
  <2>17. QED
    BY <2>7, <2>12, <2>15, <2>16 DEF s1, closed
<1>6. QED
  BY <1>4, <1>5

LEMMA FlushedRequestsBooks ==
  ASSUME NEW s, NEW r, NEW t, NEW bucket, Books(s, r, t, bucket), NEW final \in BOOLEAN
  PROVE  LET r1 == FlushedRequests(r, final)
         IN /\ Books(s, r1, t, bucket)
            /\ final => r1.written = r1.counts
            /\ ~final => \A k \in Seconds : r1.written[k] # 0 => r.written[k] # 0 \/ k < Bucket
<1> DEFINE r1 == FlushedRequests(r, final)
<1>1. r \in RequestsType /\ \A k \in Seconds : r.written[k] \in {0, r.counts[k]}
  BY DEF Books
<1>2. /\ r1.counts = r.counts /\ r1 \in RequestsType
      /\ \A k \in Seconds : r1.written[k] = IF r.written[k] = 0 /\ (final \/ k < Bucket)
                                            THEN r.counts[k] ELSE r.written[k]
  BY <1>1 DEF FlushedRequests, RequestsType
<1> HIDE DEF r1
<1>3. \A k \in Seconds : r1.written[k] \in {0, r1.counts[k]}
  BY <1>1, <1>2
<1>4. Books(s, r1, t, bucket)
  BY <1>2, <1>3 DEF Books
<1>5. ASSUME final PROVE r1.written = r1.counts
  <2>1. \A k \in Seconds : r1.written[k] = r1.counts[k]
    BY <1>1, <1>2, <1>5
  <2>2. QED
    BY <1>2, <2>1 DEF RequestsType
<1>6. QED
  BY <1>2, <1>4, <1>5 DEF r1

\* The file holds no second that is not over yet, nor does the request report.
Open(s, r, bucket) ==
  Len(s.rows) <= bucket /\ \A k \in Seconds : r.written[k] # 0 => k < bucket

\* Nothing is left in memory.
Closed(s, r, bucket) ==
  /\ Len(s.rows) <= bucket + 1 /\ r.written = r.counts
  /\ \A k \in Seconds, c \in Own : s.pending[k][c] = 0

\* Requests of the second being dispatched that still wait for their moment.
Unsent ==
  IF pc = "spreading" THEN Assigned(second, offset, Script[second + 1]) ELSE 0

\* The reports as they are kept while the run lasts, and how its tasks end one after another.
RInv ==
  /\ now <= MaxTime \/ now < TicksPerSecond
  /\ Books(stats, requests, total, Bucket)
  /\ pc # "finished" => Open(stats, requests, Bucket)
  /\ pc = "finished" => Closed(stats, requests, Bucket) /\ backlogPc = "done" /\ inflight = 0
  /\ pc \in {"draining", "finished"} => progressAt = Never /\ (stop \/ second = Len(Script))
  /\ backlogPc = "done" => pc \in {"draining", "finished"} /\ backlog = <<>>
  /\ total["planned"] - total["scheduled"] = Unsent
  /\ pc = "spreading" => offset <= Script[second + 1]

LEMMA QuotientBounds ==
  ASSUME NEW a \in Nat, NEW d \in Nat \ {0}
  PROVE  /\ a < d => a \div d = 0
         /\ \A b \in Nat : a <= b => a \div d <= b \div d
         /\ \A i \in Nat : i * d <= a => i <= a \div d
<1>1. a < d => a \div d = 0
  OBVIOUS
<1>2. \A b \in Nat : a <= b => a \div d <= b \div d
  OBVIOUS
<1>3. \A i \in Nat : i * d <= a => i <= a \div d
  OBVIOUS
<1>4. QED
  BY <1>1, <1>2, <1>3

\* The clock is within the seconds that are counted, and so is a second that is due.
LEMMA BucketIs ==
  ASSUME now \in Nat, now <= MaxTime \/ now < TicksPerSecond
  PROVE  /\ Bucket \in Seconds /\ Bucket \in Nat
         /\ \A i \in Nat : start \in Nat /\ SecondDue(i) => i \in Seconds /\ i <= Bucket
<1>1. MaxTime \in Nat /\ TicksPerSecond \in Nat \ {0}
  BY ConfigAssumption DEF ConfigAssumption
<1>2. PICK last \in Nat, b \in Nat : last = MaxTime \div TicksPerSecond /\ b = now \div TicksPerSecond
  BY <1>1, Quotient
<1>3. b <= last
  <2>1. CASE now <= MaxTime
    BY <1>1, <1>2, <2>1, QuotientBounds
  <2>2. CASE now < TicksPerSecond
    BY <1>1, <1>2, <2>2, QuotientBounds
  <2>3. QED
    BY <2>1, <2>2
<1>4. ASSUME NEW i \in Nat, start \in Nat, SecondDue(i)
      PROVE  i \in Seconds /\ i <= Bucket
  <2>1. PICK p \in Nat : p = i * TicksPerSecond
    BY <1>1
  <2>2. i * TicksPerSecond <= now
    BY <1>4, <2>1 DEF SecondDue
  <2>3. i <= b
    BY <1>1, <1>2, <2>2, QuotientBounds
  <2>4. QED
    BY <1>2, <1>3, <2>3 DEF Seconds, Bucket
<1>5. QED
  BY <1>2, <1>3, <1>4 DEF Seconds, Bucket

LEMMA RecordedRequestsAre ==
  ASSUME NEW r \in RequestsType, Bucket \in Seconds, NEW n \in Nat
  PROVE  LET r1 == RecordedRequests(r, n)
         IN /\ r1 \in RequestsType /\ r1.written = r.written
            /\ \A k \in Seconds :
                 r1.counts[k] = IF k = Bucket THEN r.counts[k] + n ELSE r.counts[k]
            /\ n = 0 => r1 = r
<1> DEFINE counts == [r.counts EXCEPT ![Bucket] = r.counts[Bucket] + n]
           r1 == RecordedRequests(r, n)
<1>1. r.counts \in [Seconds -> Nat] /\ r.written \in [Seconds -> Nat]
  BY DEF RequestsType
<1>2. /\ counts \in [Seconds -> Nat]
      /\ \A k \in Seconds : counts[k] = IF k = Bucket THEN r.counts[k] + n ELSE r.counts[k]
  BY <1>1
<1>3. r1 = [r EXCEPT !.counts = counts]
  BY DEF RecordedRequests
<1>4. n = 0 => counts = r.counts
  BY <1>1
<1> HIDE DEF counts, r1
<1>5. r1.counts = counts /\ r1.written = r.written /\ r1 \in RequestsType
  BY <1>1, <1>2, <1>3 DEF RequestsType
<1>6. n = 0 => r1 = r
  BY <1>3, <1>4 DEF RequestsType
<1>7. QED
  BY <1>2, <1>5, <1>6 DEF r1

\* Counts inc are recorded for the second of the clock, with the starts of the request report.
LEMMA RecordedNow ==
  ASSUME NEW s, NEW r, NEW t \in [Columns -> Nat], Bucket \in Seconds, Bucket \in Nat,
         Books(s, r, t, Bucket), Open(s, r, Bucket),
         NEW inc, DOMAIN inc \subseteq Columns, \A c \in DOMAIN inc : inc[c] \in Nat,
         NEW s1, NEW r1, r1 = RecordedRequests(r, Added(inc, "started")),
         s1 = Recorded(s, Bucket, inc) \/ (s1 = s /\ \A c \in Columns : Added(inc, c) = 0)
  PROVE  Books(s1, r1, Plus(t, inc), Bucket) /\ Open(s1, r1, Bucket)
<1>1. "started" \in Columns /\ Added(inc, "started") \in Nat
  BY PlusAdded DEF Columns
<1>2. r \in RequestsType
  BY DEF Books
<1>3. /\ r1 \in RequestsType /\ r1.written = r.written
      /\ \A k \in Seconds :
           r1.counts[k] = IF k = Bucket THEN r.counts[k] + Added(inc, "started") ELSE r.counts[k]
      /\ Added(inc, "started") = 0 => r1 = r
  BY <1>1, <1>2, RecordedRequestsAre
<1>4. r.written[Bucket] = 0
  BY DEF Open
<1>5. Len(s.rows) <= Bucket
  BY DEF Open
<1>6. CASE s1 = Recorded(s, Bucket, inc)
  <2>1. Books(s1, r1, Plus(t, inc), Bucket) /\ s1.rows = s.rows
    BY <1>3, <1>4, <1>5, <1>6, RecordedBooks
  <2>2. QED
    BY <1>3, <2>1 DEF Open
<1>7. CASE s1 = s /\ \A c \in Columns : Added(inc, c) = 0
  <2>1. r1 = r
    BY <1>1, <1>3, <1>7
  <2>2. Plus(t, inc) = t
    <3>1. /\ Plus(t, inc) \in [Columns -> Nat]
          /\ \A c \in Columns : Plus(t, inc)[c] = t[c] + 0
      BY <1>7, PlusAdded
    <3>2. \A c \in Columns : Plus(t, inc)[c] = t[c]
      BY <3>1
    <3>3. QED
      BY <3>1, <3>2
  <2>3. QED
    BY <1>7, <2>1, <2>2
<1>8. QED
  BY <1>6, <1>7

\* A flush of the seconds that are over.
LEMMA FlushedNow ==
  ASSUME NEW s, NEW r, NEW t \in [Columns -> Nat], Bucket \in Seconds, Bucket \in Nat,
         Books(s, r, t, Bucket), Open(s, r, Bucket)
  PROVE  /\ Books(Flushed(s, FALSE), FlushedRequests(r, FALSE), t, Bucket)
         /\ Open(Flushed(s, FALSE), FlushedRequests(r, FALSE), Bucket)
<1>1. PICK s1 : s1 = Flushed(s, FALSE)
  OBVIOUS
<1>2. Len(s.rows) <= Bucket /\ \A k \in Seconds : r.written[k] # 0 => k < Bucket
  BY DEF Open
<1>3. Books(s1, r, t, Bucket) /\ Len(s1.rows) <= Bucket
  BY <1>1, <1>2, FlushedBooks
<1>4. PICK r1 : r1 = FlushedRequests(r, FALSE)
  OBVIOUS
<1>5. /\ Books(s1, r1, t, Bucket)
      /\ \A k \in Seconds : r1.written[k] # 0 => r.written[k] # 0 \/ k < Bucket
  BY <1>3, <1>4, FlushedRequestsBooks
<1>6. Open(s1, r1, Bucket)
  BY <1>2, <1>3, <1>5 DEF Open
<1>7. QED
  BY <1>1, <1>4, <1>5, <1>6

\* The last flush.
LEMMA FlushedLast ==
  ASSUME NEW s, NEW r, NEW t \in [Columns -> Nat], Bucket \in Seconds, Bucket \in Nat,
         Books(s, r, t, Bucket), Open(s, r, Bucket)
  PROVE  /\ Books(Flushed(s, TRUE), FlushedRequests(r, TRUE), t, Bucket)
         /\ Closed(Flushed(s, TRUE), FlushedRequests(r, TRUE), Bucket)
<1>1. PICK s1 : s1 = Flushed(s, TRUE)
  OBVIOUS
<1>2. Len(s.rows) <= Bucket
  BY DEF Open
<1>3. /\ Books(s1, r, t, Bucket) /\ Len(s1.rows) <= Bucket + 1 /\ s1.latest = s.latest
      /\ \A k \in Seconds, c \in Own : k <= s.latest => s1.pending[k][c] = 0
  BY <1>1, <1>2, FlushedBooks
<1>4. ASSUME NEW k \in Seconds, NEW c \in Own
      PROVE  s1.pending[k][c] = 0
  <2>1. CASE k <= s.latest
    BY <1>3, <2>1
  <2>2. CASE ~(k <= s.latest)
    <3>1. PICK last \in Nat : Seconds = 0..last
      BY SecondsAre
    <3>2. s1.latest \in Int
      BY <1>3 DEF Books, StatisticsType
    <3>3. k > s1.latest
      BY <1>3, <2>2, <3>1, <3>2
    <3>4. s1.pending[k] = Zero /\ c \in Columns
      BY <1>3, <3>3 DEF Books, Own
    <3>5. QED
      BY <3>4 DEF Zero
  <2>3. QED
    BY <2>1, <2>2
<1>5. PICK r1 : r1 = FlushedRequests(r, TRUE)
  OBVIOUS
<1>6. Books(s1, r1, t, Bucket) /\ r1.written = r1.counts
  BY <1>3, <1>5, FlushedRequestsBooks
<1>7. Closed(s1, r1, Bucket)
  BY <1>3, <1>4, <1>6 DEF Closed
<1>8. QED
  BY <1>1, <1>5, <1>6, <1>7

-----------------------------------------------------------------------------
(* The shard of a second, sent in parts.                                   *)

LEMMA AssignedSplit ==
  ASSUME NEW i, NEW from \in Nat, NEW mid \in Nat, NEW to \in Nat, from <= mid, mid <= to
  PROVE  Assigned(i, from, to) = Assigned(i, from, mid) + Assigned(i, mid, to)
<1> DEFINE Part(a, b) == {j \in a..(b - 1) : ShouldHandle(Base[i] + j)}
<1>1. IsFiniteSet(Part(from, mid)) /\ IsFiniteSet(Part(mid, to))
  <2>1. IsFiniteSet(from..(mid - 1)) /\ IsFiniteSet(mid..(to - 1))
    BY FS_Interval
  <2>2. QED
    BY <2>1, FS_Subset
<1>2. Part(from, to) = Part(from, mid) \cup Part(mid, to)
  <2>1. \A j \in Int : j \in from..(to - 1) <=> j \in from..(mid - 1) \/ j \in mid..(to - 1)
    OBVIOUS
  <2>2. QED
    BY <2>1
<1>3. Part(from, mid) \cap Part(mid, to) = {}
  OBVIOUS
<1> HIDE DEF Part
<1>4. /\ Cardinality(Part(from, mid)) \in Nat /\ Cardinality(Part(mid, to)) \in Nat
      /\ Cardinality(Part(from, to)) = Cardinality(Part(from, mid)) + Cardinality(Part(mid, to))
                                         - Cardinality({})
  BY <1>1, <1>2, <1>3, FS_Union, FS_CardinalityType
<1>5. Cardinality(Part(from, to)) = Cardinality(Part(from, mid)) + Cardinality(Part(mid, to))
  BY <1>4, FS_EmptySet
<1>6. QED
  BY <1>5 DEF Assigned, Part

LEMMA AssignedNone ==
  ASSUME NEW i, NEW n \in Nat
  PROVE  Assigned(i, n, n) = 0
<1>1. {j \in n..(n - 1) : ShouldHandle(Base[i] + j)} = {}
  OBVIOUS
<1>2. QED
  BY <1>1, FS_EmptySet DEF Assigned

LEMMA DueIsWithin ==
  ASSUME NEW i \in 0..(Len(Script) - 1)
  PROVE  Due(i) <= Script[i + 1]
<1>1. PICK n \in Nat : n = Script[i + 1]
  BY DueType
<1> DEFINE sent == {j \in 0..(Script[i + 1] - 1) :
                      j * TicksPerSecond <= (now - start - i * TicksPerSecond) * Script[i + 1]}
<1>2. IsFiniteSet(0..(n - 1)) /\ Cardinality(0..(n - 1)) = n
  BY FS_Interval
<1>3. Cardinality(sent) <= n
  <2>1. sent \in SUBSET (0..(n - 1))
    BY <1>1
  <2> HIDE DEF sent
  <2>2. QED
    BY <1>2, <2>1, FS_Subset
<1>4. Due(i) = Script[i + 1] \/ Due(i) = Cardinality(sent)
  BY Zenon DEF Due
<1> HIDE DEF sent
<1>5. QED
  BY <1>1, <1>3, <1>4

-----------------------------------------------------------------------------
(* The steps keep the reports.                                             *)

LEMMA RInvInit ==
  ASSUME Init
  PROVE  RInv
<1>1. PICK last \in Nat : Seconds = 0..last /\ Cardinality(Seconds) = last + 1
  BY SecondsAre
<1>2. TicksPerSecond \in Nat \ {0} /\ start \in Nat /\ start < TicksPerSecond
  BY ConfigAssumption DEF ConfigAssumption, Init
<1>3. PICK b \in Nat : b = Bucket
  BY <1>2, BucketIs DEF Init
<1>4. Zero \in [Columns -> Nat] /\ \A c \in Columns : Zero[c] = 0
  BY DEF Zero
<1>5. /\ stats = [pending |-> [k \in Seconds |-> Zero], rows |-> <<>>, latest |-> Never]
      /\ requests = [counts |-> [k \in Seconds |-> 0], written |-> [k \in Seconds |-> 0]]
      /\ total = Zero
  BY DEF Init
<1>6. /\ stats.pending \in [Seconds -> [Columns -> Nat]] /\ stats.rows = <<>> /\ stats.latest = -1
      /\ \A k \in Seconds : stats.pending[k] = Zero
      /\ stats.rows \in Rows /\ Len(stats.rows) = 0
      /\ \A k \in Seconds : requests.counts[k] = 0 /\ requests.written[k] = 0
  BY <1>4, <1>5 DEF Never, Rows
<1>7. stats \in StatisticsType /\ requests \in RequestsType
  BY <1>4, <1>5, <1>6 DEF StatisticsType, RequestsType
<1>8. ASSUME NEW c \in Own
      PROVE  SumRows(stats.rows, c) + SumRows(InMemory(stats), c) = total[c]
  <2>1. c \in Columns
    BY DEF Own
  <2>2. SumRows(stats.rows, c) = 0
    BY <1>6, <2>1, SumNone
  <2>3. PICK memory \in Rows : memory = InMemory(stats)
    BY <1>6, InMemoryIs
  <2>4. \A i \in 1..Len(memory) : memory[i] = Zero
    BY <1>6, <2>3, InMemoryIs
  <2>5. SumRows(memory, c) = 0
    BY <1>4, <2>1, <2>4, SumNone
  <2>6. QED
    BY <1>4, <1>5, <2>1, <2>2, <2>3, <2>5
<1>9. \A k \in Seconds : ~(k < 0)
  BY <1>1
<1>10. Books(stats, requests, total, Bucket)
  <2>1. "started" \in Columns /\ -1 <= b
    BY DEF Columns
  <2>2. QED
    BY <1>3, <1>4, <1>6, <1>7, <1>8, <1>9, <2>1 DEF Books
<1>11. Open(stats, requests, Bucket)
  BY <1>3, <1>6 DEF Open
<1>12. total["planned"] - total["scheduled"] = 0
  BY <1>4, <1>5 DEF Columns
<1>13. pc = "waiting" /\ backlogPc = "event" /\ now < TicksPerSecond
  BY <1>2 DEF Init
<1>14. QED
  BY <1>10, <1>11, <1>12, <1>13 DEF RInv, Unsent

\* What holds of the clock and the counts between two steps.
LEMMA RInvFacts ==
  ASSUME IInv, RInv
  PROVE  /\ Bucket \in Seconds /\ Bucket \in Nat /\ now \in Nat /\ start \in Nat
         /\ total \in [Columns -> Nat] /\ Books(stats, requests, total, Bucket)
         /\ requests \in RequestsType
<1>1. now \in Nat /\ total \in [Columns -> Nat] /\ start \in Nat
  BY DEF IInv, TypeOK
<1>2. QED
  BY <1>1, BucketIs DEF RInv, Books

\* The requests of a second below to are sent, n of them, s and t being the statistics and the
\* counts with the planned requests of the second.
LEMMA DispatchReports ==
  ASSUME IInv, RInv, pc \in {"waiting", "late", "spreading"},
         NEW to \in Nat, NEW n \in Nat, NEW s, NEW t \in [Columns -> Nat],
         Books(s, requests, t, Bucket), s.rows = stats.rows,
         Dispatch(to, Launch(n), s), total' = Plus(t, Launch(n)),
         t["planned"] - t["scheduled"] = n + Assigned(second, to, Script[second + 1]),
         to <= Script[second + 1], Script[second + 1] \in Nat
  PROVE  RInv'
<1> DEFINE sent == Launch(n)
           recorded == IF sent.scheduled = 0 THEN s ELSE Recorded(s, Bucket, sent)
           reported == RecordedRequests(requests, sent.started)
<1>1. /\ Bucket \in Seconds /\ Bucket \in Nat /\ now \in Nat /\ start \in Nat
      /\ total \in [Columns -> Nat] /\ Open(stats, requests, Bucket)
  BY RInvFacts DEF RInv
<1>2. free \in Nat /\ BacklogCapacity - Len(backlog) \in Nat
  <2>1. PICK b \in Nat : b = Len(backlog)
    BY DEF IInv, TypeOK
  <2>2. PICK cap \in Nat : cap = BacklogCapacity
    BY ConfigAssumption DEF ConfigAssumption
  <2>3. b <= cap
    BY <2>1, <2>2 DEF IInv, Balanced
  <2>4. free \in Nat
    BY ConfigAssumption DEF IInv, TypeOK, ConfigAssumption
  <2>5. QED
    BY <2>1, <2>2, <2>3, <2>4
<1>3. /\ DOMAIN sent = {"scheduled", "enqueued", "started", "started_immediate",
                        "dropped_capacity", "dropped_backlog_full"}
      /\ DOMAIN sent \subseteq Columns /\ \A c \in DOMAIN sent : sent[c] \in Nat
      /\ sent.scheduled = n /\ sent.started_immediate = sent.started
      /\ n = sent.started + sent.enqueued + sent.dropped_capacity
  BY <1>2, LaunchType
<1>4. sent.dropped_backlog_full \in {sent.dropped_capacity, 0}
  BY DEF Launch
<1>5. UNCHANGED <<now, start, stop, backlogPc>>
  BY DEF Dispatch, timeVars
<1>6. \/ stats' = recorded /\ requests' = reported
      \/ stats' = Flushed(recorded, FALSE) /\ requests' = FlushedRequests(reported, FALSE)
  BY Zenon DEF Dispatch
<1>7. Added(sent, "started") = sent.started /\ Added(sent, "planned") = 0
      /\ Added(sent, "scheduled") = n
  BY <1>3 DEF Added
<1>8. Books(recorded, reported, Plus(t, sent), Bucket) /\ Open(recorded, reported, Bucket)
  <2>1. Open(s, requests, Bucket)
    BY <1>1 DEF Open
  <2>2. sent.scheduled = 0 => \A c \in Columns : Added(sent, c) = 0
    <3> HIDE DEF sent
    <3>1. SUFFICES ASSUME n = 0, NEW c \in DOMAIN sent PROVE sent[c] = 0
      BY <1>3 DEF Added
    <3>2. /\ sent.started \in Nat /\ sent.enqueued \in Nat /\ sent.dropped_capacity \in Nat
      BY <1>3
    <3>3. sent.started = 0 /\ sent.enqueued = 0 /\ sent.dropped_capacity = 0
      BY <1>3, <3>1, <3>2
    <3>4. QED
      BY <1>3, <1>4, <3>1, <3>3
  <2>3. reported = RecordedRequests(requests, Added(sent, "started"))
    BY <1>7
  <2>4. recorded = Recorded(s, Bucket, sent) \/ (recorded = s /\ \A c \in Columns : Added(sent, c) = 0)
    BY <2>2
  <2> HIDE DEF sent, recorded, reported
  <2>5. QED
    BY <1>1, <1>3, <2>1, <2>3, <2>4, RecordedNow
<1>9. total' = Plus(t, sent) /\ Plus(t, sent) \in [Columns -> Nat]
  BY <1>3, PlusAdded
<1> HIDE DEF sent, recorded, reported
<1>10. Books(stats', requests', total', Bucket) /\ Open(stats', requests', Bucket)
  <2>1. CASE stats' = recorded /\ requests' = reported
    BY <1>8, <1>9, <2>1
  <2>2. CASE stats' = Flushed(recorded, FALSE) /\ requests' = FlushedRequests(reported, FALSE)
    BY <1>1, <1>8, <1>9, <2>2, FlushedNow
  <2>3. QED
    BY <1>6, <2>1, <2>2
<1>11. PICK l \in Nat, k \in Nat, size \in Nat :
         l = Len(Script) /\ k = second /\ k < l /\ size = Script[k + 1]
  BY ConfigAssumption DEF IInv, TypeOK, ConfigAssumption
<1>12. total'["planned"] - total'["scheduled"] = Assigned(k, to, size)
  <2>1. PICK p \in Nat, q \in Nat : p = t["planned"] /\ q = t["scheduled"]
    BY DEF Columns
  <2>2. total'["planned"] = p + 0 /\ total'["scheduled"] = q + n
    BY <1>3, <1>7, <1>9, <2>1, PlusAdded DEF Columns
  <2>3. PICK a \in Nat : a = Assigned(k, to, size)
    BY <1>11, AssignedType
  <2>4. p - q = n + a
    BY <1>11, <2>1, <2>3
  <2>5. QED
    BY <2>2, <2>3, <2>4
<1>13. CASE to = size
  <2>1. pc' \in {"waiting", "late", "draining"}
    BY <1>11, <1>13 DEF Dispatch
  <2>2. Unsent' = 0
    BY <2>1 DEF Unsent
  <2>3. total'["planned"] - total'["scheduled"] = 0
    BY <1>11, <1>12, <1>13, AssignedNone
  <2>4. pc' = "draining" => progressAt' = Never /\ (stop' \/ second' = Len(Script))
    BY <1>5, <1>11, <1>13 DEF Dispatch
  <2>5. backlogPc # "done"
    BY DEF RInv
  <2>6. (now <= MaxTime \/ now < TicksPerSecond)' /\ Bucket' = Bucket
    BY <1>5 DEF RInv, Bucket
  <2>7. QED
    BY <1>5, <1>10, <2>1, <2>2, <2>3, <2>4, <2>5, <2>6 DEF RInv
<1>14. CASE to # size
  <2>1. pc' = "spreading" /\ offset' = to /\ second' = k
    BY <1>11, <1>14 DEF Dispatch
  <2>2. Unsent' = Assigned(k, to, size)
    BY <1>11, <2>1 DEF Unsent, Assigned
  <2>3. offset' <= Script[second' + 1]
    BY <1>11, <2>1
  <2>4. backlogPc # "done"
    BY DEF RInv
  <2>5. (now <= MaxTime \/ now < TicksPerSecond)' /\ Bucket' = Bucket
    BY <1>5 DEF RInv, Bucket
  <2>6. QED
    BY <1>5, <1>10, <1>12, <2>1, <2>2, <2>3, <2>4, <2>5 DEF RInv
<1>15. QED
  BY <1>13, <1>14

LEMMA DispatchSecondReports ==
  ASSUME IInv, RInv, DispatchSecond
  PROVE  RInv'
<1>1. /\ Bucket \in Seconds /\ Bucket \in Nat /\ now \in Nat /\ start \in Nat
      /\ total \in [Columns -> Nat] /\ Books(stats, requests, total, Bucket)
      /\ requests \in RequestsType
  BY RInvFacts
<1>2. second \in 0..(Len(Script) - 1) /\ pc \in {"waiting", "late"} /\ SecondDue(second)
  BY ConfigAssumption DEF DispatchSecond, IInv, TypeOK, ConfigAssumption
<1>3. second \in Nat /\ second \in Seconds /\ second <= Bucket
  <2>1. second \in Nat
    BY <1>2
  <2>2. QED
    BY <1>1, <1>2, <2>1, BucketIs DEF RInv
<1>4. PICK size \in Nat, to \in Nat : size = Script[second + 1] /\ to = Due(second) /\ to <= size
  BY <1>2, DueType, DueIsWithin
<1>5. PICK n \in Nat, p \in Nat, rest \in Nat :
        /\ n = Assigned(second, 0, to) /\ p = Assigned(second, 0, size)
        /\ rest = Assigned(second, to, size)
  BY AssignedType
<1>6. p = n + rest
  BY <1>4, <1>5, AssignedSplit
<1> DEFINE inc == [planned |-> p]
           s == Recorded(stats, second, inc)
           t == Plus(total, inc)
<1>7. Dispatch(to, Launch(n), s) /\ total' = Plus(t, Launch(n))
  BY <1>4, <1>5 DEF DispatchSecond
<1>8. /\ DOMAIN inc = {"planned"} /\ DOMAIN inc \subseteq Columns
      /\ \A c \in DOMAIN inc : inc[c] \in Nat
      /\ Added(inc, "planned") = p /\ Added(inc, "scheduled") = 0 /\ Added(inc, "started") = 0
      /\ \A c \in Own : Added(inc, c) = 0
  BY DEF Columns, Own, Added
<1> HIDE DEF inc
<1>9. Books(s, requests, t, Bucket) /\ s.rows = stats.rows
  <2>1. \A k \in Seconds : requests.counts[k] \in Nat
    BY <1>1 DEF RequestsType
  <2>2. \A k \in Seconds : requests.counts[k]
          = IF k = second THEN requests.counts[k] + Added(inc, "started") ELSE requests.counts[k]
    BY <1>8, <2>1
  <2>3. QED
    <3>1. PICK b \in Seconds, bucket \in Int : b = second /\ bucket = Bucket /\ b <= bucket
      BY <1>1, <1>3
    <3>2. /\ Books(stats, requests, total, bucket)
          /\ requests.written = requests.written
          /\ \A k \in Seconds : requests.counts[k]
               = IF k = b THEN requests.counts[k] + Added(inc, "started") ELSE requests.counts[k]
          /\ Added(inc, "started") # 0 => requests.written[b] = 0
          /\ Len(stats.rows) <= b \/ \A c \in Own : Added(inc, c) = 0
      BY <1>1, <1>8, <2>2, <3>1
    <3>3. /\ Books(Recorded(stats, b, inc), requests, Plus(total, inc), bucket)
          /\ Recorded(stats, b, inc).rows = stats.rows
      BY <1>1, <1>8, <3>1, <3>2, RecordedBooks
    <3>4. QED
      BY <3>1, <3>3
<1>10. /\ t \in [Columns -> Nat] /\ t["planned"] = total["planned"] + p
       /\ t["scheduled"] = total["scheduled"] + 0
  BY <1>1, <1>8, PlusAdded DEF Columns
<1>11. t["planned"] - t["scheduled"] = n + rest
  <2>1. total["planned"] - total["scheduled"] = 0
    BY <1>2 DEF RInv, Unsent
  <2>2. total["planned"] \in Nat /\ total["scheduled"] \in Nat
    BY <1>1 DEF Columns
  <2>3. QED
    BY <1>6, <1>10, <2>1, <2>2
<1> HIDE DEF s, t
<1>12. QED
  BY <1>2, <1>4, <1>5, <1>7, <1>9, <1>10, <1>11, DispatchReports

LEMMA DispatchMoreReports ==
  ASSUME IInv, RInv, DispatchMore
  PROVE  RInv'
<1>1. /\ total \in [Columns -> Nat] /\ Books(stats, requests, total, Bucket)
  BY RInvFacts
<1>2. second \in 0..(Len(Script) - 1) /\ pc = "spreading" /\ offset \in Nat
  BY ConfigAssumption DEF DispatchMore, IInv, TypeOK, ConfigAssumption
<1>3. PICK size \in Nat, to \in Nat : size = Script[second + 1] /\ to = Due(second) /\ to <= size
  BY <1>2, DueType, DueIsWithin
<1>4. offset < to
  BY <1>2, <1>3 DEF DispatchMore
<1>5. PICK n \in Nat, rest \in Nat :
        n = Assigned(second, offset, to) /\ rest = Assigned(second, to, size)
  BY <1>2, AssignedType
<1>6. Assigned(second, offset, size) = n + rest
  BY <1>2, <1>3, <1>4, <1>5, AssignedSplit
<1>7. total["planned"] - total["scheduled"] = n + rest
  BY <1>2, <1>3, <1>6 DEF RInv, Unsent
<1>8. Dispatch(to, Launch(n), stats) /\ total' = Plus(total, Launch(n))
  BY <1>3, <1>5 DEF DispatchMore
<1>9. QED
  BY <1>1, <1>2, <1>3, <1>5, <1>7, <1>8, DispatchReports

LEMMA BacklogLoopReports ==
  ASSUME IInv, RInv, BacklogLoop
  PROVE  RInv'
<1>1. /\ Bucket \in Seconds /\ Bucket \in Nat /\ now \in Nat /\ start \in Nat
      /\ total \in [Columns -> Nat] /\ Books(stats, requests, total, Bucket)
  BY RInvFacts
<1>2. PICK b \in Nat, f \in Nat : b = Len(backlog) /\ f = free /\ backlog \in Seq(Nat)
  BY ConfigAssumption DEF IInv, TypeOK, ConfigAssumption
<1>3. PICK e \in 0..b :
        /\ backlog' = SubSeq(backlog, e + Least(f, b - e) + 1, b)
        /\ total' = Plus(total, [dropped_capacity |-> e, backlog_expired |-> e,
                       started |-> Least(f, b - e), started_from_backlog |-> Least(f, b - e)])
        /\ stats' = IF backlog' = backlog THEN stats
                    ELSE Recorded(stats, Bucket, [dropped_capacity |-> e, backlog_expired |-> e,
                       started |-> Least(f, b - e), started_from_backlog |-> Least(f, b - e)])
        /\ requests' = RecordedRequests(requests, Least(f, b - e))
  BY <1>2 DEF BacklogLoop
<1>4. PICK m \in Nat : m = Least(f, b - e) /\ m <= b - e
  BY DEF Least
<1> DEFINE inc == [dropped_capacity |-> e, backlog_expired |-> e, started |-> m,
                   started_from_backlog |-> m]
<1>5. /\ DOMAIN inc = {"dropped_capacity", "backlog_expired", "started", "started_from_backlog"}
      /\ DOMAIN inc \subseteq Columns /\ \A c \in DOMAIN inc : inc[c] \in Nat
      /\ inc["started"] = m
      /\ e = 0 /\ m = 0 => \A c \in DOMAIN inc : inc[c] = 0
  BY DEF Columns
<1>6. /\ total' = Plus(total, inc)
      /\ stats' = IF backlog' = backlog THEN stats ELSE Recorded(stats, Bucket, inc)
      /\ requests' = RecordedRequests(requests, m)
  BY <1>3, <1>4
<1> HIDE DEF inc
<1>7. /\ Added(inc, "started") = m /\ Added(inc, "planned") = 0 /\ Added(inc, "scheduled") = 0
      /\ e = 0 /\ m = 0 => \A c \in Columns : Added(inc, c) = 0
  BY <1>5 DEF Added
<1>8. backlog' = backlog => e = 0 /\ m = 0
  <2>1. PICK k \in 0..b : k = e + m
    BY <1>4
  <2>2. backlog' = SubSeq(backlog, k + 1, b)
    BY <1>3, <1>4, <2>1
  <2>3. Len(backlog') = b - k
    BY <1>2, <2>2
  <2>4. QED
    BY <1>2, <1>4, <2>1, <2>3
<1>9. pc # "finished"
  BY DEF BacklogLoop, RInv
<1>10. Books(stats', requests', total', Bucket) /\ Open(stats', requests', Bucket)
  <2>1. Open(stats, requests, Bucket)
    BY <1>9 DEF RInv
  <2>2. stats' = Recorded(stats, Bucket, inc) \/ (stats' = stats /\ \A c \in Columns : Added(inc, c) = 0)
    BY <1>6, <1>7, <1>8
  <2>3. requests' = RecordedRequests(requests, Added(inc, "started"))
    BY <1>6, <1>7
  <2>4. QED
    BY <1>1, <1>5, <1>6, <2>1, <2>2, <2>3, RecordedNow
<1>11. UNCHANGED <<now, start, pc, second, offset, stop, progressAt>>
  BY DEF BacklogLoop, timeVars, dispatchVars
<1>12. total'["planned"] - total'["scheduled"] = Unsent'
  <2>1. Unsent' = Unsent
    BY <1>11 DEF Unsent, Assigned
  <2>2. total'["planned"] = total["planned"] + 0 /\ total'["scheduled"] = total["scheduled"] + 0
    BY <1>1, <1>5, <1>6, <1>7, PlusAdded DEF Columns
  <2>3. total["planned"] \in Nat /\ total["scheduled"] \in Nat
    BY <1>1 DEF Columns
  <2>4. QED
    BY <2>1, <2>2, <2>3 DEF RInv
<1>13. backlogPc' = "done" => pc = "draining" /\ backlog' = <<>>
  BY DEF BacklogLoop
<1>14. Bucket' = Bucket
  BY <1>11 DEF Bucket
<1>15. QED
  BY <1>9, <1>10, <1>11, <1>12, <1>13, <1>14 DEF RInv

LEMMA ExecuteRequestReports ==
  ASSUME IInv, RInv, NEW outcome \in Outcomes, ExecuteRequest(outcome)
  PROVE  RInv'
<1>1. /\ Bucket \in Seconds /\ Bucket \in Nat /\ now \in Nat /\ start \in Nat
      /\ total \in [Columns -> Nat] /\ Books(stats, requests, total, Bucket)
      /\ requests \in RequestsType
  BY RInvFacts
<1>2. outcome \in {"completed", "failed", "timed_out"}
  BY ConfigAssumption DEF ConfigAssumption
<1> DEFINE inc == [c \in {outcome} |-> 1]
<1>3. /\ DOMAIN inc = {outcome} /\ DOMAIN inc \subseteq Columns /\ \A c \in DOMAIN inc : inc[c] \in Nat
  BY <1>2 DEF Columns
<1>4. /\ total' = Plus(total, inc) /\ stats' = Recorded(stats, Bucket, inc)
      /\ requests' = requests /\ inflight > 0
      /\ UNCHANGED <<now, start, pc, second, offset, stop, progressAt, backlog, backlogPc>>
  BY DEF ExecuteRequest, timeVars, dispatchVars
<1> HIDE DEF inc
<1>5. Added(inc, "started") = 0 /\ Added(inc, "planned") = 0 /\ Added(inc, "scheduled") = 0
  BY <1>2, <1>3 DEF Added
<1>6. pc # "finished"
  <2>1. inflight # 0
    BY <1>4
  <2>2. QED
    BY <2>1 DEF RInv
<1>7. Books(stats', requests', total', Bucket) /\ Open(stats', requests', Bucket)
  <2>1. Open(stats, requests, Bucket)
    BY <1>6 DEF RInv
  <2>2. requests' = RecordedRequests(requests, Added(inc, "started"))
    BY <1>1, <1>4, <1>5, RecordedRequestsAre
  <2>3. QED
    BY <1>1, <1>3, <1>4, <2>1, <2>2, RecordedNow
<1>8. total'["planned"] - total'["scheduled"] = Unsent'
  <2>1. Unsent' = Unsent
    BY <1>4 DEF Unsent, Assigned
  <2>2. total'["planned"] = total["planned"] + 0 /\ total'["scheduled"] = total["scheduled"] + 0
    BY <1>1, <1>3, <1>4, <1>5, PlusAdded DEF Columns
  <2>3. total["planned"] \in Nat /\ total["scheduled"] \in Nat
    BY <1>1 DEF Columns
  <2>4. QED
    BY <2>1, <2>2, <2>3 DEF RInv
<1>9. Bucket' = Bucket
  BY <1>4 DEF Bucket
<1>10. QED
  BY <1>4, <1>6, <1>7, <1>8, <1>9 DEF RInv

LEMMA OthersReport ==
  ASSUME IInv, RInv, Finish \/ ProgressLoop \/ RequestStop \/ Tick \/ UNCHANGED vars
  PROVE  RInv'
<1>1. /\ Bucket \in Seconds /\ Bucket \in Nat /\ now \in Nat /\ start \in Nat
      /\ total \in [Columns -> Nat] /\ Books(stats, requests, total, Bucket)
  BY RInvFacts
<1>2. CASE Finish
  <2>1. /\ pc = "draining" /\ backlogPc = "done" /\ inflight = 0 /\ pc' = "finished"
        /\ stats' = Flushed(stats, TRUE) /\ requests' = FlushedRequests(requests, TRUE)
        /\ UNCHANGED <<now, second, stop, inflight, backlog, backlogPc, progressAt, total>>
    BY <1>2 DEF Finish, timeVars, poolVars
  <2>2. Open(stats, requests, Bucket)
    BY <2>1 DEF RInv
  <2>3. Books(stats', requests', total', Bucket) /\ Closed(stats', requests', Bucket)
    BY <1>1, <2>1, <2>2, FlushedLast
  <2>4. Unsent = 0 /\ Unsent' = 0
    BY <2>1 DEF Unsent
  <2>5. Bucket' = Bucket
    BY <2>1 DEF Bucket
  <2>6. QED
    BY <2>1, <2>3, <2>4, <2>5 DEF RInv
<1>3. CASE ProgressLoop
  <2>1. /\ progressAt # Never
        /\ stats' = Flushed(stats, FALSE) /\ requests' = FlushedRequests(requests, FALSE)
        /\ UNCHANGED <<now, pc, second, offset, stop, inflight, backlog, backlogPc, total>>
    BY <1>3 DEF ProgressLoop, timeVars, dispatchVars, poolVars
  <2>2. pc \notin {"draining", "finished"}
    BY <2>1 DEF RInv
  <2>3. Books(stats', requests', total', Bucket) /\ Open(stats', requests', Bucket)
    BY <1>1, <2>1, <2>2, FlushedNow DEF RInv
  <2>4. Unsent' = Unsent /\ Bucket' = Bucket
    BY <2>1 DEF Unsent, Assigned, Bucket
  <2>5. QED
    BY <2>1, <2>2, <2>3, <2>4 DEF RInv
<1>4. CASE RequestStop
  <2>1. /\ pc \in {"waiting", "spreading"}
        /\ UNCHANGED <<now, pc, second, offset, inflight, backlog, backlogPc, progressAt, total,
                       stats, requests>>
    BY <1>4 DEF RequestStop, timeVars, poolVars
  <2>2. Unsent' = Unsent /\ Bucket' = Bucket
    BY <2>1 DEF Unsent, Assigned, Bucket
  <2>3. QED
    BY <2>1, <2>2 DEF RInv
<1>5. CASE Tick
  <2>1. /\ pc # "finished" /\ now < MaxTime /\ now' = now + 1
        /\ UNCHANGED <<pc, second, offset, stop, inflight, backlog, backlogPc, progressAt, total,
                       stats, requests>>
    BY <1>5 DEF Tick, dispatchVars, poolVars
  <2>2. MaxTime \in Nat /\ TicksPerSecond \in Nat \ {0} /\ now' \in Nat
    BY <1>1, <2>1, ConfigAssumption DEF ConfigAssumption
  <2>3. now' <= MaxTime /\ now <= now'
    BY <1>1, <2>1, <2>2
  <2>4. PICK b \in Nat, b1 \in Nat : b = Bucket /\ b1 = Bucket' /\ b <= b1
    <3>1. now \div TicksPerSecond <= now' \div TicksPerSecond
      BY <1>1, <2>2, <2>3, QuotientBounds
    <3>2. now' \div TicksPerSecond \in Nat
      BY <2>2, Quotient
    <3>3. QED
      BY <1>1, <3>1, <3>2 DEF Bucket
  <2>5. Books(stats, requests, total, Bucket')
    <3>1. stats.latest \in Int /\ stats.latest <= b
      BY <1>1, <2>4 DEF Books, StatisticsType
    <3>2. stats.latest <= b1
      BY <2>4, <3>1
    <3>3. QED
      BY <1>1, <2>4, <3>2 DEF Books
  <2>6. Open(stats, requests, Bucket')
    <3>1. Open(stats, requests, b) /\ Len(stats.rows) \in Nat
      BY <1>1, <2>1, <2>4 DEF RInv, Books, StatisticsType, Rows
    <3>2. \A k \in Seconds : k \in Nat
      BY SecondsAre
    <3>3. QED
      BY <2>4, <3>1, <3>2 DEF Open
  <2>7. Unsent' = Unsent
    BY <2>1 DEF Unsent, Assigned
  <2>8. QED
    BY <2>1, <2>3, <2>5, <2>6, <2>7 DEF RInv
<1>6. CASE UNCHANGED vars
  <2>1. UNCHANGED <<now, pc, second, offset, stop, inflight, backlog, backlogPc, progressAt, total,
                    stats, requests>>
    BY <1>6 DEF vars, timeVars, dispatchVars, poolVars
  <2>2. Unsent' = Unsent /\ Bucket' = Bucket
    BY <2>1 DEF Unsent, Assigned, Bucket
  <2>3. QED
    BY <2>1, <2>2 DEF RInv
<1>7. QED
  BY <1>2, <1>3, <1>4, <1>5, <1>6

LEMMA RInvImplies ==
  ASSUME IInv, RInv
  PROVE  ReportsComplete
<1>1. /\ Bucket \in Seconds /\ Bucket \in Nat /\ total \in [Columns -> Nat]
      /\ Books(stats, requests, total, Bucket)
  BY RInvFacts
<1>2. PICK last \in Nat : Seconds = 0..last /\ Cardinality(Seconds) = last + 1
  BY SecondsAre
<1>3. /\ stats.rows \in Rows /\ Len(stats.rows) \in Nat /\ requests \in RequestsType
      /\ stats.pending \in [Seconds -> [Columns -> Nat]]
  BY <1>1 DEF Books, StatisticsType, Rows
<1>4. \A b \in 0..(Len(stats.rows) - 1) : b \in Seconds /\ b < Len(stats.rows)
  <2>1. Len(stats.rows) <= Bucket + 1
    BY <1>1, <1>3 DEF RInv, Open, Closed
  <2>2. QED
    BY <1>1, <1>2, <1>3, <2>1
<1>5. PendingRows = InMemory(stats)
  BY DEF PendingRows, InMemory
<1>6. StatisticsAddUp
  BY <1>1, <1>4, <1>5 DEF StatisticsAddUp, Books, Own
<1>7. ASSUME pc = "finished"
      PROVE  /\ backlog = <<>> /\ inflight = 0 /\ free = MaxInflight
             /\ total["scheduled"] = total["planned"]
             /\ ~stop => second = Len(Script)
             /\ \A c \in Columns \ {"planned"} : SumRows(stats.rows, c) = total[c]
             /\ requests.written = requests.counts
             /\ \A b \in Seconds :
                  requests.counts[b] = IF b < Len(stats.rows) THEN stats.rows[b + 1]["started"] ELSE 0
  <2>1. Closed(stats, requests, Bucket)
    BY <1>7 DEF RInv
  <2>2. backlog = <<>> /\ inflight = 0 /\ (stop \/ second = Len(Script))
    BY <1>7 DEF RInv
  <2>3. free = MaxInflight
    <3>1. PICK f \in Nat, max \in Nat : f = free /\ max = MaxInflight
      BY ConfigAssumption DEF IInv, TypeOK, ConfigAssumption
    <3>2. f + 0 = max
      BY <2>2, <3>1 DEF IInv, Balanced
    <3>3. QED
      BY <3>1, <3>2
  <2>4. total["scheduled"] = total["planned"]
    <3>1. total["planned"] - total["scheduled"] = 0
      BY <1>7 DEF RInv, Unsent
    <3>2. total["planned"] \in Nat /\ total["scheduled"] \in Nat
      BY <1>1 DEF Columns
    <3>3. QED
      BY <3>1, <3>2
  <2>5. ASSUME NEW c \in Columns \ {"planned"}
        PROVE  SumRows(stats.rows, c) = total[c]
    <3>1. c \in Own /\ c \in Columns
      BY DEF Own
    <3>2. PICK memory \in Rows : memory = InMemory(stats)
      BY <1>3, InMemoryIs
    <3>3. \A i \in 1..Len(memory) : memory[i][c] = 0
      BY <1>3, <2>1, <3>1, <3>2, InMemoryIs DEF Closed
    <3>4. SumRows(memory, c) = 0
      BY <3>1, <3>3, SumNone
    <3>5. SumRows(stats.rows, c) + SumRows(memory, c) = total[c] /\ SumRows(stats.rows, c) \in Nat
      BY <1>1, <1>3, <3>1, <3>2, SumRowsIs DEF Books
    <3>6. QED
      BY <3>4, <3>5
  <2>6. ASSUME NEW b \in Seconds
        PROVE  requests.counts[b] = IF b < Len(stats.rows) THEN stats.rows[b + 1]["started"] ELSE 0
    <3> DEFINE filed == IF b < Len(stats.rows) THEN stats.rows[b + 1]["started"] ELSE 0
    <3>1. "started" \in Own /\ "started" \in Columns
      BY DEF Own, Columns
    <3>2. stats.pending[b]["started"] = 0
      BY <2>1, <3>1 DEF Closed
    <3>3. requests.counts[b] = 0 + filed
      BY <1>1, <3>2 DEF Books
    <3>4. filed \in Nat
      <4>1. b < Len(stats.rows) => b + 1 \in 1..Len(stats.rows)
        BY <1>2, <1>3
      <4>2. QED
        BY <1>3, <3>1, <4>1 DEF Rows
    <3> HIDE DEF filed
    <3>5. requests.counts[b] = filed
      BY <3>3, <3>4
    <3>6. QED
      BY <3>5 DEF filed
  <2>7. QED
    BY <2>1, <2>2, <2>3, <2>4, <2>5, <2>6 DEF Closed
<1>8. QED
  BY <1>6, <1>7 DEF ReportsComplete

\* When the run ends no task leaves anything behind, the request report has every started
\* request, and the statistics file every count but planned ones, with any script, shard and
\* limits, however late the event loop is, whenever the seconds are flushed and whenever the
\* stop comes: what such a column of a row still has to count is in memory until its second
\* is over, and a second is over before it is written.
THEOREM ReportsAlwaysComplete == Spec => []ReportsComplete
<1>1. Init => RInv
  BY RInvInit
<1>2. IInv /\ RInv /\ [Next]_vars => RInv'
  BY DispatchSecondReports, DispatchMoreReports, BacklogLoopReports, ExecuteRequestReports,
     OthersReport DEF Next, LoopStep
<1>3. IInv /\ RInv => ReportsComplete
  BY RInvImplies
<1>4. QED
  BY <1>1, <1>2, <1>3, Invariant, PTL DEF Spec

-----------------------------------------------------------------------------
(* What follows from the promise of a bounded service itself, for any      *)
(* number of slots and places, whoever keeps it.                           *)

CONSTANTS Slots, Room
VARIABLES arrived, waiting, running, refused, givenUp, settled, closed

Promise == INSTANCE BoundedService

\* No limit is passed, the sum is right, and its other terms are natural numbers.
Kept == Promise!Accounted /\ refused \in Nat /\ givenUp \in Nat /\ settled \in Nat

\* The arithmetic of the steps, over numbers.
LEMMA ArriveSum ==
  ASSUME NEW r \in Nat, NEW w \in Nat, NEW f \in Nat, NEW g \in Nat, NEW s \in Nat,
         NEW r1 \in Int, NEW w1 \in Int, NEW f1 \in Nat
  PROVE  (w + r + f + g + s) + (r1 - r) + (w1 - w) + (f1 - f) = w1 + r1 + f1 + g + s
OBVIOUS

LEMMA ServeSum ==
  ASSUME NEW r \in Nat, NEW w \in Nat, NEW f \in Nat, NEW g \in Nat, NEW s \in Nat,
         NEW r1 \in Int, NEW w1 \in Int, NEW g1 \in Nat, w = w1 + (r1 - r) + (g1 - g)
  PROVE  w + r + f + g + s = w1 + r1 + f + g1 + s
OBVIOUS

LEMMA SettleSum ==
  ASSUME NEW r \in Nat, NEW w \in Nat, NEW f \in Nat, NEW g \in Nat, NEW s \in Nat,
         NEW r1 \in Int, NEW S \in Nat, NEW R \in Nat, r \in 0..S, w \in 0..R, r > 0,
         r1 \in {r - 1, r}, w - (r1 - (r - 1)) >= 0
  PROVE  /\ r1 \in 0..S /\ w - (r1 - (r - 1)) \in 0..R /\ s + 1 \in Nat
         /\ w + r + f + g + s = (w - (r1 - (r - 1))) + r1 + f + g + (s + 1)
OBVIOUS

LEMMA CloseSum ==
  ASSUME NEW r \in Nat, NEW w \in Nat, NEW f \in Nat, NEW g \in Nat, NEW s \in Nat
  PROVE  /\ s + w + r \in Nat
         /\ w + r + f + g + s = 0 + 0 + f + g + (s + w + r)
OBVIOUS

LEMMA Limits ==
  ASSUME NEW n \in Nat, NEW m \in 0..n
  PROVE  m \in Nat
OBVIOUS

LEMMA GrownLimits ==
  ASSUME NEW n \in Nat, NEW m \in 0..n, NEW k \in m..n
  PROVE  k \in 0..n /\ k \in Int
OBVIOUS

LEMMA ShrunkLimits ==
  ASSUME NEW n \in Nat, NEW m \in 0..n, NEW k \in 0..m
  PROVE  k \in 0..n /\ k \in Int
OBVIOUS

LEMMA PromiseInit ==
  ASSUME Slots \in Nat, Room \in Nat, Promise!Init
  PROVE  Kept
BY DEF Promise!Init, Kept, Promise!Accounted

LEMMA PromiseNext ==
  ASSUME Slots \in Nat, Room \in Nat, Kept, [Promise!Next]_(Promise!vars)
  PROVE  Kept'
<1>. USE DEF Kept, Promise!Accounted
<1>1. running \in Nat /\ waiting \in Nat
  BY Limits
<1>2. CASE Promise!Arrive
  <2>1. /\ running' \in 0..Slots /\ running' \in Int
        /\ waiting' \in 0..Room /\ waiting' \in Int
    <3>1. running \in 0..Slots /\ running' \in running..Slots
      BY <1>2 DEF Promise!Arrive
    <3>2. waiting \in 0..Room /\ waiting' \in waiting..Room
      BY <1>2 DEF Promise!Arrive
    <3>3. QED
      BY <3>1, <3>2, GrownLimits
  <2>2. arrived' = waiting' + running' + refused' + givenUp + settled
    <3>1. refused' \in Nat
      BY <1>2 DEF Promise!Arrive
    <3>2. arrived' = (waiting + running + refused + givenUp + settled)
                     + (running' - running) + (waiting' - waiting) + (refused' - refused)
      BY <1>2 DEF Promise!Arrive
    <3>3. QED
      BY <1>1, <2>1, <3>1, <3>2, ArriveSum
  <2>3. QED
    BY <1>2, <2>1, <2>2 DEF Promise!Arrive
<1>3. CASE Promise!Serve
  <2>1. /\ running' \in 0..Slots /\ running' \in Int
        /\ waiting' \in 0..Room /\ waiting' \in Int
    <3>1. running \in 0..Slots /\ running' \in running..Slots
      BY <1>3 DEF Promise!Serve
    <3>2. waiting \in 0..Room /\ waiting' \in 0..waiting
      BY <1>3 DEF Promise!Serve
    <3>3. QED
      BY <3>1, <3>2, GrownLimits, ShrunkLimits
  <2>2. waiting + running + refused + givenUp + settled
          = waiting' + running' + refused + givenUp' + settled
    BY <1>1, <1>3, <2>1, ServeSum DEF Promise!Serve
  <2>3. QED
    BY <1>3, <2>1, <2>2 DEF Promise!Serve
<1>4. CASE Promise!Settle
  <2>1. PICK k \in {running - 1, running} :
          running' = k /\ waiting' = waiting - (k - (running - 1)) /\ waiting' >= 0
    BY <1>4 DEF Promise!Settle
  <2>2. k \in Int /\ waiting - (k - (running - 1)) >= 0 /\ running > 0
    BY <1>1, <1>4, <2>1 DEF Promise!Settle
  <2>3. /\ k \in 0..Slots /\ waiting - (k - (running - 1)) \in 0..Room /\ settled + 1 \in Nat
        /\ waiting + running + refused + givenUp + settled
             = (waiting - (k - (running - 1))) + k + refused + givenUp + (settled + 1)
    BY <1>1, <2>2, SettleSum
  <2>4. QED
    BY <1>4, <2>1, <2>3 DEF Promise!Settle
<1>5. CASE Promise!Close
  BY <1>1, <1>5, CloseSum DEF Promise!Close
<1>6. CASE UNCHANGED Promise!vars
  BY <1>6 DEF Promise!vars
<1>7. QED
  BY <1>2, <1>3, <1>4, <1>5, <1>6 DEF Promise!Next

\* A service that keeps the promise has every request that arrived in one place, and never
\* more than its slots and its room hold: whatever implements Promise!Spec inherits it.
THEOREM ServiceAccounted ==
  ASSUME Slots \in Nat, Room \in Nat
  PROVE  Promise!Spec => []Promise!Accounted
<1>1. Promise!Init => Kept
  BY PromiseInit
<1>2. Kept /\ [Promise!Next]_(Promise!vars) => Kept'
  BY PromiseNext
<1>3. Kept => Promise!Accounted
  BY DEF Kept
<1>4. QED
  BY <1>1, <1>2, <1>3, PTL DEF Promise!Spec
=============================================================================
