--------------------------- MODULE ShowcaseProofs ---------------------------
(***************************************************************************)
(* Theorems of the showcase backend.                                       *)
(*                                                                         *)
(* LoopHistory, for any number of clients, pages and loops, any limit, and *)
(* any number of failed listings and restarts: the history has one loop a  *)
(* minute and is in order unless a listing came late, and no cached page   *)
(* is older than what the poller has finished.                             *)
(*                                                                         *)
(* ScriptRange, for any files, stride, ranges and points, any number of    *)
(* calls and failed reads: a chart shows what a scan of the whole file     *)
(* finds, and what the load generator sends.                               *)
(***************************************************************************)
EXTENDS LoopHistory, ScriptRange, FiniteSetTheorems, SequenceTheorems, WellFoundedInduction,
  TLAPS

\* What the file holds of one kind.
OneAMinute(items) ==
  \A i \in 1..(Len(items) - 1) : MinuteBucket(items[i]) # MinuteBucket(items[i + 1])
Increasing(items) == \A i, j \in DOMAIN items : i < j => items[i] < items[j]

Stored(items) == items \in Seq(Loops) /\ Len(items) <= Limit /\ OneAMinute(items)

Labels == {"idle", "lock", "list", "build", "sync", "clear"}

TypeInv ==
  /\ published \in Listing
  /\ cache \subseteq Pages /\ shown \in [Pages -> Listing \union {None}] /\ changed \in Listing
  /\ cacheLock \in Clients \union {"free"}
  /\ pc \in [Callers -> Labels] /\ seen \in [Callers -> Listing \union {None}]
  /\ page \in [Clients -> Pages \union {None}]
  /\ \A c \in Clients : pc[c] \in {"idle", "lock", "list", "build"}
  /\ pc["poller"] \in {"idle", "sync", "clear"}

\* What a caller holds at its step: a page to build, the lock to build it, a listing to apply.
CallersInv ==
  /\ \A c \in Clients : pc[c] # "idle" => page[c] \in Pages
  /\ \A c \in Clients : pc[c] \in {"list", "build"} => cacheLock = c
  /\ pc["poller"] = "sync" => seen["poller"] # None

\* No listing is ahead of what was published; but while the poller waits for the lock, those
\* that pages are built from are not behind its last change, and nor are the cached pages.
AtMost(older, newer) == \A k \in Kinds : older[k] <= newer[k]
ListingsInv ==
  /\ AtMost(changed, published)
  /\ \A c \in Callers : seen[c] # None => AtMost(seen[c], published)
  /\ pc["poller"] # "clear" =>
       /\ \A c \in Clients : pc[c] = "build" /\ seen[c] # None => AtMost(changed, seen[c])
       /\ \A p \in cache : shown[p] # None => AtMost(changed, shown[p])

StoreInv ==
  /\ history \in [Kinds -> Seq(Loops)] /\ overtaken \in BOOLEAN
  /\ \A k \in Kinds : Stored(history[k])
  /\ ~overtaken => \A k \in Kinds : Increasing(history[k])

IInv == TypeInv /\ CallersInv /\ StoreInv /\ ListingsInv

-----------------------------------------------------------------------------
(* _append_if_new.                                                         *)

LEMMA Neighbours ==
  ASSUME NEW n \in Nat, NEW i \in 1..n
  PROVE  /\ i # n => i \in 1..(n - 1)
         /\ i \in 1..(n - 1) => i # n /\ i + 1 \in 1..n
OBVIOUS

\* A sequence without its first item.
LEMMA TailKeeps ==
  ASSUME NEW items \in Seq(Loops), items # <<>>, OneAMinute(items)
  PROVE  /\ Tail(items) \in Seq(Loops) /\ Len(Tail(items)) = Len(items) - 1
         /\ OneAMinute(Tail(items))
         /\ Increasing(items) => Increasing(Tail(items))
<1>1. /\ Tail(items) \in Seq(Loops) /\ Len(Tail(items)) = Len(items) - 1
      /\ \A i \in 1..Len(Tail(items)) : Tail(items)[i] = items[i + 1]
  BY HeadTailProperties
<1>2. /\ Len(items) \in Nat \ {0} /\ DOMAIN items = 1..Len(items)
      /\ DOMAIN Tail(items) = 1..Len(Tail(items))
  BY <1>1, EmptySeq, LenProperties
<1> DEFINE shorter == Tail(items)
<1>3. OneAMinute(shorter)
  <2> SUFFICES ASSUME NEW i \in 1..(Len(shorter) - 1)
               PROVE  MinuteBucket(shorter[i]) # MinuteBucket(shorter[i + 1])
    BY DEF OneAMinute
  <2>1. /\ shorter[i] = items[i + 1] /\ shorter[i + 1] = items[i + 1 + 1]
        /\ i + 1 \in 1..(Len(items) - 1)
    BY <1>1, <1>2
  <2>2. QED
    BY <2>1 DEF OneAMinute
<1>4. Increasing(items) => Increasing(shorter)
  <2> SUFFICES ASSUME Increasing(items), NEW i \in DOMAIN shorter, NEW j \in DOMAIN shorter, i < j
               PROVE  shorter[i] < shorter[j]
    BY DEF Increasing
  <2>1. /\ shorter[i] = items[i + 1] /\ shorter[j] = items[j + 1]
        /\ i + 1 \in DOMAIN items /\ j + 1 \in DOMAIN items /\ i + 1 < j + 1
    BY <1>1, <1>2
  <2>2. QED
    BY <2>1 DEF Increasing
<1>5. QED
  BY <1>1, <1>3, <1>4

\* A loop of a later minute at the end.
LEMMA AppendKeeps ==
  ASSUME NEW items \in Seq(Loops), items # <<>>, OneAMinute(items), NEW loop \in Loops,
         MinuteBucket(LastOf(items)) # MinuteBucket(loop)
  PROVE  /\ Append(items, loop) \in Seq(Loops) /\ Append(items, loop) # <<>>
         /\ Len(Append(items, loop)) = Len(items) + 1
         /\ OneAMinute(Append(items, loop))
         /\ Increasing(items) /\ LastOf(items) < loop => Increasing(Append(items, loop))
<1> DEFINE longer == Append(items, loop)
<1>1. /\ longer \in Seq(Loops) /\ Len(longer) = Len(items) + 1
      /\ \A i \in 1..Len(items) : longer[i] = items[i]
      /\ longer[Len(items) + 1] = loop
  BY AppendProperties
<1>2. /\ Len(items) \in Nat \ {0} /\ DOMAIN items = 1..Len(items)
      /\ DOMAIN longer = 1..(Len(items) + 1) /\ longer # <<>>
  BY <1>1, EmptySeq, LenProperties
<1> HIDE DEF longer
<1>3. OneAMinute(longer)
  <2> SUFFICES ASSUME NEW i \in 1..(Len(longer) - 1)
               PROVE  MinuteBucket(longer[i]) # MinuteBucket(longer[i + 1])
    BY DEF OneAMinute
  <2>1. i \in 1..Len(items) /\ longer[i] = items[i]
    BY <1>1, <1>2
  <2>2. CASE i = Len(items)
    BY <1>1, <2>1, <2>2 DEF LastOf
  <2>3. CASE i # Len(items)
    <3>1. i \in 1..(Len(items) - 1) /\ i + 1 \in 1..Len(items)
      BY <1>2, <2>1, <2>3, Neighbours
    <3>2. longer[i + 1] = items[i + 1]
      BY <1>1, <3>1
    <3>3. QED
      BY <2>1, <3>1, <3>2 DEF OneAMinute
  <2>4. QED
    BY <2>2, <2>3
<1>4. ASSUME Increasing(items), LastOf(items) < loop PROVE Increasing(longer)
  <2> SUFFICES ASSUME NEW i \in DOMAIN longer, NEW j \in DOMAIN longer, i < j
               PROVE  longer[i] < longer[j]
    BY DEF Increasing
  <2>1. i \in DOMAIN items /\ longer[i] = items[i] /\ items[i] \in Loops
    BY <1>1, <1>2, ElementOfSeq
  <2>2. CASE j = Len(items) + 1
    <3>1. items[i] = LastOf(items) \/ items[i] < LastOf(items)
      <4>1. i = Len(items) \/ i < Len(items)
        BY <1>2, <2>1
      <4>2. Len(items) \in DOMAIN items
        BY <1>2
      <4>3. QED
        BY <1>4, <2>1, <4>1, <4>2 DEF Increasing, LastOf
    <3>2. LastOf(items) \in Loops
      BY <1>2, ElementOfSeq DEF LastOf
    <3>3. QED
      BY <1>1, <1>4, <2>1, <2>2, <3>1, <3>2 DEF Loops
  <2>3. CASE j # Len(items) + 1
    <3>1. j \in DOMAIN items /\ longer[j] = items[j]
      BY <1>1, <1>2, <2>3
    <3>2. QED
      BY <1>4, <2>1, <3>1 DEF Increasing
  <2>4. QED
    BY <2>2, <2>3
<1>5. QED
  BY <1>1, <1>2, <1>3, <1>4 DEF longer

\* A loop of the same minute in the place of the last one.
LEMMA ReplaceKeeps ==
  ASSUME NEW items \in Seq(Loops), items # <<>>, OneAMinute(items), NEW loop \in Loops,
         MinuteBucket(LastOf(items)) = MinuteBucket(loop)
  PROVE  LET replaced == [items EXCEPT ![Len(items)] = loop]
         IN /\ replaced \in Seq(Loops) /\ Len(replaced) = Len(items)
            /\ OneAMinute(replaced)
            /\ Increasing(items) /\ LastOf(items) < loop => Increasing(replaced)
<1> DEFINE replaced == [items EXCEPT ![Len(items)] = loop]
<1>1. Len(items) \in Nat \ {0} /\ DOMAIN items = 1..Len(items) /\ Len(items) \in 1..Len(items)
  BY EmptySeq, LenProperties
<1>2. /\ replaced \in Seq(Loops) /\ Len(replaced) = Len(items)
      /\ \A i \in 1..Len(items) : replaced[i] = IF i = Len(items) THEN loop ELSE items[i]
      /\ DOMAIN replaced = 1..Len(items)
  BY <1>1, ExceptSeq
<1> HIDE DEF replaced
<1>3. OneAMinute(replaced)
  <2> SUFFICES ASSUME NEW i \in 1..(Len(replaced) - 1)
               PROVE  MinuteBucket(replaced[i]) # MinuteBucket(replaced[i + 1])
    BY DEF OneAMinute
  <2>1. /\ i \in 1..(Len(items) - 1) /\ i \in 1..Len(items) /\ i # Len(items)
        /\ i + 1 \in 1..Len(items)
    <3>1. i \in 1..(Len(items) - 1)
      BY <1>2
    <3>2. i \in 1..Len(items)
      BY <1>1, <3>1
    <3>3. QED
      BY <1>1, <3>1, <3>2, Neighbours
  <2>2. MinuteBucket(items[i]) # MinuteBucket(items[i + 1]) /\ replaced[i] = items[i]
    BY <1>2, <2>1 DEF OneAMinute
  <2>3. replaced[i + 1] = IF i + 1 = Len(items) THEN loop ELSE items[i + 1]
    BY <1>2, <2>1
  <2>4. QED
    BY <2>2, <2>3 DEF LastOf
<1>4. ASSUME Increasing(items), LastOf(items) < loop PROVE Increasing(replaced)
  <2> SUFFICES ASSUME NEW i \in DOMAIN replaced, NEW j \in DOMAIN replaced, i < j
               PROVE  replaced[i] < replaced[j]
    BY DEF Increasing
  <2>1. /\ i \in 1..Len(items) /\ j \in 1..Len(items) /\ i # Len(items)
        /\ items[i] < items[j] /\ items[i] \in Loops /\ items[j] \in Loops
    <3>1. i \in 1..Len(items) /\ j \in 1..Len(items)
      BY <1>2
    <3>2. i # Len(items)
      BY <1>1, <3>1
    <3>3. items[i] < items[j] /\ items[i] \in Loops /\ items[j] \in Loops
      BY <1>1, <1>4, <3>1, ElementOfSeq DEF Increasing
    <3>4. QED
      BY <3>1, <3>2, <3>3
  <2>2. CASE j = Len(items)
    <3>1. items[i] < LastOf(items) /\ LastOf(items) \in Loops
      BY <2>1, <2>2 DEF LastOf
    <3>2. replaced[i] = items[i] /\ replaced[j] = loop
      BY <1>2, <2>1, <2>2
    <3>3. QED
      BY <1>4, <2>1, <3>1, <3>2 DEF Loops
  <2>3. CASE j # Len(items)
    BY <1>2, <2>1, <2>3
  <2>4. QED
    BY <2>2, <2>3
<1>5. QED
  BY <1>2, <1>3, <1>4 DEF replaced

\* What is stored stays so, whatever loop is listed, and stays in order unless the loop is
\* older than the last one.
LEMMA AppendedKeeps ==
  ASSUME NEW items, Stored(items), NEW loop \in 0..MaxLoop
  PROVE  /\ Stored(Appended(items, loop))
         /\ Increasing(items) /\ ~(items # <<>> /\ loop < LastOf(items))
              => Increasing(Appended(items, loop))
<1>1. /\ items \in Seq(Loops) /\ Len(items) <= Limit /\ OneAMinute(items)
      /\ Limit \in Nat \ {0} /\ MaxLoop \in Nat
  BY HistoryAssumption DEF Stored, HistoryAssumption
<1>2. CASE loop = 0
  BY <1>2 DEF Appended
<1>3. CASE loop # 0 /\ items = <<>>
  <2>1. Appended(items, loop) = <<loop>> /\ loop \in Loops
    BY <1>1, <1>3 DEF Appended, Loops
  <2>2. <<loop>> \in Seq(Loops) /\ Len(<<loop>>) = 1 /\ DOMAIN <<loop>> = 1..1
    BY <2>1
  <2>3. QED
    BY <1>1, <2>1, <2>2 DEF Stored, OneAMinute, Increasing
<1>4. CASE loop # 0 /\ items # <<>>
  <2>1. /\ loop \in Loops /\ Len(items) \in Nat \ {0}
        /\ LastOf(items) \in Loops
    BY <1>1, <1>4, EmptySeq, ElementOfSeq DEF Loops, LastOf
  <2>2. CASE LastOf(items) = loop
    BY <1>4, <2>2 DEF Appended
  <2>3. CASE LastOf(items) # loop /\ MinuteBucket(LastOf(items)) = MinuteBucket(loop)
    <3>1. Appended(items, loop) = [items EXCEPT ![Len(items)] = loop]
      BY <1>4, <2>3 DEF Appended
    <3>2. ~(items # <<>> /\ loop < LastOf(items)) => LastOf(items) < loop
      BY <1>4, <2>1, <2>3 DEF Loops
    <3>3. QED
      BY <1>1, <1>4, <2>1, <2>3, <3>1, <3>2, ReplaceKeeps DEF Stored
  <2>4. CASE LastOf(items) # loop /\ MinuteBucket(LastOf(items)) # MinuteBucket(loop)
    <3> DEFINE longer == Append(items, loop)
    <3>1. Appended(items, loop) = IF Len(longer) > Limit THEN Tail(longer) ELSE longer
      BY <1>4, <2>4 DEF Appended
    <3>2. ~(items # <<>> /\ loop < LastOf(items)) => LastOf(items) < loop
      BY <1>4, <2>1, <2>4 DEF Loops
    <3>3. /\ longer \in Seq(Loops) /\ longer # <<>> /\ Len(longer) = Len(items) + 1
          /\ OneAMinute(longer)
          /\ Increasing(items) /\ LastOf(items) < loop => Increasing(longer)
      BY <1>1, <1>4, <2>1, <2>4, AppendKeeps
    <3>4. /\ Tail(longer) \in Seq(Loops) /\ Len(Tail(longer)) = Len(items)
          /\ OneAMinute(Tail(longer))
          /\ Increasing(longer) => Increasing(Tail(longer))
      <4>1. /\ Tail(longer) \in Seq(Loops) /\ Len(Tail(longer)) = Len(longer) - 1
            /\ OneAMinute(Tail(longer))
            /\ Increasing(longer) => Increasing(Tail(longer))
        BY <3>3, TailKeeps
      <4>2. QED
        BY <2>1, <3>3, <4>1
    <3> HIDE DEF longer
    <3>5. CASE Len(longer) > Limit
      BY <1>1, <3>1, <3>2, <3>3, <3>4, <3>5 DEF Stored
    <3>6. CASE ~(Len(longer) > Limit)
      BY <1>1, <2>1, <3>1, <3>2, <3>3, <3>6 DEF Stored
    <3>7. QED
      BY <3>5, <3>6
  <2>5. QED
    BY <2>2, <2>3, <2>4
<1>5. QED
  BY <1>2, <1>3, <1>4

\* sync_latest, whoever calls it with whichever listing.
LEMMA SyncKeeps ==
  ASSUME StoreInv, NEW listing \in Listing, SyncLatest(listing)
  PROVE  StoreInv'
<1>1. \A k \in Kinds : listing[k] \in 0..MaxLoop /\ Stored(history[k])
  BY DEF Listing, StoreInv
<1>2. \A k \in Kinds : /\ history'[k] = Appended(history[k], listing[k])
                       /\ Stored(history'[k])
  BY <1>1, AppendedKeeps DEF SyncLatest, Synced
<1>3. history' \in [Kinds -> Seq(Loops)] /\ overtaken' \in BOOLEAN
  BY <1>2 DEF SyncLatest, Synced, Stored, StoreInv
<1>4. ASSUME ~overtaken', NEW k \in Kinds PROVE Increasing(history'[k])
  <2>1. ~overtaken /\ ~(history[k] # <<>> /\ listing[k] < LastOf(history[k]))
    BY <1>4 DEF SyncLatest
  <2>2. Increasing(history[k])
    BY <2>1 DEF StoreInv
  <2>3. QED
    BY <1>1, <1>2, <2>1, <2>2, AppendedKeeps
<1>5. QED
  BY <1>2, <1>3, <1>4 DEF StoreInv, Stored, OneAMinute, Increasing

-----------------------------------------------------------------------------
(* The steps.                                                              *)

LEMMA IInvInit == Init => IInv
<1> SUFFICES ASSUME Init PROVE IInv
  OBVIOUS
<1>1. "poller" \in Callers /\ Limit \in Nat \ {0} /\ MaxLoop \in Nat
  BY HistoryAssumption DEF HistoryAssumption, Callers
<1>2. TypeInv /\ CallersInv /\ ListingsInv
  BY <1>1 DEF Init, TypeInv, CallersInv, ListingsInv, AtMost, Listing, Labels, Callers
<1>3. <<>> \in Seq(Loops) /\ Len(<<>>) = 0 /\ DOMAIN <<>> = {}
  OBVIOUS
<1>4. Stored(<<>>) /\ Increasing(<<>>)
  BY <1>1, <1>3 DEF Stored, OneAMinute, Increasing
<1>5. StoreInv
  BY <1>3, <1>4 DEF Init, StoreInv
<1>6. QED
  BY <1>2, <1>5 DEF IInv

\* The history is as it was.
LEMMA StoreSame ==
  ASSUME StoreInv, UNCHANGED storeVars
  PROVE  StoreInv'
BY DEF StoreInv, storeVars, Stored, OneAMinute, Increasing

\* A page is built from a listing made under the lock.
LEMMA ClientStep ==
  ASSUME IInv, NEW c \in Clients,
         Request(c) \/ TakeLock(c) \/ ListForBuild(c) \/ Build(c)
  PROVE  IInv'
<1>1. /\ TypeInv /\ CallersInv /\ StoreInv /\ ListingsInv
      /\ c \in Callers /\ c # "poller" /\ "free" \notin Clients /\ "poller" \in Callers
  BY HistoryAssumption DEF IInv, HistoryAssumption, Callers
<1> USE DEF TypeInv, CallersInv, ListingsInv, AtMost, Listing, Labels, cacheVars, clientVars
<1>2. CASE Request(c)
  <2>1. TypeInv' /\ CallersInv' /\ ListingsInv'
    BY <1>1, <1>2 DEF Request
  <2>2. QED
    BY <1>1, <1>2, <2>1, StoreSame DEF IInv, Request
<1>3. CASE TakeLock(c)
  <2> SUFFICES TypeInv' /\ CallersInv' /\ ListingsInv'
    BY <1>1, <1>3, StoreSame DEF IInv, TakeLock
  <2>1. CASE Return(c) /\ UNCHANGED cacheLock
    BY <1>1, <1>3, <2>1 DEF TakeLock, Return
  <2>2. CASE cacheLock' = c /\ pc' = [pc EXCEPT ![c] = "list"] /\ UNCHANGED clientVars
    BY <1>1, <1>3, <2>2 DEF TakeLock
  <2>3. QED
    BY <1>3, <2>1, <2>2 DEF TakeLock
<1>4. CASE ListForBuild(c)
  <2>1. TypeInv' /\ CallersInv'
    BY <1>1, <1>4 DEF ListForBuild, Listed
  <2>2. /\ \A d \in Callers : d # c => seen'[d] = seen[d] /\ pc'[d] = pc[d]
        /\ seen'[c] = None \/ seen'[c] = published
        /\ UNCHANGED <<published, changed, cache, shown>>
    BY <1>1, <1>4 DEF ListForBuild, Listed
  <2>3. ListingsInv'
    BY <1>1, <2>2 DEF Callers
  <2>4. QED
    BY <1>1, <1>4, <2>1, <2>3, StoreSame DEF IInv, ListForBuild
<1>5. CASE Build(c)
  <2>1. page[c] \in Pages /\ seen[c] \in Listing \union {None}
    BY <1>1, <1>5 DEF Build
  <2>2. TypeInv' /\ CallersInv' /\ ListingsInv'
    BY <1>1, <1>5, <2>1 DEF Build, Return
  <2>3. StoreInv'
    BY <1>1, <1>5, <2>1, StoreSame, SyncKeeps DEF Build
  <2>4. QED
    BY <2>2, <2>3 DEF IInv
<1>6. QED
  BY <1>2, <1>3, <1>4, <1>5

\* The poller drops what is cached, when no page is being built.
LEMMA PollerStep ==
  ASSUME IInv, Poll
  PROVE  IInv'
<1>1. /\ TypeInv /\ CallersInv /\ StoreInv /\ ListingsInv
      /\ "poller" \in Callers /\ "poller" \notin Clients /\ "free" \notin Clients
  BY HistoryAssumption DEF IInv, HistoryAssumption, Callers
<1> USE DEF TypeInv, CallersInv, ListingsInv, AtMost, Listing, Labels, cacheVars, clientVars
<1>2. CASE PollList
  <2>1. TypeInv' /\ CallersInv' /\ ListingsInv'
    BY <1>1, <1>2 DEF PollList, Listed, Callers
  <2>2. QED
    BY <1>1, <1>2, <2>1, StoreSame DEF IInv, PollList
<1>3. CASE PollSync
  <2>1. TypeInv' /\ CallersInv' /\ ListingsInv'
    BY <1>1, <1>3 DEF PollSync, Callers
  <2>2. StoreInv'
    BY <1>1, <1>3, SyncKeeps DEF PollSync
  <2>3. QED
    BY <2>1, <2>2 DEF IInv
<1>4. CASE PollClear
  <2>1. TypeInv' /\ CallersInv' /\ ListingsInv'
    BY <1>1, <1>4 DEF PollClear, ClearCache, Callers
  <2>2. QED
    BY <1>1, <1>4, <2>1, StoreSame DEF IInv, PollClear, ClearCache
<1>5. QED
  BY <1>2, <1>3, <1>4 DEF Poll

\* What a restart leaves: the file as it was, or one that reads as empty.
LEMMA RestartStep ==
  ASSUME IInv, Restart
  PROVE  IInv'
<1>1. /\ TypeInv /\ StoreInv /\ ListingsInv /\ "poller" \in Callers /\ Limit \in Nat \ {0}
  BY HistoryAssumption DEF IInv, HistoryAssumption, Callers
<1>2. TypeInv' /\ CallersInv' /\ ListingsInv'
  BY <1>1 DEF Restart, TypeInv, CallersInv, ListingsInv, AtMost, Listing, Labels, Callers
<1>3. StoreInv'
  <2>1. CASE UNCHANGED history
    BY <1>1, <2>1, StoreSame DEF Restart, storeVars
  <2>2. CASE history' = [k \in Kinds |-> <<>>]
    <3>1. <<>> \in Seq(Loops) /\ Len(<<>>) = 0 /\ DOMAIN <<>> = {}
      OBVIOUS
    <3>2. Stored(<<>>) /\ Increasing(<<>>)
      BY <1>1, <3>1 DEF Stored, OneAMinute, Increasing
    <3>3. /\ history' \in [Kinds -> Seq(Loops)] /\ overtaken' \in BOOLEAN
          /\ \A k \in Kinds : Stored(history'[k]) /\ Increasing(history'[k])
      BY <1>1, <2>2, <3>1, <3>2 DEF Restart, StoreInv
    <3>4. QED
      BY <3>3 DEF StoreInv, Stored, OneAMinute, Increasing
  <2>3. QED
    BY <2>1, <2>2 DEF Restart
<1>4. QED
  BY <1>2, <1>3 DEF IInv

LEMMA IInvNext == IInv /\ [Next]_vars => IInv'
<1> SUFFICES ASSUME IInv, [Next]_vars PROVE IInv'
  OBVIOUS
<1>1. ASSUME NEW k \in Kinds, Publish(k) PROVE IInv'
  <2>1. published' \in Listing
    BY <1>1, HistoryAssumption DEF Publish, IInv, TypeInv, Listing, HistoryAssumption
  <2>2. TypeInv' /\ CallersInv' /\ ListingsInv'
    BY <1>1, <2>1 DEF Publish, IInv, TypeInv, CallersInv, ListingsInv, AtMost, Listing, cacheVars,
       clientVars
  <2>3. QED
    BY <1>1, <2>2, StoreSame DEF IInv, Publish
<1>2. ASSUME NEW p \in Pages, Expire(p) PROVE IInv'
  <2>1. TypeInv' /\ CallersInv' /\ ListingsInv'
    BY <1>2 DEF Expire, IInv, TypeInv, CallersInv, ListingsInv, AtMost, Listing, clientVars
  <2>2. QED
    BY <1>2, <2>1, StoreSame DEF IInv, Expire
<1>3. CASE UNCHANGED vars
  <2>1. TypeInv' /\ CallersInv' /\ ListingsInv'
    BY <1>3 DEF vars, IInv, TypeInv, CallersInv, ListingsInv, AtMost, Listing, cacheVars, clientVars
  <2>2. QED
    BY <1>3, <2>1, StoreSame DEF IInv, vars
<1>4. CASE Next
  BY <1>1, <1>2, <1>4, ClientStep, PollerStep, RestartStep DEF Next, Snapshot
<1>5. QED
  BY <1>3, <1>4

LEMMA IInvCorrect == Spec => []IInv
<1>1. QED
  BY IInvInit, IInvNext, PTL DEF Spec

-----------------------------------------------------------------------------
(* Theorems.                                                               *)

\* The stored history has one loop a minute, at most the limit, and is in order unless a
\* listing was applied after a newer one, over failures, restarts and a lost file
\* (LoopHistoryStore._append_if_new).
THEOREM HistoryAlwaysOrdered == Spec => []HistoryOrdered
<1>1. IInv => HistoryOrdered
  <2> SUFFICES ASSUME IInv PROVE HistoryOrdered
    OBVIOUS
  <2>1. TypeOK
    BY DEF IInv, TypeInv, StoreInv, Stored, TypeOK
  <2>2. OnePerMinute
    BY DEF IInv, StoreInv, Stored, OneAMinute, OnePerMinute
  <2>3. QED
    BY <2>1, <2>2 DEF IInv, StoreInv, Increasing, HistoryOrdered
<1>2. QED
  BY <1>1, IInvCorrect, PTL

\* No page stays cached that was built from an older listing than that of the last change the
\* poller has finished, however many were being built meanwhile: the poller clears the cache
\* under the lock they are built under (SnapshotService.poll_history_once).
THEOREM NoPageEverOutlivesPoll == Spec => []NoPageOutlivesPoll
<1>1. IInv => NoPageOutlivesPoll
  BY DEF IInv, TypeInv, ListingsInv, AtMost, Listing, NoPageOutlivesPoll
<1>2. QED
  BY <1>1, IInvCorrect, PTL

\* A set of numbers has a least one: the proofs about sums and lines take the least
\* counterexample, since the induction theorems cannot be instantiated.
LEMMA LeastExists ==
  ASSUME NEW T, T \subseteq Nat, T # {}
  PROVE  \E m \in T : \A k \in T : m <= k
<1>1. \E m \in T : \A k \in T : ~(<<k, m>> \in OpToRel(<, Nat))
  <2>1. IsWellFoundedOn(OpToRel(<, Nat), Nat)
    BY NatLessThanWellFounded, Zenon
  <2>2. QED
    BY ONLY <2>1, WFMin, T \subseteq Nat, T # {}, Zenon
<1>2. \A k, m \in Nat : k < m => <<k, m>> \in OpToRel(<, Nat)
  BY Zenon DEF OpToRel
<1>3. PICK m \in T : \A k \in T : ~(k < m)
  BY <1>1, <1>2, Zenon
<1>4. \A k \in T : m <= k
  BY <1>3
<1>5. QED
  BY <1>4

-----------------------------------------------------------------------------
(* Sums over the elements of a set, which the community folds take out in  *)
(* an order of their own.                                                  *)

Picked(s) == CHOOSE x \in s : TRUE

\* h[s] is the sum of the weights of s, for each part s of S.
Weighs(h, w, S) ==
  /\ h \in [SUBSET S -> Int] /\ h[{}] = 0
  /\ \A s \in SUBSET S : s # {} => h[s] = w[Picked(s)] + h[s \ {Picked(s)}]

\* The size of the subsets of a finite set.
LEMMA PartSizes ==
  ASSUME NEW S, IsFiniteSet(S)
  PROVE  /\ Cardinality(S) \in Nat
         /\ \A s \in SUBSET S :
              /\ Cardinality(s) \in 0..Cardinality(S) /\ (Cardinality(s) = 0 <=> s = {})
              /\ \A x \in s : Cardinality(s \ {x}) = Cardinality(s) - 1
<1>1. Cardinality(S) \in Nat
  BY FS_CardinalityType
<1>2. SUFFICES ASSUME NEW s \in SUBSET S
               PROVE  /\ Cardinality(s) \in 0..Cardinality(S) /\ (Cardinality(s) = 0 <=> s = {})
                      /\ \A x \in s : Cardinality(s \ {x}) = Cardinality(s) - 1
  BY <1>1
<1>3. IsFiniteSet(s) /\ Cardinality(s) <= Cardinality(S)
  BY FS_Subset
<1>4. Cardinality(s) \in Nat /\ (Cardinality(s) = 0 <=> s = {})
  BY <1>3, FS_CardinalityType, FS_EmptySet
<1>5. \A x \in s : Cardinality(s \ {x}) = Cardinality(s) - 1
  BY <1>3, FS_RemoveElement
<1>6. QED
  BY <1>1, <1>3, <1>4, <1>5

LEMMA PickedIn ==
  ASSUME NEW s, s # {}
  PROVE  Picked(s) \in s
BY Zenon DEF Picked

\* The sums that take out a chosen element exist.
LEMMA WeightsExist ==
  ASSUME NEW S, IsFiniteSet(S), NEW w \in [S -> Int]
  PROVE  \E h : Weighs(h, w, S)
<1> DEFINE Parts(m) == {s \in SUBSET S : Cardinality(s) <= m}
           Upto(m, h) == /\ h \in [Parts(m) -> Int] /\ h[{}] = 0
                         /\ \A s \in Parts(m) :
                              s # {} => h[s] = w[Picked(s)] + h[s \ {Picked(s)}]
           T == {m \in 0..Cardinality(S) : ~\E h : Upto(m, h)}
<1>1. /\ Cardinality(S) \in Nat
      /\ \A s \in SUBSET S : /\ Cardinality(s) \in 0..Cardinality(S)
                             /\ (Cardinality(s) = 0 <=> s = {})
                             /\ \A x \in s : Cardinality(s \ {x}) = Cardinality(s) - 1
  BY PartSizes
<1>2. SUFFICES ASSUME T # {} PROVE FALSE
  <2>1. Parts(Cardinality(S)) = SUBSET S
    BY <1>1
  <2>2. \A h : Upto(Cardinality(S), h) => Weighs(h, w, S)
    BY <2>1 DEF Weighs
  <2> HIDE DEF Upto
  <2>3. Cardinality(S) \in 0..Cardinality(S)
    BY <1>1
  <2>4. QED
    BY <2>2, <2>3
<1>3. PICK m \in T : \A k \in T : m <= k
  <2>1. T \subseteq Nat
    BY <1>1
  <2> HIDE DEF T
  <2>2. QED
    BY <1>2, <2>1, LeastExists
<1>4. m \in 0..Cardinality(S) /\ ~\E h : Upto(m, h)
  BY <1>3
<1>5. m # 0
  <2>1. Parts(0) = {{}}
    BY <1>1
  <2>2. Upto(0, [s \in {{}} |-> 0])
    BY <2>1
  <2> HIDE DEF Upto
  <2>3. QED
    BY <1>4, <2>2
<1>6. PICK g : Upto(m - 1, g)
  <2>1. m - 1 \in 0..Cardinality(S) /\ ~(m <= m - 1)
    BY <1>1, <1>4, <1>5
  <2>2. m - 1 \notin T
    <3> HIDE DEF T
    <3>1. QED
      BY <1>3, <2>1
  <2>3. QED
    BY <2>1, <2>2
<1> DEFINE Value(s) == IF Cardinality(s) = m THEN w[Picked(s)] + g[s \ {Picked(s)}] ELSE g[s]
           h == [s \in Parts(m) |-> Value(s)]
<1>7. \A s \in Parts(m) : s # {} => /\ Picked(s) \in s /\ w[Picked(s)] \in Int
                                    /\ s \ {Picked(s)} \in Parts(m - 1)
                                    /\ Cardinality(s \ {Picked(s)}) # m
  <2>1. SUFFICES ASSUME NEW s \in Parts(m), s # {}
                 PROVE  /\ Picked(s) \in s /\ w[Picked(s)] \in Int
                        /\ s \ {Picked(s)} \in Parts(m - 1)
                        /\ Cardinality(s \ {Picked(s)}) # m
    BY DEF Parts
  <2>2. Picked(s) \in s
    BY <2>1, PickedIn
  <2>3. Cardinality(s \ {Picked(s)}) = Cardinality(s) - 1 /\ Cardinality(s) \in Nat
    BY <1>1, <2>1, <2>2
  <2>4. QED
    BY <1>1, <1>4, <2>1, <2>2, <2>3
<1>8. Parts(m - 1) \subseteq Parts(m) /\ {} \in Parts(m - 1)
  BY <1>1, <1>4, <1>5
<1>9. \A s \in Parts(m) : Cardinality(s) # m => s \in Parts(m - 1)
  BY <1>1, <1>4
<1>10. g \in [Parts(m - 1) -> Int] /\ g[{}] = 0
  BY <1>6
<1>11. \A s \in Parts(m) : Cardinality(s) = m => s # {}
  BY <1>1, <1>4, <1>5
<1>12. \A s \in Parts(m - 1) : Cardinality(s) # m
  BY <1>1, <1>4
<1>13. \A s \in Parts(m - 1) : s # {} => g[s] = w[Picked(s)] + g[s \ {Picked(s)}]
  BY <1>6
<1>14. Upto(m, h)
  <2> HIDE DEF Parts
  <2>1. h \in [Parts(m) -> Int]
    <3>1. ASSUME NEW s \in Parts(m) PROVE Value(s) \in Int
      <4>1. CASE Cardinality(s) = m
        <5>1. /\ w[Picked(s)] \in Int /\ s \ {Picked(s)} \in Parts(m - 1)
          BY <1>7, <1>11, <4>1
        <5>2. g[s \ {Picked(s)}] \in Int
          BY <1>10, <5>1
        <5>3. QED
          BY <4>1, <5>1, <5>2
      <4>2. CASE Cardinality(s) # m
        BY <1>9, <1>10, <4>2
      <4>3. QED
        BY <4>1, <4>2
    <3> HIDE DEF Value
    <3>2. QED
      BY <3>1
  <2>2. h[{}] = 0
    BY <1>8, <1>10, <1>12
  <2>3. ASSUME NEW s \in Parts(m), s # {}
        PROVE  h[s] = w[Picked(s)] + h[s \ {Picked(s)}]
    <3>1. h[s \ {Picked(s)}] = g[s \ {Picked(s)}]
      BY <1>7, <1>8, <2>3
    <3>2. h[s] = Value(s)
      BY <2>3
    <3>3. QED
      BY <1>9, <1>13, <2>3, <3>1, <3>2
  <2>4. QED
    BY <2>1, <2>2, <2>3
<1>15. QED
  BY <1>4, <1>14

\* Whatever the order, a sum is what any element adds to the sum of the others.
LEMMA WeighsAny ==
  ASSUME NEW S, IsFiniteSet(S), NEW w \in [S -> Int], NEW h, Weighs(h, w, S)
  PROVE  \A s \in SUBSET S : \A x \in s : h[s] = w[x] + h[s \ {x}]
<1> DEFINE Bad(s) == \E x \in s : h[s] # w[x] + h[s \ {x}]
           T == {Cardinality(s) : s \in {t \in SUBSET S : Bad(t)}}
<1>1. /\ Cardinality(S) \in Nat
      /\ \A s \in SUBSET S : /\ Cardinality(s) \in 0..Cardinality(S)
                             /\ (Cardinality(s) = 0 <=> s = {})
                             /\ \A x \in s : Cardinality(s \ {x}) = Cardinality(s) - 1
  BY PartSizes
<1>2. SUFFICES ASSUME T # {} PROVE FALSE
  OBVIOUS
<1>3. PICK m \in T : \A k \in T : m <= k
  <2>1. T \subseteq Nat
    BY <1>1
  <2> HIDE DEF T
  <2>2. QED
    BY <1>2, <2>1, LeastExists
<1>4. PICK s \in SUBSET S : Cardinality(s) = m /\ Bad(s)
  BY <1>3
<1>5. PICK x \in s : h[s] # w[x] + h[s \ {x}]
  BY <1>4
<1>6. \A t \in SUBSET S : Cardinality(t) < m => ~Bad(t)
  <2>1. ASSUME NEW t \in SUBSET S, Cardinality(t) < m, Bad(t) PROVE FALSE
    <3>1. Cardinality(t) \in T
      BY <2>1
    <3>2. Cardinality(t) \in Nat /\ m \in Nat
      BY <1>1, <1>4
    <3> HIDE DEF T
    <3>3. QED
      BY <1>3, <2>1, <3>1, <3>2
  <2>2. QED
    BY <2>1
<1> DEFINE c == Picked(s)
<1>7. c \in s /\ h[s] = w[c] + h[s \ {c}]
  BY <1>5, PickedIn DEF Weighs
<1>8. c # x
  BY <1>5, <1>7
<1> HIDE DEF c
<1>9. Cardinality(s \ {c}) < m /\ Cardinality(s \ {x}) < m
  BY <1>1, <1>4, <1>5, <1>7
<1>10. h[s \ {c}] = w[x] + h[(s \ {c}) \ {x}]
  BY <1>5, <1>6, <1>8, <1>9
<1>11. h[s \ {x}] = w[c] + h[(s \ {x}) \ {c}]
  BY <1>6, <1>7, <1>8, <1>9
<1>12. h[(s \ {x}) \ {c}] = h[(s \ {c}) \ {x}]
  <2>1. (s \ {x}) \ {c} = (s \ {c}) \ {x}
    OBVIOUS
  <2>2. QED
    BY <2>1
<1>13. w[x] \in Int /\ w[c] \in Int /\ h[(s \ {c}) \ {x}] \in Int
  BY <1>5, <1>7 DEF Weighs
<1>14. h[s] = w[x] + (w[c] + h[(s \ {c}) \ {x}])
  BY <1>7, <1>10, <1>13
<1>15. QED
  BY <1>5, <1>11, <1>12, <1>14

\* Elements that correspond to each other and weigh the same; the others weigh nothing.
Corresponds(p, S, w, D, v) ==
  /\ p \in [S -> D] /\ \A m, n \in S : p[m] = p[n] => m = n
  /\ \A n \in S : v[p[n]] = w[n]
  /\ \A y \in D : v[y] # 0 => \E n \in S : p[n] = y

\* Sums over corresponding elements are equal.
LEMMA WeighsAgree ==
  ASSUME NEW S, IsFiniteSet(S), NEW w \in [S -> Int], NEW h, Weighs(h, w, S),
         NEW D, IsFiniteSet(D), NEW v \in [D -> Int], NEW k, Weighs(k, v, D),
         NEW p, Corresponds(p, S, w, D, v)
  PROVE  h[S] = k[D]
<1>1. \A t \in SUBSET S : \A x \in t : h[t] = w[x] + h[t \ {x}]
  <2>1. SUFFICES ASSUME NEW t \in SUBSET S, NEW x \in t PROVE h[t] = w[x] + h[t \ {x}]
    OBVIOUS
  <2>2. QED
    BY WeighsAny
<1> DEFINE Match(s, d) == \A n \in S : n \in s <=> p[n] \in d
           Bad(d) == \E s \in SUBSET S : Match(s, d) /\ h[s] # k[d]
           T == {Cardinality(d) : d \in {t \in SUBSET D : Bad(t)}}
<1>2. /\ Cardinality(D) \in Nat
      /\ \A d \in SUBSET D : /\ Cardinality(d) \in 0..Cardinality(D)
                             /\ (Cardinality(d) = 0 <=> d = {})
                             /\ \A x \in d : Cardinality(d \ {x}) = Cardinality(d) - 1
  BY PartSizes
<1> USE DEF Corresponds
<1>3. SUFFICES ASSUME T # {} PROVE FALSE
  <2>1. Match(S, D)
    OBVIOUS
  <2>2. Cardinality(D) \notin T => ~Bad(D)
    OBVIOUS
  <2>3. QED
    BY <2>1, <2>2
<1>4. PICK m \in T : \A j \in T : m <= j
  <2>1. T \subseteq Nat
    BY <1>2
  <2> HIDE DEF T
  <2>2. QED
    BY <1>3, <2>1, LeastExists
<1>5. PICK d \in SUBSET D : Cardinality(d) = m /\ Bad(d)
  BY <1>4
<1>6. PICK s \in SUBSET S : Match(s, d) /\ h[s] # k[d]
  BY <1>5
<1>7. \A t \in SUBSET D : Cardinality(t) < m => ~Bad(t)
  <2>1. ASSUME NEW t \in SUBSET D, Cardinality(t) < m, Bad(t) PROVE FALSE
    <3>1. Cardinality(t) \in T
      BY <2>1
    <3>2. Cardinality(t) \in Nat /\ m \in Nat
      BY <1>2, <1>5
    <3> HIDE DEF T
    <3>3. QED
      BY <1>4, <2>1, <3>1, <3>2
  <2>2. QED
    BY <2>1
<1>8. d # {}
  <2>1. SUFFICES ASSUME d = {} PROVE FALSE
    OBVIOUS
  <2>2. s = {}
    BY <1>6, <2>1
  <2>3. QED
    BY <1>6, <2>1, <2>2 DEF Weighs
<1>9. PICK y \in d : TRUE
  BY <1>8
<1>10. /\ d \ {y} \in SUBSET D /\ Cardinality(d \ {y}) < m
       /\ k[d] = v[y] + k[d \ {y}]
  <2>1. Cardinality(d \ {y}) < m
    BY <1>2, <1>5, <1>9
  <2>2. k[d] = v[y] + k[d \ {y}]
    BY <1>9, WeighsAny
  <2>3. QED
    BY <2>1, <2>2
<1>11. \A t \in SUBSET S : Match(t, d \ {y}) => h[t] = k[d \ {y}]
  BY <1>7, <1>10
<1>12. CASE \E n \in S : p[n] = y
  <2>1. PICK n \in S : p[n] = y
    BY <1>12
  <2>2. n \in s /\ Match(s \ {n}, d \ {y})
    BY <1>6, <1>9, <2>1
  <2>3. h[s] = w[n] + h[s \ {n}]
    BY <1>1, <2>2
  <2>4. h[s \ {n}] = k[d \ {y}]
    BY <1>11, <2>2
  <2>5. w[n] = v[y]
    BY <2>1
  <2>6. QED
    BY <1>6, <1>10, <2>3, <2>4, <2>5
<1>13. CASE ~\E n \in S : p[n] = y
  <2>1. v[y] = 0
    BY <1>9, <1>13
  <2>2. Match(s, d \ {y})
    BY <1>6, <1>13
  <2>3. h[s] = k[d \ {y}] /\ k[d \ {y}] \in Int
    BY <1>10, <1>11, <2>2 DEF Weighs
  <2>4. QED
    BY <1>6, <1>10, <2>1, <2>3
<1>14. QED
  BY <1>12, <1>13

\* What a fold over the parts of a set computes.
LEMMA FoldIs ==
  ASSUME NEW S, IsFiniteSet(S), NEW w \in [S -> Int], NEW h, Weighs(h, w, S), NEW g,
         g[{}] = 0, \A s \in SUBSET S : s # {} => g[s] = w[Picked(s)] + g[s \ {Picked(s)}]
  PROVE  g[S] = h[S]
<1> DEFINE T == {Cardinality(s) : s \in {t \in SUBSET S : g[t] # h[t]}}
<1>1. /\ Cardinality(S) \in Nat
      /\ \A s \in SUBSET S : /\ Cardinality(s) \in 0..Cardinality(S)
                             /\ (Cardinality(s) = 0 <=> s = {})
                             /\ \A x \in s : Cardinality(s \ {x}) = Cardinality(s) - 1
  BY PartSizes
<1>2. SUFFICES ASSUME T # {} PROVE FALSE
  OBVIOUS
<1>3. PICK m \in T : \A j \in T : m <= j
  <2>1. T \subseteq Nat
    BY <1>1
  <2> HIDE DEF T
  <2>2. QED
    BY <1>2, <2>1, LeastExists
<1>4. PICK s \in SUBSET S : Cardinality(s) = m /\ g[s] # h[s]
  BY <1>3
<1>5. s # {}
  BY <1>4 DEF Weighs
<1>6. g[s] = w[Picked(s)] + g[s \ {Picked(s)}] /\ h[s] = w[Picked(s)] + h[s \ {Picked(s)}]
  BY <1>5 DEF Weighs
<1>7. s \ {Picked(s)} \in SUBSET S /\ Cardinality(s \ {Picked(s)}) < m
  BY <1>1, <1>4, <1>5, PickedIn
<1>8. g[s \ {Picked(s)}] = h[s \ {Picked(s)}]
  <2>1. SUFFICES ASSUME g[s \ {Picked(s)}] # h[s \ {Picked(s)}] PROVE FALSE
    OBVIOUS
  <2>2. Cardinality(s \ {Picked(s)}) \in T
    BY <1>7, <2>1
  <2>3. Cardinality(s \ {Picked(s)}) \in Nat /\ m \in Nat
    BY <1>1, <1>4, <1>7
  <2> HIDE DEF T
  <2>4. QED
    BY <1>3, <1>7, <2>2, <2>3
<1>9. QED
  BY <1>4, <1>6, <1>8

\* Such functions are fixed points of that fold's definition.
LEMMA WeighsFold ==
  ASSUME NEW S, IsFiniteSet(S), NEW w \in [S -> Int], NEW h, Weighs(h, w, S)
  PROVE  h = [s \in SUBSET S |-> IF s = {} THEN 0 ELSE w[Picked(s)] + h[s \ {Picked(s)}]]
BY DEF Weighs

Total(lines, S) == MapThenSumSet(LAMBDA n : lines[n].total, S)
Sent(points, seconds) == MapThenSumSet(LAMBDA s : points[s].requests, seconds)

\* The sums of the model, over MapThenSumSet.
LEMMA TotalIs ==
  ASSUME NEW lines, NEW S, IsFiniteSet(S), \A s \in S : lines[s].total \in Int,
         NEW h, Weighs(h, [s \in S |-> lines[s].total], S)
  PROVE  Total(lines, S) = h[S]
<1> DEFINE w == [s \in S |-> lines[s].total]
           Def(g) == g = [s \in SUBSET S |-> IF s = {} THEN 0
                                             ELSE lines[Picked(s)].total + g[s \ {Picked(s)}]]
           Weight(g) == g = [s \in SUBSET S |-> IF s = {} THEN 0
                                                ELSE w[Picked(s)] + g[s \ {Picked(s)}]]
           sum == CHOOSE g : Def(g)
<1>1. Total(lines, S) = sum[S]
  BY Zenon DEF Total, MapThenSumSet, MapThenFoldSet, Picked
<1>2. \A s \in SUBSET S : s # {} => w[Picked(s)] = lines[Picked(s)].total
  BY PickedIn
<1>3. \A g : Def(g) <=> Weight(g)
  BY <1>2
<1>4. w \in [S -> Int]
  OBVIOUS
<1> HIDE DEF w
<1>5. Weight(h)
  BY <1>4, WeighsFold DEF w
<1> HIDE DEF Def
<1>6. Weight(sum)
  BY <1>3, <1>5, Zenon
<1> HIDE DEF sum
<1>7. sum[{}] = 0 /\ \A s \in SUBSET S : s # {} => sum[s] = w[Picked(s)] + sum[s \ {Picked(s)}]
  <2> DEFINE Value(s) == IF s = {} THEN 0 ELSE w[Picked(s)] + sum[s \ {Picked(s)}]
  <2>1. sum = [s \in SUBSET S |-> Value(s)]
    BY <1>6
  <2> HIDE DEF Value
  <2>2. \A s \in SUBSET S : sum[s] = Value(s)
    BY <2>1, Zenon
  <2>3. QED
    BY <2>2 DEF Value
<1> HIDE DEF Weight
<1>8. Weighs(h, w, S)
  BY DEF w
<1>9. sum[S] = h[S]
  BY <1>4, <1>7, <1>8, FoldIs
<1>10. QED
  BY <1>1, <1>9
LEMMA SentIs ==
  ASSUME NEW points, NEW S, IsFiniteSet(S), \A s \in S : points[s].requests \in Int,
         NEW h, Weighs(h, [s \in S |-> points[s].requests], S)
  PROVE  Sent(points, S) = h[S]
<1> DEFINE w == [s \in S |-> points[s].requests]
           Def(g) == g = [s \in SUBSET S |-> IF s = {} THEN 0
                                             ELSE points[Picked(s)].requests + g[s \ {Picked(s)}]]
           Weight(g) == g = [s \in SUBSET S |-> IF s = {} THEN 0
                                                ELSE w[Picked(s)] + g[s \ {Picked(s)}]]
           sum == CHOOSE g : Def(g)
<1>1. Sent(points, S) = sum[S]
  BY Zenon DEF Sent, MapThenSumSet, MapThenFoldSet, Picked
<1>2. \A s \in SUBSET S : s # {} => w[Picked(s)] = points[Picked(s)].requests
  BY PickedIn
<1>3. \A g : Def(g) <=> Weight(g)
  BY <1>2
<1>4. w \in [S -> Int]
  OBVIOUS
<1> HIDE DEF w
<1>5. Weight(h)
  BY <1>4, WeighsFold DEF w
<1> HIDE DEF Def
<1>6. Weight(sum)
  BY <1>3, <1>5, Zenon
<1> HIDE DEF sum
<1>7. sum[{}] = 0 /\ \A s \in SUBSET S : s # {} => sum[s] = w[Picked(s)] + sum[s \ {Picked(s)}]
  <2> DEFINE Value(s) == IF s = {} THEN 0 ELSE w[Picked(s)] + sum[s \ {Picked(s)}]
  <2>1. sum = [s \in SUBSET S |-> Value(s)]
    BY <1>6
  <2> HIDE DEF Value
  <2>2. \A s \in SUBSET S : sum[s] = Value(s)
    BY <2>1, Zenon
  <2>3. QED
    BY <2>2 DEF Value
<1> HIDE DEF Weight
<1>8. Weighs(h, w, S)
  BY DEF w
<1>9. sum[S] = h[S]
  BY <1>4, <1>7, <1>8, FoldIs
<1>10. QED
  BY <1>1, <1>9
-----------------------------------------------------------------------------
(* Division with a divisor that is a constant of the model.                *)

LEMMA DivIs ==
  ASSUME NEW a \in Int, NEW b \in Nat \ {0}
  PROVE  /\ a \div b \in Int /\ a % b \in 0..(b - 1)
         /\ a = b * (a \div b) + (a % b)
OBVIOUS

LEMMA Grows ==
  ASSUME NEW b \in Nat \ {0}, NEW x \in Int, NEW y \in Int, x <= y
  PROVE  b * x <= b * y
OBVIOUS

\* A quotient is below a whole number when the dividend is below its multiple.
LEMMA DivBelow ==
  ASSUME NEW a \in Int, NEW b \in Nat \ {0}, NEW q \in Int
  PROVE  a \div b < q <=> a < q * b
<1>1. PICK n \in Int, r \in 0..(b - 1) : n = a \div b /\ r = a % b /\ a = b * n + r
  BY DivIs
<1>2. CASE n < q
  <2>1. b * (n + 1) <= b * q
    BY <1>2, Grows
  <2>2. b * (n + 1) = b * n + b /\ b * q = q * b /\ b * n \in Int /\ b * q \in Int
    BY <1>1
  <2>3. QED
    BY <1>1, <1>2, <2>1, <2>2
<1>3. CASE ~(n < q)
  <2>1. b * q <= b * n
    BY <1>3, Grows
  <2>2. b * q = q * b /\ b * n \in Int /\ b * q \in Int
    BY <1>1
  <2>3. QED
    BY <1>1, <1>3, <2>1, <2>2
<1>4. QED
  BY <1>2, <1>3

\* The rounded quotient lies at most a half beside the quotient.
LEMMA RoundedNear ==
  ASSUME NEW p \in Nat, NEW q \in Nat \ {0}
  PROVE  /\ Rounded(p, q) \in Nat
         /\ 2 * p - q <= 2 * (q * Rounded(p, q)) /\ 2 * (q * Rounded(p, q)) <= 2 * p + q
<1>1. PICK n \in Int, r \in 0..(q - 1) : n = p \div q /\ r = p % q /\ p = q * n + r
  BY DivIs
<1>2. n \in Nat
  <2>1. ~(p \div q < 0)
    BY DivBelow
  <2>2. QED
    BY <1>1, <2>1
<1>3. q * n \in Int /\ q * (n + 1) = q * n + q
  BY <1>1
<1>4. \/ Rounded(p, q) = n /\ 2 * r <= q
      \/ Rounded(p, q) = n + 1 /\ 2 * r >= q
  BY <1>1 DEF Rounded
<1>5. QED
  BY <1>1, <1>2, <1>3, <1>4

\* Over more than a whole number it grows.
LEMMA RoundedGrows ==
  ASSUME NEW q \in Nat \ {0}, NEW m \in Nat, NEW n \in Nat, n > m + q
  PROVE  Rounded(m, q) < Rounded(n, q)
<1>1. PICK x \in Nat, y \in Nat : x = Rounded(m, q) /\ y = Rounded(n, q)
  BY RoundedNear
<1>2. 2 * (q * x) <= 2 * m + q /\ 2 * n - q <= 2 * (q * y)
  BY <1>1, RoundedNear
<1>3. q * x \in Int /\ q * y \in Int
  OBVIOUS
<1>4. ~(y <= x)
  <2>1. y <= x => q * y <= q * x
    BY Grows
  <2>2. QED
    BY <1>2, <1>3, <2>1
<1>5. QED
  BY <1>1, <1>4

\* A multiple is not rounded.
LEMMA RoundedWhole ==
  ASSUME NEW q \in Nat \ {0}, NEW n \in Nat
  PROVE  Rounded(q * n, q) = n
<1>1. PICK x \in Nat : x = Rounded(q * n, q)
  BY RoundedNear
<1>2. q * n \in Nat /\ q * x \in Int
  OBVIOUS
<1>3. 2 * (q * n) - q <= 2 * (q * x) /\ 2 * (q * x) <= 2 * (q * n) + q
  BY <1>1, <1>2, RoundedNear
<1>4. ~(x < n)
  <2>1. x < n => q * (x + 1) <= q * n
    BY Grows
  <2>2. q * (x + 1) = q * x + q
    OBVIOUS
  <2>3. QED
    BY <1>2, <1>3, <2>1, <2>2
<1>5. ~(n < x)
  <2>1. n < x => q * (n + 1) <= q * x
    BY Grows
  <2>2. q * (n + 1) = q * n + q
    OBVIOUS
  <2>3. QED
    BY <1>2, <1>3, <2>1, <2>2
<1>6. QED
  BY <1>1, <1>4, <1>5
-----------------------------------------------------------------------------
(* The buckets of neighbouring seconds.                                    *)

LEMMA OfTwo ==
  ASSUME NEW a \in Nat, NEW b \in Nat
  PROVE  /\ Min({a, b}) = IF a <= b THEN a ELSE b
         /\ Max({a, b}) = IF a >= b THEN a ELSE b
<1> DEFINE Least(x) == \A y \in {a, b} : x <= y
           Most(x) == \A y \in {a, b} : x >= y
<1>1. (\E x \in {a, b} : Least(x)) /\ (\E x \in {a, b} : Most(x))
  OBVIOUS
<1>2. /\ Min({a, b}) = (CHOOSE x \in {a, b} : Least(x))
      /\ Max({a, b}) = (CHOOSE x \in {a, b} : Most(x))
  BY DEF Min, Max
<1> HIDE DEF Least, Most
<1>3. Min({a, b}) \in {a, b} /\ Least(Min({a, b})) /\ Max({a, b}) \in {a, b} /\ Most(Max({a, b}))
  BY <1>1, <1>2, Zenon
<1>4. QED
  BY <1>3 DEF Least, Most

\* What SeriesIsTheFile says of the buckets: they share out the seconds of the range.
SharesOut(buckets, n, total) ==
  /\ DOMAIN buckets = 1..n /\ n \in Nat \ {0}
  /\ \A i \in 1..n : buckets[i].from \in Nat /\ buckets[i].to \in 0..total
  /\ buckets[1].from = 0 /\ buckets[n].to = total
  /\ \A i \in 1..n : buckets[i].from < buckets[i].to
  /\ \A i \in 1..(n - 1) : buckets[i].to = buckets[i + 1].from

\* The buckets of _downsample_points: none is empty, and none is lost between two.
LEMMA AveragedSharesOut ==
  ASSUME NEW total \in Nat, NEW q \in Nat \ {0}, q = MaxPoints, total > q
  PROVE  SharesOut([i \in 1..q |-> BucketAt(total, i)], q, total)
<1> DEFINE Edge(i) == Rounded(i * total, q)
<1>1. \A i \in 0..q : Edge(i) \in Nat
  <2>1. TAKE i \in 0..q
  <2>2. i * total \in Nat
    OBVIOUS
  <2>3. QED
    BY <2>2, RoundedNear
<1>2. \A i, j \in 0..q : i < j => Edge(i) < Edge(j)
  <2>1. SUFFICES ASSUME NEW i \in 0..q, NEW j \in 0..q, i < j PROVE Edge(i) < Edge(j)
    OBVIOUS
  <2>2. i * total \in Nat /\ j * total \in Nat
    OBVIOUS
  <2>3. total * (i + 1) <= total * j
    BY <2>1, Grows
  <2>4. total * (i + 1) = i * total + total /\ total * j = j * total
    OBVIOUS
  <2>5. j * total > i * total + q
    BY <2>2, <2>3, <2>4
  <2>6. QED
    BY <2>2, <2>5, RoundedGrows
<1>3. Edge(0) = 0 /\ Edge(q) = total
  <2>1. Rounded(q * 0, q) = 0 /\ Rounded(q * total, q) = total
    BY RoundedWhole
  <2>2. q * 0 = 0 * total
    OBVIOUS
  <2>3. QED
    BY <2>1, <2>2
<1>4. \A i \in 1..q : BucketAt(total, i) = [from |-> Edge(i - 1), to |-> Edge(i)]
  <2>1. SUFFICES ASSUME NEW i \in 1..q
                 PROVE  BucketAt(total, i) = [from |-> Edge(i - 1), to |-> Edge(i)]
    OBVIOUS
  <2>2. i - 1 \in 0..q /\ i \in 0..q /\ i - 1 < i
    OBVIOUS
  <2>3. Edge(i - 1) < Edge(i) /\ Edge(i - 1) \in Nat /\ Edge(i) \in Nat
    BY <1>1, <1>2, <2>2
  <2>4. BucketAt(total, i) = [from |-> Edge(i - 1), to |-> Max({Edge(i), Edge(i - 1) + 1})]
    BY DEF BucketAt
  <2> HIDE DEF Edge
  <2>5. Max({Edge(i), Edge(i - 1) + 1}) = Edge(i)
    BY <2>3, OfTwo
  <2>6. QED
    BY <2>4, <2>5
<1> HIDE DEF Edge
<1>5. \A i \in 0..q : Edge(i) \in 0..total
  BY <1>1, <1>2, <1>3
<1> DEFINE buckets == [i \in 1..q |-> [from |-> Edge(i - 1), to |-> Edge(i)]]
<1>6. [i \in 1..q |-> BucketAt(total, i)] = buckets
  BY <1>4
<1>7. /\ \A i \in 1..q : buckets[i].from = Edge(i - 1) /\ buckets[i].to = Edge(i)
      /\ DOMAIN buckets = 1..q
  OBVIOUS
<1> HIDE DEF buckets
<1>8. \A i \in 1..q : i \in 0..q /\ i - 1 \in 0..q /\ i - 1 < i
  OBVIOUS
<1>9. \A i \in 1..(q - 1) : i + 1 \in 1..q /\ i \in 1..q /\ (i + 1) - 1 = i
  OBVIOUS
<1>10. /\ \A i \in 1..q : buckets[i].from \in Nat /\ buckets[i].to \in 0..total
       /\ \A i \in 1..q : buckets[i].from < buckets[i].to
  BY <1>1, <1>2, <1>5, <1>7, <1>8
<1>11. buckets[1].from = 0 /\ buckets[q].to = total
  <2>1. 1 \in 1..q /\ q \in 1..q /\ 1 - 1 = 0
    OBVIOUS
  <2>2. QED
    BY <1>3, <1>7, <2>1
<1>12. \A i \in 1..(q - 1) : buckets[i].to = buckets[i + 1].from
  BY <1>7, <1>9
<1>13. QED
  BY <1>6, <1>7, <1>10, <1>11, <1>12 DEF SharesOut

\* Averaging loses no second of the range and shows none twice.
LEMMA BucketsShareOut ==
  ASSUME NEW total \in Durations
  PROVE  SharesOut(Buckets[total], Min({total, MaxPoints}), total)
<1>1. total \in Nat \ {0} /\ MaxPoints \in Nat \ {0}
  BY RangeAssumption DEF RangeAssumption
<1>2. Min({total, MaxPoints}) = IF total <= MaxPoints THEN total ELSE MaxPoints
  BY <1>1, OfTwo
<1>3. CASE total <= MaxPoints
  <2>1. Buckets[total] = [i \in 1..total |-> [from |-> i - 1, to |-> i]]
    BY <1>3 DEF Buckets
  <2>2. SharesOut([i \in 1..total |-> [from |-> i - 1, to |-> i]], total, total)
    BY <1>1 DEF SharesOut
  <2>3. QED
    BY <1>2, <1>3, <2>1, <2>2
<1>4. CASE total > MaxPoints
  <2>1. Buckets[total] = [i \in 1..MaxPoints |-> BucketAt(total, i)]
    BY <1>1, <1>4 DEF Buckets
  <2>2. SharesOut([i \in 1..MaxPoints |-> BucketAt(total, i)], MaxPoints, total)
    BY <1>1, <1>4, AveragedSharesOut
  <2>3. QED
    BY <1>1, <1>2, <1>4, <2>1, <2>2
<1>5. QED
  BY <1>1, <1>3, <1>4
-----------------------------------------------------------------------------
(* The index, which is right at every moment of its making, and the scan.  *)

FileInv == RangeTypeOK /\ file \in Files

\* An indexed line is one that can be read, and stands with its timestamp.
IndexInv ==
  /\ \A i \in DOMAIN index :
       index[i].line \in Readable(file) /\ index[i].at = file[index[i].line].at
  /\ first = NoTime <=> final = NoTime

CallInv == \A r \in Readers : stage[r] # "idle" => query[r].duration \in Durations

\* What a scan of the whole file finds from a start.
Found(start) == LastOfSecond({n \in Readable(file) : file[n].at >= start}, start)

Shown(a) ==
  /\ a.start \in Nat /\ a.duration \in Durations
  /\ a.series = Series(Found(a.start), a.start, Buckets[a.duration])

RangeInv == FileInv /\ IndexInv /\ CallInv /\ (\A a \in Answers : Shown(a))

LEMMA LineIs ==
  \A x \in Lines : x.at \in Nat /\ x.sent \in Nat /\ x.total \in Int
BY DEF Lines

LEMMA FileFacts ==
  ASSUME NEW f \in Files
  PROVE  /\ f \in Seq(Lines) /\ Len(f) \in Nat /\ DOMAIN f = 1..Len(f)
         /\ \A n \in 1..Len(f) : f[n] \in Lines /\ f[n].at \in Nat /\ f[n].total \in Int
         /\ \A n \in Readable(f) : n \in 1..Len(f) /\ n \in Nat /\ f[n].at \in Nat
         /\ \A m, n \in Readable(f) : m < n => f[m].at <= f[n].at
<1>1. f \in Seq(Lines) /\ \A m, n \in Readable(f) : m < n => f[m].at <= f[n].at
  BY RangeAssumption DEF RangeAssumption
<1>2. /\ \A n \in 1..Len(f) : f[n] \in Lines /\ f[n].at \in Nat /\ f[n].total \in Int
      /\ \A n \in Readable(f) : n \in 1..Len(f)
  <2>1. \A n \in 1..Len(f) : f[n] \in Lines
    BY <1>1
  <2>2. \A n \in Readable(f) : n \in 1..Len(f)
    BY <1>1 DEF Readable
  <2>3. QED
    BY <2>1, <2>2, LineIs
<1>3. QED
  BY <1>1, <1>2

\* The line at which a call begins to read: the first, or one that is not behind its start.
LEMMA StartingLineIs ==
  ASSUME FileInv, IndexInv, NEW start \in Nat
  PROVE  \/ StartingLine(start) = 1
         \/ /\ StartingLine(start) \in Readable(file)
            /\ file[StartingLine(start)].at <= start
<1> DEFINE earlier == {i \in DOMAIN index : index[i].at <= start}
           T == {Len(index) - i : i \in earlier}
           Most(x) == \A y \in earlier : x >= y
<1>1. index \in Seq([at : Nat, line : Nat]) /\ Len(index) \in Nat /\ DOMAIN index = 1..Len(index)
  BY DEF FileInv, RangeTypeOK
<1>2. CASE earlier = {}
  BY <1>2 DEF StartingLine
<1>3. CASE earlier # {}
  <2>1. StartingLine(start) = index[Max(earlier)].line
    BY <1>3 DEF StartingLine
  <2>2. \E x \in earlier : Most(x)
    <3>1. T \subseteq Nat /\ T # {}
      BY <1>1, <1>3
    <3>2. PICK m \in T : \A k \in T : m <= k
      <4> HIDE DEF T
      <4>1. QED
        BY <3>1, LeastExists
    <3>3. PICK x \in earlier : m = Len(index) - x
      BY <3>2
    <3>4. \A y \in earlier : Len(index) - x <= Len(index) - y
      BY <3>2, <3>3
    <3>5. \A y \in earlier : y \in Nat
      BY <1>1
    <3>6. Most(x)
      <4> HIDE DEF earlier
      <4>1. QED
        BY <1>1, <3>4, <3>5
    <3>7. QED
      BY <3>6
  <2>3. Max(earlier) \in earlier
    <3>1. Max(earlier) = CHOOSE x \in earlier : Most(x)
      BY DEF Max
    <3> HIDE DEF earlier, Most
    <3>2. QED
      BY <2>2, <3>1, Zenon
  <2>4. Max(earlier) \in DOMAIN index /\ index[Max(earlier)].at <= start
    BY <2>3
  <2>5. QED
    BY <2>1, <2>4 DEF IndexInv
<1>4. QED
  BY <1>2, <1>3

\* Later lines are in later seconds or the same one; the seconds of a range.
LEMMA SecondFacts ==
  ASSUME FileInv, NEW start \in Nat
  PROVE  /\ \A n \in Readable(file) : /\ SecondOf(n, start) \in Int
                                      /\ SecondOf(n, start) >= 0 <=> file[n].at >= start
         /\ \A n \in Readable(file) : \A d \in Nat :
              SecondOf(n, start) < d <=> file[n].at < start + d * TicksPerSecond
<1>1. TicksPerSecond \in Nat \ {0}
  BY SecondAssumption DEF SecondAssumption
<1>2. \A n \in Readable(file) : file[n].at \in Nat
  BY FileFacts DEF FileInv, RangeTypeOK
<1>3. ASSUME NEW n \in Readable(file), NEW d \in Nat
       PROVE  /\ SecondOf(n, start) \in Int
              /\ SecondOf(n, start) < d <=> file[n].at - start < d * TicksPerSecond
  <2>1. PICK a \in Int : a = file[n].at - start
    BY <1>2
  <2>2. SecondOf(n, start) = a \div TicksPerSecond
    BY <2>1 DEF SecondOf
  <2>3. a \div TicksPerSecond \in Int /\ (a \div TicksPerSecond < d <=> a < d * TicksPerSecond)
    BY <1>1, DivIs, DivBelow
  <2>4. QED
    BY <2>1, <2>2, <2>3
<1>4. \A d \in Nat : d * TicksPerSecond \in Nat
  BY <1>1
<1>5. 0 * TicksPerSecond = 0
  BY <1>1
<1>6. ASSUME NEW n \in Readable(file)
      PROVE  SecondOf(n, start) \in Int /\ (SecondOf(n, start) >= 0 <=> file[n].at >= start)
  <2>1. /\ SecondOf(n, start) \in Int
        /\ SecondOf(n, start) < 0 <=> file[n].at - start < 0 * TicksPerSecond
    BY <1>3
  <2>2. QED
    BY <1>2, <1>5, <2>1
<1>7. ASSUME NEW n \in Readable(file), NEW d \in Nat
      PROVE  SecondOf(n, start) < d <=> file[n].at < start + d * TicksPerSecond
  BY <1>2, <1>3, <1>4
<1>8. QED
  BY <1>6, <1>7

\* In the seconds of its range, a call finds the lines that a scan of the file finds.
LEMMA FilledIsFound ==
  ASSUME FileInv, IndexInv, NEW start \in Nat, NEW duration \in Durations,
         NEW n \in Readable(file), SecondOf(n, start) \in 0..(duration - 1)
  PROVE  n \in Filled(start, duration) <=> n \in Found(start)
<1> DEFINE from == StartingLine(start)
           end == start + duration * TicksPerSecond
           onward == {k \in Readable(file) : k >= from}
           All == {k \in Readable(file) : file[k].at >= start}
           Part == {k \in onward : /\ file[k].at >= start
                                   /\ \A j \in onward : j <= k => file[j].at < end}
           Last(lines, k) == \A j \in lines : j > k => SecondOf(j, start) # SecondOf(k, start)
<1>1. duration \in Nat \ {0} /\ TicksPerSecond \in Nat \ {0}
  BY RangeAssumption, SecondAssumption DEF RangeAssumption, SecondAssumption
<1>2. /\ n \in Filled(start, duration) <=> n \in Part /\ Last(Part, n)
      /\ n \in Found(start) <=> n \in All /\ Last(All, n)
  BY DEF Filled, Found, LastOfSecond
<1>3. end \in Nat
  BY <1>1
<1>4. /\ \A k \in Readable(file) : k \in Nat /\ file[k].at \in Nat /\ 1 <= k
      /\ \A j, k \in Readable(file) : j < k => file[j].at <= file[k].at
  BY FileFacts DEF FileInv, RangeTypeOK
<1>5. /\ \A k \in Readable(file) :
           SecondOf(k, start) \in Int /\ (SecondOf(k, start) >= 0 <=> file[k].at >= start)
      /\ \A k \in Readable(file) : SecondOf(k, start) < duration <=> file[k].at < end
  BY <1>1, SecondFacts
<1>6. from = 1 \/ (from \in Readable(file) /\ file[from].at <= start)
  BY StartingLineIs
<1>7. n \in All /\ file[n].at < end
  BY <1>1, <1>5
<1>8. ASSUME NEW k \in Readable(file), k >= from, file[k].at >= start, file[k].at < end
      PROVE  k \in Part
  <2>1. \A j \in onward : j <= k => file[j].at < end
    BY <1>3, <1>4, <1>8
  <2>2. QED
    BY <1>8, <2>1
<1> HIDE DEF from, end
<1>9. ASSUME n \in Part, Last(Part, n) PROVE Last(All, n)
  <2>1. SUFFICES ASSUME NEW k \in All, k > n, SecondOf(k, start) = SecondOf(n, start) PROVE FALSE
    OBVIOUS
  <2>2. file[k].at >= start /\ file[k].at < end
    BY <1>5, <1>7, <2>1
  <2>3. from \in Nat /\ k >= from
    BY <1>4, <1>6, <1>9, <2>1
  <2>4. k \in Part
    BY <1>8, <2>2, <2>3
  <2>5. QED
    BY <1>9, <2>1, <2>4
<1>10. ASSUME Last(All, n) PROVE n \in Part /\ Last(Part, n)
  <2>1. n >= from
    <3>1. SUFFICES ASSUME ~(n >= from) PROVE FALSE
      OBVIOUS
    <3>2. from \in Readable(file) /\ n < from /\ file[from].at <= start
      BY <1>4, <1>6, <3>1
    <3>3. file[n].at = file[from].at /\ from \in All
      BY <1>4, <1>7, <3>2
    <3>4. SecondOf(n, start) = SecondOf(from, start)
      BY <3>3 DEF SecondOf
    <3>5. QED
      BY <1>4, <1>10, <3>2, <3>3, <3>4
  <2>2. n \in Part
    BY <1>7, <1>8, <2>1
  <2>3. QED
    BY <1>10, <2>2
<1>11. QED
  BY <1>2, <1>7, <1>9, <1>10

LEMMA WithinIs ==
  \A lines, start, bucket :
    Within(lines, start, bucket)
      = Total(file, {n \in lines : SecondOf(n, start) \in bucket.from..(bucket.to - 1)})
BY Zenon DEF Within, Total

\* The search from an indexed line misses nothing that a scan finds.
LEMMA SliceIsScan ==
  ASSUME FileInv, IndexInv, NEW start \in Nat, NEW duration \in Durations,
         NEW bucket, bucket.from \in Nat, bucket.to \in 0..duration
  PROVE  Within(Filled(start, duration), start, bucket) = Within(Found(start), start, bucket)
<1> DEFINE In(lines) == {n \in lines : SecondOf(n, start) \in bucket.from..(bucket.to - 1)}
<1>1. duration \in Nat
  BY RangeAssumption DEF RangeAssumption
<1>2. Filled(start, duration) \subseteq Readable(file) /\ Found(start) \subseteq Readable(file)
  BY DEF Filled, Found, LastOfSecond
<1>3. bucket.from..(bucket.to - 1) \subseteq 0..(duration - 1)
  BY <1>1
<1>4. In(Filled(start, duration)) = In(Found(start))
  BY <1>2, <1>3, FilledIsFound
<1>5. QED
  BY <1>4, WithinIs
-----------------------------------------------------------------------------
(* The steps of a call.                                                    *)

LEMMA RangeInvInit ==
  ASSUME RangeInit
  PROVE  RangeInv
<1>1. FileInv
  <2>1. /\ file \in Files /\ file \in Seq(Lines) /\ Len(file) \in Nat
        /\ MaxReadFaults \in Nat
    BY RangeAssumption, FileFacts DEF RangeInit, RangeAssumption
  <2>2. index \in Seq([at : Nat, line : Nat])
    BY DEF RangeInit
  <2>3. query \in [Readers -> [start : Starts \cup {NoTime}, duration : Durations \cup {0}]]
    BY DEF RangeInit, NoQuery
  <2>4. stage \in [Readers -> {"idle", "lock", "index", "slice"}] /\ answer.status = "unavailable"
    BY DEF RangeInit, Unavailable
  <2>5. ready \in BOOLEAN /\ first = NoTime /\ final = NoTime /\ lock \in Readers \cup {"free"}
    BY DEF RangeInit
  <2>6. line \in 0..Len(file) /\ readFaults \in 0..MaxReadFaults
    BY <2>1 DEF RangeInit
  <2>7. QED
    BY <2>1, <2>2, <2>3, <2>4, <2>5, <2>6 DEF FileInv, RangeTypeOK
<1>2. IndexInv /\ CallInv /\ Answers = {}
  BY DEF RangeInit, IndexInv, CallInv, Answers, Unavailable
<1>3. QED
  BY <1>1, <1>2 DEF RangeInv

\* The file stays, and so does what an answer shows of it.
LEMMA ShownKept ==
  ASSUME UNCHANGED file, NEW a, Shown(a)
  PROVE  Shown(a)'
<1>1. \A start : Found(start)' = Found(start)
  BY DEF Found, LastOfSecond, SecondOf, Readable
<1>2. \A n, start : SecondOf(n, start)' = SecondOf(n, start)
  BY DEF SecondOf
<1>3. (\A lines, start, bucket :
         Within(lines, start, bucket)
           = Total(file, {n \in lines : SecondOf(n, start) \in bucket.from..(bucket.to - 1)}))'
  BY WithinIs, PTL
<1>4. \A lines, start, bucket : Within(lines, start, bucket)' = Within(lines, start, bucket)
  BY <1>2, <1>3, WithinIs
<1>5. \A lines, start, buckets : Series(lines, start, buckets)' = Series(lines, start, buckets)
  BY <1>4 DEF Series
<1>6. QED
  BY <1>1, <1>5 DEF Shown

LEMMA ShownStays ==
  ASSUME \A a \in Answers : Shown(a), UNCHANGED <<file, answer>>
  PROVE  \A a \in Answers' : Shown(a)'
<1>1. Answers' = Answers
  BY DEF Answers
<1>2. QED
  BY <1>1, ShownKept

\* Every step but a slice leaves the answer.
LEMMA CallStep ==
  ASSUME RangeInv, NEW r \in Readers, Call(r)
  PROVE  RangeInv'
<1>1. FileInv'
  <2>1. PICK start \in Starts, duration \in Durations :
          query' = [query EXCEPT ![r] = [start |-> start, duration |-> duration]]
    BY DEF Call
  <2>2. query' \in [Readers -> [start : Starts \cup {NoTime}, duration : Durations \cup {0}]]
    BY <2>1 DEF RangeInv, FileInv, RangeTypeOK
  <2>3. stage' \in [Readers -> {"idle", "lock", "index", "slice"}]
    BY DEF RangeInv, FileInv, RangeTypeOK, Call
  <2>4. QED
    BY <2>2, <2>3 DEF RangeInv, FileInv, RangeTypeOK, Call, indexVars
<1>2. IndexInv'
  BY DEF RangeInv, IndexInv, Readable, Call, indexVars
<1>3. CallInv'
  BY DEF RangeInv, FileInv, RangeTypeOK, CallInv, Call
<1>4. \A a \in Answers' : Shown(a)'
  BY ShownStays DEF RangeInv, Call
<1>5. QED
  BY <1>1, <1>2, <1>3, <1>4 DEF RangeInv

LEMMA LockIndexStep ==
  ASSUME RangeInv, NEW r \in Readers, LockIndex(r)
  PROVE  RangeInv'
<1>1. FileInv'
  <2>1. stage' \in [Readers -> {"idle", "lock", "index", "slice"}]
    BY DEF RangeInv, FileInv, RangeTypeOK, LockIndex
  <2>2. Len(file) \in Nat
    BY FileFacts DEF RangeInv, FileInv, RangeTypeOK
  <2>3. line' \in {0, line} /\ index' \in {<<>>, index}
    BY DEF LockIndex, indexVars
  <2>4. line' \in 0..Len(file)
    BY <2>2, <2>3 DEF RangeInv, FileInv, RangeTypeOK
  <2>5. index' \in Seq([at : Nat, line : Nat])
    <3>1. <<>> \in Seq([at : Nat, line : Nat])
      OBVIOUS
    <3>2. index \in Seq([at : Nat, line : Nat])
      BY DEF RangeInv, FileInv, RangeTypeOK
    <3>3. QED
      BY <2>3, <3>1, <3>2, Zenon
  <2>6. QED
    BY <2>1, <2>4, <2>5 DEF RangeInv, FileInv, RangeTypeOK, LockIndex, indexVars
<1>2. IndexInv'
  BY DEF RangeInv, IndexInv, Readable, LockIndex, indexVars
<1>3. CallInv'
  BY DEF RangeInv, FileInv, RangeTypeOK, CallInv, LockIndex
<1>4. \A a \in Answers' : Shown(a)'
  BY ShownStays DEF RangeInv, LockIndex
<1>5. QED
  BY <1>1, <1>2, <1>3, <1>4 DEF RangeInv

\* The index stays right with every line that is read.
LEMMA IndexLineStep ==
  ASSUME RangeInv, NEW r \in Readers, IndexLine(r)
  PROVE  RangeInv'
<1> DEFINE at == file[line + 1].at
<1>1. /\ line \in 0..Len(file) /\ line < Len(file) /\ Len(file) \in Nat
      /\ file \in Seq(Lines) /\ index \in Seq([at : Nat, line : Nat])
  BY FileFacts DEF RangeInv, FileInv, RangeTypeOK, IndexLine
<1>2. line + 1 \in 1..Len(file) /\ line + 1 \in Nat /\ at \in Nat
  <2>1. line + 1 \in 1..Len(file) /\ line + 1 \in Nat
    BY <1>1
  <2>2. file[line + 1] \in Lines
    BY <1>1, <2>1
  <2>3. QED
    BY <2>1, <2>2, LineIs
<1>3. UNCHANGED <<file, ready, lock, stage, query, answer, readFaults>> /\ line' = line + 1
  BY DEF IndexLine
<1>4. CASE ~file[line + 1].shown
  <2>1. UNCHANGED <<first, final, index>>
    BY <1>4 DEF IndexLine
  <2>2. FileInv' /\ IndexInv'
    BY <1>1, <1>3, <2>1 DEF RangeInv, FileInv, RangeTypeOK, IndexInv, Readable
  <2>3. QED
    BY <1>3, <2>2, ShownStays DEF RangeInv, CallInv
<1>5. CASE file[line + 1].shown
  <2>1. /\ first' = IF first = NoTime THEN at ELSE first
        /\ final' = at
        /\ index' = IF line % Stride = 0
                    THEN Append(index, [at |-> at, line |-> line + 1]) ELSE index
    BY <1>5 DEF IndexLine
  <2>2. line + 1 \in Readable(file)
    BY <1>1, <1>2, <1>5 DEF Readable
  <2> DEFINE entry == [at |-> at, line |-> line + 1]
  <2>3. /\ entry \in [at : Nat, line : Nat]
        /\ entry.at = file[entry.line].at /\ entry.line \in Readable(file)
    BY <1>2, <2>2
  <2>4. index' = index \/ index' = Append(index, entry)
    BY <2>1
  <2> HIDE DEF entry
  <2> DEFINE Entries == [at : Nat, line : Nat]
  <2>5. index \in Seq(Entries) /\ entry \in Entries
    BY <1>1, <2>3
  <2> HIDE DEF Entries
  <2>6. /\ index' \in Seq(Entries)
        /\ \A i \in DOMAIN index' :
             (i \in DOMAIN index /\ index'[i] = index[i]) \/ index'[i] = entry
    BY <2>4, <2>5
  <2>7. index' \in Seq([at : Nat, line : Nat])
    BY <2>6 DEF Entries
  <2>8. first' \in Nat /\ final' \in Nat
    BY <1>2, <2>1 DEF RangeInv, FileInv, RangeTypeOK
  <2>9. FileInv'
    BY <1>1, <1>3, <2>7, <2>8 DEF RangeInv, FileInv, RangeTypeOK
  <2>10. IndexInv'
    BY <1>3, <2>3, <2>6, <2>8 DEF RangeInv, IndexInv, Readable, NoTime
  <2>11. QED
    BY <1>3, <2>9, <2>10, ShownStays DEF RangeInv, CallInv
<1>6. QED
  BY <1>4, <1>5

LEMMA IndexReadyStep ==
  ASSUME RangeInv, NEW r \in Readers, IndexReady(r)
  PROVE  RangeInv'
<1>1. FileInv'
  <2>1. stage' \in [Readers -> {"idle", "lock", "index", "slice"}]
    BY DEF RangeInv, FileInv, RangeTypeOK, IndexReady
  <2>2. QED
    BY <2>1 DEF RangeInv, FileInv, RangeTypeOK, IndexReady
<1>2. IndexInv'
  BY DEF RangeInv, IndexInv, Readable, IndexReady
<1>3. CallInv'
  BY DEF RangeInv, FileInv, RangeTypeOK, CallInv, IndexReady
<1>4. \A a \in Answers' : Shown(a)'
  BY ShownStays DEF RangeInv, IndexReady
<1>5. QED
  BY <1>1, <1>2, <1>3, <1>4 DEF RangeInv

LEMMA Ends ==
  ASSUME FileInv, CallInv, NEW r \in Readers, stage' = [stage EXCEPT ![r] = "idle"],
         query' = [query EXCEPT ![r] = NoQuery]
  PROVE  /\ stage' \in [Readers -> {"idle", "lock", "index", "slice"}]
         /\ query' \in [Readers -> [start : Starts \cup {NoTime}, duration : Durations \cup {0}]]
         /\ CallInv'
<1>1. stage' \in [Readers -> {"idle", "lock", "index", "slice"}]
  BY DEF FileInv, RangeTypeOK
<1>2. NoQuery \in [start : Starts \cup {NoTime}, duration : Durations \cup {0}]
  BY DEF NoQuery
<1>3. query' \in [Readers -> [start : Starts \cup {NoTime}, duration : Durations \cup {0}]]
  BY <1>2 DEF FileInv, RangeTypeOK
<1>4. CallInv'
  BY DEF FileInv, RangeTypeOK, CallInv
<1>5. QED
  BY <1>1, <1>3, <1>4

LEMMA ReadFailsStep ==
  ASSUME RangeInv, NEW r \in Readers, ReadFails(r)
  PROVE  RangeInv'
<1>1. /\ stage' \in [Readers -> {"idle", "lock", "index", "slice"}]
      /\ query' \in [Readers -> [start : Starts \cup {NoTime}, duration : Durations \cup {0}]]
      /\ CallInv'
  BY Ends DEF RangeInv, ReadFails
<1>2. readFaults' \in 0..MaxReadFaults
  BY RangeAssumption DEF RangeAssumption, RangeInv, FileInv, RangeTypeOK, ReadFails
<1>3. FileInv'
  BY <1>1, <1>2 DEF RangeInv, FileInv, RangeTypeOK, ReadFails, indexVars
<1>4. IndexInv'
  BY DEF RangeInv, IndexInv, Readable, ReadFails, indexVars
<1>5. \A a \in Answers' : Shown(a)'
  BY ShownStays DEF RangeInv, ReadFails
<1>6. QED
  BY <1>1, <1>3, <1>4, <1>5 DEF RangeInv

LEMMA ClampedIs ==
  ASSUME FileInv, IndexInv, first # NoTime, NEW start \in Starts \cup {NoTime}
  PROVE  Clamped(start) \in Nat
BY RangeAssumption DEF RangeAssumption, FileInv, RangeTypeOK, IndexInv, Clamped

\* A new chart is what a scan of the file finds.
LEMMA SliceStep ==
  ASSUME RangeInv, NEW r \in Readers, Slice(r)
  PROVE  RangeInv'
<1> DEFINE start == Clamped(query[r].start)
           duration == query[r].duration
           Averaged(points) == Series(points, start, Buckets[duration])
           new == [status |-> "available", start |-> start, duration |-> duration,
                   series |-> Averaged(Filled(start, duration))]
<1>1. answer' = IF first = NoTime THEN Unavailable ELSE new
  BY Zenon DEF Slice
<1>2. UNCHANGED <<file, indexVars, lock, readFaults>>
  BY DEF Slice
<1>3. /\ stage' \in [Readers -> {"idle", "lock", "index", "slice"}]
      /\ query' \in [Readers -> [start : Starts \cup {NoTime}, duration : Durations \cup {0}]]
      /\ CallInv'
  BY Ends DEF RangeInv, Slice
<1>4. answer'.status \in {"available", "unavailable"}
  BY <1>1 DEF Unavailable
<1>5. FileInv'
  BY <1>2, <1>3, <1>4 DEF RangeInv, FileInv, RangeTypeOK, indexVars
<1>6. IndexInv'
  BY <1>2 DEF RangeInv, IndexInv, Readable, indexVars
<1>7. ASSUME NEW a \in Answers' PROVE Shown(a)'
  <2>1. a = new /\ first # NoTime
    BY <1>1, <1>7 DEF Answers, Unavailable
  <2>2. query[r].start \in Starts \cup {NoTime} /\ duration \in Durations
    BY DEF RangeInv, FileInv, RangeTypeOK, CallInv, Slice
  <2>3. start \in Nat
    BY <2>1, <2>2, ClampedIs DEF RangeInv
  <2>4. a.start = start /\ a.duration = duration /\ a.series = Averaged(Filled(start, duration))
    BY <2>1
  <2> HIDE DEF start, duration
  <2>5. SharesOut(Buckets[duration], Min({duration, MaxPoints}), duration)
    BY <2>2, BucketsShareOut
  <2>6. \A i \in DOMAIN Buckets[duration] :
          Buckets[duration][i].from \in Nat /\ Buckets[duration][i].to \in 0..duration
    BY <2>5 DEF SharesOut
  <2>7. \A i \in DOMAIN Buckets[duration] :
          Within(Filled(start, duration), start, Buckets[duration][i])
            = Within(Found(start), start, Buckets[duration][i])
    BY <2>2, <2>3, <2>6, SliceIsScan DEF RangeInv
  <2>8. Averaged(Filled(start, duration)) = Averaged(Found(start))
    BY <2>7 DEF Series
  <2>9. Shown(a)
    BY <2>2, <2>3, <2>4, <2>8 DEF Shown
  <2>10. QED
    BY <1>2, <2>9, ShownKept
<1>8. QED
  BY <1>3, <1>5, <1>6, <1>7 DEF RangeInv

LEMMA RangeInvNext ==
  ASSUME RangeInv, [RangeNext]_rangeVars
  PROVE  RangeInv'
<1>1. ASSUME NEW r \in Readers, Call(r) \/ Serve(r) \/ ReadFails(r)
      PROVE  RangeInv'
  BY <1>1, CallStep, LockIndexStep, IndexLineStep, IndexReadyStep, SliceStep, ReadFailsStep
     DEF Serve
<1>2. CASE UNCHANGED rangeVars
  <2>1. FileInv' /\ IndexInv' /\ CallInv'
    BY <1>2 DEF RangeInv, FileInv, RangeTypeOK, IndexInv, CallInv, Readable, rangeVars, indexVars
  <2>2. \A a \in Answers' : Shown(a)'
    BY <1>2, ShownStays DEF RangeInv, rangeVars
  <2>3. QED
    BY <2>1, <2>2 DEF RangeInv
<1>3. QED
  BY <1>1, <1>2 DEF RangeNext

LEMMA RangeInvCorrect == RangeSpec => []RangeInv
BY RangeInvInit, RangeInvNext, PTL DEF RangeSpec

\* The property, from the buckets that share out the seconds.
LEMMA SeriesFollows ==
  ASSUME RangeInv
  PROVE  SeriesIsTheFile
<1>1. SUFFICES ASSUME NEW a \in Answers
               PROVE  LET from == {n \in Readable(file) : file[n].at >= a.start}
                          found == LastOfSecond(from, a.start)
                          buckets == Buckets[a.duration]
                          n == Len(a.series)
                      IN /\ n = Min({a.duration, MaxPoints})
                         /\ a.series = Series(found, a.start, buckets)
                         /\ buckets[1].from = 0 /\ buckets[n].to = a.duration
                         /\ \A i \in 1..n : buckets[i].from < buckets[i].to
                         /\ \A i \in 1..(n - 1) : buckets[i].to = buckets[i + 1].from
  BY DEF RangeInv, FileInv, SeriesIsTheFile
<1> DEFINE buckets == Buckets[a.duration]
           m == Min({a.duration, MaxPoints})
<1>2. Shown(a)
  BY DEF RangeInv
<1>3. SharesOut(buckets, m, a.duration)
  BY <1>2, BucketsShareOut DEF Shown
<1>4. a.series = Series(Found(a.start), a.start, buckets)
  BY <1>2 DEF Shown
<1> HIDE DEF buckets, m
<1>5. m \in Nat /\ DOMAIN buckets = 1..m
  BY <1>3 DEF SharesOut
<1>6. Len(a.series) = m
  BY <1>4, <1>5 DEF Series
<1>7. /\ buckets[1].from = 0 /\ buckets[m].to = a.duration
      /\ \A i \in 1..m : buckets[i].from < buckets[i].to
      /\ \A i \in 1..(m - 1) : buckets[i].to = buckets[i + 1].from
  BY <1>3 DEF SharesOut
<1>8. QED
  BY <1>4, <1>6, <1>7 DEF Found, buckets, m

\* A chart shows what a scan of the whole file finds, whichever call made the index and however
\* often that failed before, and averaging loses no second (ScriptRangeStore), for every file,
\* stride, range and number of points.
THEOREM SeriesAlwaysIsTheFile == RangeSpec => []SeriesIsTheFile
BY RangeInvCorrect, SeriesFollows, PTL
-----------------------------------------------------------------------------
(* The load that the generator makes of the same file.                     *)

LEMMA DivWhole ==
  ASSUME NEW b \in Nat \ {0}, NEW q \in Int
  PROVE  (b * q) \div b = q /\ (b * q + b - 1) \div b = q
<1>1. b * q \in Int /\ b * q = q * b /\ (q + 1) * b = b * q + b
  OBVIOUS
<1>2. PICK m \in Int, n \in Int : m = b * q /\ n = b * q + b - 1
  BY <1>1
<1>3. m \div b \in Int /\ n \div b \in Int
  BY DivIs
<1>4. /\ m \div b < q <=> m < q * b
      /\ m \div b < q + 1 <=> m < (q + 1) * b
      /\ n \div b < q <=> n < q * b
      /\ n \div b < q + 1 <=> n < (q + 1) * b
  BY DivBelow
<1>5. m \div b = q /\ n \div b = q
  BY <1>1, <1>2, <1>3, <1>4
<1>6. QED
  BY <1>2, <1>5

Begun == [Rejected EXCEPT !.ok = TRUE]

\* g is what the generator has after each line.
Loads(g, lines) ==
  /\ DOMAIN g = 0..Len(lines) /\ g[0] = Begun
  /\ \A n \in 1..Len(lines) : g[n] = WithLine(g[n - 1], lines[n])

\* The function by which Timeline takes a line after the other.
LEMMA LoadsExist ==
  ASSUME NEW lines, Len(lines) \in Nat
  PROVE  \E g : Loads(g, lines)
<1> DEFINE Upto(m, g) == /\ DOMAIN g = 0..m /\ g[0] = Begun
                         /\ \A i \in 1..m : g[i] = WithLine(g[i - 1], lines[i])
           T == {m \in 0..Len(lines) : ~\E g : Upto(m, g)}
<1>1. SUFFICES ASSUME T # {} PROVE FALSE
  BY DEF Loads
<1>2. PICK m \in T : \A k \in T : m <= k
  <2>1. T \subseteq Nat
    OBVIOUS
  <2> HIDE DEF T
  <2>2. QED
    BY <1>1, <2>1, LeastExists
<1>3. m \in 0..Len(lines) /\ ~\E g : Upto(m, g)
  BY <1>2
<1>4. m # 0
  <2>1. Upto(0, [i \in 0..0 |-> Begun])
    OBVIOUS
  <2> HIDE DEF Upto
  <2>2. QED
    BY <1>3, <2>1
<1>5. PICK g : Upto(m - 1, g)
  <2>1. m - 1 \in 0..Len(lines) /\ ~(m <= m - 1)
    BY <1>3, <1>4
  <2>2. m - 1 \notin T
    <3> HIDE DEF T
    <3>1. QED
      BY <1>2, <2>1
  <2>3. QED
    BY <2>1, <2>2
<1> DEFINE more == [i \in 0..m |-> IF i = m THEN WithLine(g[m - 1], lines[m]) ELSE g[i]]
<1>6. Upto(m, more)
  <2>1. \A i \in 1..m : i \in 0..m /\ i - 1 \in 0..m /\ i - 1 # m /\ (i # m => i \in 1..(m - 1))
    BY <1>3
  <2>2. \A i \in 0..m : more[i] = IF i = m THEN WithLine(g[m - 1], lines[m]) ELSE g[i]
    OBVIOUS
  <2>3. more[0] = Begun
    BY <1>3, <1>4, <1>5, <2>2
  <2>4. DOMAIN more = 0..m
    OBVIOUS
  <2> HIDE DEF more
  <2>5. ASSUME NEW i \in 1..m PROVE more[i] = WithLine(more[i - 1], lines[i])
    BY <1>5, <2>1, <2>2
  <2>6. QED
    BY <2>3, <2>4, <2>5
<1>7. QED
  BY <1>3, <1>6

LEMMA TimelineIs ==
  ASSUME NEW lines, Len(lines) \in Nat, lines # <<>>, NEW g, Loads(g, lines)
  PROVE  Timeline(lines) = g[Len(lines)]
<1> DEFINE n == Len(lines)
           Def(s) == s = [i \in 0..n |-> IF i = 0 THEN Begun ELSE WithLine(s[i - 1], lines[i])]
           loaded == CHOOSE s : Def(s)
<1>1. Timeline(lines) = loaded[n]
  BY Zenon DEF Timeline, Begun
<1>2. Def(g)
  <2>1. g = [i \in 0..n |-> g[i]]
    BY DEF Loads
  <2>2. \A i \in 0..n : g[i] = IF i = 0 THEN Begun ELSE WithLine(g[i - 1], lines[i])
    BY DEF Loads
  <2>3. QED
    BY <2>1, <2>2
<1>3. Def(loaded)
  BY <1>2, Zenon
<1> HIDE DEF loaded
<1>4. /\ loaded[0] = Begun
      /\ \A i \in 1..n : loaded[i] = WithLine(loaded[i - 1], lines[i])
  <2> DEFINE Value(i) == IF i = 0 THEN Begun ELSE WithLine(loaded[i - 1], lines[i])
  <2>1. loaded = [i \in 0..n |-> Value(i)]
    BY <1>3
  <2> HIDE DEF Value
  <2>2. \A i \in 0..n : loaded[i] = Value(i)
    BY <2>1, Zenon
  <2>3. 0 \in 0..n /\ \A i \in 1..n : i \in 0..n /\ i # 0
    OBVIOUS
  <2>4. QED
    BY <2>2, <2>3 DEF Value
<1> HIDE DEF Def
<1> DEFINE T == {m \in 0..n : loaded[m] # g[m]}
<1>5. SUFFICES ASSUME T # {} PROVE FALSE
  BY <1>1
<1>6. PICK m \in T : \A k \in T : m <= k
  <2>1. T \subseteq Nat
    OBVIOUS
  <2> HIDE DEF T
  <2>2. QED
    BY <1>5, <2>1, LeastExists
<1>7. m \in 0..n /\ loaded[m] # g[m]
  BY <1>6
<1>8. m # 0
  BY <1>4, <1>7 DEF Loads
<1>9. m \in 1..n /\ m - 1 \in 0..n /\ ~(m <= m - 1)
  BY <1>7, <1>8
<1>10. loaded[m - 1] = g[m - 1]
  BY <1>6, <1>9
<1>11. loaded[m] = WithLine(loaded[m - 1], lines[m]) /\ g[m] = WithLine(g[m - 1], lines[m])
  BY <1>4, <1>9 DEF Loads
<1>12. QED
  BY <1>7, <1>10, <1>11

\* The points behind the old ones: the missing seconds, then the line's own.
LEMMA Extended ==
  ASSUME NEW R, NEW p \in Seq(R), NEW m \in Nat, NEW more \in [1..m -> R], NEW x \in R,
         NEW all, all = p \o more \o <<x>>
  PROVE  /\ all \in Seq(R) /\ Len(all) = Len(p) + m + 1
         /\ \A s \in 1..Len(p) : all[s] = p[s]
         /\ \A s \in (Len(p) + 1)..(Len(p) + m) : all[s] = more[s - Len(p)]
         /\ all[Len(p) + m + 1] = x
<1>1. more \in Seq(R) /\ Len(more) = m /\ Len(p) \in Nat
  OBVIOUS
<1>2. PICK r \in Seq(R) : r = p \o more
  BY <1>1, ConcatProperties
<1>3. /\ Len(r) = Len(p) + m
      /\ \A s \in 1..Len(p) : r[s] = p[s]
      /\ \A s \in (Len(p) + 1)..(Len(p) + m) : r[s] = more[s - Len(p)]
  BY <1>1, <1>2
<1>4. /\ r \o <<x>> \in Seq(R) /\ Len(r \o <<x>>) = Len(r) + 1
      /\ \A s \in 1..Len(r) : (r \o <<x>>)[s] = r[s]
      /\ (r \o <<x>>)[Len(r) + 1] = x
  OBVIOUS
<1>5. /\ \A s \in 1..Len(p) : s \in 1..Len(r)
      /\ \A s \in (Len(p) + 1)..(Len(p) + m) : s \in 1..Len(r)
  BY <1>1, <1>3
<1>6. all = r \o <<x>>
  BY <1>2
<1>7. QED
  BY <1>1, <1>3, <1>4, <1>5, <1>6

\* The point of a line, among those of the seconds since the first line.
PointOf(lines, i) == lines[i].at \div TicksPerSecond - lines[1].at \div TicksPerSecond + 1

\* After n lines each line has its point, and the other points have no requests.
Carries(points, lines, n) ==
  /\ points \in Seq([at : Int, requests : Nat]) /\ Len(points) = PointOf(lines, n)
  /\ \A i \in 1..n : /\ PointOf(lines, i) \in 1..Len(points)
                     /\ points[PointOf(lines, i)].requests = lines[i].sent
  /\ \A s \in 1..Len(points) : points[s].requests # 0 => \E i \in 1..n : PointOf(lines, i) = s

Grown(points, current, missing, at, requests) ==
  [ok |-> TRUE,
   points |-> points \o [i \in 1..missing |-> Point(current + (i - 1) * TicksPerSecond, 0)]
                \o <<Point(at, requests)>>,
   current |-> at + TicksPerSecond, last |-> at]

\* What an accepted line adds.
LEMMA Accepted ==
  ASSUME NEW loaded, NEW record, WithLine(loaded, record).ok,
         NEW at, at = record.at,
         NEW current, current = IF loaded.current = NoTime THEN at ELSE loaded.current,
         NEW missing, missing = IF current < at
                                THEN (at - current + TicksPerSecond - 1) \div TicksPerSecond ELSE 0
  PROVE  /\ loaded.ok /\ ~(loaded.last # NoTime /\ at <= loaded.last)
         /\ WithLine(loaded, record) = Grown(loaded.points, current, missing, at, record.sent)
BY DEF WithLine, Rejected, Grown

\* A file with whole seconds that the generator accepts.
WholeSeconds(lines) ==
  /\ lines \in Seq(Lines) /\ lines # <<>>
  /\ \A n \in DOMAIN lines : lines[n].at % TicksPerSecond = 0

LineLoaded(g, lines, n) ==
  /\ n > 1 => lines[n - 1].at < lines[n].at
  /\ g[n].ok /\ g[n].last = lines[n].at /\ g[n].current = lines[n].at + TicksPerSecond
  /\ Carries(g[n].points, lines, n)

LEMMA LineFacts ==
  ASSUME NEW lines, WholeSeconds(lines)
  PROVE  /\ Len(lines) \in Nat /\ DOMAIN lines = 1..Len(lines) /\ 1 \in 1..Len(lines)
         /\ \A n \in 1..Len(lines) : /\ lines[n].at \in Nat /\ lines[n].sent \in Nat
                                     /\ lines[n].at % TicksPerSecond = 0
<1>1. /\ Len(lines) \in Nat /\ DOMAIN lines = 1..Len(lines) /\ 1 \in 1..Len(lines)
      /\ \A n \in 1..Len(lines) : lines[n] \in Lines /\ lines[n].at % TicksPerSecond = 0
  BY DEF WholeSeconds
<1>2. QED
  BY <1>1, LineIs

LEMMA WholeSecond ==
  ASSUME NEW a \in Nat, a % TicksPerSecond = 0
  PROVE  /\ a \div TicksPerSecond \in Nat
         /\ a = TicksPerSecond * (a \div TicksPerSecond)
<1>1. TicksPerSecond \in Nat \ {0}
  BY SecondAssumption DEF SecondAssumption
<1>2. /\ a \div TicksPerSecond \in Int
      /\ a = TicksPerSecond * (a \div TicksPerSecond) + (a % TicksPerSecond)
  BY <1>1, DivIs
<1>3. ~(a \div TicksPerSecond < 0)
  BY <1>1, DivBelow
<1>4. PICK q \in Int : q = a \div TicksPerSecond
  BY <1>2
<1>5. TicksPerSecond * q \in Int
  BY <1>1
<1>6. QED
  BY <1>2, <1>3, <1>4, <1>5

\* The first line is the first point, and each accepted line adds its own.
LEMMA FirstLoaded ==
  ASSUME NEW lines, WholeSeconds(lines), NEW g, Loads(g, lines), g[1].ok
  PROVE  LineLoaded(g, lines, 1)
<1> DEFINE at == lines[1].at
           x == Point(at, lines[1].sent)
           R == [at : Int, requests : Nat]
           none == [i \in 1..0 |-> Point(at + (i - 1) * TicksPerSecond, 0)]
<1>1. Len(lines) \in Nat /\ 1 \in 1..Len(lines) /\ at \in Nat /\ lines[1].sent \in Nat
  BY LineFacts
<1>2. g[1] = WithLine(Begun, lines[1])
  <2>1. 1 - 1 = 0
    OBVIOUS
  <2>2. QED
    BY <1>1, <2>1 DEF Loads
<1>3. Begun.current = NoTime /\ Begun.points = <<>> /\ ~(at < at)
  BY <1>1 DEF Begun, Rejected
<1>4. g[1] = [ok |-> TRUE, points |-> <<>> \o none \o <<x>>,
              current |-> at + TicksPerSecond, last |-> at]
  <2>1. at = IF Begun.current = NoTime THEN at ELSE Begun.current
    BY <1>3
  <2>2. 0 = IF at < at THEN (at - at + TicksPerSecond - 1) \div TicksPerSecond ELSE 0
    BY <1>3
  <2>3. WithLine(Begun, lines[1]).ok
    BY <1>2
  <2>4. PICK a : a = lines[1].at
    OBVIOUS
  <2>5. WithLine(Begun, lines[1]) = Grown(Begun.points, a, 0, a, lines[1].sent)
    BY <2>1, <2>2, <2>3, <2>4, Accepted
  <2> HIDE DEF none
  <2>6. QED
    BY <1>2, <1>3, <2>4, <2>5 DEF none, Grown
<1>5. none = <<>> /\ <<>> \o none \o <<x>> = <<x>>
  OBVIOUS
<1>6. x \in R /\ x.requests = lines[1].sent
  BY <1>1 DEF Point
<1>7. <<x>> \in Seq(R) /\ Len(<<x>>) = 1 /\ <<x>>[1] = x
  BY <1>6
<1>8. PointOf(lines, 1) = 1
  <2>1. lines[1].at \div TicksPerSecond \in Int
    BY <1>1, SecondAssumption, DivIs DEF SecondAssumption
  <2>2. QED
    BY <2>1 DEF PointOf
<1>9. Carries(<<x>>, lines, 1)
  <2> HIDE DEF x
  <2>1. \A i \in 1..1 : i = 1
    OBVIOUS
  <2>2. QED
    BY <1>6, <1>7, <1>8, <2>1 DEF Carries
<1>10. QED
  BY <1>4, <1>5, <1>9 DEF LineLoaded

\* A line adds the seconds that are missing up to it.
LEMMA MissingSeconds ==
  ASSUME NEW x \in Nat, NEW y \in Nat, NEW b \in Nat \ {0}, b * x < b * y
  PROVE  /\ x < y
         /\ y - x - 1 = IF b * x + b < b * y THEN (b * y - (b * x + b) + b - 1) \div b ELSE 0
<1>1. x < y
  <2>1. y <= x => b * y <= b * x
    BY Grows
  <2>2. b * x \in Int /\ b * y \in Int
    OBVIOUS
  <2>3. QED
    BY <2>1, <2>2
<1>2. CASE b * x + b < b * y
  <2>1. b * (y - x - 1) + b - 1 = b * y - (b * x + b) + b - 1
    OBVIOUS
  <2>2. (b * (y - x - 1) + b - 1) \div b = y - x - 1
    BY DivWhole
  <2>3. QED
    BY <1>1, <1>2, <2>1, <2>2
<1>3. CASE ~(b * x + b < b * y)
  <2>1. y >= x + 2 => b * (x + 2) <= b * y
    BY Grows
  <2>2. b * (x + 2) = b * x + b + b /\ b * x \in Int /\ b * y \in Int
    OBVIOUS
  <2>3. y = x + 1
    BY <1>1, <1>3, <2>1, <2>2
  <2>4. QED
    BY <1>1, <1>3, <2>3
<1>4. QED
  BY <1>2, <1>3

\* The seconds filled in send nothing, the line's second sends its requests.
LEMMA CarriesMore ==
  ASSUME NEW lines, NEW n \in Nat \ {0}, NEW points, Carries(points, lines, n),
         NEW m \in Nat, PointOf(lines, n + 1) = PointOf(lines, n) + m + 1,
         NEW current \in Int, NEW at \in Int, NEW sent \in Nat, sent = lines[n + 1].sent
  PROVE  Carries(Grown(points, current, m, at, sent).points, lines, n + 1)
<1> DEFINE R == [at : Int, requests : Nat]
           more == [i \in 1..m |-> Point(current + (i - 1) * TicksPerSecond, 0)]
           x == Point(at, sent)
           len == Len(points)
           all == points \o more \o <<x>>
<1>1. points \in Seq(R) /\ len \in Nat /\ len = PointOf(lines, n)
  BY DEF Carries
<1>2. more \in [1..m -> R] /\ x \in R /\ x.requests = sent
  BY SecondAssumption DEF Point, SecondAssumption
<1>3. \A i \in 1..m : more[i].requests = 0
  BY DEF Point
<1>4. Grown(points, current, m, at, sent).points = all
  BY DEF Grown
<1>5. \A i \in 1..n : /\ PointOf(lines, i) \in 1..len
                      /\ points[PointOf(lines, i)].requests = lines[i].sent
  BY DEF Carries
<1>6. \A s \in 1..len : points[s].requests # 0 => \E i \in 1..n : PointOf(lines, i) = s
  BY DEF Carries
<1> HIDE DEF R, more, x
<1>7. /\ all \in Seq(R) /\ Len(all) = len + m + 1
      /\ \A s \in 1..len : all[s] = points[s]
      /\ \A s \in (len + 1)..(len + m) : all[s] = more[s - len]
      /\ all[len + m + 1] = x
  <2>1. all = points \o more \o <<x>>
    OBVIOUS
  <2> HIDE DEF all
  <2>2. /\ all \in Seq(R) /\ Len(all) = Len(points) + m + 1
        /\ \A s \in 1..Len(points) : all[s] = points[s]
        /\ \A s \in (Len(points) + 1)..(Len(points) + m) : all[s] = more[s - Len(points)]
        /\ all[Len(points) + m + 1] = x
    <3>1. PICK T : T = R
      OBVIOUS
    <3>2. PICK p \in Seq(T) : p = points
      BY <1>1, <3>1
    <3>3. PICK b \in [1..m -> T] : b = more
      BY <1>2, <3>1
    <3>4. PICK c \in T : c = x
      BY <1>2, <3>1
    <3>5. PICK a : a = p \o b \o <<c>> /\ a = all
      BY <2>1, <3>2, <3>3, <3>4
    <3>6. /\ a \in Seq(T) /\ Len(a) = Len(p) + m + 1
          /\ \A s \in 1..Len(p) : a[s] = p[s]
          /\ \A s \in (Len(p) + 1)..(Len(p) + m) : a[s] = b[s - Len(p)]
          /\ a[Len(p) + m + 1] = c
      BY ONLY <3>5, Extended
    <3>7. QED
      BY <3>1, <3>2, <3>3, <3>4, <3>5, <3>6
  <2>3. QED
    BY <2>2
<1> HIDE DEF all, len
<1>8. PointOf(lines, n + 1) = len + m + 1
  BY <1>1
<1>9. ASSUME NEW i \in 1..(n + 1)
      PROVE  /\ PointOf(lines, i) \in 1..Len(all)
             /\ all[PointOf(lines, i)].requests = lines[i].sent
  <2>1. CASE i = n + 1
    BY <1>1, <1>2, <1>7, <1>8, <2>1
  <2>2. CASE i # n + 1
    <3>1. i \in 1..n
      BY <2>2
    <3>2. PICK p \in 1..len : p = PointOf(lines, i) /\ points[p].requests = lines[i].sent
      BY <1>5, <3>1
    <3>3. all[p] = points[p] /\ p \in 1..Len(all)
      BY <1>1, <1>7
    <3>4. QED
      BY <3>2, <3>3
  <2>3. QED
    BY <2>1, <2>2
<1>10. ASSUME NEW s \in 1..Len(all), all[s].requests # 0
       PROVE  \E i \in 1..(n + 1) : PointOf(lines, i) = s
  <2>1. s \in 1..len \/ s \in (len + 1)..(len + m) \/ s = len + m + 1
    BY <1>1, <1>7
  <2>2. CASE s \in 1..len
    <3>1. \E i \in 1..n : PointOf(lines, i) = s
      BY <1>6, <1>7, <1>10, <2>2
    <3>2. QED
      BY <3>1
  <2>3. CASE s \in (len + 1)..(len + m)
    <3>1. s - len \in 1..m
      BY <1>1, <2>3
    <3>2. all[s].requests = 0
      BY <1>3, <1>7, <2>3, <3>1
    <3>3. QED
      BY <1>10, <3>2
  <2>4. CASE s = len + m + 1
    <3>1. n + 1 \in 1..(n + 1)
      OBVIOUS
    <3>2. QED
      BY <1>8, <2>4, <3>1
  <2>5. QED
    BY <2>1, <2>2, <2>3, <2>4
<1>11. QED
  BY <1>4, <1>7, <1>8, <1>9, <1>10 DEF Carries, R

LEMMA GrownIs ==
  ASSUME NEW points, NEW current, NEW m, NEW at, NEW n
  PROVE  /\ Grown(points, current, m, at, n).ok /\ Grown(points, current, m, at, n).last = at
         /\ Grown(points, current, m, at, n).current = at + TicksPerSecond
BY DEF Grown

LEMMA NextLoaded ==
  ASSUME NEW lines, WholeSeconds(lines), NEW g, Loads(g, lines),
         NEW n \in Nat \ {0}, n + 1 \in DOMAIN lines, LineLoaded(g, lines, n), g[n + 1].ok
  PROVE  LineLoaded(g, lines, n + 1)
<1> DEFINE before == lines[n].at
           at == lines[n + 1].at
           x == before \div TicksPerSecond
           y == at \div TicksPerSecond
           current == before + TicksPerSecond
           m == y - x - 1
<1>1. /\ Len(lines) \in Nat /\ n + 1 \in 1..Len(lines) /\ n \in 1..Len(lines)
      /\ at \in Nat /\ at % TicksPerSecond = 0 /\ lines[n + 1].sent \in Nat
      /\ before \in Nat /\ before % TicksPerSecond = 0
  <2>1. n + 1 \in 1..Len(lines) /\ n \in 1..Len(lines)
    BY LineFacts
  <2>2. QED
    BY <2>1, LineFacts
<1>2. /\ g[n].last = before /\ g[n].current = current
      /\ Carries(g[n].points, lines, n)
  BY DEF LineLoaded
<1>3. g[n + 1] = WithLine(g[n], lines[n + 1])
  <2>1. (n + 1) - 1 = n
    OBVIOUS
  <2>2. QED
    BY <1>1, <2>1 DEF Loads
<1>4. TicksPerSecond \in Nat \ {0} /\ current \in Nat /\ current # NoTime /\ before # NoTime
  BY <1>1, SecondAssumption DEF SecondAssumption, NoTime
<1>5. before < at
  <2>1. WithLine(g[n], lines[n + 1]).ok
    BY <1>3
  <2>2. ~(g[n].last # NoTime /\ at <= g[n].last)
    BY <2>1 DEF WithLine, Rejected
  <2>3. QED
    BY <1>1, <1>2, <1>4, <2>2
<1>6. /\ x \in Nat /\ y \in Nat /\ before = TicksPerSecond * x /\ at = TicksPerSecond * y
  BY <1>1, WholeSecond
<1> HIDE DEF at, before, x, y
<1>7. /\ x < y
      /\ m = IF current < at
             THEN (at - current + TicksPerSecond - 1) \div TicksPerSecond ELSE 0
  <2>1. TicksPerSecond * x < TicksPerSecond * y
    BY <1>5, <1>6
  <2>2. QED
    BY <1>4, <1>6, <2>1, MissingSeconds
<1>8. current = IF g[n].current = NoTime THEN at ELSE g[n].current
  BY <1>2, <1>4
<1> HIDE DEF current
<1>9. g[n + 1] = Grown(g[n].points, current, m, at, lines[n + 1].sent)
  <2>1. WithLine(g[n], lines[n + 1]).ok
    BY <1>3
  <2>2. PICK k : k = m
    OBVIOUS
  <2>3. k = IF current < at THEN (at - current + TicksPerSecond - 1) \div TicksPerSecond ELSE 0
    BY <1>7, <2>2
  <2>4. at = lines[n + 1].at
    BY DEF at
  <2>5. WithLine(g[n], lines[n + 1]) = Grown(g[n].points, current, k, at, lines[n + 1].sent)
    BY <1>8, <2>1, <2>3, <2>4, Accepted
  <2>6. QED
    BY <1>3, <2>2, <2>5
<1>10. m \in Nat /\ PointOf(lines, n + 1) = PointOf(lines, n) + m + 1
  <2>1. m \in Nat
    BY <1>6, <1>7
  <2>2. lines[1].at \div TicksPerSecond \in Int
    <3>1. lines[1].at \in Int
      BY LineFacts
    <3>2. QED
      BY <1>4, <3>1, DivIs
  <2>3. PointOf(lines, n + 1) = y - lines[1].at \div TicksPerSecond + 1
    BY DEF PointOf, y, at
  <2>4. PointOf(lines, n) = x - lines[1].at \div TicksPerSecond + 1
    BY DEF PointOf, x, before
  <2>5. QED
    BY <1>6, <2>1, <2>2, <2>3, <2>4
<1>11. Carries(g[n + 1].points, lines, n + 1)
  BY <1>1, <1>2, <1>4, <1>9, <1>10, CarriesMore
<1>12. g[n + 1].ok /\ g[n + 1].last = at /\ g[n + 1].current = at + TicksPerSecond
  BY <1>9, GrownIs
<1>13. (n + 1) - 1 = n
  OBVIOUS
<1>14. QED
  BY <1>5, <1>11, <1>12, <1>13 DEF LineLoaded, at, before

\* A file that is accepted at its end was accepted at every line.
LEMMA AcceptedBefore ==
  ASSUME NEW lines, Len(lines) \in Nat, NEW g, Loads(g, lines), g[Len(lines)].ok
  PROVE  \A n \in 0..Len(lines) : g[n].ok
<1> DEFINE T == {Len(lines) - n : n \in {i \in 0..Len(lines) : ~g[i].ok}}
<1>1. SUFFICES ASSUME T # {} PROVE FALSE
  OBVIOUS
<1>2. PICK m \in T : \A k \in T : m <= k
  <2>1. T \subseteq Nat
    OBVIOUS
  <2> HIDE DEF T
  <2>2. QED
    BY <1>1, <2>1, LeastExists
<1>3. PICK n \in 0..Len(lines) : ~g[n].ok /\ m = Len(lines) - n
  BY <1>2
<1>4. n + 1 \in 1..Len(lines) /\ (n + 1) - 1 = n
  BY <1>3
<1>5. ~g[n + 1].ok
  <2>1. g[n + 1] = WithLine(g[n], lines[n + 1])
    BY <1>4 DEF Loads
  <2>2. QED
    BY <1>3, <2>1 DEF WithLine, Rejected
<1>6. Len(lines) - (n + 1) \in T
  BY <1>4, <1>5
<1>7. ~(m <= Len(lines) - (n + 1))
  BY <1>3
<1> HIDE DEF T
<1>8. QED
  BY <1>2, <1>6, <1>7

\* So every line of an accepted file is carried.
LEMMA AllLoaded ==
  ASSUME NEW lines, WholeSeconds(lines), NEW g, Loads(g, lines), g[Len(lines)].ok
  PROVE  \A n \in 1..Len(lines) : LineLoaded(g, lines, n)
<1> DEFINE T == {n \in 1..Len(lines) : ~LineLoaded(g, lines, n)}
<1>1. Len(lines) \in Nat /\ DOMAIN lines = 1..Len(lines)
  BY DEF WholeSeconds
<1>2. \A n \in 1..Len(lines) : g[n].ok
  BY <1>1, AcceptedBefore
<1>3. SUFFICES ASSUME T # {} PROVE FALSE
  OBVIOUS
<1>4. PICK m \in T : \A k \in T : m <= k
  <2>1. T \subseteq Nat
    BY <1>1
  <2> HIDE DEF T
  <2>2. QED
    BY <1>3, <2>1, LeastExists
<1>5. m \in 1..Len(lines) /\ ~LineLoaded(g, lines, m)
  BY <1>4
<1>6. m # 1
  BY <1>2, <1>5, FirstLoaded
<1>7. m - 1 \in 1..Len(lines) /\ m - 1 \in Nat \ {0} /\ (m - 1) + 1 = m /\ ~(m <= m - 1)
  BY <1>1, <1>5, <1>6
<1>8. LineLoaded(g, lines, m - 1)
  BY <1>4, <1>7
<1>9. PICK n \in Nat \ {0} : n = m - 1
  BY <1>7
<1>10. LineLoaded(g, lines, n) /\ n + 1 = m
  BY <1>7, <1>8, <1>9
<1>11. n + 1 \in DOMAIN lines /\ g[n + 1].ok
  BY <1>1, <1>2, <1>5, <1>10
<1>12. LineLoaded(g, lines, n + 1)
  BY <1>10, <1>11, NextLoaded
<1>13. QED
  BY <1>5, <1>10, <1>12

\* What the generator makes of a file with whole seconds that it accepts.
LEMMA TimelineCarries ==
  ASSUME NEW lines, WholeSeconds(lines), Timeline(lines).ok
  PROVE  /\ \A i, j \in 1..Len(lines) : i < j => lines[i].at < lines[j].at
         /\ Carries(Timeline(lines).points, lines, Len(lines))
<1>1. Len(lines) \in Nat /\ lines # <<>> /\ Len(lines) \in 1..Len(lines)
  BY DEF WholeSeconds
<1>2. PICK g : Loads(g, lines)
  BY <1>1, LoadsExist
<1>3. Timeline(lines) = g[Len(lines)]
  BY <1>1, <1>2, TimelineIs
<1>4. \A n \in 1..Len(lines) : LineLoaded(g, lines, n)
  BY <1>2, <1>3, AllLoaded
<1>5. \A n \in 1..Len(lines) : lines[n].at \in Nat /\ (n > 1 => lines[n - 1].at < lines[n].at)
  BY <1>4, LineFacts DEF LineLoaded
<1>6. Carries(Timeline(lines).points, lines, Len(lines))
  BY <1>1, <1>3, <1>4 DEF LineLoaded
<1>7. ASSUME NEW i \in 1..Len(lines)
      PROVE  \A j \in 1..Len(lines) : i < j => lines[i].at < lines[j].at
  <2> DEFINE T == {j \in 1..Len(lines) : i < j /\ ~(lines[i].at < lines[j].at)}
  <2>1. SUFFICES ASSUME T # {} PROVE FALSE
    OBVIOUS
  <2>2. PICK j \in T : \A k \in T : j <= k
    <3>1. T \subseteq Nat
      BY <1>1
    <3> HIDE DEF T
    <3>2. QED
      BY <2>1, <3>1, LeastExists
  <2>3. j \in 1..Len(lines) /\ i < j /\ ~(lines[i].at < lines[j].at)
    BY <2>2
  <2>4. j - 1 \in 1..Len(lines) /\ j > 1 /\ ~(j <= j - 1)
    BY <1>1, <2>3
  <2>5. /\ lines[j - 1].at < lines[j].at
        /\ lines[j - 1].at \in Nat /\ lines[j].at \in Nat /\ lines[i].at \in Nat
    BY <1>5, <2>3, <2>4
  <2>6. j - 1 \notin T
    <3> HIDE DEF T
    <3>1. QED
      BY <2>2, <2>4
  <2>7. i = j - 1 \/ lines[i].at < lines[j - 1].at
    BY <2>3, <2>4, <2>6
  <2>8. QED
    BY <2>3, <2>5, <2>7
<1>8. QED
  BY <1>6, <1>7

\* No two lines share a point.
LEMMA PointsDiffer ==
  ASSUME NEW lines, WholeSeconds(lines), Timeline(lines).ok
  PROVE  \A i, j \in 1..Len(lines) : PointOf(lines, i) = PointOf(lines, j) => i = j
<1>1. SUFFICES ASSUME NEW i \in 1..Len(lines), NEW j \in 1..Len(lines), i < j
               PROVE  PointOf(lines, i) # PointOf(lines, j)
  BY LineFacts
<1>2. lines[i].at < lines[j].at
  BY <1>1, TimelineCarries
<1>3. PICK x \in Nat : x = lines[i].at \div TicksPerSecond /\ lines[i].at = TicksPerSecond * x
  BY LineFacts, WholeSecond
<1>4. PICK y \in Nat : y = lines[j].at \div TicksPerSecond /\ lines[j].at = TicksPerSecond * y
  BY LineFacts, WholeSecond
<1>5. PICK z \in Int : z = lines[1].at \div TicksPerSecond
  <2>1. lines[1].at \in Int
    BY LineFacts
  <2>2. QED
    BY <2>1, SecondAssumption, DivIs DEF SecondAssumption
<1>6. x # y
  <2>1. lines[i].at \in Nat /\ lines[j].at \in Nat
    BY LineFacts
  <2>2. QED
    BY <1>2, <1>3, <1>4, <2>1
<1>7. PointOf(lines, i) = x - z + 1 /\ PointOf(lines, j) = y - z + 1
  BY <1>3, <1>4, <1>5 DEF PointOf
<1>8. QED
  BY <1>6, <1>7

\* Of such a file a second of a chart and a point of the load stand for the same lines.
LEMMA SecondIsPoint ==
  ASSUME NEW n \in DOMAIN file, file[n].at \in Nat, file[n].at % TicksPerSecond = 0,
         file[1].at \in Nat, file[1].at % TicksPerSecond = 0,
         NEW start \in Nat, start % TicksPerSecond = 0
  PROVE  /\ SecondOf(n, start) \in Int
         /\ PointOf(file, n) - ((start - file[1].at) \div TicksPerSecond + 1) = SecondOf(n, start)
<1>1. TicksPerSecond \in Nat \ {0}
  BY SecondAssumption DEF SecondAssumption
<1>2. PICK x \in Nat : x = file[n].at \div TicksPerSecond /\ file[n].at = TicksPerSecond * x
  BY WholeSecond
<1>3. PICK y \in Nat : y = file[1].at \div TicksPerSecond /\ file[1].at = TicksPerSecond * y
  BY WholeSecond
<1>4. PICK z \in Nat : z = start \div TicksPerSecond /\ start = TicksPerSecond * z
  BY WholeSecond
<1>5. /\ file[n].at - start = TicksPerSecond * (x - z)
      /\ start - file[1].at = TicksPerSecond * (z - y)
  BY <1>1, <1>2, <1>3, <1>4
<1>6. /\ (TicksPerSecond * (x - z)) \div TicksPerSecond = x - z
      /\ (TicksPerSecond * (z - y)) \div TicksPerSecond = z - y
  BY <1>1, DivWhole
<1>7. SecondOf(n, start) = x - z /\ (start - file[1].at) \div TicksPerSecond = z - y
  BY <1>5, <1>6 DEF SecondOf
<1>8. PointOf(file, n) = x - y + 1
  BY <1>2, <1>3 DEF PointOf
<1>9. QED
  BY <1>7, <1>8

\* The lines a chart adds up and the points the generator sends are the same requests.
LEMMA SameSum ==
  ASSUME FileInv, WholeSeconds(file), Timeline(file).ok,
         \A n \in DOMAIN file : file[n].shown /\ file[n].total = file[n].sent,
         NEW start \in Nat, start % TicksPerSecond = 0,
         NEW bucket, bucket.from \in Nat, bucket.to \in Nat, NEW zero,
         zero = (start - file[1].at) \div TicksPerSecond + 1
  PROVE  Within(Found(start), start, bucket)
           = Sent(Timeline(file).points,
                  {s \in DOMAIN Timeline(file).points : s - zero \in bucket.from..(bucket.to - 1)})
<1> DEFINE points == Timeline(file).points
           seconds == bucket.from..(bucket.to - 1)
           N == {n \in Found(start) : SecondOf(n, start) \in seconds}
           S == {s \in DOMAIN points : s - zero \in seconds}
           w == [n \in N |-> file[n].total]
           v == [s \in S |-> points[s].requests]
           p == [n \in N |-> PointOf(file, n)]
<1>1. /\ Len(file) \in Nat /\ DOMAIN file = 1..Len(file) /\ 1 \in 1..Len(file)
      /\ \A n \in 1..Len(file) : /\ file[n].at \in Nat /\ file[n].at % TicksPerSecond = 0
                                 /\ file[n].sent \in Nat /\ file[n].total = file[n].sent
  BY LineFacts
<1>2. /\ Carries(points, file, Len(file))
      /\ \A i, j \in 1..Len(file) : PointOf(file, i) = PointOf(file, j) => i = j
  BY TimelineCarries, PointsDiffer
<1>3. \A n \in 1..Len(file) :
         SecondOf(n, start) \in Int /\ PointOf(file, n) - zero = SecondOf(n, start)
  BY <1>1, SecondIsPoint
<1>4. zero \in Int
  <2>1. start - file[1].at \in Int
    BY <1>1, <1>2
  <2>2. QED
    BY <2>1, SecondAssumption, DivIs DEF SecondAssumption
<1>5. \A n \in 1..Len(file) : /\ PointOf(file, n) \in 1..Len(points)
                               /\ points[PointOf(file, n)].requests = file[n].total
  BY <1>1, <1>2 DEF Carries
<1>6. Readable(file) = 1..Len(file)
  BY <1>1 DEF Readable
<1>7. \A n \in 1..Len(file) : SecondOf(n, start) \in seconds => n \in Found(start)
  <2>1. SUFFICES ASSUME NEW n \in 1..Len(file), SecondOf(n, start) \in seconds
                 PROVE  n \in Found(start)
    OBVIOUS
  <2>2. file[n].at >= start
    BY <1>3, <1>6, <2>1, SecondFacts
  <2>3. ASSUME NEW k \in 1..Len(file), k > n PROVE SecondOf(k, start) # SecondOf(n, start)
    <3>1. SecondOf(k, start) = SecondOf(n, start) => PointOf(file, k) = PointOf(file, n)
      <4>1. PointOf(file, k) \in Int /\ PointOf(file, n) \in Int
        BY <1>5
      <4>2. QED
        BY <1>3, <1>4, <4>1
    <3>2. PointOf(file, k) # PointOf(file, n)
      <4>1. n # k
        BY <2>3
      <4>2. QED
        BY <1>2, <4>1
    <3>3. QED
      BY <3>1, <3>2
  <2>4. QED
    BY <1>6, <2>2, <2>3 DEF Found, LastOfSecond
<1>8. Found(start) \subseteq 1..Len(file)
  BY <1>6 DEF Found, LastOfSecond
<1>9. /\ Len(points) \in Nat /\ DOMAIN points = 1..Len(points)
      /\ \A s \in 1..Len(points) : points[s].requests \in Nat
  <2>1. points \in Seq([at : Int, requests : Nat])
    BY <1>2 DEF Carries
  <2> HIDE DEF points
  <2>2. \A s \in 1..Len(points) : points[s] \in [at : Int, requests : Nat]
    BY <2>1, ElementOfSeq
  <2>3. QED
    BY <2>1, <2>2
<1>10. IsFiniteSet(N) /\ IsFiniteSet(S) /\ N \in SUBSET Nat
  <2>1. IsFiniteSet(1..Len(file)) /\ IsFiniteSet(1..Len(points))
    <3>1. \A l \in Nat : IsFiniteSet(1..l)
      BY FS_Interval
    <3>2. QED
      BY <1>1, <1>9, <3>1, Zenon
  <2>2. N \subseteq 1..Len(file) /\ S \subseteq 1..Len(points)
    BY <1>8, <1>9
  <2>3. QED
    BY <2>1, <2>2, FS_Subset
<1>11. w \in [N -> Int] /\ v \in [S -> Int]
  BY <1>1, <1>8, <1>9
<1>12. \A n \in N : PointOf(file, n) \in S /\ points[PointOf(file, n)].requests = file[n].total
  BY <1>3, <1>5, <1>8, <1>9
<1>13. /\ p \in [N -> S]
       /\ \A m, n \in N : p[m] = p[n] => m = n
       /\ \A n \in N : v[p[n]] = w[n]
  BY <1>2, <1>8, <1>12
<1>14. \A s \in S : v[s] # 0 => \E n \in N : p[n] = s
  <2>1. SUFFICES ASSUME NEW s \in S, points[s].requests # 0 PROVE \E n \in N : p[n] = s
    OBVIOUS
  <2>2. PICK n \in 1..Len(file) : PointOf(file, n) = s
    BY <1>2, <1>9, <2>1 DEF Carries
  <2>3. n \in N
    BY <1>3, <1>7, <2>1, <2>2
  <2>4. QED
    BY <2>2, <2>3
<1>15. Corresponds(p, N, w, S, v)
  BY <1>13, <1>14 DEF Corresponds
<1>16. Within(Found(start), start, bucket) = Total(file, N)
  BY WithinIs
<1> HIDE DEF N, S, w, v, p, points
<1>17. PICK h : Weighs(h, w, N)
  BY <1>10, <1>11, WeightsExist
<1>18. PICK k : Weighs(k, v, S)
  BY <1>10, <1>11, WeightsExist
<1>19. h[N] = k[S]
  <2>1. PICK n1, s1, w1, v1, p1 : n1 = N /\ s1 = S /\ w1 = w /\ v1 = v /\ p1 = p
    OBVIOUS
  <2>2. w1 \in [n1 -> Int] /\ v1 \in [s1 -> Int] /\ IsFiniteSet(n1) /\ IsFiniteSet(s1)
    BY <1>10, <1>11, <2>1
  <2>3. Weighs(h, w1, n1) /\ Weighs(k, v1, s1) /\ Corresponds(p1, n1, w1, s1, v1)
    BY <1>17, <1>18, <1>15, <2>1
  <2>4. h[n1] = k[s1]
    BY ONLY <2>2, <2>3, WeighsAgree
  <2>5. QED
    BY <2>1, <2>4
<1>20. Total(file, N) = h[N]
  <2>1. Weighs(h, [n \in N |-> file[n].total], N)
    BY <1>17 DEF w
  <2>2. \A n \in N : file[n].total \in Int
    BY <1>1, <1>8 DEF N
  <2>3. QED
    BY <1>10, <2>1, <2>2, TotalIs
<1>21. Sent(points, S) = k[S]
  <2>1. Weighs(k, [s \in S |-> points[s].requests], S)
    BY <1>18 DEF v
  <2>2. \A s \in S : points[s].requests \in Int
    BY <1>9 DEF S
  <2>3. QED
    BY <1>10, <2>1, <2>2, SentIs
<1>22. Within(Found(start), start, bucket) = Sent(points, S)
  BY <1>16, <1>19, <1>20, <1>21
<1>23. QED
  BY <1>22 DEF points, S

LEMMA ChartFollows ==
  ASSUME RangeInv
  PROVE  ChartIsTheLoad
<1>1. SUFFICES ASSUME Timeline(file).ok,
                      \A n \in DOMAIN file : /\ file[n].shown /\ file[n].total = file[n].sent
                                             /\ file[n].at % TicksPerSecond = 0,
                      NEW a \in Answers, a.start % TicksPerSecond = 0, NEW i \in DOMAIN a.series
               PROVE  LET zero == (a.start - file[1].at) \div TicksPerSecond + 1
                          bucket == Buckets[a.duration][i]
                          seconds == {s \in DOMAIN Timeline(file).points :
                                        s - zero \in bucket.from..(bucket.to - 1)}
                      IN a.series[i]
                           = Mean(MapThenSumSet(LAMBDA s : Timeline(file).points[s].requests,
                                                seconds), bucket.to - bucket.from)
  BY Zenon DEF ChartIsTheLoad
<1> DEFINE zero == (a.start - file[1].at) \div TicksPerSecond + 1
           bucket == Buckets[a.duration][i]
           seconds == {s \in DOMAIN Timeline(file).points :
                         s - zero \in bucket.from..(bucket.to - 1)}
<1>2. FileInv /\ Shown(a)
  BY DEF RangeInv
<1>3. WholeSeconds(file)
  <2>1. file # <<>>
    BY <1>1 DEF Timeline, Rejected
  <2>2. file \in Seq(Lines)
    BY <1>2 DEF FileInv, RangeTypeOK
  <2>3. QED
    BY <1>1, <2>1, <2>2 DEF WholeSeconds
<1>4. /\ i \in DOMAIN Buckets[a.duration]
      /\ a.series[i] = Mean(Within(Found(a.start), a.start, bucket), bucket.to - bucket.from)
  BY <1>1, <1>2 DEF Shown, Series
<1>5. bucket.from \in Nat /\ bucket.to \in Nat
  <2>1. a.duration \in Durations /\ a.duration \in Nat
    BY <1>2, RangeAssumption DEF Shown, RangeAssumption
  <2>2. SharesOut(Buckets[a.duration], Min({a.duration, MaxPoints}), a.duration)
    BY <2>1, BucketsShareOut
  <2>3. \A j \in DOMAIN Buckets[a.duration] : /\ Buckets[a.duration][j].from \in Nat
                                              /\ Buckets[a.duration][j].to \in 0..a.duration
    BY <2>2 DEF SharesOut
  <2>4. QED
    BY <1>4, <2>1, <2>3 DEF bucket
<1>6. a.start \in Nat
  BY <1>2 DEF Shown
<1>7. PICK z : z = zero
  OBVIOUS
<1> HIDE DEF bucket
<1>8. Within(Found(a.start), a.start, bucket)
        = Sent(Timeline(file).points,
               {s \in DOMAIN Timeline(file).points : s - z \in bucket.from..(bucket.to - 1)})
  BY <1>1, <1>2, <1>3, <1>5, <1>6, <1>7, SameSum
<1>9. Within(Found(a.start), a.start, bucket) = Sent(Timeline(file).points, seconds)
  BY <1>7, <1>8
<1>10. Sent(Timeline(file).points, seconds)
         = MapThenSumSet(LAMBDA s : Timeline(file).points[s].requests, seconds)
  BY Zenon DEF Sent
<1>11. QED
  BY <1>4, <1>9, <1>10, Zenon DEF bucket, seconds

\* The chart of a script and the load agree: of one content for both, with lines of whole
\* seconds that load_script_points accepts and get_range can read, and whose column of all
\* requests is the sum of the classes, the number shown at a point is the mean, rounded to
\* hundredths, of the requests that are sent in its seconds.
THEOREM ChartIsAlwaysTheLoad == RangeSpec => []ChartIsTheLoad
BY RangeInvCorrect, ChartFollows, PTL
=============================================================================
