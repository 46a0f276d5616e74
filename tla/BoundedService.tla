--------------------------- MODULE BoundedService ---------------------------
(***************************************************************************)
(* What a server with a bounded number of slots and a bounded waiting room *)
(* promises, whatever it serves and in whatever order: LoadSender          *)
(* implements it with tokens and a backlog, DemandPool with worker threads *)
(* and a queue.  Requests are counted, not told apart: each one that       *)
(* arrives is refused, or waits, or runs, and every one that waits or runs *)
(* is counted as settled or given up in the end of its stay, once.         *)
(* A request is refused only when there is no room, or after the close.    *)
(***************************************************************************)
EXTENDS Integers

CONSTANTS Slots, Room

VARIABLES arrived, waiting, running, refused, givenUp, settled, closed

vars == <<arrived, waiting, running, refused, givenUp, settled, closed>>

Init ==
  /\ arrived = 0 /\ waiting = 0 /\ running = 0
  /\ refused = 0 /\ givenUp = 0 /\ settled = 0 /\ closed = FALSE

\* Requests arrive together: some run, some wait, and some are refused.
Arrive ==
  /\ running' \in running..Slots /\ waiting' \in waiting..Room
  /\ refused' \in Nat /\ refused' >= refused
  /\ refused' > refused => closed \/ (running' = Slots /\ waiting' = Room)
  /\ arrived' = arrived + (running' - running) + (waiting' - waiting) + (refused' - refused)
  /\ UNCHANGED <<givenUp, settled, closed>>

\* Of those that wait some are given up, and others run.
Serve ==
  /\ waiting' \in 0..waiting /\ running' \in running..Slots
  /\ givenUp' \in Nat /\ givenUp' >= givenUp
  /\ waiting = waiting' + (running' - running) + (givenUp' - givenUp)
  /\ UNCHANGED <<arrived, refused, settled, closed>>

\* One that runs is settled; one that waits may take its slot at once.
Settle ==
  /\ running > 0 /\ running' \in {running - 1, running}
  /\ waiting' = waiting - (running' - (running - 1)) /\ waiting' >= 0
  /\ settled' = settled + 1
  /\ UNCHANGED <<arrived, refused, givenUp, closed>>

\* The server closes: what waits or runs is settled.
Close ==
  /\ ~closed /\ closed' = TRUE
  /\ settled' = settled + waiting + running /\ waiting' = 0 /\ running' = 0
  /\ UNCHANGED <<arrived, refused, givenUp>>

Next == Arrive \/ Serve \/ Settle \/ Close

Spec == Init /\ [][Next]_vars

\* Every request that arrived is counted in one place, and no limit is passed.
Accounted ==
  /\ running \in 0..Slots /\ waiting \in 0..Room
  /\ arrived = waiting + running + refused + givenUp + settled
=============================================================================
