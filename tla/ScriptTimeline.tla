--------------------------- MODULE ScriptTimeline ---------------------------
(***************************************************************************)
(* The script of a load test: a CSV file with a timestamp and numbers of   *)
(* requests per line.  The load generator turns it into one point for each *)
(* second, which LoadSender replays (load_script_points of                 *)
(* custom-load-generator/load_sender.py).                                  *)
(*                                                                         *)
(* Time is counted in ticks.  A line is a record:                          *)
(*   at     its timestamp;                                                 *)
(*   sent   the sum of its columns of the request classes, which is what   *)
(*          the generator sends; the legacy column of all requests is not  *)
(*          read by it;                                                    *)
(*   valid  the generator accepts it: its timestamp has an offset, the     *)
(*          numbers of its classes are whole and not negative;             *)
(*   total  its column of all requests, cut to a whole number, which is    *)
(*          what the chart of ScriptRange shows;                           *)
(*   shown  the chart can read its timestamp and that column.              *)
(* Blank lines, which both skip, are left out.                             *)
(***************************************************************************)
EXTENDS Integers, Sequences

CONSTANT TicksPerSecond

SecondAssumption == TicksPerSecond \in Nat \ {0}
ASSUME SecondAssumption

Lines == [at : Nat, sent : Nat, valid : BOOLEAN, total : Int, shown : BOOLEAN]

NoTime == -2
Point(at, requests) == [at |-> at, requests |-> requests]
Rejected == [ok |-> FALSE, points |-> <<>>, current |-> NoTime, last |-> NoTime]

\* Mutant: the seconds between two lines are left out.
WithLine_GapsKept(loaded, line) ==
  IF ~loaded.ok \/ ~line.valid \/ (loaded.last # NoTime /\ line.at <= loaded.last) THEN Rejected
  ELSE [ok |-> TRUE, points |-> loaded.points \o <<Point(line.at, line.sent)>>,
        current |-> line.at + TicksPerSecond, last |-> line.at]

\* One line more: it must be valid and later than the one before; the seconds that are missing
\* up to it get points without requests.
WithLine(loaded, line) ==
  LET at == line.at
      current == IF loaded.current = NoTime THEN at ELSE loaded.current
      missing == IF current < at THEN (at - current + TicksPerSecond - 1) \div TicksPerSecond
                 ELSE 0
      filled == [i \in 1..missing |-> Point(current + (i - 1) * TicksPerSecond, 0)]
  IN IF ~loaded.ok \/ ~line.valid \/ (loaded.last # NoTime /\ at <= loaded.last) THEN Rejected
     ELSE [ok |-> TRUE, points |-> loaded.points \o filled \o <<Point(at, line.sent)>>,
           current |-> at + TicksPerSecond, last |-> at]

\* load_script_points: a file without a line is rejected too.
Timeline(lines) ==
  LET loaded[n \in 0..Len(lines)] ==
        IF n = 0 THEN [Rejected EXCEPT !.ok = TRUE] ELSE WithLine(loaded[n - 1], lines[n])
  IN IF lines = <<>> THEN Rejected ELSE loaded[Len(lines)]
=============================================================================
