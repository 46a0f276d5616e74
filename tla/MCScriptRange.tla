---------------------------- MODULE MCScriptRange ----------------------------
\* Small instances of ScriptRange: every file of up to four lines within three seconds, in
\* which one line at most is not as both readers want it.
EXTENDS ScriptRange

\* Neither reader can read the line, or one of them cannot, or its column of all requests is
\* not the sum of its classes.
MCFaults == {"unreadable", "not_valid", "not_shown", "other_total"}
MCLine(at, n, fault) ==
  [at |-> at, sent |-> n, total |-> IF fault = "other_total" THEN -1 ELSE n,
   valid |-> fault \notin {"unreadable", "not_valid"},
   shown |-> fault \notin {"unreadable", "not_shown"}]

MCTimes == {at \in UNION {[1..n -> {0, 1, 2, 4}] : n \in 0..4} :
              \A i, j \in DOMAIN at : i < j => at[i] <= at[j]}
MCFiles ==
  {[n \in DOMAIN at |-> MCLine(at[n], n, IF n = m THEN fault ELSE "none")] :
     at \in MCTimes, m \in 0..4, fault \in MCFaults}
MCStarts == {NoTime, 1, 2}
=============================================================================
