SPECIFICATION FairSpec
CONSTANTS
  Kinds = {"pod"}
  Clients = {c1, c2}
  Pages = {p1}
  Limit = 2
  PerMinute = 2
  MaxLoop = 5
  MaxFaults = 2
  None = None
INVARIANTS HistoryOrdered NoPageOutlivesPoll
PROPERTIES LatestRecorded
