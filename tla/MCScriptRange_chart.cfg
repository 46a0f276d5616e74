SPECIFICATION RangeSpec
CONSTANTS
  TicksPerSecond = 2
  Readers = {r1, r2}
  Files <- MCFiles
  Starts <- MCStarts
  Durations = {2, 5}
  Stride = 2
  MaxPoints = 4
  MaxReadFaults = 1
INVARIANTS SeriesIsTheFile ChartIsTheLoad
