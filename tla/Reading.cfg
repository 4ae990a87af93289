SPECIFICATION FairSpec
CONSTANTS
  Unit = 2
  MinimumRowsPerSlice = 1
  Null = Null
  Open = Open
  Rows <- MCRows
  Tables <- MCTables
  Late = {4}
  Jobs <- MCJobs
  ChunkSize = 1
  Depths = {0, 1}
  RowTime = 1
  Burst = 1
INVARIANTS
  EachRowOnce
  FitsBudget
  WithinLimit
PROPERTIES
  LoadEnds
\* The attempt ends.
CHECK_DEADLOCK FALSE
