SPECIFICATION Spec
CONSTANTS
  Jobs = {j1, j2}
  Plans = {"append", "overwrite", "singleFile", "icebergAppend", "icebergOverwrite", "icebergUpsert"}
  Keep = 1
  MaxRows = 2
  MaxRuns = 3
INVARIANTS
  NothingLost
  AppendedOnce
  SnapshotsWhole
SYMMETRY Symmetry
PROPERTIES
  NeverOlder
\* The attempts are bounded.
CHECK_DEADLOCK FALSE
