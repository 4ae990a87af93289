SPECIFICATION Spec
CONSTANTS
  JobConfigs <- MCJobConfigs
  Retries = 1
  MaxRuns = 3
INVARIANTS
  OnlyACutLeavesTemp
  KeysKept
  OriginalGone
PROPERTIES
  IsReplacement
  SwapRunPutsRight
\* The runs are bounded.
CHECK_DEADLOCK FALSE
