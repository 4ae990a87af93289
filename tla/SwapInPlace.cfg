SPECIFICATION Spec
CONSTANTS
  JobConfigs <- OracleInPlace
  Retries = 0
  MaxRuns = 2
INVARIANTS
  NextRunPutsRight
\* The runs are bounded.
CHECK_DEADLOCK FALSE
