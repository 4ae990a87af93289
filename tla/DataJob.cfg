SPECIFICATION Spec
CONSTANTS
  r1 = r1
  r2 = r2
  s1 = s1
  s2 = s2
  Rows <- MCRows
  Slices <- MCSlices
  SliceOf <- MCSliceOf
  JobConfigs <- MCJobConfigs
  Keys = {k1, k2}
  Retries = 1
  Accepts = FALSE
  Lookback = 2
  Skew = 1
  MaxClock = 3
  MaxRuns = 2
INVARIANTS
  NoRowSkipped
  SwapLoadsTheSource
  OneGeneration
PROPERTIES
  RecordedKeyOnly
SYMMETRY Symmetry
\* The runs are bounded.
CHECK_DEADLOCK FALSE
