SPECIFICATION Spec
CONSTANTS
  r1 = r1
  r2 = r2
  s1 = s1
  s2 = s2
  Rows <- MCRows
  Slices <- MCSlices
  SliceOf <- MCSliceOf
  JobConfigs <- MaskingInPlace
  Keys = {k1, k2}
  Retries = 1
  Accepts = FALSE
  Lookback = 2
  Skew = 1
  MaxClock = 0
  MaxRuns = 1
INVARIANTS
  MaskedOnce
\* The runs are bounded.
CHECK_DEADLOCK FALSE
