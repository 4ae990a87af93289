CONSTANTS
  Radix = 3
  MaxLength = 3
  MinimumLength = 3
  Rounds = 4
  Keys = {1, 2, 3, 4, 5, 6, 7, 8, 9, 10}
  Strategies = {"key", "fpe"}
  Halves = {2, 4, 8}
  Pseudorandom <- MCPseudorandom
  ExclusiveOr <- MCExclusiveOr
SPECIFICATION MaskingSpec
INVARIANTS OneToOneNormalized
CHECK_DEADLOCK FALSE
