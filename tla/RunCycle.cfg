SPECIFICATION FairSpec
CONSTANTS
  a = a
  b = b
  c = c
  d = d
  src = src
  duck = duck
  Jobs <- MCJobs
  Preds <- MCPreds
  Aliases <- MCAliases
  Limit <- MCLimit
  Uses <- MCUses
  Count <- MCCount
  Automatic <- MCAutomatic
  Cores = 8
  Workers = 2
  Timed <- MCTimed
INVARIANTS
  TypeOK
  JobsAllDecided
  LimitsHold
  EveryWaitHasAReason
  NoProcessOutlivesCycle
PROPERTIES
  KeepsSchedule
  CyclesEnd
  SignalEndsRun
\* The run ends.
CHECK_DEADLOCK FALSE
