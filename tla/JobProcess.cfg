SPECIFICATION FairSpec
CONSTANTS
  Capacity = 2
  PerPoll = 2
INVARIANTS
  NothingSentIsLost
  CompletionFollowsRecord
PROPERTIES
  SilentOnceReported
  IsJobSlot
  IsReported
  OrphanEnds
\* A job is over once it is reported.
CHECK_DEADLOCK FALSE
