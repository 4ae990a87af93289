SPECIFICATION StudioSpec
CONSTANTS
  MaxRuns = 2
  JobCount = 2
  Selections <- MCSelections
  Backends = {"file", "database"}
  MaxRestarts = 1
  Launched = {1}
INVARIANTS
  JobsApart
  NoUpdateLost
  SomeRunGoesAhead
  ShownEndedIsEnded
PROPERTIES
  EndIsShown
\* The runs are bounded.
CHECK_DEADLOCK FALSE
