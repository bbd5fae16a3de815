CONSTANTS
  Worker = {w1}
  MaxId = 1
  MaxFaults = 0
  MaxCrashes = 0
  Milestone <- MCMilestone
SPECIFICATION Spec
INVARIANT LandedIsNotWrittenOff
CHECK_DEADLOCK FALSE
