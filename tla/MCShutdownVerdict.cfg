CONSTANTS
  Worker = {w1}
  MaxId = 1
  MaxFaults = 0
  MaxCrashes = 0
  Milestone <- MCMilestone
SPECIFICATION DrainSpec
INVARIANT DrainVerdictsAreTrue
CHECK_DEADLOCK FALSE
