CONSTANTS
  Worker = {w1, w2}
  MaxId = 2
  MaxFaults = 0
  MaxCrashes = 1
  Milestone <- MCMilestone
SPECIFICATION DrainSpec
INVARIANTS
  DrainTypeOK
  Accounting
  HeldIsLive
  NothingWalkedPast
PROPERTIES
  DrainEnds
CHECK_DEADLOCK FALSE
