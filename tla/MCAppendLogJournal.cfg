CONSTANTS
  Store = "journal"
  MaxRecords = 3
  MaxFaults = 0
  MaxCrashes = 1
SPECIFICATION Spec
INVARIANT PromisedSurvives
CHECK_DEADLOCK FALSE
