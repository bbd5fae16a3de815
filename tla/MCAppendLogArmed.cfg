CONSTANTS
  Store = "armed"
  MaxRecords = 5
  MaxFaults = 2
  MaxCrashes = 3
SPECIFICATION Spec
INVARIANTS
  TypeOK
  PromisedSurvives
  CrashIsNoOutage
CHECK_DEADLOCK FALSE
