CONSTANTS
  Worker = {w1}
  MaxId = 2
  MaxFaults = 2
  MaxCrashes = 2
  Milestone <- MCMilestone
SPECIFICATION FairSpec
INVARIANTS
  TypeOK
  Accounting
  SentIsOnRecord
  BootVerdictsAreTrue
  JournalStaysReadable
  OwedIsHeld
PROPERTIES
  ImplementsContract
  Recovers
CHECK_DEADLOCK FALSE
