CONSTANTS
  Sender = {s1, s2}
  Budget = 2
  Worst = {1, 2}
  Window = 1
  Lag = 0
  DayBlocks = 2
  MaxTx = 3
  MaxBlock = 3
  MaxMishaps = 1
  MaxCrashes = 1
  MaxResets = 1
SYMMETRY Symmetry
SPECIFICATION Spec
INVARIANTS TypeOK BudgetHolds ExpiredIsDead AccountedFor TripwireTruthful CompactReplaysSame
CHECK_DEADLOCK FALSE
