CONSTANTS
  Pool = {p1}
  Tick <- TwoTicks
  Change <- SomeChanges
  BootBlock = 2
  MaxLogs = 2
  MaxBlock = 3
  MaxMishaps = 1
SPECIFICATION Spec
INVARIANTS RebuiltBeforePriced
CHECK_DEADLOCK FALSE
