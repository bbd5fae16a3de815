CONSTANTS
  Pool = {p1}
  Tick <- TwoTicks
  Change <- SomeChanges
  BootBlock = 2
  MaxLogs = 2
  MaxBlock = 3
  MaxMishaps = 1
SPECIFICATION Spec
INVARIANTS TypeOK HoldsWhatItWasTold EveryFlagIsAsked AskedIsHeard WholeUnlessBlind
PROPERTIES VerifiedAnswersGap
CHECK_DEADLOCK FALSE
