CONSTANTS
  MaxTx = 2
  LossCap = 2
  MaxReverts = 2
  MaxRefusals = 1
  MaxLanded = 2
  Lag = 1
  MaxMishaps = 1
  MaxResets = 1
  MaxCrashes = 1
SPECIFICATION FairSpec
INVARIANTS TypeOK NothingForgotten LossBounded NonceNotReused TripwireTruthful
PROPERTIES NoSendPastAHalt BootEnds
CHECK_DEADLOCK FALSE
