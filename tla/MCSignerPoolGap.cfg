CONSTANTS
  Worker = {w1}
  NumLanes = 1
  MaxNonce = 2
  MaxUses = 3
SPECIFICATION Spec
INVARIANT VanishedSendHeals
CHECK_DEADLOCK FALSE
