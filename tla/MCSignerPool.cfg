CONSTANTS
  Worker = {w1, w2}
  NumLanes = 2
  MaxNonce = 2
  MaxUses = 4
SPECIFICATION Spec
SYMMETRY MCSymmetry
INVARIANTS
  TypeOK
  OneHolder
  HeldNonceIsNewest
  UnsentLeavesNoGap
  ConfirmedNotReused
CHECK_DEADLOCK FALSE
