SPECIFICATION Spec
CONSTANTS
  NumInputs = 2
  Bufs = {b1, b2}
  DPB = 1
  MaxIn = 1
  MaxTag = 3
  GivesUp = TRUE
  MaxFlushes = 1
  MaxChanges = 1
  MaxFails = 1
SYMMETRY Symmetry
INVARIANT FlushLeavesDriverEmpty
CHECK_DEADLOCK FALSE
