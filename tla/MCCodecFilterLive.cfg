SPECIFICATION FairSpec
CONSTANTS
  NumInputs = 2
  Bufs = {b1}
  DPB = 1
  MaxIn = 1
  MaxTag = 2
  GivesUp = FALSE
  MaxFlushes = 1
  MaxChanges = 1
  MaxFails = 1
PROPERTIES FlushReturns Answered
CHECK_DEADLOCK FALSE
