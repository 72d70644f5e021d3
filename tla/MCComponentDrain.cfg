SPECIFICATION Spec
CONSTANTS
  Clients = {c1}
  MaxWorks = 2
  MaxBatch = 2
  MaxDrains = 1
  None = None
  Pool = Pool
INVARIANTS
  StoppedHoldsNothing
CHECK_DEADLOCK FALSE
