SPECIFICATION FairSpec
CONSTANTS
  Clients = {c1}
  MaxWorks = 1
  MaxBatch = 1
  MaxDrains = 1
  None = None
  Pool = Pool
PROPERTIES
  
  CallsReturnOrStray
CHECK_DEADLOCK FALSE
