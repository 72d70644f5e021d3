SPECIFICATION Spec
CONSTANTS
  Clients = {c1, c2}
  MaxWorks = 2
  MaxBatch = 2
  MaxDrains = 0
  None = None
  Pool = Pool
SYMMETRY Renamings
INVARIANTS
  TypeOK
  HeldOnce
  FlushCountMatches
  NoWorkForgotten
  ReleasedNeverRuns
PROPERTIES
  ImplementsContract
