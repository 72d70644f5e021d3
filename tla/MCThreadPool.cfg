SPECIFICATION FairSpec
CONSTANTS
  Tasks = {t1, t2}
  Callers = {c1, c2}
  SessionMode = TRUE
  MaxSession = 2
  None = None
INVARIANTS
  TypeOK
  QueueConsistent
  NotifiedOnce
  FifoWithinSession
  StoppedPoolIsEmpty
PROPERTIES
  ImplementsContract
  CurrentSessionServed
  StopReturns
