SPECIFICATION MCSpec
CONSTANTS
  MaxTimestamp = 4
  MaxInputs = 4
  MaxOrdinal = 5
  None = None
INVARIANTS
  MCTypeOK
  InputsFlow
PROPERTIES
  IndexedOrdinalsGrow
  OrdinalsNeverDecrease
  OwnTimestamp
CHECK_DEADLOCK FALSE
