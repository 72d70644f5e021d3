SPECIFICATION MCSpec
CONSTANTS
  MaxTimestamp = 5
  MaxInputs = 5
  MaxOrdinal = 5
  None = None
PROPERTIES
  StaleTimestampsRemoved
CHECK_DEADLOCK FALSE
