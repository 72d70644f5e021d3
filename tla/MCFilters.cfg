SPECIFICATION MCSpec
CONSTANTS
  NumInputs = 3
  Bufs = {b1, b2}
  DPB = 2
  MaxIn = 1
  MaxTag = 2
  GivesUp = TRUE
  MaxFlushes = 1
  MaxChanges = 1
  MaxFails = 1
  NumFilters = 3
  Bounds <- MCBounds
  Formats <- MCFormats
  Streams <- MCStreams
  Clients <- MCClients
  Libraries <- MCLibraries
  MaxFrames = 3
  MaxLosses = 2
SYMMETRY Symmetry
INVARIANTS MCTypeOK WorksKept NoInputForgotten EveryBufferAwaited FlushLeavesNothing
PROPERTIES NoLateAnswer
CHECK_DEADLOCK FALSE
