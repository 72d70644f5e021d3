SPECIFICATION MCSpec
CONSTANTS
  Bufs = {b1, b2, b3}
  MaxSlots = 2
  MaxRefs = 2
  NoBuf = nobuf
  Fds = {3, 4}
  GARBAGE_CLEANUP_BASELINE = 1
  Decoders <- MCDecoders
  Headers <- MCHeaders
  InputParams <- MCParams
  Refusals <- MCRefusals
  MaxSetups = 2
INVARIANTS
  MCTypeOK
  SlotsMatchDriver
  CountsMatchReferences
  ControlsRight
  ResourcesAgree
