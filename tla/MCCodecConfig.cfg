SPECIFICATION MCSpec
CONSTANTS
  Inputs <- MCInputs
  Encoders <- MCEncoders
  Refusals <- MCRefusals
  MaxInputs = 1
  NoInput = noinput
INVARIANTS
  MCTypeOK
  SettingsHold
  ChangeSettles
  NothingStranded
  ColorsAgree
CHECK_DEADLOCK FALSE
