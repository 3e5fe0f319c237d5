SPECIFICATION AuditSpec
CONSTANTS
  Radix = 16
  U16Max = 1023
  KeyLen = 3
  SigLen = 4
  U32Len = 1
  U64Len = 2
  DiscLen = 2
  CuUnit = 10000
  Discriminator <- MCDiscriminator
  Sysvars <- MCSysvars
  Inputs <- MCInputs
INVARIANT AccusedAreWrong
