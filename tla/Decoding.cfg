SPECIFICATION DecodingSpec
CONSTANTS
  Radix = 16
  U16Max = 1023
  KeyLen = 3
  SigLen = 4
  U32Len = 1
  U64Len = 2
  DiscLen = 2
  CuUnit = 10000
  Discriminator <- MCDiscriminator
  Sysvars <- MCSysvars
  Inputs <- MCInputs
  Tables <- MCTables
  Contents <- MCContents
  Lookups <- MCLookups
  StaticLen = 2
  IndexRange = 7
  Placeholder = "<alt_index>"
  OutOfRange = "unknown"
INVARIANTS
  ParserTypeOK
  ReadAsGiven
  DifferencesWarned
  PrivilegesAsMeant
  BudgetJudged
  SignaturesJudged
  NamedAsMeant
  DataAsWritten
  PdaJudged
  ExpectedFlagged
  AccountsNumbered
  PlaceholdersExplained
  OneSnapshot
CHECK_DEADLOCK FALSE
