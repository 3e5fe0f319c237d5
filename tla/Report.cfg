SPECIFICATION ReportSpec
CONSTANTS
  Programs <- MCPrograms
  Builtins <- MCBuiltins
  Events <- MCEvents
  IdlEvents <- MCIdlEvents
  Costs <- MCCosts
  DropChoices <- MCDropChoices
  UserTexts = {"plain", "invoke", "success", "failed"}
  LogId = "log:"
  Unknown = "unknown"
  MaxTop = 2
  MaxDepth = 3
  MaxCalls = 4
  MaxEvents = 1
  MaxImitations = 2
  Accounts = {"X", "Y"}
  Mints = {"T", "U"}
  MintOf <- MCMintOf
  Keys = {"A", "B", "M"}
  Owner <- MCOwner
  MintAuthority <- MCMintAuthority
  Signers = {"A"}
  Multisigs = {"M"}
  Appointees = {"A", "B"}
  FeePayer = "A"
  Derived = "derived"
  None = "none"
  MaxTopLevel = 2
  MaxInstructions = 3
INVARIANTS
  AttributedToEmitter
  LiveFramesKept
  DelegationJudged
  TakeoverFlagged
  NonsignerExplained
  FanInNamed
CHECK_DEADLOCK FALSE
