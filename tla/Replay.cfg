SPECIFICATION ReplaySpec
CONSTANTS
  Wallets = {"payer", "friend"}
  Tokens = {"vault", "purse"}
  Placeholder = "<unresolved>"
  Transactions <- MCTransactions
  Chains <- MCChains
  Versions = {"1.0", "2.0"}
  MaxAmount = 3
  Builtin = {"system", "token"}
  PipeSize = 1
  RequestSize = 2
  ReportSize = 2
  Timeout = 2
  MaxMoves = 1
INVARIANTS
  MutationsAnswered
  SolEffectReported
  OrphansExplained
PROPERTIES
  Terminates
CHECK_DEADLOCK FALSE
