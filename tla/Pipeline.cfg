SPECIFICATION Spec
CONSTANTS
  Programs <- MCPrograms
  Declares <- MCDeclares
  Options <- MCOptions
  Transactions <- MCTransactions
  MaxTargets = 2
  MaxFlags = 1
INVARIANTS
  OneSchema
  ProgramsCovered
  ReportsSound
PROPERTIES
  VerdictHolds
CHECK_DEADLOCK FALSE
