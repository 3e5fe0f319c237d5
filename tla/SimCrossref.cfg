SPECIFICATION Spec
CONSTANTS
  Programs <- MCPrograms
  Builtins <- MCBuiltins
  Events = {}
  Costs <- MCCosts
  DropChoices <- MCDropChoices
  UserTexts = {"success"}
  Estimates <- MCEstimates
  ComputeBudget = "budget"
  IndexCap = 2
  Threshold = 3
  MaxTop = 3
  MaxDepth = 2
  MaxCalls = 3
INVARIANTS
  TypeOK
  CuIndexIsRunningTop
  NeverLaterInstruction
  HighCuIffSimulated
CHECK_DEADLOCK FALSE
