\* cross_reference counts every logged invocation, the CPIs too.
SPECIFICATION Spec
CONSTANTS
  Programs <- MCPrograms
  Builtins <- MCBuiltins
  Events = {}
  Costs <- MCCosts
  DropChoices = {{}}
  UserTexts = {"plain"}
  Estimates <- MCEstimates
  ComputeBudget = "budget"
  IndexCap = 2
  Threshold = 3
  MaxTop = 2
  MaxDepth = 2
  MaxCalls = 3
INVARIANT InvocationFlagMeansDisagreement
CHECK_DEADLOCK FALSE
