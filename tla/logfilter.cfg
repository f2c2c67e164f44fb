SPECIFICATION FilterSpec
CONSTANTS
  Pipes = {"stdout", "stderr"}
  Chunks <- MCChunks
  MaxLine = 2
  MaxQueued = 2
  Budgets <- MCBudgets
INVARIANTS
  Accounted
  NoneLeft
PROPERTIES
  Returns
  
