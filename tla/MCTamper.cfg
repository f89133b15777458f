SPECIFICATION Spec
CONSTANTS
  Agents = {rex, nova}
  Amounts = {1, 2}
  MaxRuns = 2
  MaxNow = 2
SYMMETRY Alike
INVARIANT
  TamperEvident
CHECK_DEADLOCK FALSE
