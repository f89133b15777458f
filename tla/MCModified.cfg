SPECIFICATION Spec
CONSTANTS
  Agents = {rex}
  Cycles = {1}
  Owner <- MCOwner
  MAX_RETRY = 1
  MaxRestarts = 0
  MaxMidnights = 0
  Profile <- MCProfile
  Requests <- MCRequests
  ALLOWED_ACTIONS = {"SWAP", "HOLD", "SKIP"}
  ALLOWED_TOKENS = {"SOL", "USDC", "RAY", "BONK"}
  FEE_RESERVE = 100
  RATE_LIMIT_MAX = 5
  RATE_LIMIT_WINDOW = 2
  MaxTime = 0
INVARIANTS
  ModifiedAmountApplied
CHECK_DEADLOCK FALSE
