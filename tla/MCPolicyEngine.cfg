SPECIFICATION PolicySpec
CONSTANTS
  Agents = {rex}
  Profile <- MCProfile
  Requests <- MCRequests
  ALLOWED_ACTIONS = {"SWAP", "HOLD", "SKIP"}
  ALLOWED_TOKENS = {"SOL", "USDC", "RAY", "BONK"}
  FEE_RESERVE = 100
  RATE_LIMIT_MAX = 2
  RATE_LIMIT_WINDOW = 2
  MaxTime = 5
INVARIANTS
  PolicyTypeOK
  RateLimitWindow
  NoSwapBelowStopLoss
PROPERTIES
  StopLossLatches
