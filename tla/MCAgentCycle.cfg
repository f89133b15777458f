SPECIFICATION Spec
CONSTANTS
  Agents = {rex}
  Cycles = {1, 2}
  Owner <- MCOwner
  MAX_RETRY = 1
  MaxRestarts = 1
  MaxMidnights = 1
  Profile <- MCProfile
  Requests <- MCRequests
  ALLOWED_ACTIONS = {"SWAP", "HOLD", "SKIP"}
  ALLOWED_TOKENS = {"SOL", "USDC", "RAY", "BONK"}
  FEE_RESERVE = 100
  RATE_LIMIT_MAX = 5
  RATE_LIMIT_WINDOW = 2
  MaxTime = 1
INVARIANTS
  TypeOK
  
  
  VolumeIsExecuted
PROPERTIES
  ImplementsAirGap
  CycleEnds
CHECK_DEADLOCK FALSE
