CONSTANTS
  MaxU64 = 200
  BaseFee = 1
  Rent = 2
  Slots = {s1, s2}
  Wallets = {"alice"}
  Pool = {"kora", "koraB"}
  Mints = {"usdc", "fees"}
  AtaOf <- MCAtaOf
  Base <- MCBase
  History <- MCHistory
  Prices <- MCPrices
  Cases <- MCCases
  Scenarios <- MCScenarios
  LimitConfigs <- MCLimitConfigs
SPECIFICATION Spec
INVARIANTS
  TypeOK
  SignaturesLimited
  
  
  
  QuoteSuffices
PROPERTY ImplementsGate
SYMMETRY Symmetry
