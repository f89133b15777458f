SPECIFICATION Spec

CONSTANTS
  PublicKeys <- MCPublicKeys
  Nowhere = "nowhere"
  Keys <- MCKeys
  Values <- MCValues
  Absent = "absent"
  Readers = {"admin", "tracker", "request"}
  Admin = "admin"
  Tracker = "tracker"
  Request = "request"
  TTL = 3
  MaxDelay = 1
  CounterSize = 4
  WeightSize = 8
  MaxDraws = 8
  Scenarios <- MCScenarios

INVARIANTS
  TypeOK
  AnswersRecent
  RoundRobinFair
  
