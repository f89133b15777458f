SPECIFICATION Spec
CONSTANTS
  rex = rex
  nova = nova
  Agents = {rex, nova}
  AGENT_OFFSETS <- MCOffsets
  CYCLE_INTERVAL = 4
  COOLDOWN = 2
  MaxLate = 1
  MaxInFlight = 2
INVARIANTS
  TypeOK
  OneScheduleEach
  ScheduledSpacing
  ForcedSpacing
  StartRateBounded
PROPERTIES
  KeepsCycling
  PausedQuiesces
