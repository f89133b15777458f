SPECIFICATION Spec
CONSTANTS
  Callers = {cycle}
  Polls = {p1, p2}
  CACHE_TTL_MS = 3
  POLL_INTERVAL_MS = 3
  FETCH_TIMEOUT_MS = 1
  maxAttempts = 3
  MaxBody = 2
  MaxAge = 6
INVARIANTS
  TypeOK
  FreshIsRecent
PROPERTIES
  OutageIsSurvived
  FetchEventuallyEnds
  PollKeepsFresh
CHECK_DEADLOCK FALSE
