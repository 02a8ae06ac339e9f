\* Two approvals, two callers, a queue of one, two attempts, two phones in turn.
SPECIFICATION FairSpec
CONSTANTS
  Ids = {i1, i2}
  Callers = {c1, c2}
  QueueCap = 1
  MaxAttempts = 2
  MaxPairs = 2
  MaxKeys = 2
INVARIANTS
  AcceptedOnce
  LeftAlone
PROPERTIES
  MarksResolve
CHECK_DEADLOCK FALSE
