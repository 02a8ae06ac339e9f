\* Two commands, two polls of agents that keep polling; one finished command is kept,
\* the others may be evicted.
SPECIFICATION FairSpec
CONSTANTS
  Cmds = {c1, c2}
  Polls = {p1, p2}
  MaxHistory = 2
  MaxStored = 1
  MaxCallers = 2
INVARIANTS
  ReportCountsOnce
  OneVerdict
PROPERTIES
  FirstInFirstOut
  QueuePromiseKept
  Delivered
