\* Two flows, two starts under way, two browsers, two providers.
SPECIFICATION FairSpec
CONSTANTS
  Providers = {github, gitee}
  Attempts = {1, 2}
  MaxFlows = 2
  MaxCallbacks = 2
INVARIANTS
  ReturnedOnce
PROPERTIES
  AttemptEnds
CHECK_DEADLOCK FALSE
