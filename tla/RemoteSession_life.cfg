\* One session, the phone polling it two polls at a time, a handler of another caller, one
\* reconnection.
SPECIFICATION FairSpec
CONSTANTS
  Sessions = {s1}
  MaxRev = 4
  MaxRequests = 1
  MaxPolls = 2
  MaxLag = 1
INVARIANTS
  ApprovalGate
  GrantMatchesConsent
PROPERTIES
  LifecycleSpec
  NoTimedStateHangs
  PageLearnsTheEnd
  PageNeverGoesBack
