\* Two faults, one request of the consent thread.
SPECIFICATION FairSpec
CONSTANTS
  MaxFaults = 2
  MaxCalls = 1
  MaxTokens = 9
PROPERTIES
  NeverSilentlyReplaced
  HostComesBack
  RevokedFades
CHECK_DEADLOCK FALSE
