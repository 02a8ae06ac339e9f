\* One relay that reconnects.
SPECIFICATION Spec
CONSTANTS
  Projects = {A}
  Relays = {A}
  RelayProject <- MCRelayProject
  PhoneConns = {p1}
  RelayConns = {r1, r2}
  Msgs = {m1}
  PendingMax = 1
  SlowRelays = FALSE
  MaxSessions = 2
  MaxJoins = 2
PROPERTY MembershipIsOwn
CHECK_DEADLOCK FALSE
