\* A phone that joins twice, two projects with a relay each, three connections of
\* relays, channels that may be full; room for one message only.
SPECIFICATION Spec
CONSTANTS
  Projects = {A, B}
  Relays = {A, B}
  RelayProject <- MCRelayProject
  PhoneConns = {p1}
  RelayConns = {r1, r2, r3}
  Msgs = {m1, m2}
  PendingMax = 1
  SlowRelays = TRUE
  MaxSessions = 2
  MaxJoins = 2
SYMMETRY HubSymmetry
INVARIANTS
  RoutesFollowConnections
  NoGhostRelay
  OncePerConnection
  ProjectsApart
\* No step is left once every connection is closed and the bounds are reached.
CHECK_DEADLOCK FALSE
