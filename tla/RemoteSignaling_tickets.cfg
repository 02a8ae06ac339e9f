\* One session, two connections of the phone and one of the host; two of them fit, one
\* per address.
SPECIFICATION FairSpec
CONSTANTS
  p1 = p1
  p2 = p2
  h1 = h1
  a1 = a1
  a2 = a2
  Sessions = {s1}
  PhoneConns = {p1, p2}
  HostConns = {h1}
  Addrs = {a1, a2}
  AddrOf <- MCAddrOf
  MaxConns = 2
  MaxPerAddr = 1
  MaxRev = 5
  MaxTickets = 2
INVARIANTS
  TicketsOnce
  SignalsStayInTheirNegotiation
  SlotsReturned
PROPERTIES
  LossIsNoticed
