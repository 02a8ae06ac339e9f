\* One session left waiting for a host that comes back too late.
SPECIFICATION Spec
CONSTANTS
  Sessions = {s1}
  MaxRev = 3
  MaxRequests = 1
  MaxPolls = 0
  MaxLag = 0
PROPERTY ExpiredNeverPromoted
