\* Two metrics, a report and one that was given up, a queue of one, three
\* changes of a sample, two faults.
SPECIFICATION FairAlertSpec
CONSTANTS
  Count = 2
  Requests = {1, 2}
  AlertCap = 1
  MaxFlips = 3
  MaxFaults = 2
INVARIANTS
  AnnouncedOnce
  AlertPerRise
PROPERTIES
  RowsFollow
  Announced
CHECK_DEADLOCK FALSE
