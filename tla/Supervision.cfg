\* Two executor processes, the scans of one of which may overlap.
CONSTANTS
  p1 = p1
  p2 = p2
  l1 = l1
  l1b = l1b
  l2 = l2
  Processes = {p1, p2}
  Loops = {l1, l1b, l2}
  ProcessOf <- MCProcessOf
  Nobody = Nobody
  Former = Former
  MaxFaults = 1
  MaxRequests = 1
SPECIFICATION FairSpec
INVARIANT OneSupervisor
PROPERTIES ImplementsLock ActiveIsSupervised
CHECK_DEADLOCK FALSE
