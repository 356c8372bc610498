\* Two calls of a mission of two steps; two executors of one item.
CONSTANTS
  c1 = c1
  c2 = c2
  w1 = w1
  w2 = w2
  Calls = {c1, c2}
  StepCount = 2
  NeedsApproval = {}
  MaxRemediation = 1
  MaxApprovals = 0
  MaxReopenings = 0
  MaxOvertakes = 1
  Database = FALSE
  Workers = {w1, w2}
  MaxAttempts = 2
  MaxGrants = 3
  MaxFaults = 1
SYMMETRY StoresSymmetry
SPECIFICATION StoresSpec
INVARIANTS
  TypeOK
  CompletedWhenDone
PROPERTY ExpiredLeaseRecovered
CHECK_DEADLOCK FALSE
