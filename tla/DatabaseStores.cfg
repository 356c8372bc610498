\* Two executors and an API client of one item; one approval-marked step and two
\* calls that overlap, by the names of the executors.
CONSTANTS
  c1 = c1
  c2 = c2
  api = api
  Workers = {c1, c2}
  Clients = {api}
  Database = TRUE
  MaxAttempts = 2
  MaxGrants = 4
  MaxFaults = 2
  StepCount = 1
  NeedsApproval = {1}
  MaxRemediation = 1
  MaxApprovals = 2
  MaxReopenings = 1
  MaxOvertakes = 1
SYMMETRY StoresSymmetry
SPECIFICATION StoresSpec
INVARIANTS
  TypeOK
  ApprovedBeforeRunning
  AttemptBudget
  BoundedAttempts
  ResultOfItsAttempt
CHECK_DEADLOCK FALSE
