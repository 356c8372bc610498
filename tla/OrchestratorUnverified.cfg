\* The same, with less of everything.
CONSTANTS
  MaxRemediation = 2
  MaxWork = 3
  MaxEvidence = 2
  MaxUser = 1
  NoList = NoList
  supervisor = supervisor
  user = user
  Supervisor = supervisor
  Callers = {supervisor}
SPECIFICATION Spec
INVARIANT NoInventedSuccess
CHECK_DEADLOCK FALSE
