\* One mission of one step with two attempts; two things users, clients or faults do besides.
CONSTANTS
  MaxRemediation = 2
  MaxWork = 9
  MaxEvidence = 2
  MaxUser = 2
  NoList = NoList
  supervisor = supervisor
  user = user
  Supervisor = supervisor
  Callers = {supervisor, user}
SPECIFICATION Spec
INVARIANT WorkBounded
PROPERTY FailureSettles
CHECK_DEADLOCK FALSE
