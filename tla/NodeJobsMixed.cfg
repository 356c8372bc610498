\* Two jobs, and an agent that is blocked or incompatible at times and may be stopped.
CONSTANTS
  n1 = n1
  a1 = a1
  a2 = a2
  k1 = k1
  Nodes = {n1}
  Agents = {a1}
  NodeOf <- MCNodeOf
  Operations <- MCOperations
  Keys = {k1}
  NoKey = NoKey
  Profiles = {"ready", "blocked", "incompatible"}
  Stoppable = {a1}
  MaxJobs = 2
  MaxAttempts = 1
  MaxRegistrations = 1
  MaxLate = 0
SPECIFICATION Spec
INVARIANTS
  HolderKeepsRenewing
CHECK_DEADLOCK FALSE
