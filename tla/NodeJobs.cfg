\* Two agent processes of one node, one job, leases and credentials that rotate.
CONSTANTS
  n1 = n1
  a1 = a1
  a2 = a2
  k1 = k1
  Nodes = {n1}
  Agents = {a1, a2}
  NodeOf <- MCNodeOf
  Operations <- MCOperations
  Keys = {}
  NoKey = NoKey
  Profiles = {"ready"}
  Stoppable = {}
  MaxJobs = 1
  MaxAttempts = 2
  MaxRegistrations = 2
  MaxLate = 1
SYMMETRY AgentSymmetry
SPECIFICATION Spec
INVARIANTS
  TypeOK
  ManualNotReplayed
  NoConcurrentSideEffects
  ResultOfLastAttempt
  OneHolderPerLease
PROPERTIES
  StaleHolderIsRefused
  ImplementsLedger
CHECK_DEADLOCK FALSE
