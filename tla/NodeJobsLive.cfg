\* One agent process that may crash, be stopped and restart; fair scheduling.
CONSTANTS
  n1 = n1
  a1 = a1
  a2 = a2
  k1 = k1
  Nodes = {n1}
  Agents = {a1}
  NodeOf <- MCNodeOf
  Operations <- MCOperations
  Keys = {}
  NoKey = NoKey
  Profiles = {"ready"}
  Stoppable = {a1}
  MaxJobs = 1
  MaxAttempts = 3
  MaxRegistrations = 1
  MaxLate = 1
SPECIFICATION FairSpec
PROPERTY EveryJobMovesOn
CHECK_DEADLOCK FALSE
