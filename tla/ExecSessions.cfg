\* One session, polled by a client, and one run call, through two restarts.
CONSTANTS
  s1 = s1
  s2 = s2
  c1 = c1
  Sessions = {s1}
  Calls = {c1}
  Pids = {1, 2}
  NoSession = NoSession
  MaxBuffered = 1
  MaxKept = 1
  TreeKill = TRUE
  MaxRecords = 2
  MaxRestarts = 2
SPECIFICATION Spec
INVARIANTS TypeOK NothingMissed
PROPERTY EndedStaysEnded
CHECK_DEADLOCK FALSE
