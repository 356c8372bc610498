\* Two projects, one left by version 1; two conversations, two commands at a time.
CONSTANTS
  p1 = p1
  p2 = p2
  n1 = n1
  d1 = d1
  d2 = d2
  t1 = t1
  t2 = t2
  c1 = c1
  c2 = c2
  Paths = {p1, p2}
  Dirs = {d1, d2}
  Root = Root
  Names = {n1}
  Candidates <- MCCandidates
  Conversations = {t1, t2}
  Commands = {c1, c2}
  LegacyIndex <- MCLegacyIndex
  LegacyPath <- MCLegacyPath
  LegacyBlocks = 2
  NoDir = NoDir
  NoPath = NoPath
  Nobody = Nobody
  MaxMinted = 1
  MaxCommands = 4
  MaxOverlaps = 3
  MaxDeaths = 2
SYMMETRY KeeperSymmetry
SPECIFICATION Spec
INVARIANTS
  UniqueDirs
  OneEntryPerSession
  RegisteredIsReadable
  SavedIsKept
PROPERTY NoFalseAlarm
CHECK_DEADLOCK FALSE
