\* Each part by itself: command lines of four words; two shared clients and one of
\* OAuth; three processes; two changes in a diagnosis; one skill of three resources,
\* of which one has an outer blank and one begins with two dots;
\* one user, two requests at a time; two workspace calls, two edits of users.
CONSTANTS
  None = None
  MaxWords = 4
  Clients = {c1, c2, c3}
  OAuth = {c3}
  NoBrowser = NoBrowser
  Max_Sessions = 1
  MaxStarts = 3
  MaxRestarts = 1
  Pids = {p1, p2, p3}
  Nobody = Nobody
  Torn = Torn
  MaxCrashes = 1
  MaxChanges = 2
  SkillIds = {s1}
  Entry = Entry
  Resources = {a, blank, dots}
  Trimmed <- MCTrimmed
  Dotted = {dots}
  Plain = a
  Padded = blank
  NoIndex = NoIndex
  MAX_SKILL_RESOURCES = 1
  MaxEdits = 2
  Users = {u1}
  Posts = {q1, q2}
  Runtime = Runtime
  MaxRequests = 3
  Calls = {e1, e2}
  Ops = {"write", "append", "edit", "patch", "bounded", "task", "context", "command", "check", "commit", "deploy", "ensure", "stop"}
  NoFile = NoFile
  MaxCalls = 2
  MaxUserEdits = 2
  MaxTicks = 1
  MaxFaults = 1
SYMMETRY ToolsSymmetry
SPECIFICATION Spec
INVARIANTS
  TypeOK
  LaunchIsRight
  BrowsersAreInReach
  LeaseNamesRuntime
  DiagnosisIsRight
  ListedIsReadable
  
  EditsSurvive
  ContextKept
  CoveredByCheckpoint
CHECK_DEADLOCK FALSE
