---------------------------- MODULE ContextKeeper ---------------------------
(***************************************************************************)
(* The context keeper (src/agent/skills/core/ck): commands that keep a     *)
(* memory of every project in files under ~/.claude/ck, and the hook that  *)
(* runs when a conversation starts.                                        *)
(*                                                                         *)
(* Each command is a process of its own.  It reads the registry            *)
(* (projects.json), works on one project directory, and writes whole files *)
(* one after the other, without locks: commands of several conversations   *)
(* may overlap, and one may die, or fail, between two writes or within     *)
(* one.  A file that is torn, or just being written, reads as missing      *)
(* (readJson).                                                             *)
(*                                                                         *)
(* Abstracted: the texts of a session are its author, dates are left out,  *)
(* so is what init.mjs guesses about a project before the user confirms.   *)
(***************************************************************************)
EXTENDS Integers, Sequences, FiniteSets

CONSTANTS
  Paths,          \* project directories, the keys of projects.json
  Dirs,           \* names of directories under contexts/
  Root,           \* the empty name, of contexts/ itself
  Names,          \* project names
  Candidates,     \* name -> the directories it is tried under: name, name-2, ...
  Conversations,  \* conversations, by session ID
  Commands,       \* processes that run a command
  LegacyIndex,    \* projects.json as version 1 left it
  LegacyPath,     \* the path that meta.json of version 1 names, if any
  LegacyBlocks,   \* the number of sessions a CONTEXT.md of version 1 tells of
  NoDir, NoPath, Nobody,
  MaxMinted,      \* bound: IDs drawn by shortId
  MaxCommands,    \* bound: commands that begin
  MaxOverlaps,    \* bound: commands that begin before one may not overlap any more
  MaxDeaths       \* bound: commands that die or fail

ASSUME KeeperAssumption ==
  /\ Candidates \in [Names -> Seq(Dirs)]
  /\ LegacyBlocks \in Nat \ {0} /\ LegacyIndex \in [Paths -> Dirs \cup {NoDir}]
  /\ LegacyPath \in [Dirs -> Paths \cup {NoPath}]
  /\ \A p, q \in Paths : p # q /\ LegacyIndex[p] = LegacyIndex[q] => LegacyIndex[p] = NoDir
  /\ NoDir \notin Dirs /\ NoPath \notin Paths
  /\ Nobody \notin Conversations /\ Conversations \cap Nat = {}
  /\ MaxMinted \in Nat /\ MaxCommands \in Nat /\ MaxOverlaps \in Nat /\ MaxDeaths \in Nat

VARIABLES
  projects,    \* projects.json: the context directory of each path
  context,     \* <dir>/context.json
  view,        \* <dir>/CONTEXT.md
  meta,        \* <dir>/meta.json, of version 1, and its backup
  current,     \* current-session.json: the conversation that started last
  memory,      \* the native memory: sessions by path
  cmd,         \* the running commands
  talk,        \* conversations: where, and what the hook told them
  minted,      \* the number of IDs drawn by shortId
  overlapped,  \* history: two processes have run at a time
  cut,         \* history: directories that a command left half written or removed
  old,         \* history: entries of memory from before a project was registered
  begun,       \* history: commands that began
  deaths       \* history: commands that died or failed

files == <<projects, context, view, meta, current, memory>>
vars == <<files, cmd, talk, minted, overlapped, cut, old, begun, deaths>>

Index == [Paths -> Dirs \cup {NoDir}]
EmptyIndex == [p \in Paths |-> NoDir]
Ids == Conversations \cup Nat
Session == [id: Ids, by: Conversations \cup {Nobody}]

NoContext == [v |-> 0, path |-> NoPath, sessions |-> <<>>]
Context == [v: {0, 2}, path: Paths \cup {NoPath}, sessions: Seq(Session)]

(* CONTEXT.md: version 1 is written by hand and holds blocks of sessions. *)
View == [v: 0..2, path: Paths \cup {NoPath}, sessions: Seq(Session), blocks: Nat]
NoView == [v |-> 0, path |-> NoPath, sessions |-> <<>>, blocks |-> 0]
LegacyView == [v |-> 1, path |-> NoPath, sessions |-> <<>>, blocks |-> LegacyBlocks]

(* renderContextMd: the latest session, the decisions of all, the history. *)
Rendered(ctx) == [v |-> 2, path |-> ctx.path, sessions |-> ctx.sessions, blocks |-> 1]

NoCommand ==
  [op |-> "none", pc |-> "idle", by |-> Nobody, path |-> NoPath, dir |-> NoDir, id |-> 0,
   index |-> EmptyIndex, context |-> NoContext, todo |-> {}, dirty |-> FALSE]

Command ==
  [op: {"none", "init", "save", "forget", "migrate"},
   pc: {"idle", "load", "context", "view", "index", "memory", "remove", "reread", "scan", "backup"},
   by: Conversations \cup {Nobody}, path: Paths \cup {NoPath}, dir: Dirs \cup {NoDir}, id: Ids,
   index: Index, context: Context, todo: SUBSET Paths, dirty: BOOLEAN]

TypeOK ==
  /\ projects \in Index
  /\ context \in [Dirs -> Context]
  /\ view \in [Dirs -> View]
  /\ meta \in [Dirs -> {"none", "file", "backup"}]
  /\ current \in Conversations \cup {Nobody}
  /\ memory \in SUBSET (Paths \X Ids) /\ old \in SUBSET memory
  /\ cmd \in [Commands -> Command]
  /\ talk \in [Conversations -> [path: Paths \cup {NoPath}, saved: BOOLEAN,
                               warned: Conversations \cup {Nobody}]]
  /\ minted \in 0..(MaxMinted + LegacyBlocks) /\ begun \in 0..MaxCommands /\ deaths \in 0..MaxDeaths
  /\ overlapped \in BOOLEAN /\ cut \in SUBSET Dirs

IsLegacy(d) == \E p \in Paths : LegacyIndex[p] = d

Init ==
  /\ projects = LegacyIndex
  /\ context = [d \in Dirs |-> NoContext]
  /\ view = [d \in Dirs |-> IF IsLegacy(d) THEN LegacyView ELSE NoView]
  /\ meta = [d \in Dirs |-> IF IsLegacy(d) THEN "file" ELSE "none"]
  /\ current = Nobody /\ memory = {} /\ old = {}
  /\ cmd = [c \in Commands |-> NoCommand]
  /\ talk = [t \in Conversations |-> [path |-> NoPath, saved |-> FALSE, warned |-> Nobody]]
  /\ minted = 0 /\ begun = 0 /\ deaths = 0 /\ overlapped = FALSE /\ cut = {}
-----------------------------------------------------------------------------
(* Reading.  writeFileSync truncates first: who reads meanwhile finds      *)
(* nothing.                                                                *)

Writing(pc, d) == \E c \in Commands : cmd[c].pc = pc /\ (pc = "context" => cmd[c].dir = d)

(* readProjects *)
IndexSeen == {projects} \cup (IF Writing("index", NoDir) THEN {EmptyIndex} ELSE {})

(* loadContext *)
ContextSeen(d) == {context[d]} \cup (IF Writing("context", d) THEN {NoContext} ELSE {})

SessionIds(ctx) == {ctx.sessions[i].id : i \in DOMAIN ctx.sessions}

Busy == \E c \in Commands : cmd[c].pc # "idle"

Begins(c) ==
  /\ cmd[c].pc = "idle" /\ begun' = begun + 1
  /\ begun < MaxCommands /\ (Busy => begun < MaxOverlaps)
  /\ overlapped' = (overlapped \/ Busy)

With(c, rec) == cmd' = [cmd EXCEPT ![c] = rec]
Goes(c, pc) == With(c, [cmd[c] EXCEPT !.pc = pc])
Ends(c) == With(c, NoCommand)

(* A context was saved: migrate counts it, and looks at the next. *)
AfterView(c) ==
  With(c, [cmd[c] EXCEPT !.pc = IF cmd[c].op = "migrate" THEN "scan" ELSE "index",
            !.dirty = (cmd[c].op = "migrate")])

Starts == UNCHANGED <<files, talk, minted, cut, old, deaths>>
-----------------------------------------------------------------------------
(* save --init: registers a project, or registers it again.                *)

Bug_FreeIfNew(index, p, d) == index[p] = NoDir \/ d \notin {index[q] : q \in Paths} \/ index[p] = d

(* The dedup loop of save --init ends at d. *)
Free(index, p, d) == d \notin {index[q] : q \in Paths} \/ index[p] = d

BeginInit(c, p, n) ==
  /\ Begins(c)
  /\ \E index \in IndexSeen, i \in DOMAIN Candidates[n] :
       LET d == Candidates[n][i] IN
       /\ Free(index, p, d)
       /\ \A j \in 1..(i - 1) : ~Free(index, p, Candidates[n][j])
       /\ With(c, [NoCommand EXCEPT !.op = "init", !.pc = "context", !.path = p, !.dir = d,
                    !.index = [index EXCEPT ![p] = d],
                    !.context = [v |-> 2, path |-> p, sessions |-> <<>>]])
  /\ Starts

(* save, in the directory of the conversation t. *)
BeginSave(c, t) ==
  /\ talk[t].path # NoPath /\ Begins(c)
  /\ \E index \in IndexSeen :
       /\ index[talk[t].path] # NoDir
       /\ With(c, [NoCommand EXCEPT !.op = "save", !.pc = "load", !.by = t, !.path = talk[t].path,
                    !.dir = index[talk[t].path], !.index = index])
  /\ Starts

(* forget: by the directory it runs in, or any project by number or name.  *)
BeginForget(c, p) ==
  /\ Begins(c)
  /\ \E index \in IndexSeen :
       /\ index[p] # NoDir
       /\ With(c, [NoCommand EXCEPT !.op = "forget", !.pc = "load", !.path = p, !.dir = index[p]])
  /\ Starts

BeginMigrate(c) ==
  /\ Begins(c)
  /\ \E index \in IndexSeen :
       With(c, [NoCommand EXCEPT !.op = "migrate", !.pc = "scan", !.index = index,
                 !.todo = {p \in Paths : index[p] # NoDir}])
  /\ Starts
-----------------------------------------------------------------------------
Runs == UNCHANGED <<overlapped, begun, deaths>>
Reads == Runs /\ UNCHANGED <<files, talk, cut, old>>

Bug_AlwaysAppend(sessions, e) == Append(sessions, e)

(* A session that is saved again replaces its entry. *)
Recorded(sessions, e) ==
  IF \E i \in DOMAIN sessions : sessions[i].id = e.id
    THEN [i \in DOMAIN sessions |-> IF sessions[i].id = e.id THEN e ELSE sessions[i]]
    ELSE Append(sessions, e)

Bug_OwnId(n) == n + 1

(* The ID a save records: that of the conversation that started last. *)
SessionId(n) == IF current # Nobody THEN current ELSE n + 1

LoadToSave(c) ==
  /\ cmd[c].op = "save" /\ cmd[c].pc = "load"
  /\ \E seen \in ContextSeen(cmd[c].dir) :
       \/ seen.v = 0 /\ Ends(c) /\ UNCHANGED minted
       \/ LET id == SessionId(minted) IN
          /\ seen.v = 2 /\ (id \in Nat => minted < MaxMinted)
          /\ minted' = IF id \in Nat THEN id ELSE minted
          /\ With(c, [cmd[c] EXCEPT !.pc = "context", !.id = id,
                       !.context = [seen EXCEPT !.sessions =
                                      Recorded(seen.sessions, [id |-> id, by |-> cmd[c].by])]])
  /\ Reads

LoadToForget(c) ==
  /\ cmd[c].op = "forget" /\ cmd[c].pc = "load"
  /\ \E seen \in ContextSeen(cmd[c].dir) : IF seen.v = 0 THEN Ends(c) ELSE Goes(c, "remove")
  /\ Reads /\ UNCHANGED minted

Bug_MigrateAgain(ctx) == ctx.v = 0 \/ Len(ctx.sessions) > 0

(* migrate takes a directory whose context.json is not of version 2. *)
NeedsMigration(ctx) == ctx.v = 0

(* The sessions migrate reads from CONTEXT.md, a block or several, under   *)
(* the path that meta.json names, or else the registry.                    *)
Migrated(p, d) ==
  LET blocks == IF view[d].v = 1 THEN view[d].blocks ELSE 1 IN
  [v |-> 2, path |-> IF meta[d] = "file" /\ LegacyPath[d] # NoPath THEN LegacyPath[d] ELSE p,
   sessions |-> [i \in 1..blocks |-> [id |-> minted + i, by |-> Nobody]]]

Scan(c) ==
  /\ cmd[c].pc = "scan"
  /\ \/ /\ cmd[c].todo = {} /\ (IF cmd[c].dirty THEN Goes(c, "index") ELSE Ends(c))
        /\ UNCHANGED minted
     \/ \E p \in cmd[c].todo :
          LET d == cmd[c].index[p]
              rest == [cmd[c] EXCEPT !.todo = @ \ {p}]
          IN \E seen \in ContextSeen(d) :
               \/ ~NeedsMigration(seen) /\ With(c, rest) /\ UNCHANGED minted
               \/ /\ NeedsMigration(seen) /\ minted < MaxMinted
                  /\ With(c, [rest EXCEPT !.pc = "backup", !.path = p, !.dir = d, !.context = Migrated(p, d)])
                  /\ minted' = minted + Len(Migrated(p, d).sessions)
  /\ Reads

Backup(c) ==
  /\ cmd[c].pc = "backup" /\ Goes(c, "context")
  /\ meta' = [meta EXCEPT ![cmd[c].dir] = IF @ = "file" THEN "backup" ELSE @]
  /\ Runs /\ UNCHANGED <<projects, context, view, current, memory, talk, minted, cut, old>>
-----------------------------------------------------------------------------
(* Writing.                                                                *)

(* What was saved for path p is no longer expected to be there. *)
Resets(p) ==
  /\ old' = old \cup {m \in memory : m[1] = p}
  /\ talk' = [t \in Conversations |-> IF talk[t].path = p THEN [talk[t] EXCEPT !.saved = FALSE]
                                                           ELSE talk[t]]

(* saveContext writes context.json, *)
WriteContext(c) ==
  /\ cmd[c].pc = "context" /\ Goes(c, "view")
  /\ context' = [context EXCEPT ![cmd[c].dir] = cmd[c].context]
  /\ IF cmd[c].op = "init" \/ (cmd[c].op = "migrate" /\ cmd[c].dir \in cut)
       THEN Resets(cmd[c].path) ELSE UNCHANGED <<old, talk>>
  /\ Runs /\ UNCHANGED <<projects, view, meta, current, memory, minted, cut>>

Bug_ViewOfInitOnly(c) ==
  /\ cmd[c].pc = "view"
  /\ AfterView(c)
  /\ view' = IF cmd[c].op = "save" THEN view
              ELSE [view EXCEPT ![cmd[c].dir] = Rendered(cmd[c].context)]
  /\ cut' = cut \ {cmd[c].dir}
  /\ Runs /\ UNCHANGED <<projects, context, meta, current, memory, talk, minted, old>>

(* then CONTEXT.md. *)
WriteView(c) ==
  /\ cmd[c].pc = "view"
  /\ AfterView(c)
  /\ view' = [view EXCEPT ![cmd[c].dir] = Rendered(cmd[c].context)]
  /\ cut' = cut \ {cmd[c].dir}
  /\ Runs /\ UNCHANGED <<projects, context, meta, current, memory, talk, minted, old>>

(* writeProjects, of the registry read at the start (forget: read again). *)
WriteIndex(c) ==
  /\ cmd[c].pc = "index"
  /\ IF cmd[c].op = "save" THEN Goes(c, "memory") ELSE Ends(c)
  /\ projects' = cmd[c].index
  /\ Runs /\ UNCHANGED <<context, view, meta, current, memory, talk, minted, cut, old>>

(* The last step of save; a failure here is only reported. *)
WriteMemory(c) ==
  /\ cmd[c].pc = "memory" /\ Ends(c)
  /\ LET m == <<cmd[c].path, cmd[c].id>> IN
     \/ memory' = memory \cup {m} /\ old' = old \ {m}
     \/ UNCHANGED <<memory, old>>
  /\ talk' = [talk EXCEPT ![cmd[c].by].saved = TRUE]
  /\ Runs /\ UNCHANGED <<projects, context, view, meta, current, minted, cut>>

(* rmSync of the project's directory: of all directories, if its name is empty. *)
Below(d) == IF d = Root THEN Dirs ELSE {d}

Removes(gone, what) ==
  /\ context' = IF "context" \in what THEN [d \in Dirs |-> IF d \in gone THEN NoContext ELSE context[d]]
                                      ELSE context
  /\ view' = IF "view" \in what THEN [d \in Dirs |-> IF d \in gone THEN NoView ELSE view[d]] ELSE view
  /\ meta' = IF "meta" \in what THEN [d \in Dirs |-> IF d \in gone THEN "none" ELSE meta[d]] ELSE meta

Remove(c) ==
  /\ cmd[c].pc = "remove" /\ Goes(c, "reread")
  /\ Removes(Below(cmd[c].dir), {"context", "view", "meta"}) /\ Resets(cmd[c].path)
  /\ Runs /\ UNCHANGED <<projects, current, memory, minted, cut>>

(* It fails, or the command dies in it: some files are gone, and the       *)
(* project stays registered.                                               *)
RemovePartly(c) ==
  /\ cmd[c].pc = "remove" /\ Ends(c) /\ deaths < MaxDeaths /\ deaths' = deaths + 1
  /\ \E what \in SUBSET {"context", "view", "meta"} :
       /\ Removes(Below(cmd[c].dir), what)
       /\ IF "context" \in what THEN Resets(cmd[c].path) ELSE UNCHANGED <<old, talk>>
  /\ cut' = cut \cup Below(cmd[c].dir)
  /\ UNCHANGED <<projects, current, memory, minted, overlapped, begun>>

Reread(c) ==
  /\ cmd[c].pc = "reread"
  /\ \E index \in IndexSeen :
       With(c, [cmd[c] EXCEPT !.pc = "index", !.index = [index EXCEPT ![cmd[c].path] = NoDir]])
  /\ Reads /\ UNCHANGED minted

(* A project that fails to migrate is reported, and the next one is next. *)
GoesOn(c) == cmd[c].op = "migrate" /\ cmd[c].pc \in {"backup", "context", "view"} /\ Goes(c, "scan")

(* A command dies before its next write, or within it, or the write fails. *)
Die(c) ==
  LET dir == cmd[c].dir IN
  /\ cmd[c].pc # "idle" /\ deaths < MaxDeaths /\ deaths' = deaths + 1
  /\ Ends(c) \/ GoesOn(c)
  /\ \/ /\ UNCHANGED <<projects, context, view>>
        /\ cut' = IF cmd[c].pc = "view" \/ (cmd[c].op = "forget" /\ cmd[c].pc \in {"reread", "index"})
                    THEN cut \cup {dir} ELSE cut
     \/ /\ cmd[c].pc = "context" /\ context' = [context EXCEPT ![dir] = NoContext]
        /\ cut' = cut \cup {dir} /\ UNCHANGED <<projects, view>>
     \/ /\ cmd[c].pc = "view" /\ view' = [view EXCEPT ![dir] = NoView]
        /\ cut' = cut \cup {dir} /\ UNCHANGED <<projects, context>>
     \/ cmd[c].pc = "index" /\ projects' = EmptyIndex /\ UNCHANGED <<context, view, cut>>
  /\ UNCHANGED <<meta, current, memory, talk, minted, overlapped, begun, old>>
-----------------------------------------------------------------------------
(* session-start: conversation t starts in directory p, once.  The hook    *)
(* may fail to write, or write that the conversation has no ID.            *)

(* Whom the hook takes for the previous conversation: it reads before it writes. *)
Previous(t) == current

Unsaved(t, p) ==
  LET d == projects[p] IN
  /\ d \notin {NoDir, Root} /\ context[d].v = 2
  /\ Previous(t) \notin {Nobody, t}
  /\ Previous(t) \notin SessionIds(context[d])

StartConversation(t, p) ==
  /\ talk[t].path = NoPath
  /\ current' \in {current, t, Nobody}
  /\ talk' = [talk EXCEPT ![t] = [path |-> p, saved |-> FALSE,
                               warned |-> IF Unsaved(t, p) THEN Previous(t) ELSE Nobody]]
  /\ overlapped' = (overlapped \/ Busy)
  /\ UNCHANGED <<projects, context, view, meta, memory, cmd, minted, cut, old, begun, deaths>>
-----------------------------------------------------------------------------
CommandStep(c) ==
  \/ \E p \in Paths : (\E n \in Names : BeginInit(c, p, n)) \/ BeginForget(c, p)
  \/ \E t \in Conversations : BeginSave(c, t)
  \/ BeginMigrate(c) \/ LoadToSave(c) \/ LoadToForget(c) \/ Scan(c) \/ Backup(c)
  \/ WriteContext(c) \/ WriteView(c) \/ WriteIndex(c) \/ WriteMemory(c)
  \/ Remove(c) \/ RemovePartly(c) \/ Reread(c) \/ Die(c)

Next ==
  \/ \E c \in Commands : CommandStep(c)
  \/ \E t \in Conversations, p \in Paths : StartConversation(t, p)

Spec == Init /\ [][Next]_vars
-----------------------------------------------------------------------------
(* Properties.                                                             *)

Unique(index) == \A p, q \in Paths : p # q /\ index[p] = index[q] => index[p] = NoDir

(* No two registered projects share a context directory, not even when     *)
(* commands overlap, overwrite each other's registry or leave it torn: a   *)
(* save of one project would go to the other (the dedup loop of save       *)
(* --init, against the one registry it read).                              *)
UniqueDirs == Unique(projects)

(* A context never holds two entries of one session, whatever saves and    *)
(* migrations overlap (the duplicate check of save).                       *)
OneEntryPerSession ==
  \A d \in Dirs : \A i, j \in DOMAIN context[d].sessions :
    context[d].sessions[i].id = context[d].sessions[j].id => i = j

(* A context of project p in d tells its path, or that of version 1.       *)
Own(p, d) == {p, LegacyPath[d]}

(* As long as commands do not overlap: a registered project has a          *)
(* context.json of its own, and CONTEXT.md is its rendering (or both wait  *)
(* for migrate).  A directory in which a command died or failed may have   *)
(* lost its CONTEXT.md; its context.json only if the command was within    *)
(* the plain write of it, or was forgetting the project (the order of the  *)
(* writes of save, --init, migrate and forget).                            *)
RegisteredIsReadable ==
  ~overlapped =>
    \A p \in Paths :
      LET d == projects[p] IN
      d # NoDir /\ (\A c \in Commands : cmd[c].dir # d) =>
        \/ context[d].v = 2 /\ context[d].path \in Own(p, d) /\ (d \in cut \/ view[d] = Rendered(context[d]))
        \/ context[d].v = 0 /\ (d \in cut \/ view[d].v = 1)

(* As long as commands do not overlap: a session that went to the native   *)
(* memory stays in the context of its project until the project is         *)
(* forgotten or registered again, also where commands died or failed       *)
(* between their writes, or within that of CONTEXT.md (save, migrate,      *)
(* forget and the dedup loop of others must leave it there, and a save     *)
(* must find its directory).  A command that dies within the plain write   *)
(* of context.json (shared.mjs:64) does lose all sessions of its           *)
(* directory: the context is then missing, and what migrate makes of it    *)
(* later begins anew.                                                      *)
SavedIsKept ==
  ~overlapped =>
    \A m \in memory \ old :
      LET d == projects[m[1]] IN
      d # NoDir => m[2] \in SessionIds(context[d]) \/ (d \in cut /\ context[d].v = 0)

(* The hook reports no conversation as unsaved that started last, in the   *)
(* same project, and has saved since (current-session.json links the hook of  *)
(* one conversation, its save, and the hook of the next).                  *)
NoFalseAlarm ==
  [][\A t, u \in Conversations :
       ~overlapped' /\ talk'[t].warned = u /\ talk[t].warned # u
         => ~(talk[u].saved /\ talk[u].path = talk'[t].path)]_vars
=============================================================================
