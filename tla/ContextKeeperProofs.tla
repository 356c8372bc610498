------------------------- MODULE ContextKeeperProofs ------------------------
(***************************************************************************)
(* Proofs about ContextKeeper for any number of projects, conversations,   *)
(* commands at a time and deaths and failures of commands.                 *)
(***************************************************************************)
EXTENDS ContextKeeper, TLAPS

Distinct(sessions) ==
  \A i, j \in DOMAIN sessions : sessions[i].id = sessions[j].id => i = j

(* What a command has read, or is about to write, is as good as the files: *)
(* its copy of the registry gives no directory twice, its draft of a       *)
(* context names no session twice; migrate takes only registered projects. *)
GoodJob(rec) ==
  /\ rec \in Command /\ Unique(rec.index) /\ Distinct(rec.context.sessions)
  /\ rec.pc = "load" => rec.dir \in Dirs
  /\ rec.pc \in {"index", "memory"} \/ \A p \in rec.todo : rec.index[p] # NoDir

GoodFiles ==
  /\ projects \in Index /\ Unique(projects)
  /\ context \in [Dirs -> Context] /\ \A d \in Dirs : Distinct(context[d].sessions)
  /\ view \in [Dirs -> View]
  /\ current \in Conversations \cup {Nobody} /\ minted \in Nat

GoodTalks ==
  talk \in [Conversations -> [path: Paths \cup {NoPath}, saved: BOOLEAN,
                             warned: Conversations \cup {Nobody}]]

IInv ==
  /\ GoodFiles /\ GoodTalks
  /\ cmd \in [Commands -> Command] /\ \A c \in Commands : GoodJob(cmd[c])

LEMMA EmptyIndexIsUnique == EmptyIndex \in Index /\ Unique(EmptyIndex)
  BY DEF EmptyIndex, Index, Unique

LEMMA NoContextIsGood == NoContext \in Context /\ Distinct(NoContext.sessions)
  BY DEF NoContext, Context, Distinct

LEMMA NoCommandIsGood == GoodJob(NoCommand)
  <1>1. NoCommand \in Command
    BY EmptyIndexIsUnique, NoContextIsGood DEF NoCommand, Command, Ids
  <1> QED BY <1>1, EmptyIndexIsUnique, NoContextIsGood DEF GoodJob, NoCommand

LEMMA InitInvariant == Init => IInv
  <1> SUFFICES ASSUME Init PROVE IInv
    OBVIOUS
  <1>1. projects \in Index /\ Unique(projects)
    BY KeeperAssumption DEF Init, Index, Unique
  <1>2. context \in [Dirs -> Context] /\ \A d \in Dirs : Distinct(context[d].sessions)
    BY NoContextIsGood DEF Init
  <1>3. \A c \in Commands : cmd[c] = NoCommand
    BY DEF Init
  <1>5. view \in [Dirs -> View]
    BY KeeperAssumption DEF Init, LegacyView, NoView, View
  <1>4. cmd \in [Commands -> Command]
    BY NoCommandIsGood DEF Init, GoodJob
  <1> QED BY <1>1, <1>2, <1>3, <1>4, <1>5, NoCommandIsGood DEF Init, IInv, GoodFiles, GoodTalks

(* What reading finds. *)
LEMMA SeenIndexIsGood ==
  ASSUME IInv, NEW index \in IndexSeen
  PROVE  index \in Index /\ Unique(index)
  BY EmptyIndexIsUnique DEF IndexSeen, IInv, GoodFiles

LEMMA SeenContextIsGood ==
  ASSUME IInv, NEW d \in Dirs, NEW seen \in ContextSeen(d)
  PROVE  seen \in Context /\ Distinct(seen.sessions)
  BY NoContextIsGood DEF ContextSeen, IInv, GoodFiles

(* A command goes on with a good job, and no file changes. *)
LEMMA JobStep ==
  ASSUME IInv, NEW c \in Commands, NEW rec, GoodJob(rec), With(c, rec)
  PROVE  cmd' \in [Commands -> Command] /\ \A k \in Commands : GoodJob(cmd[k])'
  <1>1. cmd' = [cmd EXCEPT ![c] = rec] /\ rec \in Command
    BY DEF With, GoodJob
  <1>2. cmd' \in [Commands -> Command]
    BY <1>1 DEF IInv
  <1>3. \A k \in Commands : cmd'[k] = cmd[k] \/ cmd'[k] = rec
    BY <1>1 DEF IInv
  <1>4. ASSUME NEW k \in Commands PROVE GoodJob(cmd'[k])
    BY <1>3, GoodJob(rec) DEF IInv
  <1> QED BY <1>2, <1>4 DEF GoodJob, Unique, Distinct

(* The dedup loop: a directory that no other project has. *)
LEMMA Registering ==
  ASSUME NEW index \in Index, Unique(index), NEW p \in Paths, NEW d \in Dirs, Free(index, p, d)
  PROVE  [index EXCEPT ![p] = d] \in Index /\ Unique([index EXCEPT ![p] = d])
  BY KeeperAssumption DEF Index, Unique, Free

LEMMA Unregistering ==
  ASSUME NEW index \in Index, Unique(index), NEW p
  PROVE  [index EXCEPT ![p] = NoDir] \in Index /\ Unique([index EXCEPT ![p] = NoDir])
  BY DEF Index, Unique

(* A save adds its session, or replaces the one entry it has. *)
LEMMA Recording ==
  ASSUME NEW sessions \in Seq(Session), Distinct(sessions), NEW e \in Session
  PROVE  Recorded(sessions, e) \in Seq(Session) /\ Distinct(Recorded(sessions, e))
  <1>1. CASE \E i \in DOMAIN sessions : sessions[i].id = e.id
    <2> DEFINE new == [i \in DOMAIN sessions |-> IF sessions[i].id = e.id THEN e ELSE sessions[i]]
    <2>1. Recorded(sessions, e) = new
      BY <1>1 DEF Recorded
    <2>2. new \in Seq(Session)
      OBVIOUS
    <2>3. \A i \in DOMAIN sessions : new[i].id = sessions[i].id
      OBVIOUS
    <2>4. Distinct(new)
      BY <2>3 DEF Distinct
    <2> QED BY <2>1, <2>2, <2>4
  <1>2. CASE ~\E i \in DOMAIN sessions : sessions[i].id = e.id
    <2>1. Recorded(sessions, e) = Append(sessions, e)
      BY <1>2 DEF Recorded
    <2>2. Distinct(Append(sessions, e))
      BY <1>2 DEF Distinct
    <2> QED BY <2>1, <2>2
  <1> QED BY <1>1, <1>2

LEMMA BeginSteps ==
  ASSUME IInv, NEW c \in Commands
  PROVE  /\ \A p \in Paths, n \in Names : BeginInit(c, p, n) => IInv'
         /\ \A t \in Conversations : BeginSave(c, t) => IInv'
         /\ \A p \in Paths : BeginForget(c, p) => IInv'
         /\ BeginMigrate(c) => IInv'
  <1>1. ASSUME NEW rec, GoodJob(rec), With(c, rec), Starts
        PROVE  IInv'
    BY <1>1, JobStep DEF Starts, files, IInv, GoodFiles, GoodTalks
  <1>2. ASSUME NEW p \in Paths, NEW n \in Names, BeginInit(c, p, n) PROVE IInv'
    <2>1. PICK index \in IndexSeen, i \in DOMAIN Candidates[n] :
            LET d == Candidates[n][i] IN
            /\ Free(index, p, d)
            /\ With(c, [NoCommand EXCEPT !.op = "init", !.pc = "context", !.path = p, !.dir = d,
                         !.index = [index EXCEPT ![p] = d],
                         !.context = [v |-> 2, path |-> p, sessions |-> <<>>]])
      BY <1>2 DEF BeginInit
    <2> DEFINE d == Candidates[n][i]
               ix == [index EXCEPT ![p] = d]
               ctx == [v |-> 2, path |-> p, sessions |-> <<>>]
               rec == [NoCommand EXCEPT !.op = "init", !.pc = "context", !.path = p, !.dir = d,
                        !.index = ix, !.context = ctx]
    <2>2. d \in Dirs
      BY KeeperAssumption
    <2>3. ix \in Index /\ Unique(ix)
      BY <2>1, <2>2, SeenIndexIsGood, Registering
    <2>4. ctx \in Context /\ Distinct(ctx.sessions)
      BY DEF Context, Distinct
    <2>5. With(c, rec)
      BY <2>1
    <2> HIDE DEF d, ix, ctx
    <2>6. rec \in Command /\ rec.index = ix /\ rec.context = ctx /\ rec.todo = {} /\ rec.pc = "context"
      BY <2>2, <2>3, <2>4 DEF NoCommand, Command, Ids
    <2>7. GoodJob(rec)
      BY <2>3, <2>4, <2>6 DEF GoodJob
    <2> QED BY <1>1, <1>2, <2>5, <2>7 DEF BeginInit
  <1>3. ASSUME NEW t \in Conversations, BeginSave(c, t) PROVE IInv'
    <2> DEFINE p == talk[t].path
    <2>1. PICK index \in IndexSeen :
            /\ index[p] # NoDir
            /\ With(c, [NoCommand EXCEPT !.op = "save", !.pc = "load", !.by = t, !.path = p,
                         !.dir = index[p], !.index = index])
      BY <1>3 DEF BeginSave
    <2>2. p \in Paths
      BY <1>3 DEF BeginSave, IInv, GoodTalks
    <2> HIDE DEF p
    <2> DEFINE rec == [NoCommand EXCEPT !.op = "save", !.pc = "load", !.by = t, !.path = p,
                         !.dir = index[p], !.index = index]
    <2>3. index \in Index /\ Unique(index) /\ index[p] \in Dirs
      BY <2>1, <2>2, SeenIndexIsGood DEF Index
    <2>4. rec \in Command /\ rec.index = index /\ rec.context = NoContext /\ rec.todo = {} /\ rec.dir \in Dirs
      BY <2>2, <2>3, NoContextIsGood DEF NoCommand, Command, Ids
    <2>5. GoodJob(rec)
      BY <2>3, <2>4, NoContextIsGood DEF GoodJob
    <2> QED BY <1>1, <1>3, <2>1, <2>5 DEF BeginSave
  <1>4. ASSUME NEW p \in Paths, BeginForget(c, p) PROVE IInv'
    <2>1. PICK index \in IndexSeen :
            /\ index[p] # NoDir
            /\ With(c, [NoCommand EXCEPT !.op = "forget", !.pc = "load", !.path = p, !.dir = index[p]])
      BY <1>4 DEF BeginForget
    <2> DEFINE rec == [NoCommand EXCEPT !.op = "forget", !.pc = "load", !.path = p, !.dir = index[p]]
    <2>2. index[p] \in Dirs
      BY <2>1, SeenIndexIsGood DEF Index
    <2>3. rec \in Command /\ rec.index = EmptyIndex /\ rec.context = NoContext /\ rec.todo = {} /\ rec.dir \in Dirs
      BY <2>2, EmptyIndexIsUnique, NoContextIsGood DEF NoCommand, Command, Ids
    <2>4. GoodJob(rec)
      BY <2>3, EmptyIndexIsUnique, NoContextIsGood DEF GoodJob
    <2> QED BY <1>1, <1>4, <2>1, <2>4 DEF BeginForget
  <1>5. ASSUME BeginMigrate(c) PROVE IInv'
    <2>1. PICK index \in IndexSeen :
            With(c, [NoCommand EXCEPT !.op = "migrate", !.pc = "scan", !.index = index,
                      !.todo = {p \in Paths : index[p] # NoDir}])
      BY <1>5 DEF BeginMigrate
    <2> DEFINE todo == {p \in Paths : index[p] # NoDir}
               rec == [NoCommand EXCEPT !.op = "migrate", !.pc = "scan", !.index = index,
                         !.todo = todo]
    <2>2. todo \in SUBSET Paths /\ index \in Index /\ Unique(index)
      BY SeenIndexIsGood
    <2>3. With(c, rec)
      BY <2>1
    <2> HIDE DEF todo
    <2>4. rec \in Command /\ rec.index = index /\ rec.context = NoContext /\ rec.todo = todo /\ rec.pc = "scan"
      BY <2>2, NoContextIsGood DEF NoCommand, Command, Ids
    <2>5. GoodJob(rec)
      BY <2>2, <2>4, NoContextIsGood DEF GoodJob, todo
    <2> QED BY <1>1, <1>5, <2>3, <2>5 DEF BeginMigrate
  <1> QED BY <1>2, <1>3, <1>4, <1>5

(* Steps that touch no file. *)
LEMMA ReadSteps ==
  ASSUME IInv, NEW c \in Commands,
         LoadToSave(c) \/ LoadToForget(c) \/ Scan(c) \/ Reread(c)
  PROVE  IInv'
  <1>1. ASSUME NEW rec, GoodJob(rec), With(c, rec), Reads, minted' \in Nat
        PROVE  IInv'
    BY <1>1, JobStep DEF Reads, Runs, files, IInv, GoodFiles, GoodTalks
  <1>2. GoodJob(cmd[c]) /\ cmd[c] \in Command
    BY DEF IInv
  <1>3. ASSUME Ends(c), Reads, minted' \in Nat PROVE IInv'
    BY <1>1, <1>3, NoCommandIsGood DEF Ends
  <1>4. minted \in Nat
    BY DEF IInv, GoodFiles
  <1>5. CASE LoadToSave(c)
    <2>1. PICK seen \in ContextSeen(cmd[c].dir) :
            \/ seen.v = 0 /\ Ends(c) /\ UNCHANGED minted
            \/ LET id == SessionId(minted) IN
               /\ seen.v = 2 /\ (id \in Nat => minted < MaxMinted)
               /\ minted' = IF id \in Nat THEN id ELSE minted
               /\ With(c, [cmd[c] EXCEPT !.pc = "context", !.id = id,
                            !.context = [seen EXCEPT !.sessions =
                                           Recorded(seen.sessions, [id |-> id, by |-> cmd[c].by])]])
      BY <1>5 DEF LoadToSave
    <2>2. Reads
      BY <1>5 DEF LoadToSave
    <2>3. CASE seen.v = 0 /\ Ends(c) /\ UNCHANGED minted
      BY <1>3, <1>4, <2>2, <2>3
    <2> DEFINE id == SessionId(minted)
               e == [id |-> id, by |-> cmd[c].by]
               ctx == [seen EXCEPT !.sessions = Recorded(seen.sessions, e)]
               rec == [cmd[c] EXCEPT !.pc = "context", !.id = id, !.context = ctx]
    <2>4. CASE seen.v = 2 /\ minted' = (IF id \in Nat THEN id ELSE minted) /\ With(c, rec)
      <3>1. id \in Ids
        BY <1>4 DEF SessionId, Ids, IInv, GoodFiles
      <3>2. e \in Session
        BY <1>2, <3>1 DEF Session, Command
      <3>3. seen \in Context /\ Distinct(seen.sessions)
        <4>1. cmd[c].dir \in Dirs
          BY <1>2, <1>5 DEF GoodJob, LoadToSave
        <4> QED BY <4>1, SeenContextIsGood
      <3> HIDE DEF e
      <3>4. ctx \in Context /\ Distinct(ctx.sessions)
        BY <3>2, <3>3, Recording DEF Context
      <3> HIDE DEF ctx, id
      <3>5. rec \in Command /\ rec.index = cmd[c].index /\ rec.context = ctx
             /\ rec.todo = cmd[c].todo /\ rec.pc = "context"
        BY <1>2, <3>1, <3>4 DEF Command
      <3>6. GoodJob(rec)
        BY <1>2, <1>5, <3>4, <3>5 DEF GoodJob, LoadToSave
      <3> QED BY <1>1, <1>4, <2>2, <2>4, <3>6
    <2> QED BY <2>1, <2>3, <2>4
  <1>6. CASE LoadToForget(c)
    <2>1. GoodJob([cmd[c] EXCEPT !.pc = "remove"])
      BY <1>2, <1>6 DEF GoodJob, Command, LoadToForget
    <2> QED BY <1>1, <1>3, <1>4, <1>6, <2>1 DEF LoadToForget, Goes
  <1>7. CASE Scan(c)
    <2>1. Reads /\ cmd[c].pc = "scan"
      BY <1>7 DEF Scan
    <2>2. CASE cmd[c].todo = {} /\ (IF cmd[c].dirty THEN Goes(c, "index") ELSE Ends(c)) /\ UNCHANGED minted
      <3>1. GoodJob([cmd[c] EXCEPT !.pc = "index"])
        BY <1>2 DEF GoodJob, Command
      <3> QED BY <1>1, <1>3, <1>4, <2>1, <2>2, <3>1 DEF Goes
    <2>3. ASSUME NEW p \in cmd[c].todo, NEW seen \in ContextSeen(cmd[c].index[p]),
                 \/ ~NeedsMigration(seen) /\ UNCHANGED minted
                    /\ With(c, [cmd[c] EXCEPT !.todo = @ \ {p}])
                 \/ /\ NeedsMigration(seen) /\ minted < MaxMinted
                    /\ With(c, [[cmd[c] EXCEPT !.todo = @ \ {p}] EXCEPT !.pc = "backup", !.path = p,
                                 !.dir = cmd[c].index[p], !.context = Migrated(p, cmd[c].index[p])])
                    /\ minted' = minted + Len(Migrated(p, cmd[c].index[p]).sessions)
          PROVE  IInv'
      <3> DEFINE d == cmd[c].index[p]
                 rest == [cmd[c] EXCEPT !.todo = @ \ {p}]
                 ctx == Migrated(p, d)
                 rec == [rest EXCEPT !.pc = "backup", !.path = p, !.dir = d, !.context = ctx]
      <3>1. d \in Dirs /\ p \in Paths
        BY <1>2, <2>1 DEF GoodJob, Command, Index
      <3>2. rest \in Command /\ rest.index = cmd[c].index /\ rest.context = cmd[c].context
             /\ rest.todo \subseteq cmd[c].todo /\ rest.pc = "scan"
        BY <1>2, <2>1 DEF Command
      <3>3. GoodJob(rest)
        BY <1>2, <2>1, <3>2 DEF GoodJob
      <3>4. ctx \in Context /\ Distinct(ctx.sessions) /\ Len(ctx.sessions) \in Nat
        <4> DEFINE blocks == IF view[d].v = 1 THEN view[d].blocks ELSE 1
                   list == [i \in 1..blocks |-> [id |-> minted + i, by |-> Nobody]]
                   path == IF meta[d] = "file" /\ LegacyPath[d] # NoPath THEN LegacyPath[d] ELSE p
        <4>1. blocks \in Nat
          BY <3>1 DEF IInv, GoodFiles, View
        <4>2. ctx = [v |-> 2, path |-> path, sessions |-> list]
          BY DEF Migrated
        <4>5. path \in Paths
          BY <3>1, KeeperAssumption
        <4> HIDE DEF blocks, path
        <4>3. list \in Seq(Session) /\ Len(list) \in Nat
          BY <1>4, <4>1 DEF Session, Ids
        <4>4. Distinct(list)
          BY <1>4, <4>1 DEF Distinct
        <4> HIDE DEF list
        <4> QED BY <4>2, <4>3, <4>4, <4>5 DEF Context
      <3> HIDE DEF ctx, d, rest
      <3>5. rec \in Command /\ rec.index = rest.index /\ rec.context = ctx
             /\ rec.todo = rest.todo /\ rec.pc = "backup"
        BY <3>1, <3>2, <3>4 DEF Command
      <3>6. GoodJob(rec)
        BY <3>2, <3>3, <3>4, <3>5 DEF GoodJob
      <3>7. (~NeedsMigration(seen) /\ UNCHANGED minted /\ With(c, rest)) \/ (With(c, rec) /\ minted' = minted + Len(ctx.sessions))
        BY <2>3 DEF ctx, d, rest
      <3> QED BY <1>1, <1>4, <2>1, <3>3, <3>4, <3>6, <3>7
    <2> QED BY <1>7, <2>2, <2>3 DEF Scan
  <1>8. CASE Reread(c)
    <2>1. PICK index \in IndexSeen :
            With(c, [cmd[c] EXCEPT !.pc = "index", !.index = [index EXCEPT ![cmd[c].path] = NoDir]])
      BY <1>8 DEF Reread
    <2> DEFINE ix == [index EXCEPT ![cmd[c].path] = NoDir]
               rec == [cmd[c] EXCEPT !.pc = "index", !.index = ix]
    <2>2. ix \in Index /\ Unique(ix)
      BY SeenIndexIsGood, Unregistering
    <2>3. With(c, rec)
      BY <2>1
    <2> HIDE DEF ix
    <2>4. rec \in Command /\ rec.index = ix /\ rec.context = cmd[c].context /\ rec.pc = "index"
      BY <1>2, <2>2 DEF Command
    <2>5. GoodJob(rec)
      BY <1>2, <2>2, <2>4 DEF GoodJob
    <2> QED BY <1>1, <1>4, <1>8, <2>3, <2>5 DEF Reread
  <1> QED BY <1>5, <1>6, <1>7, <1>8

(* A command that goes on from pc to next keeps a good job. *)
LEMMA Going ==
  ASSUME IInv, NEW c \in Commands, NEW pc, Goes(c, pc),
         pc \in {"context", "view", "memory", "reread", "scan", "index"},
         cmd[c].pc \in {"index", "memory"} => pc = "memory"
  PROVE  cmd' \in [Commands -> Command] /\ \A k \in Commands : GoodJob(cmd[k])'
  <1>1. GoodJob([cmd[c] EXCEPT !.pc = pc])
    BY DEF IInv, GoodJob, Command
  <1> QED BY <1>1, JobStep DEF Goes

LEMMA GoingAfterView ==
  ASSUME IInv, NEW c \in Commands, AfterView(c), cmd[c].pc = "view"
  PROVE  cmd' \in [Commands -> Command] /\ \A k \in Commands : GoodJob(cmd[k])'
  <1> DEFINE rec == [cmd[c] EXCEPT !.pc = IF cmd[c].op = "migrate" THEN "scan" ELSE "index",
                       !.dirty = (cmd[c].op = "migrate")]
  <1>1. rec \in Command /\ rec.index = cmd[c].index /\ rec.context = cmd[c].context /\ rec.todo = cmd[c].todo
        /\ rec.pc # "load"
    BY DEF IInv, Command
  <1>2. GoodJob(rec)
    BY <1>1 DEF IInv, GoodJob
  <1>3. With(c, rec)
    BY DEF AfterView
  <1> HIDE DEF rec
  <1> QED BY <1>2, <1>3, JobStep

LEMMA Ending ==
  ASSUME IInv, NEW c \in Commands, Ends(c)
  PROVE  cmd' \in [Commands -> Command] /\ \A k \in Commands : GoodJob(cmd[k])'
  BY JobStep, NoCommandIsGood DEF Ends

LEMMA ResetTalks ==
  ASSUME GoodTalks, NEW p, Resets(p)
  PROVE  GoodTalks'
  BY DEF GoodTalks, Resets

(* Whole files are written from the command's good copies. *)
LEMMA WriteSteps ==
  ASSUME IInv, NEW c \in Commands,
         \/ Backup(c) \/ WriteContext(c) \/ WriteView(c)
         \/ WriteIndex(c) \/ WriteMemory(c) \/ Remove(c) \/ RemovePartly(c)
  PROVE  IInv'
  <1>1. GoodJob(cmd[c]) /\ cmd[c] \in Command
    BY DEF IInv
  <1>2. CASE Backup(c)
    <2>1. cmd' \in [Commands -> Command] /\ \A k \in Commands : GoodJob(cmd[k])'
      BY <1>2, Going DEF Backup
    <2> QED BY <1>2, <2>1 DEF Backup, IInv, GoodFiles, GoodTalks
  <1>3. CASE WriteContext(c)
    <2>1. cmd' \in [Commands -> Command] /\ \A k \in Commands : GoodJob(cmd[k])'
      BY <1>3, Going DEF WriteContext
    <2>2. cmd[c].context \in Context /\ Distinct(cmd[c].context.sessions)
      BY <1>1 DEF GoodJob, Command
    <2>3. context' = [context EXCEPT ![cmd[c].dir] = cmd[c].context]
      BY <1>3 DEF WriteContext
    <2>4. context' \in [Dirs -> Context]
      BY <2>2, <2>3 DEF IInv, GoodFiles
    <2>5. \A d \in Dirs : Distinct(context'[d].sessions)
      <3>1. \A d \in Dirs : context'[d] = context[d] \/ context'[d] = cmd[c].context
        BY <2>3 DEF IInv, GoodFiles
      <3> QED BY <2>2, <3>1 DEF IInv, GoodFiles
    <2>6. GoodTalks'
      BY <1>3, ResetTalks DEF WriteContext, IInv, GoodTalks
    <2> QED BY <1>3, <2>1, <2>4, <2>5, <2>6 DEF WriteContext, IInv, GoodFiles, Distinct
  <1>4. CASE WriteView(c)
    <2>1. cmd' \in [Commands -> Command] /\ \A k \in Commands : GoodJob(cmd[k])'
      BY <1>4, GoingAfterView DEF WriteView
    <2>2. Rendered(cmd[c].context) \in View
      BY <1>1 DEF Rendered, View, Command, Context
    <2>3. view' \in [Dirs -> View]
      BY <1>4, <2>2 DEF WriteView, IInv, GoodFiles
    <2> QED BY <1>4, <2>1, <2>3 DEF WriteView, IInv, GoodFiles, GoodTalks
  <1>5. CASE WriteIndex(c)
    <2>1. cmd' \in [Commands -> Command] /\ \A k \in Commands : GoodJob(cmd[k])'
      BY <1>5, Going, Ending DEF WriteIndex
    <2>2. projects' \in Index /\ Unique(projects')
      BY <1>1, <1>5 DEF WriteIndex, GoodJob, Command
    <2> QED BY <1>5, <2>1, <2>2 DEF WriteIndex, IInv, GoodFiles, GoodTalks, Unique
  <1>6. CASE WriteMemory(c)
    <2>1. cmd' \in [Commands -> Command] /\ \A k \in Commands : GoodJob(cmd[k])'
      BY <1>6, Ending DEF WriteMemory
    <2>2. GoodTalks'
      BY <1>6 DEF WriteMemory, IInv, GoodTalks
    <2> QED BY <1>6, <2>1, <2>2 DEF WriteMemory, IInv, GoodFiles
  <1>7. CASE Remove(c) \/ RemovePartly(c)
    <2>1. cmd' \in [Commands -> Command] /\ \A k \in Commands : GoodJob(cmd[k])'
      BY <1>7, Going, Ending DEF Remove, RemovePartly
    <2>2. context' \in [Dirs -> Context] /\ \A d \in Dirs : context'[d] \in {context[d], NoContext}
      BY <1>7, NoContextIsGood DEF Remove, RemovePartly, Removes, IInv, GoodFiles
    <2>3. \A d \in Dirs : Distinct(context'[d].sessions)
      BY <2>2, NoContextIsGood DEF IInv, GoodFiles
    <2>4. NoView \in View
      BY DEF NoView, View
    <2>5. view' \in [Dirs -> View]
      BY <1>7, <2>4 DEF Remove, RemovePartly, Removes, IInv, GoodFiles
    <2>6. GoodTalks'
      <3>1. Resets(cmd[c].path) \/ UNCHANGED talk
        BY <1>7 DEF Remove, RemovePartly
      <3> QED BY <3>1, ResetTalks DEF IInv, GoodTalks
    <2>7. UNCHANGED <<projects, current, minted>>
      BY <1>7 DEF Remove, RemovePartly
    <2> QED BY <2>1, <2>2, <2>3, <2>5, <2>6, <2>7 DEF IInv, GoodFiles, Distinct
  <1> QED BY <1>2, <1>3, <1>4, <1>5, <1>6, <1>7

(* Dying leaves a file as it was, or without contents. *)
LEMMA DieStep ==
  ASSUME IInv, NEW c \in Commands, Die(c)
  PROVE  IInv'
  <1>1. cmd' \in [Commands -> Command] /\ \A k \in Commands : GoodJob(cmd[k])'
    BY Ending, Going DEF Die, GoesOn
  <1>2. projects' \in Index /\ Unique(projects')
    BY EmptyIndexIsUnique DEF Die, IInv, GoodFiles
  <1>3. context' = context \/ context' = [context EXCEPT ![cmd[c].dir] = NoContext]
    BY DEF Die
  <1>4. context' \in [Dirs -> Context] /\ \A d \in Dirs : context'[d] \in {context[d], NoContext}
    BY <1>3, NoContextIsGood DEF IInv, GoodFiles
  <1>5. \A d \in Dirs : Distinct(context'[d].sessions)
    BY <1>4, NoContextIsGood DEF IInv, GoodFiles
  <1>6. view' = view \/ view' = [view EXCEPT ![cmd[c].dir] = NoView]
    BY DEF Die
  <1>7. view' \in [Dirs -> View]
    <2>1. NoView \in View
      BY DEF NoView, View
    <2> QED BY <1>6, <2>1 DEF IInv, GoodFiles
  <1> QED BY <1>1, <1>2, <1>4, <1>5, <1>7 DEF Die, IInv, GoodFiles, GoodTalks, Unique, Distinct

LEMMA StartStep ==
  ASSUME IInv, NEW t \in Conversations, NEW p \in Paths, StartConversation(t, p)
  PROVE  IInv'
  <1>1. Previous(t) \in Conversations \cup {Nobody}
    BY DEF Previous, IInv, GoodFiles
  <1> QED BY <1>1 DEF StartConversation, IInv, GoodFiles, GoodTalks

LEMMA NextInvariant == IInv /\ [Next]_vars => IInv'
  <1> SUFFICES ASSUME IInv, [Next]_vars PROVE IInv'
    OBVIOUS
  <1>1. ASSUME NEW c \in Commands, CommandStep(c) PROVE IInv'
    BY <1>1, BeginSteps, ReadSteps, WriteSteps, DieStep DEF CommandStep
  <1>2. CASE UNCHANGED vars
    BY <1>2 DEF vars, files, IInv, GoodFiles, GoodTalks, GoodJob, Unique, Distinct
  <1> QED BY <1>1, <1>2, StartStep DEF Next

(* The invariant the theorems rest on: files, and the copies that running  *)
(* commands hold of them, give no directory twice and no session twice.    *)
THEOREM KeeperInvariant == Spec => []IInv
  <1>1. Init => IInv
    BY InitInvariant
  <1>2. IInv /\ [Next]_vars => IInv'
    BY NextInvariant
  <1> QED BY <1>1, <1>2, PTL DEF Spec

(* However many commands overlap, overwrite each other's projects.json,    *)
(* read it torn or die in it, no two projects get one context directory.   *)
THEOREM DirsAreUnique == Spec => []UniqueDirs
  <1>1. IInv => UniqueDirs
    BY DEF IInv, GoodFiles, UniqueDirs
  <1> QED BY <1>1, KeeperInvariant, PTL

(* However many saves and migrations overlap, no context.json names one    *)
(* session in two entries.                                                 *)
THEOREM SessionsAreRecordedOnce == Spec => []OneEntryPerSession
  <1>1. IInv => OneEntryPerSession
    BY DEF IInv, GoodFiles, OneEntryPerSession, Distinct
  <1> QED BY <1>1, KeeperInvariant, PTL
-----------------------------------------------------------------------------
(***************************************************************************)
(* While no two processes overlap.                                         *)
(***************************************************************************)

(* The sessions of project p that are to be found in its context: those in *)
(* the native memory, and of the conversation that started last its own,   *)
(* if it was saved.                                                        *)
Owed(p) ==
  {m[2] : m \in {n \in memory \ old : n[1] = p}} \cup
  {u \in Conversations : talk[u].saved /\ current = u /\ talk[u].path = p}

Whole(d) ==
  \/ context[d].v = 2 /\ view[d] = Rendered(context[d])
  \/ context[d].v = 0 /\ view[d].v = 1

(* Command c has written or removed one file of d and not yet the next.    *)
Half(c, d) ==
  /\ cmd[c].dir = d
  /\ cmd[c].pc \in {"view", "reread"} \/ (cmd[c].op = "forget" /\ cmd[c].pc = "index")

Kept(p) ==
  LET d == projects[p] IN
  /\ d \notin cut => Whole(d) \/ \E c \in Commands : Half(c, d)
  /\ context[d].v = 2 => context[d].path \in Own(p, d)
  /\ d \notin cut \/ context[d].v = 2 => Owed(p) \subseteq SessionIds(context[d])

(* How far a command is, and what it has read and written: nothing changed *)
(* under its hands.                                                        *)
InitJob(c) ==
  LET r == cmd[c] IN
  /\ r.op = "init" /\ r.pc \in {"context", "view", "index"} /\ r.path \in Paths /\ r.dir \in Dirs
  /\ r.index = [projects EXCEPT ![r.path] = r.dir] /\ \A q \in Paths : projects[q] = r.dir => q = r.path
  /\ r.context.v = 2 /\ r.context.path \in Own(r.path, r.dir)
  /\ r.pc # "context" => context[r.dir] = r.context /\ Owed(r.path) = {}
  /\ r.pc = "index" => view[r.dir] = Rendered(r.context)

SaveJob(c) ==
  LET r == cmd[c] IN
  /\ r.op = "save" /\ r.pc \in {"load", "context", "view", "index", "memory"} /\ r.path \in Paths /\ r.dir \in Dirs
  /\ projects[r.path] = r.dir /\ r.index = projects
  /\ r.by \in Conversations /\ talk[r.by].path = r.path
  /\ r.pc # "load" /\ current = r.by => r.id = r.by
  /\ r.pc \in {"context", "view"} => r.context.v = 2 /\ r.context.path \in Own(r.path, r.dir) /\ r.id \in SessionIds(r.context)
  /\ r.pc = "context" => Owed(r.path) \subseteq SessionIds(r.context)
  /\ r.pc = "view" => context[r.dir] = r.context
  /\ r.pc \in {"index", "memory"} => r.id \in SessionIds(context[r.dir])

ForgetJob(c) ==
  LET r == cmd[c] IN
  /\ r.op = "forget" /\ r.pc \in {"load", "remove", "reread", "index"} /\ r.path \in Paths /\ r.dir \in Dirs
  /\ projects[r.path] = r.dir
  /\ r.pc \in {"reread", "index"} => context[r.dir].v = 0 /\ Owed(r.path) = {}
  /\ r.pc = "index" => r.index = [projects EXCEPT ![r.path] = NoDir]

MigrateJob(c) ==
  LET r == cmd[c] IN
  /\ r.op = "migrate" /\ r.pc \in {"scan", "backup", "context", "view", "index"} /\ r.index = projects
  /\ r.pc \in {"backup", "context", "view"} =>
       /\ r.path \in Paths /\ r.dir \in Dirs /\ projects[r.path] = r.dir
       /\ r.context.v = 2 /\ r.context.path \in Own(r.path, r.dir)
  /\ r.pc \in {"backup", "context"} => context[r.dir].v = 0
  /\ r.pc = "view" => context[r.dir] = r.context

Job(c) == InitJob(c) \/ SaveJob(c) \/ ForgetJob(c) \/ MigrateJob(c)

(* One command runs at most, and every registered project is whole but for *)
(* what that command is at.                                                *)
Solo ==
  /\ \A c, k \in Commands : cmd[c].pc # "idle" /\ cmd[k].pc # "idle" => c = k
  /\ \A c \in Commands : cmd[c].pc # "idle" => Job(c)
  /\ \A d \in Dirs : context[d].v = 0 => context[d].sessions = <<>>
  /\ \A p \in Paths : projects[p] # NoDir => Kept(p)

SoloInv == ~overlapped => Solo

LEMMA RecordedIds ==
  ASSUME NEW sessions \in Seq(Session), NEW e \in Session
  PROVE  /\ \E i \in DOMAIN Recorded(sessions, e) : Recorded(sessions, e)[i].id = e.id
         /\ \A i \in DOMAIN sessions :
              \E j \in DOMAIN Recorded(sessions, e) : Recorded(sessions, e)[j].id = sessions[i].id
  <1>1. CASE \E i \in DOMAIN sessions : sessions[i].id = e.id
    <2> DEFINE new == [i \in DOMAIN sessions |-> IF sessions[i].id = e.id THEN e ELSE sessions[i]]
    <2>1. Recorded(sessions, e) = new
      BY <1>1 DEF Recorded
    <2>2. DOMAIN new = DOMAIN sessions /\ \A i \in DOMAIN sessions : new[i].id = sessions[i].id
      OBVIOUS
    <2> QED BY <1>1, <2>1, <2>2
  <1>2. CASE ~\E i \in DOMAIN sessions : sessions[i].id = e.id
    <2>1. Recorded(sessions, e) = Append(sessions, e)
      BY <1>2 DEF Recorded
    <2>2. /\ DOMAIN Append(sessions, e) = 1..Len(sessions) + 1 /\ Append(sessions, e)[Len(sessions) + 1] = e
          /\ \A i \in 1..Len(sessions) : Append(sessions, e)[i] = sessions[i]
      OBVIOUS
    <2>3. Len(sessions) \in Nat /\ DOMAIN sessions = 1..Len(sessions)
      OBVIOUS
    <2>4. Len(sessions) + 1 \in 1..Len(sessions) + 1 /\ 1..Len(sessions) \subseteq 1..Len(sessions) + 1
      BY <2>3
    <2> QED BY <2>1, <2>2, <2>3, <2>4
  <1> QED BY <1>1, <1>2

LEMMA SoloInit == Init => SoloInv
  <1> SUFFICES ASSUME Init PROVE Solo
    BY DEF SoloInv
  <1>1. \A c \in Commands : cmd[c].pc = "idle"
    BY DEF Init, NoCommand
  <1>2. \A d \in Dirs : context[d].v = 0 /\ context[d].sessions = <<>>
    BY DEF Init, NoContext
  <1>3. ASSUME NEW p \in Paths, projects[p] # NoDir PROVE Kept(p)
    <2>1. projects[p] \in Dirs /\ IsLegacy(projects[p])
      BY <1>3, KeeperAssumption DEF Init, IsLegacy
    <2>2. Whole(projects[p])
      BY <2>1, <1>2 DEF Init, Whole, LegacyView
    <2>3. Owed(p) = {}
      BY DEF Init, Owed
    <2> QED BY <1>2, <2>1, <2>2, <2>3 DEF Kept
  <1> QED BY <1>1, <1>2, <1>3 DEF Solo

(* The command that moves is the one that runs.                            *)
LEMMA SoloStep ==
  ASSUME IInv, Solo, NEW c \in Commands, \A k \in Commands \ {c} : cmd[k].pc = "idle",
         NEW rec, With(c, rec), rec.pc # "idle" => Job(c)',
         \A d \in Dirs : (context[d].v = 0 => context[d].sessions = <<>>)',
         \A p \in Paths : (projects[p] # NoDir => Kept(p))'
  PROVE  Solo'
  <1>1. cmd'[c] = rec /\ \A k \in Commands \ {c} : cmd'[k] = cmd[k]
    BY DEF With, IInv
  <1>2. \A k \in Commands : cmd'[k].pc # "idle" => k = c
    BY <1>1
  <1>3. \A k \in Commands : (cmd[k].pc # "idle" => Job(k))'
    BY <1>1, <1>2
  <1> QED BY <1>2, <1>3 DEF Solo

LEMMA AloneWhenMoving ==
  ASSUME Solo, NEW c \in Commands, cmd[c].pc # "idle"
  PROVE  Job(c) /\ \A k \in Commands \ {c} : cmd[k].pc = "idle"
  BY DEF Solo

(* Where no command is between two files of a directory, it is whole.      *)
LEMMA WholeUnlessHalf ==
  ASSUME Solo, NEW c \in Commands, \A k \in Commands \ {c} : cmd[k].pc = "idle",
         NEW p \in Paths, projects[p] # NoDir, ~Half(c, projects[p]), projects[p] \notin cut
  PROVE  Whole(projects[p])
  <1>1. \A k \in Commands \ {c} : ~(cmd[k].pc \in {"view", "reread", "index"})
    OBVIOUS
  <1>2. \A k \in Commands : ~Half(k, projects[p])
    BY <1>1 DEF Half
  <1> QED BY <1>2 DEF Solo, Kept

(* A step that reads leaves every project as it was.                       *)
LEMMA ReadKeeps ==
  ASSUME IInv, Solo, NEW c \in Commands, \A k \in Commands \ {c} : cmd[k].pc = "idle",
         UNCHANGED <<projects, context, view, current, memory, talk, cut, old>>,
         cmd' \in [Commands -> Command],
         \A d \in Dirs : Half(c, d) => Half(c, d)'
  PROVE  /\ \A p \in Paths : (projects[p] # NoDir => Kept(p))'
         /\ \A d \in Dirs : (context[d].v = 0 => context[d].sessions = <<>>)'
         /\ \A p : Owed(p)' = Owed(p)
  <1>1. ASSUME NEW p PROVE Owed(p)' = Owed(p)
    BY DEF Owed
  <1>2. ASSUME NEW p \in Paths, projects[p] # NoDir PROVE Kept(p)'
    <2>1. projects[p] \in Dirs
      BY <1>2 DEF IInv, GoodFiles, Index
    <2>2. CASE Half(c, projects[p])
      <3>1. Half(c, projects[p])'
        BY <2>1, <2>2 DEF Half
      <3> QED BY <1>1, <1>2, <3>1 DEF Kept, Solo
    <2>3. CASE ~Half(c, projects[p])
      <3>1. projects[p] \notin cut => Whole(projects[p])
        BY <1>2, <2>3, WholeUnlessHalf
      <3>2. projects[p] \notin cut => Whole(projects[p])'
        BY <3>1 DEF Whole
      <3> QED BY <1>1, <1>2, <3>2 DEF Kept, Solo
    <2> QED BY <2>2, <2>3
  <1> QED BY <1>1, <1>2 DEF Solo

(* A command that begins alone finds the registry as it is.                *)
LEMMA BeginsAlone ==
  ASSUME IInv, SoloInv, ~overlapped', NEW c \in Commands, Begins(c)
  PROVE  Solo /\ (\A k \in Commands : cmd[k].pc = "idle") /\ IndexSeen = {projects}
  <1>1. ~overlapped /\ ~Busy
    BY DEF Begins
  <1>2. \A k \in Commands : cmd[k].pc = "idle"
    BY <1>1 DEF Busy
  <1>3. IndexSeen = {projects}
    BY <1>2 DEF IndexSeen, Writing
  <1> QED BY <1>1, <1>2, <1>3 DEF SoloInv

LEMMA BeginsJob ==
  ASSUME IInv, IInv', SoloInv, ~overlapped', NEW c \in Commands, Begins(c), NEW rec, With(c, rec), Starts,
         Job(c)'
  PROVE  Solo'
  <1>1. Solo /\ \A k \in Commands : cmd[k].pc = "idle"
    BY BeginsAlone
  <1>2. UNCHANGED <<projects, context, view, current, memory, talk, cut, old>>
    BY DEF Starts, files
  <1>3. \A d \in Dirs : ~Half(c, d)
    BY <1>1 DEF Half
  <1>4. cmd' \in [Commands -> Command]
    BY DEF IInv
  <1> QED BY <1>1, <1>2, <1>3, <1>4, ReadKeeps, SoloStep

LEMMA SoloBegins ==
  ASSUME IInv, SoloInv, ~overlapped', NEW c \in Commands
  PROVE  /\ \A p \in Paths, n \in Names : BeginInit(c, p, n) => Solo'
         /\ \A t \in Conversations : BeginSave(c, t) => Solo'
         /\ \A p \in Paths : BeginForget(c, p) => Solo'
         /\ BeginMigrate(c) => Solo'
  <1>1. cmd \in [Commands -> Command] /\ projects \in Index /\ Unique(projects)
    BY DEF IInv, GoodFiles
  <1>2. ASSUME NEW p \in Paths, NEW n \in Names, BeginInit(c, p, n) PROVE Solo'
    <2>0. IInv' /\ Begins(c) /\ Starts
      BY <1>2, BeginSteps DEF BeginInit
    <2>1. PICK i \in DOMAIN Candidates[n] :
            LET d == Candidates[n][i] IN
            /\ Free(projects, p, d)
            /\ With(c, [NoCommand EXCEPT !.op = "init", !.pc = "context", !.path = p, !.dir = d,
                         !.index = [projects EXCEPT ![p] = d],
                         !.context = [v |-> 2, path |-> p, sessions |-> <<>>]])
      BY <1>2, <2>0, BeginsAlone DEF BeginInit
    <2> DEFINE d == Candidates[n][i]
               ix == [projects EXCEPT ![p] = d]
               ctx == [v |-> 2, path |-> p, sessions |-> <<>>]
               rec == [NoCommand EXCEPT !.op = "init", !.pc = "context", !.path = p, !.dir = d,
                        !.index = ix, !.context = ctx]
    <2>2. d \in Dirs /\ Free(projects, p, d) /\ With(c, rec)
      BY <2>1, KeeperAssumption
    <2>3. \A q \in Paths : projects[q] = d => q = p
      BY <1>1, <2>2, KeeperAssumption DEF Free, Unique
    <2>4. ctx.v = 2 /\ ctx.path = p /\ ix = [projects EXCEPT ![p] = d]
      OBVIOUS
    <2> HIDE DEF d, ix, ctx
    <2>5. /\ rec.op = "init" /\ rec.pc = "context" /\ rec.path = p /\ rec.dir = d /\ rec.index = ix /\ rec.context = ctx
      BY DEF NoCommand
    <2> HIDE DEF rec
    <2>6. cmd'[c] = rec /\ UNCHANGED <<projects>>
      BY <1>1, <2>0, <2>2 DEF With, Starts, files
    <2>7. InitJob(c)'
      BY <2>2, <2>3, <2>4, <2>5, <2>6 DEF InitJob, Own
    <2> QED BY <2>0, <2>2, <2>7, BeginsJob DEF Job
  <1>3. ASSUME NEW t \in Conversations, BeginSave(c, t) PROVE Solo'
    <2>0. IInv' /\ Begins(c) /\ Starts /\ talk[t].path # NoPath
      BY <1>3, BeginSteps DEF BeginSave
    <2> DEFINE p == talk[t].path
               rec == [NoCommand EXCEPT !.op = "save", !.pc = "load", !.by = t, !.path = p,
                         !.dir = projects[p], !.index = projects]
    <2>1. projects[p] # NoDir /\ With(c, rec)
      BY <1>3, <2>0, BeginsAlone DEF BeginSave
    <2>2. p \in Paths /\ projects[p] \in Dirs
      BY <1>1, <2>0, <2>1 DEF IInv, GoodTalks, Index
    <2>3. /\ rec.op = "save" /\ rec.pc = "load" /\ rec.by = t /\ rec.path = p /\ rec.dir = projects[p]
          /\ rec.index = projects
      BY DEF NoCommand
    <2>4. p = talk[t].path
      OBVIOUS
    <2> HIDE DEF rec, p
    <2>5. cmd'[c] = rec /\ UNCHANGED <<projects, talk>>
      BY <1>1, <2>0, <2>1 DEF With, Starts, files
    <2>6. SaveJob(c)'
      BY <2>2, <2>3, <2>4, <2>5 DEF SaveJob
    <2> QED BY <2>0, <2>1, <2>6, BeginsJob DEF Job
  <1>4. ASSUME NEW p \in Paths, BeginForget(c, p) PROVE Solo'
    <2>0. IInv' /\ Begins(c) /\ Starts
      BY <1>4, BeginSteps DEF BeginForget
    <2> DEFINE rec == [NoCommand EXCEPT !.op = "forget", !.pc = "load", !.path = p, !.dir = projects[p]]
    <2>1. projects[p] # NoDir /\ With(c, rec)
      BY <1>4, <2>0, BeginsAlone DEF BeginForget
    <2>2. projects[p] \in Dirs
      BY <1>1, <2>1 DEF Index
    <2>3. rec.op = "forget" /\ rec.pc = "load" /\ rec.path = p /\ rec.dir = projects[p]
      BY DEF NoCommand
    <2> HIDE DEF rec
    <2>5. cmd'[c] = rec /\ UNCHANGED <<projects>>
      BY <1>1, <2>0, <2>1 DEF With, Starts, files
    <2>6. ForgetJob(c)'
      BY <2>2, <2>3, <2>5 DEF ForgetJob
    <2> QED BY <2>0, <2>1, <2>6, BeginsJob DEF Job
  <1>5. ASSUME BeginMigrate(c) PROVE Solo'
    <2>0. IInv' /\ Begins(c) /\ Starts
      BY <1>5, BeginSteps DEF BeginMigrate
    <2> DEFINE todo == {p \in Paths : projects[p] # NoDir}
               rec == [NoCommand EXCEPT !.op = "migrate", !.pc = "scan", !.index = projects, !.todo = todo]
    <2>1. With(c, rec)
      <3>1. PICK index \in IndexSeen :
              With(c, [NoCommand EXCEPT !.op = "migrate", !.pc = "scan", !.index = index,
                        !.todo = {p \in Paths : index[p] # NoDir}])
        BY <1>5 DEF BeginMigrate
      <3>2. index = projects
        BY <2>0, BeginsAlone
      <3> QED BY <3>1, <3>2
    <2> HIDE DEF todo
    <2>3. rec.op = "migrate" /\ rec.pc = "scan" /\ rec.index = projects
      BY DEF NoCommand
    <2> HIDE DEF rec
    <2>5. cmd'[c] = rec /\ UNCHANGED <<projects>>
      BY <1>1, <2>0, <2>1 DEF With, Starts, files
    <2>6. MigrateJob(c)'
      BY <2>3, <2>5 DEF MigrateJob
    <2> QED BY <2>0, <2>1, <2>6, BeginsJob DEF Job
  <1> QED BY <1>2, <1>3, <1>4, <1>5

(* A command that runs alone reads what is there.                          *)
LEMMA ReadsWhatIs ==
  ASSUME Solo, NEW c \in Commands, cmd[c].pc # "idle"
  PROVE  /\ cmd[c].pc # "index" => IndexSeen = {projects}
         /\ cmd[c].pc # "context" => \A d : ContextSeen(d) = {context[d]}
  <1>1. \A k \in Commands : k # c => cmd[k].pc \notin {"index", "context"}
    BY AloneWhenMoving
  <1> QED BY <1>1 DEF IndexSeen, ContextSeen, Writing

LEMMA ReadsJob ==
  ASSUME IInv, IInv', Solo, NEW c \in Commands, cmd[c].pc # "idle", NEW rec, With(c, rec), Reads,
         rec.pc # "idle" => Job(c)', \A d \in Dirs : Half(c, d) => Half(c, d)'
  PROVE  Solo'
  <1>1. UNCHANGED <<projects, context, view, current, memory, talk, cut, old>>
    BY DEF Reads, Runs, files
  <1>2. cmd' \in [Commands -> Command]
    BY DEF IInv
  <1> QED BY <1>1, <1>2, AloneWhenMoving, ReadKeeps, SoloStep

(* When a command ends, nothing of it is left half done.                   *)
LEMMA EndsSolo ==
  ASSUME IInv, IInv', Solo, NEW c \in Commands, cmd[c].pc # "idle", Ends(c), Reads, \A d \in Dirs : ~Half(c, d)
  PROVE  Solo'
  <1>1. NoCommand.pc = "idle"
    BY DEF NoCommand
  <1> QED BY <1>1, ReadsJob DEF Ends

LEMMA SoloLoadToSave ==
  ASSUME IInv, Solo, NEW c \in Commands, LoadToSave(c)
  PROVE  Solo'
  <1>1. IInv' /\ Reads /\ cmd[c].pc = "load" /\ cmd[c].op = "save"
    BY ReadSteps DEF LoadToSave
  <1>2. Job(c) /\ SaveJob(c) /\ cmd[c].dir \in Dirs /\ cmd[c].path \in Paths /\ cmd[c] \in Command
    BY <1>1, AloneWhenMoving DEF Job, InitJob, SaveJob, ForgetJob, MigrateJob, IInv
  <1>3. \A d \in Dirs : ~Half(c, d)
    BY <1>1 DEF Half
  <1> DEFINE seen == context[cmd[c].dir]
             id == SessionId(minted)
             e == [id |-> id, by |-> cmd[c].by]
             ctx == [seen EXCEPT !.sessions = Recorded(seen.sessions, e)]
             rec == [cmd[c] EXCEPT !.pc = "context", !.id = id, !.context = ctx]
  <1>4. \/ Ends(c)
        \/ seen.v = 2 /\ With(c, rec)
    BY <1>1, ReadsWhatIs DEF LoadToSave
  <1>5. CASE Ends(c)
    BY <1>1, <1>3, <1>5, EndsSolo
  <1>6. CASE seen.v = 2 /\ With(c, rec)
    <2>1. id \in Ids /\ e \in Session /\ e.id = id /\ (current # Nobody => id = current)
      BY <1>2 DEF SessionId, Ids, IInv, GoodFiles, Session, Command
    <2>2. seen \in Context /\ seen.sessions \in Seq(Session)
      BY <1>2 DEF IInv, GoodFiles, Context
    <2>3. projects[cmd[c].path] = cmd[c].dir /\ cmd[c].dir # NoDir
      BY <1>2, KeeperAssumption DEF SaveJob
    <2>4. Kept(cmd[c].path)
      BY <1>2, <2>3 DEF Solo
    <2>5. seen.path \in Own(cmd[c].path, cmd[c].dir) /\ Owed(cmd[c].path) \subseteq SessionIds(seen)
      BY <1>6, <2>3, <2>4 DEF Kept
    <2> HIDE DEF e, id
    <2>6. ctx.v = 2 /\ ctx.path \in Own(cmd[c].path, cmd[c].dir) /\ ctx.sessions = Recorded(seen.sessions, e)
      BY <1>6, <2>2, <2>5 DEF Context
    <2> HIDE DEF ctx, seen
    <2>7. SessionIds(seen) \subseteq SessionIds(ctx) /\ id \in SessionIds(ctx)
      <3> DEFINE new == Recorded(seen.sessions, e)
      <3>1. /\ \E i \in DOMAIN new : new[i].id = e.id
            /\ \A i \in DOMAIN seen.sessions : \E j \in DOMAIN new : new[j].id = seen.sessions[i].id
        BY <2>1, <2>2, RecordedIds
      <3>2. ctx.sessions = new
        BY <2>6
      <3> HIDE DEF new
      <3> QED BY <2>1, <3>1, <3>2 DEF SessionIds
    <2>8. Owed(cmd[c].path) \subseteq SessionIds(ctx)
      BY <2>5, <2>7
    <2>9. /\ rec.op = "save" /\ rec.pc = "context" /\ rec.path = cmd[c].path /\ rec.dir = cmd[c].dir
          /\ rec.index = cmd[c].index /\ rec.by = cmd[c].by /\ rec.id = id /\ rec.context = ctx
      BY <1>1, <1>2 DEF Command
    <2>10. cmd'[c] = rec /\ UNCHANGED <<projects, talk, memory, old, current>>
      BY <1>1, <1>6 DEF With, IInv, Reads, files
    <2> HIDE DEF rec
    <2>11. Owed(cmd[c].path)' \subseteq SessionIds(ctx)
      <3>1. cmd'[c].path = cmd[c].path
        BY <2>9, <2>10
      <3> QED BY <2>8, <2>10, <3>1 DEF Owed
    <2>12. /\ cmd'[c].op = "save" /\ cmd'[c].pc = "context" /\ cmd'[c].path \in Paths /\ cmd'[c].dir \in Dirs
           /\ projects'[cmd'[c].path] = cmd'[c].dir /\ cmd'[c].index = projects'
           /\ cmd'[c].by \in Conversations /\ talk'[cmd'[c].by].path = cmd'[c].path
      BY <1>2, <2>3, <2>9, <2>10 DEF SaveJob
    <2>13. current' = cmd'[c].by => cmd'[c].id = cmd'[c].by
      BY <2>1, <2>9, <2>10, <2>12, KeeperAssumption
    <2>14. cmd'[c].context.v = 2 /\ cmd'[c].context.path \in Own(cmd'[c].path, cmd'[c].dir) /\ cmd'[c].id \in SessionIds(cmd'[c].context)
      BY <2>6, <2>7, <2>9, <2>10
    <2>15. SaveJob(c)'
      BY <2>9, <2>10, <2>11, <2>12, <2>13, <2>14 DEF SaveJob, SessionIds
    <2> QED BY <1>1, <1>3, <1>6, <2>15, ReadsJob DEF Job
  <1> QED BY <1>4, <1>5, <1>6

LEMMA SoloLoadToForget ==
  ASSUME IInv, Solo, NEW c \in Commands, LoadToForget(c)
  PROVE  Solo'
  <1>1. IInv' /\ Reads /\ cmd[c].pc = "load" /\ cmd[c].op = "forget"
    BY ReadSteps DEF LoadToForget
  <1>2. Job(c) /\ ForgetJob(c) /\ cmd[c] \in Command
    BY <1>1, AloneWhenMoving DEF Job, InitJob, SaveJob, ForgetJob, MigrateJob, IInv
  <1>3. \A d \in Dirs : ~Half(c, d)
    BY <1>1 DEF Half
  <1> DEFINE rec == [cmd[c] EXCEPT !.pc = "remove"]
  <1>4. Ends(c) \/ With(c, rec)
    BY DEF LoadToForget, Goes
  <1>5. CASE Ends(c)
    BY <1>1, <1>3, <1>5, EndsSolo
  <1>6. CASE With(c, rec)
    <2>1. rec.op = "forget" /\ rec.pc = "remove" /\ rec.path = cmd[c].path /\ rec.dir = cmd[c].dir
      BY <1>1, <1>2 DEF Command
    <2> HIDE DEF rec
    <2>2. cmd'[c] = rec /\ UNCHANGED projects
      BY <1>1, <1>6 DEF With, IInv, Reads, files
    <2>3. ForgetJob(c)'
      BY <1>2, <2>1, <2>2 DEF ForgetJob
    <2> QED BY <1>1, <1>3, <1>6, <2>3, ReadsJob DEF Job
  <1> QED BY <1>4, <1>5, <1>6

LEMMA SoloScan ==
  ASSUME IInv, Solo, NEW c \in Commands, Scan(c)
  PROVE  Solo'
  <1>1. IInv' /\ Reads /\ cmd[c].pc = "scan"
    BY ReadSteps DEF Scan
  <1>2. Job(c) /\ MigrateJob(c) /\ cmd[c].index = projects /\ cmd[c] \in Command /\ cmd[c].op = "migrate"
    BY <1>1, AloneWhenMoving DEF Job, InitJob, SaveJob, ForgetJob, MigrateJob, IInv
  <1>3. \A d \in Dirs : ~Half(c, d)
    BY <1>1 DEF Half
  <1>4. UNCHANGED <<projects, context>> /\ \A d : ContextSeen(d) = {context[d]}
    BY <1>1, ReadsWhatIs DEF Reads, files
  <1>5. CASE Ends(c)
    BY <1>1, <1>3, <1>5, EndsSolo
  <1>6. CASE Goes(c, "index")
    <2> DEFINE rec == [cmd[c] EXCEPT !.pc = "index"]
    <2>1. rec.op = "migrate" /\ rec.pc = "index" /\ rec.index = projects
      BY <1>2 DEF Command
    <2>2. With(c, rec) /\ cmd'[c] = rec
      BY <1>6 DEF Goes, With, IInv
    <2> HIDE DEF rec
    <2>3. MigrateJob(c)'
      BY <1>4, <2>1, <2>2 DEF MigrateJob
    <2> QED BY <1>1, <1>3, <2>2, <2>3, ReadsJob DEF Job
  <1>7. ASSUME NEW p \in cmd[c].todo,
               \/ With(c, [cmd[c] EXCEPT !.todo = @ \ {p}])
               \/ /\ NeedsMigration(context[projects[p]])
                  /\ With(c, [[cmd[c] EXCEPT !.todo = @ \ {p}] EXCEPT !.pc = "backup", !.path = p,
                               !.dir = projects[p], !.context = Migrated(p, projects[p])])
        PROVE  Solo'
    <2> DEFINE rest == [cmd[c] EXCEPT !.todo = @ \ {p}]
               ctx == Migrated(p, projects[p])
               rec == [rest EXCEPT !.pc = "backup", !.path = p, !.dir = projects[p], !.context = ctx]
    <2>1. p \in Paths /\ projects[p] \in Dirs
      BY <1>1, <1>2 DEF IInv, GoodJob, Command, Index
    <2>2. rest \in Command /\ rest.op = "migrate" /\ rest.pc = "scan" /\ rest.index = projects
      BY <1>1, <1>2 DEF Command
    <2>3. ctx.v = 2 /\ ctx.path \in Own(p, projects[p])
      BY DEF Migrated, Own
    <2> HIDE DEF rest, ctx
    <2>4. CASE With(c, rest)
      <3>1. cmd'[c] = rest
        BY <2>4 DEF With, IInv
      <3>2. MigrateJob(c)'
        BY <1>4, <2>2, <3>1 DEF MigrateJob
      <3> QED BY <1>1, <1>3, <2>4, <3>2, ReadsJob DEF Job
    <2>5. CASE NeedsMigration(context[projects[p]]) /\ With(c, rec)
      <3>1. /\ rec.op = "migrate" /\ rec.pc = "backup" /\ rec.index = projects /\ rec.path = p /\ rec.dir = projects[p]
            /\ rec.context = ctx
        BY <2>2 DEF Command
      <3>2. cmd'[c] = rec
        BY <2>5 DEF With, IInv
      <3> HIDE DEF rec
      <3>3. MigrateJob(c)'
        BY <1>4, <2>1, <2>3, <2>5, <3>1, <3>2 DEF MigrateJob, NeedsMigration
      <3> QED BY <1>1, <1>3, <2>5, <3>3, ReadsJob DEF Job
    <2> QED BY <1>7, <2>4, <2>5 DEF rest, ctx
  <1>8. CASE \E p \in cmd[c].todo : \E seen \in ContextSeen(projects[p]) :
               \/ With(c, [cmd[c] EXCEPT !.todo = @ \ {p}])
               \/ /\ NeedsMigration(seen)
                  /\ With(c, [[cmd[c] EXCEPT !.todo = @ \ {p}] EXCEPT !.pc = "backup", !.path = p,
                               !.dir = projects[p], !.context = Migrated(p, projects[p])])
    BY <1>4, <1>7, <1>8
  <1> QED BY <1>2, <1>5, <1>6, <1>8 DEF Scan

LEMMA SoloReread ==
  ASSUME IInv, Solo, NEW c \in Commands, Reread(c)
  PROVE  Solo'
  <1>1. IInv' /\ Reads /\ cmd[c].pc = "reread"
    BY ReadSteps DEF Reread
  <1>2. Job(c) /\ ForgetJob(c) /\ cmd[c] \in Command /\ cmd[c].op = "forget"
    BY <1>1, AloneWhenMoving DEF Job, InitJob, SaveJob, ForgetJob, MigrateJob, IInv
  <1> DEFINE ix == [projects EXCEPT ![cmd[c].path] = NoDir]
             rec == [cmd[c] EXCEPT !.pc = "index", !.index = ix]
  <1>3. With(c, rec)
    BY <1>1, ReadsWhatIs DEF Reread
  <1>4. ix = [projects EXCEPT ![cmd[c].path] = NoDir]
    OBVIOUS
  <1> HIDE DEF ix
  <1>5. rec.op = "forget" /\ rec.pc = "index" /\ rec.path = cmd[c].path /\ rec.dir = cmd[c].dir /\ rec.index = ix
    BY <1>1, <1>2 DEF Command
  <1>6. cmd'[c] = rec /\ UNCHANGED <<projects, context, memory, old, talk, current>>
    BY <1>1, <1>3 DEF With, IInv, Reads, files
  <1> HIDE DEF rec
  <1>7. Owed(cmd[c].path)' = {} /\ cmd'[c].path = cmd[c].path
    BY <1>1, <1>2, <1>5, <1>6 DEF ForgetJob, Owed
  <1>8. ForgetJob(c)'
    BY <1>1, <1>2, <1>4, <1>5, <1>6, <1>7 DEF ForgetJob
  <1>9. \A d \in Dirs : Half(c, d) => Half(c, d)'
    BY <1>5, <1>6 DEF Half
  <1> QED BY <1>1, <1>3, <1>8, <1>9, ReadsJob DEF Job

(* A step that writes: the command moves on, and what it wrote is whole.   *)
LEMMA MovesOn ==
  ASSUME IInv, NEW c \in Commands, NEW pc,
         Goes(c, pc) \/ (AfterView(c) /\ pc = IF cmd[c].op = "migrate" THEN "scan" ELSE "index")
  PROVE  /\ cmd'[c].pc = pc /\ cmd'[c].op = cmd[c].op /\ cmd'[c].path = cmd[c].path /\ cmd'[c].dir = cmd[c].dir
         /\ cmd'[c].by = cmd[c].by /\ cmd'[c].id = cmd[c].id
         /\ cmd'[c].index = cmd[c].index /\ cmd'[c].context = cmd[c].context
         /\ \A k \in Commands \ {c} : cmd'[k] = cmd[k]
  <1>1. cmd[c] \in Command
    BY DEF IInv
  <1>2. PICK rec : With(c, rec) /\ (\/ rec = [cmd[c] EXCEPT !.pc = pc]
                                      \/ rec = [cmd[c] EXCEPT !.pc = pc, !.dirty = (cmd[c].op = "migrate")])
    BY DEF Goes, AfterView
  <1>3. /\ rec.pc = pc /\ rec.op = cmd[c].op /\ rec.path = cmd[c].path /\ rec.dir = cmd[c].dir
        /\ rec.by = cmd[c].by /\ rec.id = cmd[c].id
        /\ rec.index = cmd[c].index /\ rec.context = cmd[c].context
    BY <1>1, <1>2 DEF Command
  <1>4. cmd'[c] = rec /\ \A k \in Commands \ {c} : cmd'[k] = cmd[k]
    BY <1>2 DEF With, IInv
  <1> QED BY <1>3, <1>4

(* Projects of other directories stay as they were.                        *)
LEMMA ElsewhereKept ==
  ASSUME IInv, Solo, NEW c \in Commands, cmd[c].pc # "idle",
         NEW p \in Paths, projects[p] # NoDir, projects'[p] = projects[p], projects[p] # cmd[c].dir,
         context'[projects[p]] = context[projects[p]], view'[projects[p]] = view[projects[p]],
         projects[p] \in cut' <=> projects[p] \in cut,
         Owed(p)' \subseteq Owed(p)
  PROVE  Kept(p)'
  <1> DEFINE d == projects[p]
  <1>1. d \notin cut => Whole(d)
    <2>1. ~Half(c, d)
      BY DEF Half
    <2> QED BY <2>1, AloneWhenMoving, WholeUnlessHalf
  <1>2. (context[d].v = 2 => context[d].path \in Own(p, d)) /\ (d \notin cut \/ context[d].v = 2 => Owed(p) \subseteq SessionIds(context[d]))
    BY DEF Solo, Kept
  <1> QED BY <1>1, <1>2 DEF Kept, Whole

LEMMA ResetsOwed ==
  ASSUME IInv, NEW p, Resets(p), UNCHANGED <<memory, current>>
  PROVE  (\A q : q = p => Owed(q)' = {}) /\ (\A q : Owed(q)' \subseteq Owed(q))
  <1>1. talk' = [t \in Conversations |-> IF talk[t].path = p THEN [talk[t] EXCEPT !.saved = FALSE] ELSE talk[t]]
    BY DEF Resets
  <1>2. ASSUME NEW t \in Conversations
        PROVE  talk'[t].path = talk[t].path /\ (talk'[t].saved => talk[t].saved /\ talk[t].path # p)
    BY <1>1 DEF IInv, GoodTalks
  <1>3. old' = old \cup {m \in memory : m[1] = p}
    BY DEF Resets
  <1> QED BY <1>2, <1>3 DEF Owed

LEMMA SoloGoes ==
  ASSUME IInv, Solo, NEW c \in Commands, cmd[c].pc # "idle", NEW pc, Goes(c, pc), Job(c)',
         \A d \in Dirs : (context[d].v = 0 => context[d].sessions = <<>>)',
         \A p \in Paths : (projects[p] # NoDir => Kept(p))'
  PROVE  Solo'
  BY AloneWhenMoving, SoloStep DEF Goes

LEMMA SoloAfterView ==
  ASSUME IInv, Solo, NEW c \in Commands, cmd[c].pc # "idle", AfterView(c), Job(c)',
         \A d \in Dirs : (context[d].v = 0 => context[d].sessions = <<>>)',
         \A p \in Paths : (projects[p] # NoDir => Kept(p))'
  PROVE  Solo'
  BY AloneWhenMoving, SoloStep DEF AfterView

LEMMA SoloEnds ==
  ASSUME IInv, Solo, NEW c \in Commands, cmd[c].pc # "idle", Ends(c),
         \A d \in Dirs : (context[d].v = 0 => context[d].sessions = <<>>)',
         \A p \in Paths : (projects[p] # NoDir => Kept(p))'
  PROVE  Solo'
  <1>1. NoCommand.pc = "idle"
    BY DEF NoCommand
  <1> QED BY <1>1, AloneWhenMoving, SoloStep DEF Ends

(* The directory a command works on is that of its project, if any's.      *)
LEMMA JobDir ==
  ASSUME IInv, NEW c \in Commands, Job(c), cmd[c].pc # "scan", cmd[c].op = "migrate" => cmd[c].pc # "index"
  PROVE  /\ cmd[c].path \in Paths /\ cmd[c].dir \in Dirs
         /\ \A q \in Paths : projects[q] = cmd[c].dir => q = cmd[c].path
  BY KeeperAssumption DEF Job, InitJob, SaveJob, ForgetJob, MigrateJob, IInv, GoodFiles, Unique

LEMMA SoloWriteContext ==
  ASSUME IInv, Solo, NEW c \in Commands, WriteContext(c)
  PROVE  Solo'
  <1>1. /\ cmd[c].pc = "context" /\ Goes(c, "view") /\ UNCHANGED <<projects, view, current, memory, cut>>
        /\ context' = [context EXCEPT ![cmd[c].dir] = cmd[c].context]
    BY DEF WriteContext
  <1>2. Job(c) /\ cmd[c].op \in {"init", "save", "migrate"} /\ cmd[c].op # "forget"
    BY <1>1, AloneWhenMoving DEF Job, InitJob, SaveJob, ForgetJob, MigrateJob
  <1>3. PICK p \in Paths, d \in Dirs :
          p = cmd[c].path /\ d = cmd[c].dir /\ \A q \in Paths : projects[q] = d => q = p
    BY <1>1, <1>2, JobDir
  <1>4. context'[d] = cmd[c].context /\ \A e \in Dirs \ {d} : context'[e] = context[e]
    BY <1>1, <1>3 DEF IInv, GoodFiles
  <1>5. cmd[c].context.v = 2 /\ cmd[c].context.path \in Own(p, d)
    BY <1>1, <1>2, <1>3 DEF Job, InitJob, SaveJob, ForgetJob, MigrateJob
  <1> DEFINE Others == \A q \in Paths : Owed(q)' \subseteq Owed(q)
             Fresh == cmd[c].op = "init" \/ (cmd[c].op = "migrate" /\ d \in cut)
  <1>7. Others /\ (Fresh => Owed(p)' = {}) /\ (~Fresh => UNCHANGED talk)
    <2>1. CASE Fresh
      <3>1. Resets(p)
        BY <1>3, <2>1 DEF WriteContext
      <3> QED BY <1>1, <2>1, <3>1, ResetsOwed
    <2>2. CASE ~Fresh
      <3>1. UNCHANGED <<old, talk>>
        BY <1>3, <2>2 DEF WriteContext
      <3> QED BY <1>1, <2>2, <3>1 DEF Owed
    <2> QED BY <2>1, <2>2
  <1>8. projects[p] = d => Owed(p)' \subseteq SessionIds(cmd[c].context)
    <2>1. CASE Fresh
      BY <1>7, <2>1
    <2>2. CASE cmd[c].op = "save"
      BY <1>1, <1>2, <1>3, <1>7, <2>2 DEF Job, InitJob, SaveJob, ForgetJob, MigrateJob
    <2>3. ASSUME cmd[c].op = "migrate", d \notin cut, projects[p] = d
          PROVE  Owed(p)' \subseteq SessionIds(cmd[c].context)
      <3>1. context[d].v = 0
        BY <1>1, <1>2, <1>3, <2>3 DEF Job, InitJob, SaveJob, ForgetJob, MigrateJob
      <3>2. SessionIds(context[d]) = {}
        BY <3>1 DEF Solo, SessionIds
      <3>3. Owed(p) = {}
        BY <2>3, <3>2, KeeperAssumption DEF Solo, Kept
      <3> QED BY <1>7, <3>3
    <2> QED BY <1>2, <2>1, <2>2, <2>3
  <1>9. /\ cmd'[c].pc = "view" /\ cmd'[c].op = cmd[c].op /\ cmd'[c].path = p /\ cmd'[c].dir = d
        /\ cmd'[c].by = cmd[c].by /\ cmd'[c].id = cmd[c].id
        /\ cmd'[c].index = cmd[c].index /\ cmd'[c].context = cmd[c].context
    BY <1>1, <1>3, MovesOn
  <1>10. Half(c, d)'
    BY <1>9 DEF Half
  <1>11. ASSUME NEW q \in Paths, projects'[q] # NoDir PROVE Kept(q)'
    <2>1. CASE projects[q] = d
      <3>1. q = p
        BY <1>3, <2>1
      <3>2. projects'[q] = d /\ SessionIds(context[d])' = SessionIds(cmd[c].context)
        BY <1>1, <1>4, <2>1 DEF SessionIds
      <3>3. Owed(q)' \subseteq SessionIds(cmd[c].context)
        BY <1>8, <2>1, <3>1
      <3>4. \E k \in Commands : Half(k, d)'
        BY <1>10
      <3> QED BY <1>4, <1>5, <3>1, <3>2, <3>3, <3>4 DEF Kept
    <2>2. CASE projects[q] # d
      <3>1. projects[q] \in Dirs /\ projects'[q] = projects[q] /\ projects[q] # NoDir
        BY <1>1, <1>11 DEF IInv, GoodFiles, Index
      <3> QED BY <1>1, <1>3, <1>4, <1>7, <2>2, <3>1, ElsewhereKept
    <2> QED BY <2>1, <2>2
  <1>12. \A e \in Dirs : (context[e].v = 0 => context[e].sessions = <<>>)'
    BY <1>4, <1>5 DEF Solo
  <1>13. Job(c)'
    <2>1. CASE cmd[c].op = "init"
      <3>1. InitJob(c)
        BY <1>2, <2>1 DEF Job, InitJob, SaveJob, ForgetJob, MigrateJob
      <3>2. (Owed(cmd[c].path) = {})'
        BY <1>7, <1>9, <2>1 DEF Owed
      <3>3. InitJob(c)'
        BY <1>1, <1>3, <1>4, <1>9, <3>1, <3>2 DEF InitJob
      <3> QED BY <3>3 DEF Job
    <2>2. CASE cmd[c].op = "save"
      <3>1. SaveJob(c) /\ UNCHANGED talk
        BY <1>2, <1>7, <2>2 DEF Job, InitJob, SaveJob, ForgetJob, MigrateJob
      <3>2. SaveJob(c)'
        BY <1>1, <1>3, <1>4, <1>9, <3>1 DEF SaveJob, SessionIds
      <3> QED BY <3>2 DEF Job
    <2>3. CASE cmd[c].op = "migrate"
      <3>1. MigrateJob(c)
        BY <1>2, <2>3 DEF Job, InitJob, SaveJob, ForgetJob, MigrateJob
      <3>2. MigrateJob(c)'
        BY <1>1, <1>3, <1>4, <1>9, <3>1 DEF MigrateJob
      <3> QED BY <3>2 DEF Job
    <2> QED BY <1>2, <2>1, <2>2, <2>3
  <1> QED BY <1>1, <1>11, <1>12, <1>13, SoloGoes

LEMMA SoloWriteView ==
  ASSUME IInv, Solo, NEW c \in Commands, WriteView(c)
  PROVE  Solo'
  <1>1. /\ cmd[c].pc = "view" /\ UNCHANGED <<projects, context, current, memory, talk, old>>
        /\ AfterView(c)
        /\ view' = [view EXCEPT ![cmd[c].dir] = Rendered(cmd[c].context)] /\ cut' = cut \ {cmd[c].dir}
    BY DEF WriteView
  <1>2. Job(c) /\ cmd[c].op \in {"init", "save", "migrate"}
    BY <1>1, AloneWhenMoving DEF Job, InitJob, SaveJob, ForgetJob, MigrateJob
  <1>3. PICK p \in Paths, d \in Dirs :
          p = cmd[c].path /\ d = cmd[c].dir /\ \A q \in Paths : projects[q] = d => q = p
    BY <1>1, <1>2, JobDir
  <1>4. context[d] = cmd[c].context /\ context[d].v = 2 /\ context[d].path \in Own(p, d)
    BY <1>1, <1>2, <1>3 DEF Job, InitJob, SaveJob, ForgetJob, MigrateJob
  <1>5. view'[d] = Rendered(context[d]) /\ (\A e \in Dirs \ {d} : view'[e] = view[e]) /\ d \notin cut'
    BY <1>1, <1>3, <1>4 DEF IInv, GoodFiles
  <1>6. \A q : Owed(q)' = Owed(q)
    BY <1>1 DEF Owed
  <1>7. ASSUME NEW q \in Paths, projects'[q] # NoDir PROVE Kept(q)'
    <2>1. CASE projects[q] = d
      <3>1. q = p /\ projects'[q] = d /\ Kept(p)
        BY <1>1, <1>3, <1>7, <2>1 DEF Solo
      <3>2. Whole(d)'
        BY <1>1, <1>4, <1>5 DEF Whole, Rendered
      <3>3. Owed(p) \subseteq SessionIds(context[d])
        BY <1>4, <2>1, <3>1 DEF Kept
      <3> QED BY <1>1, <1>4, <1>6, <3>1, <3>2, <3>3 DEF Kept
    <2>2. CASE projects[q] # d
      <3>1. projects[q] \in Dirs /\ projects'[q] = projects[q] /\ projects[q] # NoDir
        BY <1>1, <1>7 DEF IInv, GoodFiles, Index
      <3> QED BY <1>1, <1>3, <1>5, <1>6, <2>2, <3>1, ElsewhereKept
    <2> QED BY <2>1, <2>2
  <1> DEFINE pc == IF cmd[c].op = "migrate" THEN "scan" ELSE "index"
  <1>8. AfterView(c) /\ pc = (IF cmd[c].op = "migrate" THEN "scan" ELSE "index")
    BY <1>1
  <1> HIDE DEF pc
  <1>9. /\ cmd'[c].pc = pc /\ cmd'[c].op = cmd[c].op /\ cmd'[c].path = p /\ cmd'[c].dir = d
        /\ cmd'[c].by = cmd[c].by /\ cmd'[c].id = cmd[c].id
        /\ cmd'[c].index = cmd[c].index /\ cmd'[c].context = cmd[c].context
    BY <1>3, <1>8, MovesOn
  <1>10. Job(c)'
    <2>1. CASE cmd[c].op = "init"
      <3>1. InitJob(c) /\ pc = "index"
        BY <1>2, <1>8, <2>1 DEF Job, InitJob, SaveJob, ForgetJob, MigrateJob
      <3>2. (Owed(cmd[c].path) = {})'
        BY <1>1, <1>3, <1>9, <3>1 DEF Owed, InitJob
      <3>3. InitJob(c)'
        BY <1>1, <1>3, <1>4, <1>5, <1>9, <3>1, <3>2 DEF InitJob
      <3> QED BY <3>3 DEF Job
    <2>2. CASE cmd[c].op = "save"
      <3>1. SaveJob(c) /\ pc = "index"
        BY <1>2, <1>8, <2>2 DEF Job, InitJob, SaveJob, ForgetJob, MigrateJob
      <3>2. SaveJob(c)'
        BY <1>1, <1>3, <1>4, <1>9, <3>1 DEF SaveJob, SessionIds
      <3> QED BY <3>2 DEF Job
    <2>3. CASE cmd[c].op = "migrate"
      <3>1. MigrateJob(c) /\ pc = "scan"
        BY <1>2, <1>8, <2>3 DEF Job, InitJob, SaveJob, ForgetJob, MigrateJob
      <3>2. MigrateJob(c)'
        BY <1>1, <1>9, <3>1 DEF MigrateJob
      <3> QED BY <3>2 DEF Job
    <2> QED BY <1>2, <2>1, <2>2, <2>3
  <1>11. \A e \in Dirs : (context[e].v = 0 => context[e].sessions = <<>>)'
    BY <1>1 DEF Solo
  <1> QED BY <1>1, <1>7, <1>10, <1>11, SoloAfterView

LEMMA SoloBackup ==
  ASSUME IInv, Solo, NEW c \in Commands, Backup(c)
  PROVE  Solo'
  <1>1. cmd[c].pc = "backup" /\ Goes(c, "context") /\ UNCHANGED <<projects, context, view, current, memory, talk, cut, old>>
    BY DEF Backup
  <1>2. IInv' /\ MigrateJob(c) /\ \A k \in Commands \ {c} : cmd[k].pc = "idle"
    BY <1>1, AloneWhenMoving, WriteSteps DEF Job, InitJob, SaveJob, ForgetJob, MigrateJob
  <1>3. MigrateJob(c)'
    BY <1>1, <1>2, MovesOn DEF MigrateJob
  <1>4. (\A d \in Dirs : ~Half(c, d)) /\ cmd' \in [Commands -> Command]
    BY <1>1, <1>2 DEF Half, IInv, MigrateJob
  <1> QED BY <1>1, <1>2, <1>3, <1>4, ReadKeeps, SoloGoes DEF Job

LEMMA SoloWriteIndex ==
  ASSUME IInv, Solo, NEW c \in Commands, WriteIndex(c)
  PROVE  Solo'
  <1>1. /\ cmd[c].pc = "index" /\ projects' = cmd[c].index
        /\ IF cmd[c].op = "save" THEN Goes(c, "memory") ELSE Ends(c)
        /\ UNCHANGED <<context, view, current, memory, talk, cut, old>>
    BY DEF WriteIndex
  <1>2. IInv' /\ Job(c) /\ \A k \in Commands \ {c} : cmd[k].pc = "idle"
    BY <1>1, AloneWhenMoving, WriteSteps
  <1>3. (\A d \in Dirs : (context[d].v = 0 => context[d].sessions = <<>>)') /\ cmd' \in [Commands -> Command]
    BY <1>1, <1>2 DEF Solo, IInv
  <1>4. \A q : Owed(q)' = Owed(q)
    BY <1>1 DEF Owed
  <1>5. CASE cmd[c].op \in {"save", "migrate"}
    <2>1. UNCHANGED projects
      BY <1>1, <1>2, <1>5 DEF Job, InitJob, SaveJob, ForgetJob, MigrateJob
    <2>2. \A d \in Dirs : ~Half(c, d)
      BY <1>1, <1>5 DEF Half
    <2>3. \A p \in Paths : (projects[p] # NoDir => Kept(p))'
      BY <1>1, <1>2, <1>3, <2>1, <2>2, ReadKeeps
    <2>4. CASE cmd[c].op = "save"
      <3>1. SaveJob(c) /\ Goes(c, "memory")
        BY <1>1, <1>2, <2>4 DEF Job, InitJob, SaveJob, ForgetJob, MigrateJob
      <3>2. SaveJob(c)'
        BY <1>1, <2>1, <3>1, MovesOn DEF SaveJob, SessionIds
      <3> QED BY <1>1, <1>3, <2>3, <3>1, <3>2, SoloGoes DEF Job
    <2>5. CASE cmd[c].op # "save"
      BY <1>1, <1>3, <2>3, <2>5, SoloEnds
    <2> QED BY <2>4, <2>5
  <1>6. CASE cmd[c].op \in {"init", "forget"}
    <2>1. PICK p \in Paths, d \in Dirs :
            p = cmd[c].path /\ d = cmd[c].dir /\ \A q \in Paths : projects[q] = d => q = p
      BY <1>1, <1>2, <1>6, JobDir
    <2>2. \A q \in Paths \ {p} : projects'[q] = projects[q]
      BY <1>1, <1>2, <1>6, <2>1 DEF Job, InitJob, SaveJob, ForgetJob, MigrateJob, IInv, GoodFiles, Index
    <2>3. ASSUME NEW q \in Paths, projects'[q] # NoDir PROVE Kept(q)'
      <3>1. CASE q # p
        BY <1>1, <1>4, <2>1, <2>2, <2>3, <3>1, ElsewhereKept
      <3>2. CASE q = p /\ cmd[c].op = "init"
        <4>1. InitJob(c)
          BY <1>2, <3>2 DEF Job, InitJob, SaveJob, ForgetJob, MigrateJob
        <4>2. projects'[p] = d
          BY <1>1, <2>1, <4>1 DEF InitJob, IInv, GoodFiles, Index
        <4>3. /\ context[d] = cmd[c].context /\ context[d].v = 2 /\ context[d].path \in Own(p, d)
              /\ view[d] = Rendered(context[d]) /\ Owed(p) = {}
          BY <1>1, <2>1, <4>1 DEF InitJob
        <4>4. Whole(d)'
          BY <1>1, <4>3 DEF Whole, Rendered
        <4> QED BY <1>1, <1>4, <3>2, <4>2, <4>3, <4>4 DEF Kept
      <3>3. CASE q = p /\ cmd[c].op = "forget"
        BY <1>1, <1>2, <2>1, <2>3, <3>3 DEF Job, InitJob, SaveJob, ForgetJob, MigrateJob, IInv, GoodFiles, Index
      <3> QED BY <1>6, <3>1, <3>2, <3>3
    <2> QED BY <1>1, <1>3, <1>6, <2>3, SoloEnds
  <1> QED BY <1>2, <1>5, <1>6 DEF Job, InitJob, SaveJob, ForgetJob, MigrateJob

LEMMA SoloWriteMemory ==
  ASSUME IInv, Solo, NEW c \in Commands, WriteMemory(c)
  PROVE  Solo'
  <1>1. /\ cmd[c].pc = "memory" /\ Ends(c) /\ UNCHANGED <<projects, context, view, current, cut>>
        /\ talk' = [talk EXCEPT ![cmd[c].by].saved = TRUE]
    BY DEF WriteMemory
  <1>2. SaveJob(c) /\ \A k \in Commands \ {c} : cmd[k].pc = "idle"
    BY <1>1, AloneWhenMoving DEF Job, InitJob, SaveJob, ForgetJob, MigrateJob
  <1>3. PICK p \in Paths, d \in Dirs : p = cmd[c].path /\ d = cmd[c].dir
    BY <1>2 DEF SaveJob
  <1> DEFINE id == cmd[c].id
             u == cmd[c].by
  <1>4. /\ u \in Conversations /\ talk[u].path = p /\ (current = u => id = u) /\ id \in SessionIds(context[d])
        /\ projects[p] = d /\ d # NoDir
    BY <1>1, <1>2, <1>3, KeeperAssumption DEF SaveJob
  <1>5. \A t \in Conversations : talk'[t].path = talk[t].path /\ (talk'[t].saved => talk[t].saved \/ t = u)
    BY <1>1, <1>4 DEF IInv, GoodTalks
  <1>6. memory' \ old' \subseteq (memory \ old) \cup {<<p, id>>}
    BY <1>3 DEF WriteMemory
  <1> HIDE DEF id, u
  <1>7. ASSUME NEW q \in Paths
        PROVE  Owed(q)' \subseteq Owed(q) \cup (IF q = p THEN {id} ELSE {})
    BY <1>1, <1>4, <1>5, <1>6 DEF Owed
  <1>8. ASSUME NEW q \in Paths, projects'[q] # NoDir PROVE Kept(q)'
    <2>1. CASE q = p
      <3>1. ~Half(c, d) /\ Kept(p)
        BY <1>1, <1>2, <1>4 DEF Half, SaveJob, Solo
      <3>2. d \notin cut => Whole(d)
        BY <1>2, <1>4, <3>1, WholeUnlessHalf
      <3>3. d \notin cut => Whole(d)'
        BY <1>1, <3>2 DEF Whole
      <3>4. d \notin cut \/ context[d].v = 2 => Owed(p)' \subseteq SessionIds(context[d])
        BY <1>4, <1>7, <3>1 DEF Kept
      <3> QED BY <1>1, <1>4, <2>1, <3>1, <3>3, <3>4 DEF Kept
    <2>2. CASE q # p
      <3>1. projects[q] # d /\ projects'[q] = projects[q]
        BY <1>1, <1>4, <2>2 DEF IInv, GoodFiles, Unique
      <3>2. Owed(q)' \subseteq Owed(q)
        BY <1>7, <2>2
      <3> QED BY <1>1, <1>3, <1>8, <3>1, <3>2, ElsewhereKept
    <2> QED BY <2>1, <2>2
  <1>9. \A e \in Dirs : (context[e].v = 0 => context[e].sessions = <<>>)'
    BY <1>1 DEF Solo
  <1> QED BY <1>1, <1>8, <1>9, SoloEnds

(* A directory has a name, unless Root is one: what is removed is the      *)
(* project's own.                                                          *)
LEMMA SoloRemove ==
  ASSUME IInv, Solo, Root \notin Dirs, NEW c \in Commands, Remove(c)
  PROVE  Solo'
  <1>1. /\ cmd[c].pc = "remove" /\ Goes(c, "reread") /\ UNCHANGED <<projects, current, memory, cut>>
        /\ Resets(cmd[c].path)
        /\ context' = [d \in Dirs |-> IF d \in Below(cmd[c].dir) THEN NoContext ELSE context[d]]
        /\ view' = [d \in Dirs |-> IF d \in Below(cmd[c].dir) THEN NoView ELSE view[d]]
    BY DEF Remove, Removes
  <1>2. Job(c) /\ ForgetJob(c)
    BY <1>1, AloneWhenMoving DEF Job, InitJob, SaveJob, ForgetJob, MigrateJob
  <1>3. PICK p \in Paths, d \in Dirs :
          p = cmd[c].path /\ d = cmd[c].dir /\ \A q \in Paths : projects[q] = d => q = p
    BY <1>1, <1>2, JobDir
  <1>4. Below(cmd[c].dir) = {d}
    BY <1>3 DEF Below
  <1>5. /\ context'[d].v = 0 /\ context'[d].sessions = <<>>
        /\ \A e \in Dirs \ {d} : context'[e] = context[e] /\ view'[e] = view[e]
    BY <1>1, <1>4 DEF NoContext
  <1>6. Owed(p)' = {} /\ \A q : Owed(q)' \subseteq Owed(q)
    BY <1>1, <1>3, ResetsOwed
  <1>7. cmd'[c].pc = "reread" /\ cmd'[c].op = cmd[c].op /\ cmd'[c].path = p /\ cmd'[c].dir = d
    BY <1>1, <1>3, MovesOn
  <1>8. ASSUME NEW q \in Paths, projects'[q] # NoDir PROVE Kept(q)'
    <2>1. CASE projects[q] = d
      <3>1. q = p /\ projects'[q] = d /\ Half(c, d)'
        BY <1>1, <1>3, <1>7, <2>1 DEF Half
      <3> QED BY <1>5, <1>6, <3>1 DEF Kept
    <2>2. CASE projects[q] # d
      <3>1. projects[q] \in Dirs /\ projects'[q] = projects[q] /\ projects[q] # NoDir
        BY <1>1, <1>8 DEF IInv, GoodFiles, Index
      <3> QED BY <1>1, <1>3, <1>5, <1>6, <2>2, <3>1, ElsewhereKept
    <2> QED BY <2>1, <2>2
  <1>9. \A e \in Dirs : (context[e].v = 0 => context[e].sessions = <<>>)'
    BY <1>5 DEF Solo
  <1>10. ForgetJob(c)'
    <2>1. (Owed(cmd[c].path) = {})'
      BY <1>6, <1>7 DEF Owed
    <2> QED BY <1>1, <1>2, <1>3, <1>5, <1>7, <2>1 DEF ForgetJob
  <1> QED BY <1>1, <1>8, <1>9, <1>10, SoloGoes DEF Job

(* A removal that stops half way leaves the directory among those cut.     *)
LEMMA SoloRemovePartly ==
  ASSUME IInv, Solo, Root \notin Dirs, NEW c \in Commands, RemovePartly(c)
  PROVE  Solo'
  <1>1. /\ cmd[c].pc = "remove" /\ Ends(c) /\ UNCHANGED <<projects, current, memory>>
        /\ cut' = cut \cup Below(cmd[c].dir)
    BY DEF RemovePartly
  <1>2. Job(c) /\ ForgetJob(c)
    BY <1>1, AloneWhenMoving DEF Job, InitJob, SaveJob, ForgetJob, MigrateJob
  <1>3. PICK p \in Paths, d \in Dirs :
          p = cmd[c].path /\ d = cmd[c].dir /\ \A q \in Paths : projects[q] = d => q = p
    BY <1>1, <1>2, JobDir
  <1>4. Below(cmd[c].dir) = {d} /\ cut' = cut \cup {d}
    BY <1>1, <1>3 DEF Below
  <1>5. \A e \in Dirs \ {d} : context'[e] = context[e] /\ view'[e] = view[e]
    BY <1>4 DEF RemovePartly, Removes, IInv, GoodFiles
  <1>6. /\ \A q : Owed(q)' \subseteq Owed(q)
        /\ context'[d] = context[d] \/ (context'[d] = NoContext /\ Owed(p)' = {})
    <2>1. CASE context' = context /\ UNCHANGED <<old, talk>>
      BY <1>1, <2>1 DEF Owed
    <2>2. CASE /\ context' = [e \in Dirs |-> IF e \in Below(cmd[c].dir) THEN NoContext ELSE context[e]]
               /\ Resets(p)
      <3>1. context'[d] = NoContext
        BY <1>4, <2>2
      <3> QED BY <1>1, <2>2, <3>1, ResetsOwed
    <2> QED BY <1>3, <2>1, <2>2 DEF RemovePartly, Removes
  <1>7. NoContext.v = 0 /\ NoContext.sessions = <<>>
    BY DEF NoContext
  <1>8. ASSUME NEW q \in Paths, projects'[q] # NoDir PROVE Kept(q)'
    <2>1. CASE projects[q] = d
      <3>1. q = p /\ projects'[q] = d /\ d \in cut' /\ Kept(p)
        BY <1>1, <1>3, <1>4, <1>8, <2>1 DEF Solo
      <3>2. context'[d].v = 2 => context'[d] = context[d] /\ context[d].v = 2
        BY <1>6, <1>7
      <3>3. context'[d].v = 2 => Owed(p)' \subseteq SessionIds(context'[d])
        BY <1>6, <2>1, <3>1, <3>2 DEF Kept
      <3> QED BY <2>1, <3>1, <3>2, <3>3 DEF Kept, SessionIds
    <2>2. CASE projects[q] # d
      <3>1. projects[q] \in Dirs /\ projects'[q] = projects[q] /\ projects[q] # NoDir
        BY <1>1, <1>8 DEF IInv, GoodFiles, Index
      <3> QED BY <1>1, <1>3, <1>4, <1>5, <1>6, <2>2, <3>1, ElsewhereKept
    <2> QED BY <2>1, <2>2
  <1>9. \A e \in Dirs : (context[e].v = 0 => context[e].sessions = <<>>)'
    BY <1>5, <1>6, <1>7 DEF Solo
  <1> QED BY <1>1, <1>8, <1>9, SoloEnds

(* A death or failure leaves what it half wrote among the directories cut. *)
LEMMA SoloDie ==
  ASSUME IInv, Solo, NEW c \in Commands, Die(c)
  PROVE  Solo'
  <1>1. cmd[c].pc # "idle" /\ (Ends(c) \/ GoesOn(c)) /\ UNCHANGED <<current, memory, talk, old>>
    BY DEF Die
  <1>2. Job(c) /\ \A k \in Commands \ {c} : cmd[k].pc = "idle"
    BY <1>1, AloneWhenMoving
  <1>3. cmd[c].pc = "reread" => cmd[c].op = "forget"
    BY <1>2 DEF Job, InitJob, SaveJob, ForgetJob, MigrateJob
  <1> DEFINE dir == cmd[c].dir
  <1>4. ASSUME NEW q \in Paths, projects'[q] # NoDir
        PROVE  LET d == projects[q] IN
               /\ projects'[q] = d /\ d \in Dirs
               /\ d \in cut => d \in cut'
               /\ d \notin cut' => ~Half(c, d) /\ context'[d] = context[d] /\ view'[d] = view[d]
               /\ context'[d] = context[d] \/ (d \in cut' /\ context'[d] = NoContext)
    <2>0. projects \in Index /\ context \in [Dirs -> Context] /\ view \in [Dirs -> View]
      BY DEF IInv, GoodFiles
    <2>1. CASE /\ UNCHANGED <<projects, context, view>>
               /\ cut' = IF cmd[c].pc = "view" \/ (cmd[c].op = "forget" /\ cmd[c].pc \in {"reread", "index"})
                           THEN cut \cup {dir} ELSE cut
      BY <1>3, <1>4, <2>0, <2>1 DEF Half, Index
    <2>2. CASE /\ cmd[c].pc = "context" /\ context' = [context EXCEPT ![dir] = NoContext]
               /\ cut' = cut \cup {dir} /\ UNCHANGED <<projects, view>>
      <3>1. \A d \in Dirs : context'[d] = IF d = dir THEN NoContext ELSE context[d]
        BY <2>0, <2>2
      <3> QED BY <1>4, <2>0, <2>2, <3>1 DEF Half, Index
    <2>3. CASE /\ cmd[c].pc = "view" /\ view' = [view EXCEPT ![dir] = NoView]
               /\ cut' = cut \cup {dir} /\ UNCHANGED <<projects, context>>
      <3>1. \A d \in Dirs : view'[d] = IF d = dir THEN NoView ELSE view[d]
        BY <2>0, <2>3
      <3> QED BY <1>4, <2>0, <2>3, <3>1 DEF Half, Index
    <2>4. CASE cmd[c].pc = "index" /\ projects' = EmptyIndex /\ UNCHANGED <<context, view, cut>>
      BY <1>4, <2>4 DEF EmptyIndex
    <2> QED BY <2>1, <2>2, <2>3, <2>4 DEF Die
  <1>5. \A q : Owed(q)' = Owed(q)
    BY <1>1 DEF Owed
  <1>6. NoContext.v = 0 /\ NoContext.sessions = <<>>
    BY DEF NoContext
  <1>7. ASSUME NEW q \in Paths, projects'[q] # NoDir PROVE Kept(q)'
    <2>1. PICK d \in Dirs :
            /\ d = projects[q] /\ projects'[q] = d
            /\ d \in cut => d \in cut'
            /\ d \notin cut' => ~Half(c, d) /\ context'[d] = context[d] /\ view'[d] = view[d]
            /\ context'[d] = context[d] \/ (d \in cut' /\ context'[d] = NoContext)
      BY <1>4, <1>7
    <2>2. Kept(q) /\ projects[q] # NoDir
      BY <1>7, <2>1 DEF Solo
    <2>3. d \notin cut' => Whole(d)
      BY <1>2, <2>1, <2>2, WholeUnlessHalf
    <2>4. d \notin cut' => Whole(d)'
      BY <2>1, <2>3 DEF Whole
    <2>5. context'[d].v = 2 => context'[d].path \in Own(q, d)
      BY <1>6, <2>1, <2>2 DEF Kept
    <2>6. d \notin cut' \/ context'[d].v = 2 => Owed(q)' \subseteq SessionIds(context'[d])
      BY <1>5, <1>6, <2>1, <2>2 DEF Kept
    <2> QED BY <2>1, <2>4, <2>5, <2>6 DEF Kept, SessionIds
  <1>8. \A e \in Dirs : (context[e].v = 0 => context[e].sessions = <<>>)'
    <2>1. \A e \in Dirs : context'[e] = context[e] \/ context'[e] = NoContext
      BY DEF Die, IInv, GoodFiles
    <2> QED BY <1>6, <2>1 DEF Solo
  <1>9. CASE GoesOn(c)
    <2>1. /\ cmd[c].op = "migrate" /\ cmd[c].pc \in {"backup", "context", "view"} /\ Goes(c, "scan")
          /\ UNCHANGED projects
      BY <1>9 DEF GoesOn, Die
    <2>2. MigrateJob(c)
      BY <1>2, <2>1 DEF Job, InitJob, SaveJob, ForgetJob, MigrateJob
    <2>3. /\ cmd'[c].op = "migrate" /\ cmd'[c].pc = "scan" /\ cmd'[c].index = cmd[c].index
      BY <2>1, MovesOn
    <2>4. MigrateJob(c)'
      BY <2>1, <2>2, <2>3 DEF MigrateJob
    <2> QED BY <1>1, <1>7, <1>8, <2>1, <2>4, SoloGoes DEF Job
  <1> QED BY <1>1, <1>7, <1>8, <1>9, SoloEnds

(* A conversation starts while no command runs.                            *)
LEMMA SoloStart ==
  ASSUME IInv, SoloInv, ~overlapped', NEW t \in Conversations, NEW p \in Paths, StartConversation(t, p)
  PROVE  Solo' /\ \A u \in Conversations :
                    talk'[t].warned = u => ~(talk[u].saved /\ talk[u].path = talk'[t].path)
  <1>1. /\ ~overlapped /\ ~Busy /\ UNCHANGED <<projects, context, view, memory, cmd, cut, old>>
        /\ current' \in {current, t, Nobody}
        /\ talk' = [talk EXCEPT ![t] = [path |-> p, saved |-> FALSE,
                                        warned |-> IF Unsaved(t, p) THEN Previous(t) ELSE Nobody]]
    BY DEF StartConversation
  <1>2. Solo /\ \A k \in Commands : cmd[k].pc = "idle"
    BY <1>1 DEF SoloInv, Busy
  <1>3. /\ talk'[t].path = p /\ ~talk'[t].saved /\ \A u \in Conversations \ {t} : talk'[u] = talk[u]
        /\ talk'[t].warned = IF Unsaved(t, p) THEN current ELSE Nobody
    BY <1>1 DEF IInv, GoodTalks, Previous
  <1>4. \A q : Owed(q)' \subseteq Owed(q)
    BY <1>1, <1>3, KeeperAssumption DEF Owed
  <1>5. ASSUME NEW q \in Paths, projects'[q] # NoDir PROVE Kept(q)'
    <2>1. Kept(q) /\ projects[q] # NoDir
      BY <1>1, <1>2, <1>5 DEF Solo
    <2>2. \A k \in Commands : ~Half(k, projects[q])
      BY <1>2 DEF Half
    <2>3. projects[q] \notin cut => Whole(projects[q])
      BY <2>1, <2>2 DEF Kept
    <2>4. projects[q] \notin cut => Whole(projects[q])'
      BY <1>1, <2>3 DEF Whole
    <2> QED BY <1>1, <1>4, <2>1, <2>4 DEF Kept, SessionIds
  <1>6. Solo'
    BY <1>1, <1>2, <1>5 DEF Solo
  <1>7. ASSUME NEW u \in Conversations, talk'[t].warned = u, talk[u].saved, talk[u].path = p PROVE FALSE
    <2>1. Unsaved(t, p) /\ current = u
      BY <1>3, <1>7, KeeperAssumption
    <2>2. /\ projects[p] # NoDir /\ context[projects[p]].v = 2 /\ u \notin SessionIds(context[projects[p]])
      BY <2>1 DEF Unsaved, Previous
    <2>3. u \in Owed(p) /\ Owed(p) \subseteq SessionIds(context[projects[p]])
      BY <1>2, <1>7, <2>1, <2>2 DEF Owed, Solo, Kept
    <2> QED BY <2>2, <2>3
  <1> QED BY <1>3, <1>6, <1>7

LEMMA SoloNext ==
  ASSUME IInv, SoloInv, Root \notin Dirs, [Next]_vars
  PROVE  SoloInv'
  <1> SUFFICES ASSUME ~overlapped' PROVE Solo'
    BY DEF SoloInv
  <1>1. ASSUME NEW c \in Commands, CommandStep(c) PROVE Solo'
    <2>1. CASE (\E p \in Paths : (\E n \in Names : BeginInit(c, p, n)) \/ BeginForget(c, p))
               \/ (\E t \in Conversations : BeginSave(c, t)) \/ BeginMigrate(c)
      BY <2>1, SoloBegins
    <2>2. CASE LoadToSave(c) \/ LoadToForget(c) \/ Scan(c) \/ Reread(c)
      <3>1. Solo
        BY <2>2 DEF SoloInv, LoadToSave, LoadToForget, Scan, Reread, Reads, Runs
      <3> QED BY <2>2, <3>1, SoloLoadToSave, SoloLoadToForget, SoloScan, SoloReread
    <2>3. CASE Backup(c) \/ WriteContext(c) \/ WriteView(c) \/ WriteIndex(c) \/ WriteMemory(c) \/ Remove(c) \/ RemovePartly(c)
      <3>1. Solo
        BY <2>3 DEF SoloInv, Backup, WriteContext, WriteView, WriteIndex, WriteMemory, Remove, RemovePartly, Runs
      <3> QED BY <2>3, <3>1, SoloBackup, SoloWriteContext, SoloWriteView, SoloWriteIndex, SoloWriteMemory,
                 SoloRemove, SoloRemovePartly
    <2>4. CASE Die(c)
      <3>1. Solo
        BY <2>4 DEF SoloInv, Die
      <3> QED BY <2>4, <3>1, SoloDie
    <2> QED BY <1>1, <2>1, <2>2, <2>3, <2>4 DEF CommandStep
  <1>2. CASE UNCHANGED vars
    <2>1. Solo /\ UNCHANGED <<projects, context, view, memory, old, cut, cmd, talk, current, overlapped>>
      BY <1>2 DEF vars, files, SoloInv
    <2>2. \A c \in Commands : Job(c)' = Job(c)
      BY <2>1 DEF Job, InitJob, SaveJob, ForgetJob, MigrateJob, Owed, SessionIds
    <2>3. \A p \in Paths : Kept(p)' = Kept(p)
      <3>1. \A p \in Paths : Owed(p)' = Owed(p)
        BY <2>1 DEF Owed
      <3> QED BY <2>1, <3>1 DEF Kept, Whole, Half, SessionIds
    <2> QED BY <2>1, <2>2, <2>3 DEF Solo
  <1>3. ASSUME NEW t \in Conversations, NEW p \in Paths, StartConversation(t, p) PROVE Solo'
    BY <1>3, SoloStart
  <1> QED BY <1>1, <1>2, <1>3 DEF Next

(* What is in the native memory is of a project.                           *)
MemoryOfProjects == ~overlapped => \A m \in memory : m[1] \in Paths

LEMMA MemoryStep ==
  ASSUME IInv, SoloInv, MemoryOfProjects, [Next]_vars
  PROVE  MemoryOfProjects'
  <1> SUFFICES ASSUME ~overlapped' PROVE \A m \in memory' : m[1] \in Paths
    BY DEF MemoryOfProjects
  <1>1. ASSUME NEW c \in Commands, WriteMemory(c) PROVE \A m \in memory' : m[1] \in Paths
    <2>1. cmd[c].pc = "memory" /\ ~overlapped /\ Solo
      BY <1>1 DEF WriteMemory, Runs, SoloInv
    <2>2. cmd[c].path \in Paths
      BY <2>1 DEF Solo, Job, InitJob, SaveJob, ForgetJob, MigrateJob
    <2>3. memory' \subseteq memory \cup {<<cmd[c].path, cmd[c].id>>}
      BY <1>1 DEF WriteMemory
    <2> QED BY <2>1, <2>2, <2>3 DEF MemoryOfProjects
  <1>2. CASE UNCHANGED memory /\ ~overlapped
    BY <1>2 DEF MemoryOfProjects
  <1>3. ASSUME NEW c \in Commands, CommandStep(c), ~WriteMemory(c) PROVE UNCHANGED memory /\ ~overlapped
    <2>1. CASE Begins(c) /\ Starts
      BY <2>1 DEF Begins, Starts, files
    <2>2. CASE Reads
      BY <2>2 DEF Reads, Runs, files
    <2>3. CASE Runs /\ UNCHANGED memory
      BY <2>3 DEF Runs
    <2>4. CASE Die(c) \/ RemovePartly(c)
      BY <2>4 DEF Die, RemovePartly
    <2>5. ASSUME ~Reads, ~Die(c), ~RemovePartly(c), ~(Begins(c) /\ Starts) PROVE Runs /\ UNCHANGED memory
      BY <1>3, <2>5 DEF CommandStep, BeginInit, BeginSave, BeginForget, BeginMigrate, LoadToSave, LoadToForget, Scan, Reread,
         Backup, WriteContext, WriteView, WriteIndex, Remove
    <2> QED BY <2>1, <2>2, <2>3, <2>4, <2>5
  <1>4. ASSUME NEW t \in Conversations, NEW p \in Paths, StartConversation(t, p) PROVE UNCHANGED memory /\ ~overlapped
    BY <1>4 DEF StartConversation
  <1>5. CASE UNCHANGED vars
    BY <1>2, <1>5 DEF vars, files
  <1> QED BY <1>1, <1>2, <1>3, <1>4, <1>5 DEF Next

(* Only the hook warns.                                                    *)
LEMMA CommandsDoNotWarn ==
  ASSUME IInv, NEW c \in Commands, CommandStep(c), NEW t \in Conversations
  PROVE  talk'[t].warned = talk[t].warned
  <1>1. ASSUME NEW p, Resets(p) PROVE talk'[t].warned = talk[t].warned
    BY <1>1 DEF Resets, IInv, GoodTalks
  <1>2. CASE WriteMemory(c)
    BY <1>2 DEF WriteMemory, IInv, GoodTalks
  <1>3. CASE WriteContext(c) \/ Remove(c) \/ RemovePartly(c)
    BY <1>1, <1>3 DEF WriteContext, Remove, RemovePartly
  <1>4. CASE UNCHANGED talk
    BY <1>4
  <1>5. ASSUME ~WriteMemory(c), ~WriteContext(c), ~Remove(c), ~RemovePartly(c) PROVE UNCHANGED talk
    BY <1>5 DEF CommandStep, BeginInit, BeginSave, BeginForget, BeginMigrate, Starts, LoadToSave, LoadToForget,
       Scan, Reread, Reads, Backup, WriteView, WriteIndex, Die
  <1> QED BY <1>2, <1>3, <1>4, <1>5

(* As long as commands do not overlap, whichever of them die and at which  *)
(* write: every registered project is whole and holds what was saved, but  *)
(* for what the running command is at and what a dead one left cut.  The   *)
(* name of a directory must not be empty: a forget of a project of that    *)
(* name removes the contexts of all (commands/forget.mjs).                 *)
THEOREM SoloInvariant ==
  ASSUME Root \notin Dirs PROVE Spec => [](IInv /\ SoloInv /\ MemoryOfProjects)
  <1>1. Init => IInv /\ SoloInv /\ MemoryOfProjects
    BY InitInvariant, SoloInit DEF Init, MemoryOfProjects
  <1>2. IInv /\ SoloInv /\ MemoryOfProjects /\ [Next]_vars => (IInv /\ SoloInv /\ MemoryOfProjects)'
    BY NextInvariant, SoloNext, MemoryStep
  <1> QED BY <1>1, <1>2, PTL DEF Spec

(* A registered project has a context.json and a CONTEXT.md that shows it, *)
(* or waits for migrate; a directory in which a command died or failed has *)
(* its context.json still, unless the command was within the plain write   *)
(* of it or forgetting the project.                                        *)
THEOREM ProjectsAreReadable ==
  ASSUME Root \notin Dirs PROVE Spec => []RegisteredIsReadable
  <1>1. IInv /\ SoloInv => RegisteredIsReadable
    <2> SUFFICES ASSUME IInv, Solo, NEW p \in Paths, NEW d, d = projects[p], d # NoDir,
                        \A c \in Commands : cmd[c].dir # d
                 PROVE  \/ context[d].v = 2 /\ context[d].path \in Own(p, d)
                           /\ (d \in cut \/ view[d] = Rendered(context[d]))
                        \/ context[d].v = 0 /\ (d \in cut \/ view[d].v = 1)
      BY DEF SoloInv, RegisteredIsReadable
    <2>1. d \in Dirs /\ context[d].v \in {0, 2}
      BY DEF IInv, GoodFiles, Index, Context
    <2> QED BY <2>1 DEF Solo, Kept, Whole, Half
  <1> QED BY <1>1, SoloInvariant, PTL

(* What went to the native memory is found in the context of its project   *)
(* until that is forgotten or registered again, also where commands died   *)
(* or failed; but not where one was within the plain write of context.json *)
(* (shared.mjs:64): that loses the sessions of its directory.              *)
THEOREM SavesAreKept ==
  ASSUME Root \notin Dirs PROVE Spec => []SavedIsKept
  <1>1. IInv /\ SoloInv /\ MemoryOfProjects => SavedIsKept
    <2> SUFFICES ASSUME IInv, Solo, \A n \in memory : n[1] \in Paths, NEW m \in memory \ old,
                        projects[m[1]] # NoDir
                 PROVE  LET d == projects[m[1]] IN
                        m[2] \in SessionIds(context[d]) \/ (d \in cut /\ context[d].v = 0)
      BY DEF SoloInv, MemoryOfProjects, SavedIsKept
    <2>1. projects[m[1]] \in Dirs /\ context[projects[m[1]]].v \in {0, 2}
      BY DEF IInv, GoodFiles, Index, Context
    <2> QED BY <2>1 DEF Solo, Kept, Owed
  <1> QED BY <1>1, SoloInvariant, PTL

(* The hook warns of no conversation that was saved: it would have found   *)
(* its session in the context it reads.                                    *)
THEOREM AlarmsAreTrue ==
  ASSUME Root \notin Dirs PROVE Spec => NoFalseAlarm
  <1>1. ASSUME IInv, SoloInv, [Next]_vars
        PROVE  [\A t, u \in Conversations :
                 ~overlapped' /\ talk'[t].warned = u /\ talk[t].warned # u
                   => ~(talk[u].saved /\ talk[u].path = talk'[t].path)]_vars
    <2> SUFFICES ASSUME NEW t \in Conversations, NEW u \in Conversations,
                        ~overlapped', talk'[t].warned = u, talk[t].warned # u
                 PROVE  ~(talk[u].saved /\ talk[u].path = talk'[t].path)
      OBVIOUS
    <2>1. CASE \E c \in Commands : CommandStep(c)
      BY <1>1, <2>1, CommandsDoNotWarn
    <2>2. CASE \E k \in Conversations, p \in Paths : StartConversation(k, p)
      <3>1. PICK k \in Conversations, p \in Paths : StartConversation(k, p)
        BY <2>2
      <3>2. CASE k = t
        BY <1>1, <3>1, <3>2, SoloStart
      <3>3. CASE k # t
        BY <1>1, <3>1, <3>3 DEF StartConversation, IInv, GoodTalks
      <3> QED BY <3>2, <3>3
    <2>3. CASE UNCHANGED vars
      BY <2>3 DEF vars
    <2> QED BY <1>1, <2>1, <2>2, <2>3 DEF Next
  <1> QED BY <1>1, SoloInvariant, PTL DEF NoFalseAlarm, Spec
=============================================================================
