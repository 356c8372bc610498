------------------------------ MODULE Workspace ------------------------------
(***************************************************************************)
(* The workspace tools of src/src/operations.ts: calls of clients that     *)
(* edit a file, run commands, commit, deploy, and keep checkpoints and the *)
(* portable project context in files under .agent, next to users who edit  *)
(* the same file.                                                          *)
(*                                                                         *)
(* The calls of one runtime interleave at their awaits; only a rename is   *)
(* atomic, any other write empties the file first.                         *)
(*                                                                         *)
(* Abstracted: one root, one file of its repository.  A text is the set of *)
(* the edits in it, so its hash is the text itself.  What commands, commits*)
(* and containers change outside is left out, and so are what a note says  *)
(* of the repository and the journal events.jsonl, only appended to.  A    *)
(* field of the project context is the mark of the save that recorded it;  *)
(* two stand for the nine that a save carries over, and client for client  *)
(* and metadata, which it does not.                                        *)
(***************************************************************************)
EXTENDS Integers, FiniteSets

CONSTANTS
  Calls,       \* calls that may run at a time
  Ops,         \* the tools that are called
  NoFile, Torn,
  MaxCalls,    \* bound: calls
  MaxEdits,    \* bound: edits of users
  MaxTicks,    \* bound: the clock of temporary file names
  MaxFaults    \* bound: restarts, writes and inspections that fail

Edits == {"write", "append", "edit", "patch", "bounded"}
Saves == {"task", "context"}
Tools == Edits \cup Saves \cup {"command", "check", "commit", "deploy", "ensure", "stop"}

VARIABLES
  readOnly,  \* the configuration of the root
  content,   \* the file: the edits in it
  temp,      \* temporary files, by kind and time
  memory,    \* .agent: recovery-checkpoint, current-task, project-context
  now,       \* the clock
  call,      \* the calls
  begun, edits, faults,  \* bounds
  safe,      \* history: edits of calls that are over, and of users
  clash,     \* history: two calls wrote one temporary file
  covered,   \* history: calls during which a recovery checkpoint was written
  kept,      \* history: what saves of the project context recorded last
  mixed      \* history: saves of the project context overlapped

env == <<readOnly, now, edits>>
hist == <<safe, clash, covered, kept, mixed>>
vars == <<env, content, temp, memory, call, begun, faults, hist>>

Marks == 0..MaxCalls       \* 0: of a user
Contents == (SUBSET Marks) \cup {Torn}
Names == {"patch", "bounded", "rollback"} \X (0..MaxTicks)
Files == {"recovery", "task", "context"}

Carried == {"objective", "blockers"}
Fields == Carried \cup {"client"}
Notes == SUBSET (Fields \X Marks)

NoCall ==
  [op |-> "none", pc |-> "idle", n |-> 0, then |-> "done", strict |-> FALSE, expected |-> {},
   base |-> {}, time |-> 0, note |-> {}, gives |-> {}, since |-> {}]

Call ==
  [op: Tools \cup {"none"},
   pc: {"idle", "open", "fill", "append", "read", "temp", "rename", "inspect", "existing", "again",
        "trunc", "save", "check", "look", "undo", "restore", "run", "policy"},
   n: Marks, then: {"done", "check", "look", "run"}, strict: BOOLEAN, expected: Contents,
   base: Contents, time: 0..MaxTicks, note: Notes, gives: SUBSET Fields, since: SUBSET Marks]

TypeOK ==
  /\ readOnly \in BOOLEAN
  /\ content \in Contents /\ temp \in [Names -> Contents \cup {NoFile}]
  /\ memory \in [Files -> Notes \cup {NoFile, Torn}]
  /\ call \in [Calls -> Call]
  /\ now \in 0..MaxTicks /\ begun \in 0..MaxCalls /\ edits \in 0..MaxEdits /\ faults \in 0..MaxFaults
  /\ safe \subseteq Marks /\ clash \in BOOLEAN /\ covered \subseteq Calls
  /\ kept \in Notes /\ mixed \in BOOLEAN

Init ==
  /\ readOnly \in BOOLEAN
  /\ content = {} /\ temp = [x \in Names |-> NoFile]
  /\ memory = [f \in Files |-> NoFile]
  /\ call = [c \in Calls |-> NoCall]
  /\ now = 0 /\ begun = 0 /\ edits = 0 /\ faults = 0
  /\ safe = {} /\ clash = FALSE /\ covered = {} /\ kept = {} /\ mixed = FALSE
-----------------------------------------------------------------------------
(* Calls.                                                                  *)

At(c, pc) == call[c].pc = pc
With(c, rec) == call' = [call EXCEPT ![c] = rec]
Goes(c, pc) == With(c, [call[c] EXCEPT !.pc = pc])
Ends(c) == With(c, NoCall)

(* Tools that refuse a root that is read-only; the others write later. *)
Guarded == Edits \cup {"command", "commit", "deploy", "task"}

FirstStep(op) ==
  CASE op = "write" -> "open" [] op = "append" -> "append" [] op \in {"edit", "patch", "bounded"} -> "read"
    [] op \in {"command", "check", "commit"} -> "run" [] op \in {"deploy"} \cup Saves -> "inspect"
    [] OTHER -> "policy"

Begin(c, op) ==
  /\ At(c, "idle") /\ begun < MaxCalls /\ ~(readOnly /\ op \in Guarded)
  /\ begun' = begun + 1
  /\ \E fields \in SUBSET Fields :
       /\ op # "context" => fields = {}
       /\ With(c, [NoCall EXCEPT !.op = op, !.pc = FirstStep(op), !.gives = fields,
                    !.n = IF op \in Edits \cup Saves THEN begun + 1 ELSE 0,
                    !.expected = IF op = "patch" THEN content ELSE {},
                    !.strict = op \in Saves \cup {"commit", "deploy", "stop"},
                    !.then = IF op = "deploy" THEN "run" ELSE "done"])
  /\ covered' = covered \ {c}
  /\ mixed' = (mixed \/ (op = "context" /\ \E d \in Calls : call[d].op = "context"))
  /\ UNCHANGED <<env, content, temp, memory, faults, safe, clash, kept>>
-----------------------------------------------------------------------------
(* Editing.                                                                *)

Edited(c) == call[c].base \cup {call[c].n}

(* Writing may lose what was finished after the call last looked. *)
Overwrites(c) == safe' = safe \ call[c].since

(* Where a call is to write on the strength of what it read. *)
Looked == {"open", "fill", "temp", "rename", "undo", "restore"}

(* The edit of mark m is finished while they run. *)
Tells(m, after) == [d \in Calls |-> IF after[d].pc \notin Looked THEN after[d]
                                     ELSE [after[d] EXCEPT !.since = @ \cup {m}]]

(* The call of an edit returns: the edit is finished, if it is still there. *)
Finishes(c) ==
  LET m == call[c].n IN
  IF content # Torn /\ m \in content
    THEN safe' = safe \cup {m} /\ call' = Tells(m, [call EXCEPT ![c] = NoCall])
    ELSE safe' = safe /\ Ends(c)

EditsOnly == UNCHANGED <<env, memory, begun, faults, covered, kept, mixed>>

(* write_file, and the second half of edit_file: fs.writeFile empties the  *)
(* file,                                                                   *)
Open(c) ==
  /\ At(c, "open") /\ Goes(c, "fill") /\ content' = Torn
  /\ EditsOnly /\ UNCHANGED <<temp, safe, clash>>

(* then writes it, unless another file was renamed over it. *)
Fill(c) ==
  LET new == IF call[c].op = "write" THEN {call[c].n} ELSE Edited(c) IN
  /\ At(c, "fill") /\ Ends(c)
  /\ content' \in {new} \cup (IF content = Torn THEN {} ELSE {content})
  /\ IF call[c].op = "write" THEN safe' = {} ELSE Overwrites(c)
  /\ EditsOnly /\ UNCHANGED <<temp, clash>>

AppendText(c) ==
  /\ At(c, "append") /\ Ends(c)
  /\ content' = IF content = Torn THEN Torn ELSE content \cup {call[c].n}
  /\ EditsOnly /\ UNCHANGED <<temp, safe, clash>>

(* patch_file: the file is as the client saw it.  Others take any file. *)
AsExpected(c) == content # Torn /\ (call[c].op = "patch" => content = call[c].expected)

ReadToEdit(c) ==
  /\ At(c, "read")
  /\ \/ Ends(c)
     \/ /\ AsExpected(c)
        /\ With(c, [call[c] EXCEPT !.pc = IF call[c].op = "edit" THEN "open" ELSE "temp",
                                    !.base = content, !.expected = {}, !.since = {}])
  /\ EditsOnly /\ UNCHANGED <<content, temp, safe, clash>>

(* The name of a temporary file: of this process, and of this millisecond. *)
TempName(kind, time) == <<kind, time>>

Kind(c) == IF call[c].pc \in {"undo", "restore"} THEN "rollback" ELSE call[c].op
Mine(c) == TempName(Kind(c), call[c].time)
Text(c) == IF Kind(c) = "rollback" THEN call[c].base ELSE Edited(c)

(* Another call is between the writing and the renaming of such a file. *)
Clashes(c) ==
  \E d \in Calls : call[d].pc \in {"rename", "restore"} /\ Kind(d) = Kind(c) /\ call[d].time = now

WriteTemp(c) ==
  /\ call[c].pc \in {"temp", "undo"}
  /\ With(c, [call[c] EXCEPT !.pc = IF @ = "temp" THEN "rename" ELSE "restore", !.time = now])
  /\ temp' = [temp EXCEPT ![TempName(Kind(c), now)] = Text(c)]
  /\ clash' = (clash \/ Clashes(c))
  /\ EditsOnly /\ UNCHANGED <<content, safe>>

(* Renamed over the file, which fails where it is open (on Windows), or if *)
(* the temporary file is gone; a failed rename removes it.                 *)
Rename(c) ==
  /\ call[c].pc \in {"rename", "restore"} /\ temp' = [temp EXCEPT ![Mine(c)] = NoFile]
  /\ \/ /\ temp[Mine(c)] # NoFile /\ content' = temp[Mine(c)] /\ Overwrites(c)
        /\ IF At(c, "restore") THEN Ends(c)
           ELSE With(c, [call[c] EXCEPT !.pc = "inspect", !.time = 0, !.since = {},
                                         !.then = IF call[c].op = "bounded" THEN "check" ELSE "done"])
     \/ /\ temp[Mine(c)] = NoFile \/ \E d \in Calls : At(d, "fill")
        /\ Ends(c) /\ UNCHANGED <<content, safe>>
  /\ EditsOnly /\ UNCHANGED clash

(* bounded_edit_and_check: the check passes, or fails and leaves a         *)
(* checkpoint, or cannot run.                                              *)
Check(c) ==
  /\ At(c, "check")
  /\ \/ Finishes(c)
     \/ With(c, [call[c] EXCEPT !.pc = "inspect", !.then = "look"]) /\ UNCHANGED safe
     \/ Goes(c, "look") /\ UNCHANGED safe
  /\ EditsOnly /\ UNCHANGED <<content, temp, clash>>

Bug_RollBackAnyway(c) == content # Torn

(* The file is as the edit left it. *)
StillMine(c) == content = Edited(c)

LookBack(c) ==
  /\ At(c, "look")
  /\ IF StillMine(c) THEN With(c, [call[c] EXCEPT !.pc = "undo", !.since = {}]) ELSE Ends(c)
  /\ EditsOnly /\ UNCHANGED <<content, temp, safe, clash>>
-----------------------------------------------------------------------------
(* Checkpoints and the project context.                                    *)

FileOf(c) == IF call[c].op \in Saves THEN call[c].op ELSE "recovery"

Reads == UNCHANGED <<env, content, temp, memory, begun, safe, clash, covered, mixed>>

(* Branch, HEAD and status of the repository.  inspect_repository also     *)
(* reads package.json, and fails if that cannot be parsed.                 *)
Inspect(c) ==
  /\ At(c, "inspect")
  /\ \/ Goes(c, IF call[c].op = "context" THEN "existing" ELSE "trunc") /\ UNCHANGED faults
     \/ call[c].op = "context" /\ faults < MaxFaults /\ faults' = faults + 1 /\ Ends(c)
  /\ Reads /\ UNCHANGED kept

Bug_Replace(n) == {}

CarriedOf(n) == {r \in n : r[1] \in Carried}

(* What a save of the project context takes over of what is there. *)
TakesOver(n) == IF n \in {NoFile, Torn} THEN {} ELSE CarriedOf(n)

LoadExisting(c) ==
  LET n == memory["context"] IN
  /\ At(c, "existing")
  /\ With(c, [call[c] EXCEPT !.pc = IF n \in {NoFile, Torn} THEN "trunc" ELSE "again",
                              !.note = TakesOver(n)])
  /\ Reads /\ UNCHANGED <<faults, kept>>

(* Loading inspects the repository again; if that fails, there was nothing. *)
InspectAgain(c) ==
  /\ At(c, "again")
  /\ \/ Goes(c, "trunc") /\ UNCHANGED <<faults, kept>>
     \/ /\ faults < MaxFaults /\ faults' = faults + 1
        /\ With(c, [call[c] EXCEPT !.pc = "trunc", !.note = {}]) /\ kept' = {}
  /\ Reads

(* Back from a checkpoint. *)
Returns(c) ==
  IF call[c].then # "done" THEN With(c, [call[c] EXCEPT !.pc = call[c].then, !.then = "done"]) /\ UNCHANGED safe
  ELSE IF call[c].op = "patch" THEN Finishes(c)
  ELSE Ends(c) /\ UNCHANGED safe

Bug_Lenient(c) == FALSE

(* saveRecoveryCheckpoint throws, trySaveRecoveryCheckpoint does not. *)
Strict(c) == call[c].strict

MemoryOnly == UNCHANGED <<env, content, temp, begun, clash, mixed>>

Truncate(c) ==
  /\ At(c, "trunc")
  /\ \/ /\ ~readOnly /\ memory' = [memory EXCEPT ![FileOf(c)] = Torn]
        /\ Goes(c, "save") /\ UNCHANGED <<faults, safe>>
     \/ /\ readOnly \/ faults < MaxFaults
        /\ faults' = IF readOnly THEN faults ELSE faults + 1
        /\ IF Strict(c) THEN Ends(c) /\ UNCHANGED safe ELSE Returns(c)
        /\ UNCHANGED memory
  /\ MemoryOnly /\ UNCHANGED <<covered, kept>>

(* The fields that are given replace those that were taken over. *)
Records(c, note) == {r \in note : r[1] \notin call[c].gives} \cup (call[c].gives \X {call[c].n})

SaveNote(c) ==
  /\ At(c, "save")
  /\ memory' = [memory EXCEPT ![FileOf(c)] = Records(c, call[c].note)]
  /\ covered' = IF FileOf(c) = "recovery" THEN covered \cup {d \in Calls : ~At(d, "idle")} ELSE covered
  /\ kept' = IF call[c].op = "context" THEN Records(c, CarriedOf(kept)) ELSE kept
  /\ Returns(c)
  /\ MemoryOnly /\ UNCHANGED faults
-----------------------------------------------------------------------------
(* Commands.                                                               *)

Then(c) == With(c, [call[c] EXCEPT !.pc = "inspect"])
RunsOnly == UNCHANGED <<env, content, temp, memory, begun, faults, hist>>

(* run_command: a checkpoint follows in any case. *)
RunCommand(c) ==
  /\ At(c, "run") /\ call[c].op = "command"
  /\ Then(c) /\ RunsOnly

(* run_engineering_check: only a failure is followed by a checkpoint.  In  *)
(* a read-only root the event cannot be appended, and the call fails.      *)
RunCheck(c) ==
  /\ At(c, "run") /\ call[c].op = "check"
  /\ Ends(c) \/ (~readOnly /\ Then(c))
  /\ RunsOnly

(* git_commit: it fails, or a checkpoint follows that must succeed. *)
GitCommit(c) ==
  /\ At(c, "run") /\ call[c].op = "commit"
  /\ Ends(c) \/ Then(c)
  /\ RunsOnly

(* Deploys, or checks its health too; then tries to save a checkpoint. *)
Deploy(c) ==
  /\ At(c, "run") /\ call[c].op = "deploy"
  /\ With(c, [call[c] EXCEPT !.pc = "inspect", !.strict = FALSE])
  /\ RunsOnly

(* project_lifecycle: refused without lifecycle file and for a protected   *)
(* project, and the stop but for an ephemeral one; a stop is preceded by a *)
(* checkpoint.                                                             *)
ReadPolicy(c) ==
  /\ At(c, "policy")
  /\ \/ Ends(c)
     \/ IF call[c].op = "stop" THEN With(c, [call[c] EXCEPT !.pc = "inspect", !.then = "run"])
        ELSE Goes(c, "run")
  /\ RunsOnly

Lifecycle(c) ==
  /\ At(c, "run") /\ call[c].op \in {"ensure", "stop"} /\ Ends(c)
  /\ RunsOnly
-----------------------------------------------------------------------------
(* Users, the clock, restarts.                                             *)

UserEdits ==
  /\ edits < MaxEdits /\ edits' = edits + 1 /\ content # Torn
  /\ IF 0 \in content THEN content' = content \ {0} /\ safe' = safe \ {0} /\ UNCHANGED call
     ELSE content' = content \cup {0} /\ safe' = safe \cup {0} /\ call' = Tells(0, call)
  /\ UNCHANGED <<readOnly, temp, memory, now, begun, faults, clash, covered, kept, mixed>>

Tick ==
  /\ now < MaxTicks /\ now' = now + 1
  /\ UNCHANGED <<readOnly, edits, content, temp, memory, call, begun, faults, hist>>

(* The runtime ends with all its calls; what they were writing stays torn. *)
Restart ==
  /\ faults < MaxFaults /\ faults' = faults + 1 /\ \E c \in Calls : ~At(c, "idle")
  /\ call' = [c \in Calls |-> NoCall]
  /\ safe' = IF content = Torn THEN {} ELSE safe
  /\ kept' = IF memory["context"] = Torn THEN {} ELSE kept
  /\ UNCHANGED <<env, content, temp, memory, begun, clash, covered, mixed>>

CallStep(c) ==
  \/ \E op \in Ops : Begin(c, op)
  \/ Open(c) \/ Fill(c) \/ AppendText(c) \/ ReadToEdit(c) \/ WriteTemp(c) \/ Rename(c)
  \/ Check(c) \/ LookBack(c)
  \/ Inspect(c) \/ LoadExisting(c) \/ InspectAgain(c) \/ Truncate(c) \/ SaveNote(c)
  \/ RunCommand(c) \/ RunCheck(c) \/ GitCommit(c) \/ Deploy(c) \/ ReadPolicy(c) \/ Lifecycle(c)

Next == (\E c \in Calls : CallStep(c)) \/ UserEdits \/ Tick \/ Restart

Spec == Init /\ [][Next]_vars
-----------------------------------------------------------------------------
(* Properties.                                                             *)

(* An edit whose call has returned, and an edit of a user, is lost only    *)
(* where another call wrote over the file that had looked at it before:    *)
(* neither a patch nor a rollback after a failed check takes back what     *)
(* others finished before its look (patch_file, edit_file, and the guarded *)
(* rollback of bounded_edit_and_check).                                    *)
FinishedEditsSurvive == ~clash /\ content # Torn => safe \subseteq content

(* The project context holds what was recorded last in each field that     *)
(* saves carry over, until one gives it anew, and of client and metadata   *)
(* what the last save gave; unless saves overlapped, a restart tore the    *)
(* file or package.json could not be parsed (saveProjectContext merges     *)
(* into what it loads).                                                    *)
ContextKept ==
  ~mixed /\ memory["context"] \notin {NoFile, Torn} => kept \subseteq memory["context"]

(* A deployment, and an automatic stop of containers, only runs when a     *)
(* recovery checkpoint was written since its call began.                   *)
CoveredByCheckpoint ==
  \A c \in Calls : At(c, "run") /\ call[c].op \in {"deploy", "stop"} => c \in covered
=============================================================================
