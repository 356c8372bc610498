-------------------------------- MODULE Skills --------------------------------
(***************************************************************************)
(* The bundled skills: the script that indexes them                        *)
(* (scripts/build-skill-registry.mjs) and the catalogue through which an   *)
(* agent lists, reads and evaluates them and their resources               *)
(* (src/src/skills.ts).  Each file operation of a call is a step, and the  *)
(* skills may be edited between two of them.                               *)
(*                                                                         *)
(* The operations of the runtime keep one catalogue, which never reads the *)
(* index twice; each request of an OAuth client has one of its own.        *)
(*                                                                         *)
(* Abstracted: a resource is an ordinary file, one larger than 256 KiB or  *)
(* a symbolic link; Entry stands for SKILL.md.  Of the spelling of a name  *)
(* counts what is left of it without outer blanks, and whether it begins   *)
(* with two dots.  A text is what its evaluation finds: unsafe, weak in    *)
(* some gate, or strong in all of them.                                    *)
(***************************************************************************)
EXTENDS Naturals, FiniteSets, FiniteSetsExt

CONSTANTS
  SkillIds, Entry, Resources,  \* the skills; the names of files in a directory
  Trimmed,                     \* name -> the name without outer blanks
  Dotted,                      \* the resources whose name begins with two dots
  NoIndex, Torn,               \* no index yet; an index that is being written
  MAX_SKILL_RESOURCES,
  MaxChanges                   \* bound: edits of the skills

VARIABLES
  tree,      \* skill -> file -> what it is
  text,      \* skill -> what its SKILL.md is like
  registry,  \* registry.json
  build,     \* the script: the directories it looked at, the skills it found
  cached,    \* the index that the catalogue of the runtime holds
  call,      \* the call that is served
  listed,    \* the resources of the last list, by skill
  changes,   \* bound
  touched    \* history: skills that were edited since their last list began

vars == <<tree, text, registry, build, cached, call, listed, changes, touched>>

Names == {Entry} \cup Resources
Kinds == {"none", "file", "big", "link"}
Texts == {"unsafe", "weak", "strong"}
Index == SUBSET SkillIds

Operations == {"list", "read", "evaluate", "list_resources", "read_resource"}

Idle == [op |-> "none", own |-> FALSE, skill |-> NoIndex, path |-> NoIndex, pc |-> "idle",
         todo |-> {}, found |-> {}, answer |-> "none"]

TypeOK ==
  /\ tree \in [SkillIds -> [Names -> Kinds]] /\ text \in [SkillIds -> Texts]
  /\ registry \in Index \cup {NoIndex, Torn} /\ cached \in Index \cup {NoIndex}
  /\ build.pc \in {"idle", "scan", "write"} /\ build.todo \in Index /\ build.found \in Index
  /\ call.op \in Operations \cup {"none"}
  /\ call.pc \in {"idle", "load", "find", "walk", "open", "read", "done"}
  /\ call.todo \subseteq Names \X Kinds /\ call.found \subseteq Names
  /\ call.answer \in {"none", "ok", "error", "unindexed"} \cup {"reject", "review", "recommended"}
  /\ listed \in [SkillIds -> SUBSET Names] /\ changes \in 0..MaxChanges /\ touched \in Index

Init ==
  /\ tree \in [SkillIds -> [Names -> Kinds]] /\ \A s \in SkillIds : tree[s][Entry] \in {"none", "file"}
  /\ text \in [SkillIds -> Texts] /\ registry = NoIndex /\ cached = NoIndex
  /\ build = [pc |-> "idle", todo |-> {}, found |-> {}]
  /\ call = Idle /\ listed = [s \in SkillIds |-> {}] /\ changes = 0 /\ touched = {}
-----------------------------------------------------------------------------
(* The script, run after the skills are edited; it is not run twice at a   *)
(* time, and a failure other than a missing SKILL.md leaves the old index. *)

BuildStarts ==
  /\ build.pc = "idle" /\ changes < MaxChanges /\ changes' = changes + 1
  /\ build' = [pc |-> "scan", todo |-> SkillIds, found |-> {}]
  /\ UNCHANGED <<tree, text, registry, cached, call, listed, touched>>

ScanDirectory ==
  /\ build.pc = "scan" /\ build.todo # {}
  /\ \E s \in build.todo :
       build' = [build EXCEPT !.todo = @ \ {s},
                              !.found = IF tree[s][Entry] = "none" THEN @ ELSE @ \cup {s}]
  /\ UNCHANGED <<tree, text, registry, cached, call, listed, changes, touched>>

TruncateIndex ==
  /\ build.pc = "scan" /\ build.todo = {} /\ build' = [build EXCEPT !.pc = "write"] /\ registry' = Torn
  /\ UNCHANGED <<tree, text, cached, call, listed, changes, touched>>

WriteIndex ==
  /\ build.pc = "write" /\ build' = [build EXCEPT !.pc = "idle"] /\ registry' = build.found
  /\ UNCHANGED <<tree, text, cached, call, listed, changes, touched>>

(* A file of a skill is written, removed or replaced. *)
Edit ==
  /\ changes < MaxChanges /\ changes' = changes + 1
  /\ \E s \in SkillIds, n \in Names, k \in Kinds :
       /\ n = Entry => k \in {"none", "file"}
       /\ tree' = [tree EXCEPT ![s][n] = k] /\ touched' = touched \cup {s}
  /\ UNCHANGED <<text, registry, build, cached, call, listed>>
-----------------------------------------------------------------------------
(* A call, up to the skill it is about.                                    *)

Answers(a) == call' = [call EXCEPT !.pc = "done", !.answer = a]

Call ==
  /\ call.pc \in {"idle", "done"}
  /\ \E op \in Operations, own \in BOOLEAN, s \in SkillIds, n \in Names :
       /\ op # "read_resource" => n = Entry
       /\ call' = [Idle EXCEPT !.op = op, !.own = own, !.skill = s, !.path = n, !.pc = "load"]
  /\ UNCHANGED <<tree, text, registry, build, cached, listed, changes, touched>>

(* The index the call works with. *)
Catalogue == IF call.own \/ cached = NoIndex THEN registry ELSE cached

Load ==
  /\ call.pc = "load"
  /\ IF Catalogue \in {NoIndex, Torn} THEN Answers("unindexed") /\ UNCHANGED cached
     ELSE /\ cached' = IF call.own THEN cached ELSE Catalogue
          /\ IF call.op = "list" THEN Answers("ok")
             ELSE IF call.skill \in Catalogue THEN call' = [call EXCEPT !.pc = "find"] ELSE Answers("unindexed")
  /\ UNCHANGED <<tree, text, registry, build, listed, changes, touched>>

(* A directory is there as long as a file of it is. *)
HasDirectory(s) == \E n \in Names : tree[s][n] # "none"

(* The client goes by the list it asks for now, and no longer by an older. *)
Forgets ==
  IF call.op = "list_resources" THEN touched' = touched \ {call.skill} /\ listed' = [listed EXCEPT ![call.skill] = {}]
  ELSE UNCHANGED <<touched, listed>>

(* The directory is looked up; the walk takes its entries as they are now. *)
Find ==
  /\ call.pc = "find"
  /\ IF ~HasDirectory(call.skill) THEN Answers("error")
     ELSE call' = CASE call.op \in {"read", "evaluate"} -> [call EXCEPT !.pc = "read"]
                    [] call.op = "read_resource" -> [call EXCEPT !.pc = "open"]
                    [] OTHER -> [call EXCEPT !.pc = "walk", !.todo = {e \in Names \X Kinds : e[2] = tree[call.skill][e[1]] /\ e[2] # "none"}]
  /\ Forgets /\ UNCHANGED <<tree, text, registry, build, cached, changes>>

Verdict(t) == CASE t = "unsafe" -> "reject" [] t = "strong" -> "recommended" [] OTHER -> "review"

ReadEntry ==
  /\ call.pc = "read" /\ call.op \in {"read", "evaluate"}
  /\ Answers(IF tree[call.skill][Entry] = "none" THEN "error"
             ELSE IF call.op = "read" THEN "ok" ELSE Verdict(text[call.skill]))
  /\ UNCHANGED <<tree, text, registry, build, cached, listed, changes, touched>>
-----------------------------------------------------------------------------
(* listResources                                                           *)

Bug_ListsEntry(n, kind) == kind # "link"

(* The walk passes over links and over the entry point. *)
Offered(n, kind) == kind # "link" /\ n # Entry

(* An entry is counted after its size was asked for; one that is gone by   *)
(* then fails the call.                                                    *)
Walk ==
  /\ call.pc = "walk" /\ call.todo # {} /\ Cardinality(call.found) < MAX_SKILL_RESOURCES
  /\ \E e \in call.todo :
       IF ~Offered(e[1], e[2]) THEN call' = [call EXCEPT !.todo = @ \ {e}]
       ELSE IF tree[call.skill][e[1]] = "none" THEN Answers("error")
       ELSE call' = [call EXCEPT !.todo = @ \ {e}, !.found = @ \cup {e[1]}]
  /\ UNCHANGED <<tree, text, registry, build, cached, listed, changes, touched>>

Listed ==
  /\ call.pc = "walk" /\ (call.todo = {} \/ Cardinality(call.found) >= MAX_SKILL_RESOURCES)
  /\ listed' = [listed EXCEPT ![call.skill] = call.found] /\ Answers("ok")
  /\ UNCHANGED <<tree, text, registry, build, cached, changes, touched>>
-----------------------------------------------------------------------------
(* readResource: what the file is, and then what is in it.                 *)

Readable(n, kind) == n # Entry /\ n \notin Dotted /\ kind = "file"

(* The file that the path names, once it is trimmed. *)
Candidate == Trimmed[call.path]

(* One that begins with two dots, as if it led out, is refused. *)
OpenResource ==
  /\ call.pc = "open"
  /\ IF Readable(Candidate, tree[call.skill][Candidate]) THEN call' = [call EXCEPT !.pc = "read"]
     ELSE Answers("error")
  /\ UNCHANGED <<tree, text, registry, build, cached, listed, changes, touched>>

ReadResource ==
  /\ call.pc = "read" /\ call.op = "read_resource"
  /\ \/ tree[call.skill][Candidate] # "none" /\ Answers("ok")
     \/ tree[call.skill][Candidate] \in {"none", "link"} /\ Answers("error")
  /\ UNCHANGED <<tree, text, registry, build, cached, listed, changes, touched>>

Next ==
  \/ BuildStarts \/ ScanDirectory \/ TruncateIndex \/ WriteIndex \/ Edit
  \/ Call \/ Load \/ Find \/ ReadEntry \/ Walk \/ Listed \/ OpenResource \/ ReadResource
-----------------------------------------------------------------------------
(* A resource that a list offered can be read, as long as the skill was    *)
(* not edited since that list began, the file is not too large, its name   *)
(* has no outer blanks and does not begin with two dots, and the index,    *)
(* where it is read anew, still names the skill; and a list passes over an *)
(* ordinary file, whatever its name, only at its limit (listResources,     *)
(* readResource).                                                          *)
ListedIsReadable ==
  LET s == call.skill IN
  /\ call.pc = "done" /\ call.op = "read_resource" /\ call.answer = "error" /\ s \notin touched =>
       \/ call.path \notin listed[s] \/ tree[s][call.path] = "big"
       \/ Trimmed[call.path] # call.path \/ call.path \in Dotted
  /\ call.pc = "done" /\ call.op = "list_resources" /\ call.answer = "ok" /\ s \notin touched =>
       \/ Cardinality(listed[s]) >= MAX_SKILL_RESOURCES
       \/ {n \in Resources : tree[s][n] = "file"} \subseteq listed[s]
=============================================================================
