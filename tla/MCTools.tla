------------------------------- MODULE MCTools -------------------------------
(***************************************************************************)
(* The tools of a runtime that share no state, each checked by itself in   *)
(* one run: in a behaviour, one part runs and the others do not exist.     *)
(***************************************************************************)
EXTENDS Naturals, Sequences, FiniteSets, TLC

CONSTANTS
  None, MaxWords,
  Clients, OAuth, NoBrowser, Max_Sessions, MaxStarts, MaxRestarts,
  Pids, Nobody, Torn, MaxCrashes,
  MaxChanges,
  SkillIds, Entry, Resources, Trimmed, Dotted, Plain, Padded, NoIndex, MAX_SKILL_RESOURCES, MaxEdits,
  Users, Posts, Runtime, MaxRequests,
  Calls, Ops, NoFile, MaxCalls, MaxUserEdits, MaxTicks, MaxFaults

(* What the cfg gives is as the proofs of ToolsProofs assume: bounds are   *)
(* numbers, and values that stand for nothing are no others.               *)
ASSUME BoundsAssumption ==
  /\ MaxWords \in Nat /\ Max_Sessions \in Nat \ {0} /\ MaxStarts \in Nat /\ MaxRestarts \in Nat /\ MaxCrashes \in Nat
  /\ MaxChanges \in Nat /\ MAX_SKILL_RESOURCES \in Nat /\ MaxEdits \in Nat /\ MaxRequests \in Nat
  /\ MaxCalls \in Nat /\ MaxUserEdits \in Nat /\ MaxTicks \in Nat /\ MaxFaults \in Nat

ASSUME ProcessAssumption == Nobody \notin Pids

ASSUME BrowsersAssumption == IsFiniteSet(Clients) /\ NoBrowser \notin 1..MaxStarts

(* For TLC: one resource whose name is another's with a blank after it. *)
MCTrimmed == [n \in {Entry} \cup Resources |-> IF n = Padded THEN Plain ELSE n]

ASSUME SkillsAssumption ==
  /\ Entry \notin Resources /\ Dotted \subseteq Resources
  /\ Trimmed \in [{Entry} \cup Resources -> {Entry} \cup Resources]

ASSUME SurfaceAssumption ==
  /\ Runtime \notin Users \cup Posts /\ Users \cap {"none", "secret", "path", "origin"} = {}

VARIABLES
  part,
  args, at, options, opening, started, pending, lost, exit,
  sessions, nextId, running, browsing, told, launched, restarts, orphans,
  start, stop, port, lease, crashes, overlapped,
  up, hosted, probe, report, flaps, wasUp, wasDown,
  tree, text, registry, build, cached, call, listed, edits, touched,
  account, code, tokens, request, acted, requests,
  readOnly, content, temp, memory, now, working, begun, userEdits, faults, safe, clash, covered,
  kept, mixed

opener   == <<args, at, options, opening, started, pending, lost, exit>>
browsers == <<sessions, nextId, running, browsing, told, launched, restarts, orphans>>
process  == <<start, stop, port, lease, crashes, overlapped>>
links    == <<up, hosted, probe, report, flaps, wasUp, wasDown>>
skills   == <<tree, text, registry, build, cached, call, listed, edits, touched>>
surface  == <<account, code, tokens, request, acted, requests>>
files    == <<readOnly, content, temp, memory, now, working, begun, userEdits, faults, safe, clash,
              covered, kept, mixed>>

vars == <<part, opener, browsers, process, links, skills, surface, files>>

O == INSTANCE TerminalOpener WITH step <- opening
B == INSTANCE Browsers WITH call <- browsing
P == INSTANCE Runtime
D == INSTANCE Diagnostics WITH step <- probe, changes <- flaps
S == INSTANCE Skills WITH changes <- edits, MaxChanges <- MaxEdits
A == INSTANCE Actions
W == INSTANCE Workspace WITH call <- working, edits <- userEdits, MaxEdits <- MaxUserEdits

ToolsSymmetry == Permutations(Calls)

ASSUME OpenerAssumption == None \notin O!Tokens

ASSUME FilesAssumption ==
  /\ Ops \subseteq W!Tools
  /\ Torn # NoFile /\ \A marks \in (SUBSET W!Marks) \cup W!Notes : marks # Torn /\ marks # NoFile

Parts == {"opener", "browsers", "process", "links", "skills", "surface", "files"}

(* Of a part that does not exist, every variable has this value. *)
Absent == "absent"

Init ==
  /\ part \in Parts
  /\ IF part = "opener" THEN O!Init
     ELSE /\ args = Absent /\ at = Absent /\ options = Absent /\ opening = Absent /\ started = Absent
          /\ pending = Absent /\ lost = Absent /\ exit = Absent
  /\ IF part = "browsers" THEN B!Init
     ELSE /\ sessions = Absent /\ nextId = Absent /\ running = Absent /\ browsing = Absent /\ told = Absent
          /\ launched = Absent /\ restarts = Absent /\ orphans = Absent
  /\ IF part = "process" THEN P!Init
     ELSE /\ start = Absent /\ stop = Absent /\ port = Absent /\ lease = Absent /\ crashes = Absent
          /\ overlapped = Absent
  /\ IF part = "links" THEN D!Init
     ELSE /\ up = Absent /\ hosted = Absent /\ probe = Absent /\ report = Absent /\ flaps = Absent
          /\ wasUp = Absent /\ wasDown = Absent
  /\ IF part = "skills" THEN S!Init
     ELSE /\ tree = Absent /\ text = Absent /\ registry = Absent /\ build = Absent /\ cached = Absent
          /\ call = Absent /\ listed = Absent /\ edits = Absent /\ touched = Absent
  /\ IF part = "surface" THEN A!Init
     ELSE /\ account = Absent /\ code = Absent /\ tokens = Absent /\ request = Absent /\ acted = Absent
          /\ requests = Absent
  /\ IF part = "files" THEN W!Init
     ELSE /\ readOnly = Absent /\ content = Absent /\ temp = Absent /\ memory = Absent /\ now = Absent
          /\ working = Absent /\ begun = Absent /\ userEdits = Absent /\ faults = Absent /\ safe = Absent
          /\ clash = Absent /\ covered = Absent /\ kept = Absent /\ mixed = Absent

Next ==
  \/ part = "opener" /\ O!Next /\ UNCHANGED <<part, browsers, process, links, skills, surface, files>>
  \/ part = "browsers" /\ B!Next /\ UNCHANGED <<part, opener, process, links, skills, surface, files>>
  \/ part = "process" /\ P!Next /\ UNCHANGED <<part, opener, browsers, links, skills, surface, files>>
  \/ part = "links" /\ D!Next /\ UNCHANGED <<part, opener, browsers, process, skills, surface, files>>
  \/ part = "skills" /\ S!Next /\ UNCHANGED <<part, opener, browsers, process, links, surface, files>>
  \/ part = "surface" /\ A!Next /\ UNCHANGED <<part, opener, browsers, process, links, skills, files>>
  \/ part = "files" /\ W!Next /\ UNCHANGED <<part, opener, browsers, process, links, skills, surface>>

Spec == Init /\ [][Next]_vars
-----------------------------------------------------------------------------
(* Every state is one of the part that runs. *)
TypeOK ==
  CASE part = "opener" -> O!TypeOK [] part = "browsers" -> B!TypeOK [] part = "process" -> P!TypeOK
    [] part = "links" -> D!TypeOK [] part = "skills" -> S!TypeOK [] part = "surface" -> A!TypeOK
    [] part = "files" -> W!TypeOK

(* A process is launched as the command line asks, and the exit status     *)
(* tells whether one was (open-terminal.js).                               *)
LaunchIsRight == part = "opener" => O!LaunchedAsAsked /\ O!LaunchIsReported

(* A session ID stands for one browser, and browsers that run are within   *)
(* reach or accounted for (browser.ts).                                    *)
BrowsersAreInReach == part = "browsers" => B!SessionsAreOwn /\ B!BrowsersBounded

(* The ownership record names the runtime that serves                      *)
(* (runtime-ownership.ts).                                                 *)
LeaseNamesRuntime == part = "process" => P!LeaseNamesRuntime

(* A diagnosis blames what failed and clears what worked (diagnostics.ts). *)
DiagnosisIsRight == part = "links" => D!DiagnosisIsRight

(* A resource that is listed can be read (skills.ts).                      *)
ListedIsReadable == part = "skills" => S!ListedIsReadable

(* A code gives one token, and a call acts for its caller (actions.ts).    *)
CallsAreOwned == part = "surface" => A!CallsAreOwned

(* An edit that was finished is not taken back by one that had not seen it *)
(* (operations.ts: patch_file, edit_file, bounded_edit_and_check).         *)
EditsSurvive == part = "files" => W!FinishedEditsSurvive

(* A save of the project context keeps the fields it carries over          *)
(* (operations.ts: saveProjectContext).                                    *)
ContextKept == part = "files" => W!ContextKept

(* Deployments and automatic stops leave a recovery checkpoint first       *)
(* (operations.ts: runDeployment, projectLifecycle).                       *)
CoveredByCheckpoint == part = "files" => W!CoveredByCheckpoint
=============================================================================
