---------------------------- MODULE ExecSessions ----------------------------
(***************************************************************************)
(* Commands the runtime executes (src/src/processes.ts): execution         *)
(* sessions, which clients poll by a session ID that outlives the runtime, *)
(* and run calls, which answer once.                                       *)
(*                                                                         *)
(* A command's processes print, exit, leave descendants that keep its      *)
(* pipes open, and are told of by events that arrive later than the fact:  *)
(* output in order, `close' when the pipes are drained.  The runtime       *)
(* stops at any moment and with it all it holds in memory; the children    *)
(* live on and the state directory stays.                                  *)
(*                                                                         *)
(* A record is one unit of output: what is abstracted is its text and that *)
(* a record may be cut at the cap.  Times of activity are kept as the      *)
(* order they give (newer).  One runtime uses a state directory.           *)
(***************************************************************************)
EXTENDS Integers, FiniteSets

CONSTANTS
  Sessions,    \* session IDs, each for one start
  Calls,       \* calls of run, each for one command
  Pids,        \* process IDs; one is free again when its process has exited
  NoSession,
  MaxBuffered, \* maxOutputBytes: records a session may hold
  MaxKept,     \* maxPersistedSessions
  TreeKill,    \* process.platform === 'win32': a kill reaches the whole tree
  MaxRecords,  \* bound: records a command prints
  MaxRestarts  \* bound: times the runtime goes down

ASSUME SessionsAssumption ==
  /\ Sessions \cap Calls = {}
  /\ NoSession \notin Sessions
  /\ MaxBuffered \in Nat /\ MaxKept \in Nat
  /\ TreeKill \in BOOLEAN
  /\ MaxRecords \in Nat /\ MaxRestarts \in Nat

VARIABLES
  up,        \* the runtime has constructed its ProcessManager
  restarts,  \* history: times the runtime went down
  job,       \* the sessions map: a Job per session started since
  byPid,     \* the jobs map
  file,      \* <sessionId>.json
  log,       \* the number of records in <sessionId>.jsonl
  newer,     \* the pairs of sessions whose lastActivityAt are in this order
  call,      \* run calls
  child,     \* the operating system: the processes of each command
  printed,   \* the number of records a command has printed
  heard,     \* those of them whose data event was handled
  answer     \* what a client polling the session was last told

runtime == <<job, byPid>>
disk == <<file, log, newer>>
vars == <<up, restarts, runtime, disk, call, child, printed, heard, answer>>

Children == Sessions \cup Calls

Least(a, b) == IF a < b THEN a ELSE b

JobStatus == {"none", "running", "exited", "killed"}
FileStatus == {"none", "running", "exited", "killed", "interrupted"}

(* closed: an exit code is recorded.                                       *)
Job == [status: JobStatus, pid: Pids \cup {0}, closed: BOOLEAN, buffered: Nat]
File == [status: FileStatus, closed: BOOLEAN]
Call == [status: {"idle", "running", "done", "failed", "lost"}, timedOut: BOOLEAN]

(* orphaned: the process has exited, descendants hold its pipes.           *)
Child == [state: {"none", "alive", "orphaned", "dead"}, pid: Pids \cup {0}, signalled: BOOLEAN]

Answer == [status: FileStatus, cursor: Nat, truncated: BOOLEAN]

NoJob == [status |-> "none", pid |-> 0, closed |-> FALSE, buffered |-> 0]
NoFile == [status |-> "none", closed |-> FALSE]

TypeOK ==
  /\ up \in BOOLEAN /\ restarts \in 0..MaxRestarts
  /\ job \in [Sessions -> Job]
  /\ byPid \in [Pids -> Sessions \cup {NoSession}]
  /\ file \in [Sessions -> File]
  /\ log \in [Sessions -> Nat]
  /\ newer \in SUBSET (Sessions \X Sessions)
  /\ call \in [Calls -> Call]
  /\ child \in [Children -> Child]
  /\ printed \in [Children -> Nat] /\ heard \in [Children -> Nat]
  /\ answer \in [Sessions -> Answer]
  /\ \A s \in Sessions : job[s].status # "none" => up /\ file[s].status = job[s].status
  /\ \A x \in Children : heard[x] <= printed[x] /\ printed[x] <= MaxRecords

Init ==
  /\ up = FALSE /\ restarts = 0
  /\ job = [s \in Sessions |-> NoJob]
  /\ byPid = [p \in Pids |-> NoSession]
  /\ file = [s \in Sessions |-> NoFile]
  /\ log = [s \in Sessions |-> 0]
  /\ newer = {}
  /\ call = [c \in Calls |-> [status |-> "idle", timedOut |-> FALSE]]
  /\ child = [x \in Children |-> [state |-> "none", pid |-> 0, signalled |-> FALSE]]
  /\ printed = [x \in Children |-> 0]
  /\ heard = [x \in Children |-> 0]
  /\ answer = [s \in Sessions |-> [status |-> "none", cursor |-> 0, truncated |-> FALSE]]
-----------------------------------------------------------------------------
(* The operating system.                                                   *)

(* spawn: a process with an ID no living process has. *)
Spawned(x, p) ==
  /\ child[x].state = "none"
  /\ \A y \in Children : child[y].state = "alive" => child[y].pid # p
  /\ child' = [child EXCEPT ![x] = [state |-> "alive", pid |-> p, signalled |-> FALSE]]

(* killTree: whatever process now has the ID. *)
Signalled(p) ==
  [x \in Children |->
    IF child[x].state = "alive" /\ child[x].pid = p
      THEN [state |-> "alive", pid |-> p, signalled |-> TRUE] ELSE child[x]]

Moves(x, state) ==
  child' = [child EXCEPT ![x] = [state |-> state, pid |-> child[x].pid,
                                 signalled |-> child[x].signalled]]

Outside == UNCHANGED <<up, restarts, runtime, disk, call, heard, answer>>

PrintRecord(x) ==
  /\ child[x].state \in {"alive", "orphaned"}
  /\ printed[x] < MaxRecords
  /\ printed' = [printed EXCEPT ![x] = @ + 1]
  /\ UNCHANGED child /\ Outside

Exit(x) == child[x].state = "alive" /\ Moves(x, "dead") /\ UNCHANGED printed /\ Outside

(* taskkill /T leaves no descendants. *)
ExitOrphaning(x) ==
  /\ child[x].state = "alive" /\ ~(TreeKill /\ child[x].signalled)
  /\ Moves(x, "orphaned") /\ UNCHANGED printed /\ Outside

DescendantsExit(x) ==
  /\ child[x].state = "orphaned" /\ Moves(x, "dead") /\ UNCHANGED printed /\ Outside
-----------------------------------------------------------------------------
(* Sessions.                                                               *)

Bug_CloseNotPersisted(s, j) ==
  /\ job' = [job EXCEPT ![s] = j]
  /\ file' = IF j.closed THEN file
              ELSE [file EXCEPT ![s] = [status |-> j.status, closed |-> j.closed]]
  /\ UNCHANGED newer

(* persist and lastActivityAt = now, of a job that becomes j. *)
Persisted(s, j) ==
  /\ job' = [job EXCEPT ![s] = j]
  /\ file' = [file EXCEPT ![s] = [status |-> j.status, closed |-> j.closed]]
  /\ newer' = {pair \in newer : pair[1] # s /\ pair[2] # s}
                \cup {<<s, t>> : t \in Sessions \ {s}}

Start(s, p) ==
  /\ up /\ Spawned(s, p)
  /\ Persisted(s, [status |-> "running", pid |-> p, closed |-> FALSE, buffered |-> 0])
  /\ byPid' = [byPid EXCEPT ![p] = s]
  /\ UNCHANGED <<up, restarts, log, call, printed, heard, answer>>

WithStatus(j, status) ==
  [status |-> status, pid |-> j.pid, closed |-> j.closed, buffered |-> j.buffered]

(* add, with room: kept, logged and persisted.  Without: dropped. *)
Data(s) ==
  /\ job[s].status # "none" /\ heard[s] < printed[s]
  /\ heard' = [heard EXCEPT ![s] = @ + 1]
  /\ \/ /\ job[s].buffered < MaxBuffered
        /\ log' = [log EXCEPT ![s] = @ + 1]
        /\ Persisted(s, [status |-> job[s].status, pid |-> job[s].pid, closed |-> job[s].closed,
                         buffered |-> job[s].buffered + 1])
     \/ job[s].buffered >= MaxBuffered /\ UNCHANGED <<job, disk>>
  /\ UNCHANGED <<up, restarts, byPid, call, child, printed, answer>>

Bug_ExitEvent(x) == child[x].state = "dead"

(* The close event: the pipes of x are closed and read to their end. *)
Drained(x) == child[x].state = "dead" /\ heard[x] = printed[x]

Bug_CloseForgetsKill(status) == "exited"

StatusAtClose(status) == IF status = "running" THEN "exited" ELSE status

Close(s) ==
  /\ job[s].status # "none" /\ ~job[s].closed /\ Drained(s)
  /\ Persisted(s, [status |-> StatusAtClose(job[s].status), pid |-> job[s].pid, closed |-> TRUE,
                   buffered |-> job[s].buffered])
  /\ UNCHANGED <<up, restarts, byPid, log, call, child, printed, heard, answer>>

(* stop(p): the job that the jobs map has under p. *)
Stop(p) ==
  LET s == byPid[p] IN
  /\ s # NoSession /\ job[s].status = "running"
  /\ Persisted(s, WithStatus(job[s], "killed"))
  /\ child' = Signalled(p)
  /\ UNCHANGED <<up, restarts, byPid, log, call, printed, heard, answer>>

(* cancelSession goes by the process ID of s. *)
Cancel(s) == job[s].status # "none" /\ Stop(job[s].pid)

WriteSession(s) ==
  /\ job[s].status = "running"
  /\ Persisted(s, job[s])
  /\ UNCHANGED <<up, restarts, byPid, log, call, child, printed, heard, answer>>
-----------------------------------------------------------------------------
(* What a client is told.                                                  *)

(* The status readSession and listSessions report: of the job in memory,   *)
(* or of the file.                                                         *)
Reported(s) ==
  IF job[s].status # "none" THEN job[s].status
  ELSE IF file[s].status = "running" THEN "interrupted" ELSE file[s].status

(* exec_poll from the cursor of the last answer, for n records at most. *)
Poll(s, n) ==
  LET next == Least(answer[s].cursor + n, log[s]) IN
  /\ up /\ Reported(s) # "none"
  /\ answer' = [answer EXCEPT ![s] = [status |-> Reported(s), cursor |-> next,
                                      truncated |-> next < log[s]]]
  /\ UNCHANGED <<up, restarts, runtime, disk, call, child, printed, heard>>
-----------------------------------------------------------------------------
(* The runtime.                                                            *)

(* reconcilePersistedSessions *)
Reconciled(f) ==
  IF f.status = "running" THEN [status |-> "interrupted", closed |-> f.closed] ELSE f

Recorded == {s \in Sessions : file[s].status # "none"}

(* prunePersistedSessions keeps the newest ones: MaxKept at most, and those *)
(* the retention period still covers.                                      *)
MayKeep(kept) ==
  /\ kept \subseteq Recorded /\ Cardinality(kept) <= MaxKept
  /\ \A s \in kept, t \in Recorded : <<t, s>> \in newer => t \in kept

StartUp ==
  /\ ~up /\ up' = TRUE
  /\ \E kept \in SUBSET Sessions :
       /\ MayKeep(kept)
       /\ file' = [s \in Sessions |-> IF s \in kept THEN Reconciled(file[s]) ELSE NoFile]
       /\ log' = [s \in Sessions |-> IF s \in kept THEN log[s] ELSE 0]
  /\ UNCHANGED <<restarts, runtime, newer, call, child, printed, heard, answer>>

(* The process ends, on a signal or by a crash.  Its children do not. *)
GoDown ==
  /\ up /\ up' = FALSE
  /\ restarts < MaxRestarts /\ restarts' = restarts + 1
  /\ job' = [s \in Sessions |-> NoJob]
  /\ byPid' = [p \in Pids |-> NoSession]
  /\ call' = [c \in Calls |-> IF call[c].status = "running"
                                THEN [status |-> "lost", timedOut |-> call[c].timedOut]
                                ELSE call[c]]
  /\ UNCHANGED <<disk, child, printed, heard, answer>>
-----------------------------------------------------------------------------
(* Run calls.                                                              *)

RunLane == UNCHANGED <<up, restarts, runtime, disk, printed, answer>>

Becomes(c, status, timedOut) ==
  call' = [call EXCEPT ![c] = [status |-> status, timedOut |-> timedOut]]

Run(c, p) ==
  /\ up /\ call[c].status = "idle" /\ Spawned(c, p)
  /\ Becomes(c, "running", FALSE)
  /\ UNCHANGED heard /\ RunLane

(* The error event of a spawn that failed: no process, no output. *)
RunError(c) ==
  /\ up /\ call[c].status = "idle"
  /\ Becomes(c, "failed", FALSE)
  /\ UNCHANGED <<child, heard>> /\ RunLane

RunData(c) ==
  /\ call[c].status = "running" /\ heard[c] < printed[c]
  /\ heard' = [heard EXCEPT ![c] = @ + 1]
  /\ UNCHANGED <<call, child>> /\ RunLane

(* The timer kills by process ID, and does not settle the call. *)
RunTimeout(c) ==
  /\ call[c].status = "running" /\ ~call[c].timedOut
  /\ Becomes(c, "running", TRUE)
  /\ child' = Signalled(child[c].pid)
  /\ UNCHANGED heard /\ RunLane

RunClose(c) ==
  /\ call[c].status = "running" /\ Drained(c)
  /\ Becomes(c, "done", call[c].timedOut)
  /\ UNCHANGED <<child, heard>> /\ RunLane
-----------------------------------------------------------------------------
Environment ==
  \E x \in Children : PrintRecord(x) \/ Exit(x) \/ ExitOrphaning(x) \/ DescendantsExit(x)

SessionStep ==
  \E s \in Sessions :
    \/ \E p \in Pids : Start(s, p)
    \/ Data(s) \/ Close(s) \/ Cancel(s) \/ WriteSession(s)
    \/ \E n \in 1..MaxRecords : Poll(s, n)

RunStep ==
  \E c \in Calls :
    \/ \E p \in Pids : Run(c, p)
    \/ RunError(c) \/ RunData(c) \/ RunTimeout(c) \/ RunClose(c)

Next == Environment \/ SessionStep \/ RunStep \/ (\E p \in Pids : Stop(p)) \/ StartUp \/ GoDown

Spec == Init /\ [][Next]_vars
-----------------------------------------------------------------------------
(* Properties.                                                             *)

(* A poll that says `exited' and `not truncated' has given the client all  *)
(* the command printed, up to the output cap, and a run call that returned *)
(* has all the command's output: however events, polls and restarts were   *)
(* mixed (close event against exit, add, readSession, run).                *)
NothingMissed ==
  /\ \A s \in Sessions :
       answer[s].status = "exited" /\ ~answer[s].truncated
         => answer[s].cursor = Least(printed[s], MaxBuffered)
  /\ \A c \in Calls : call[c].status = "done" => heard[c] = printed[c]

(* What a session is reported to have ended with, it stays: a cancelled    *)
(* one is not later called exited, nor an exited one interrupted by a      *)
(* restart.  It may be forgotten (persist, the close handler, reconcile,   *)
(* prune).                                                                 *)
EndedStaysEnded ==
  [][\A s \in Sessions :
       Reported(s) \in {"exited", "killed", "interrupted"}
         => Reported(s)' \in {Reported(s), "none"}]_vars
=============================================================================
