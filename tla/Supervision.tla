---------------------------- MODULE Supervision -----------------------------
(***************************************************************************)
(* Who drives a mission (src/src/executor-main.ts, continuous-supervisor,  *)
(* supervisor-lease, stop-policy): every executor process scans for active *)
(* missions and, under a lease in the database, runs cycles of the         *)
(* orchestrator on one until it comes to a stop.  One mission is modelled. *)
(*                                                                         *)
(* A process scans on a timer, whether or not its last scan is done, so    *)
(* it may be in several calls of scanMissions at once: each is a loop, and *)
(* becomes the mission's runMission when it gets that far.  A cycle's call *)
(* of the orchestrator is one step here with every outcome it may report;  *)
(* what it does inside is the business of Missions and WorkQueue.          *)
(* Meanwhile users interrupt, resume, approve and cancel, and processes    *)
(* crash, stop on a signal and are started again, each time under a new    *)
(* lease owner name.                                                       *)
(***************************************************************************)
EXTENDS Integers

CONSTANTS
  Processes,   \* executor processes
  Loops,       \* calls of scanMissions and of runMission
  ProcessOf,   \* the process a loop runs in
  Nobody,      \* no lease
  Former,      \* the owner name of a process that has died
  MaxFaults,   \* bound: crashes, stops and lost releases
  MaxRequests  \* bound: requests of users

ASSUME SupervisionAssumption ==
  /\ ProcessOf \in [Loops -> Processes]
  /\ Nobody \notin Processes /\ Former \notin Processes /\ Nobody # Former
  /\ MaxFaults \in Nat /\ MaxRequests \in Nat

VARIABLES
  mission,     \* status, metadata.userInterrupted and .requirementChallenge
  lease,       \* the row of mission_supervisor_leases
  up,          \* the process runs
  stopping,    \* SIGTERM: the scanner is cleared and supervisor.stopped is set
  registered,  \* activeMissions.has(mission.id)
  lane,        \* where a loop is
  cycle,       \* runMission: cycle === 0, or a later one
  current,     \* history: a loop's last acquire or renew has not run out
  overlapped,  \* history: a process has run the mission twice at once
  faults,      \* history
  requests     \* history

process == <<up, stopping, registered>>
loop == <<lane, cycle>>
history == <<overlapped, faults, requests>>
vars == <<mission, lease, process, loop, current, history>>

(* "active" is planned, running and verifying.                             *)
Status == {"active", "awaiting_approval", "blocked", "failed", "completed", "cancelled"}
Mission == [status: Status, interrupted: BOOLEAN, challenged: BOOLEAN]
Lease == [owner: Processes \cup {Nobody, Former}, live: BOOLEAN]
Running == {"cycling", "advising", "resuming", "releasing"}
Lanes == {"idle", "preparing"} \cup Running

TypeOK ==
  /\ mission \in Mission
  /\ lease \in Lease /\ (lease.live => lease.owner # Nobody)
  /\ up \in [Processes -> BOOLEAN]
  /\ stopping \in [Processes -> BOOLEAN]
  /\ registered \in [Processes -> BOOLEAN]
  /\ lane \in [Loops -> Lanes]
  /\ cycle \in [Loops -> {"first", "later"}]
  /\ current \in [Loops -> BOOLEAN]
  /\ \A l \in Loops : /\ current[l] => lane[l] \in Running
                      /\ lane[l] # "idle" => up[ProcessOf[l]]
  /\ overlapped \in BOOLEAN
  /\ faults \in 0..MaxFaults /\ requests \in 0..MaxRequests

Init ==
  /\ mission = [status |-> "active", interrupted |-> FALSE, challenged |-> FALSE]
  /\ lease = [owner |-> Nobody, live |-> FALSE]
  /\ up = [p \in Processes |-> FALSE]
  /\ stopping = [p \in Processes |-> FALSE]
  /\ registered = [p \in Processes |-> FALSE]
  /\ lane = [l \in Loops |-> "idle"]
  /\ cycle = [l \in Loops |-> "first"]
  /\ current = [l \in Loops |-> FALSE]
  /\ overlapped = FALSE /\ faults = 0 /\ requests = 0
-----------------------------------------------------------------------------
(* The lease.                                                              *)

Bug_AcquireOnlyFree(p) == lease.owner \in {Nobody, p}

(* acquire inserts the row, or updates one that has expired or is p's. *)
MayAcquire(p) == lease.owner \in {Nobody, p} \/ ~lease.live

Bug_RenewAnyOwner(p) == lease.owner # Nobody

(* renew asks for the owner, not for the time. *)
MayRenew(p) == lease.owner = p

Held(l) ==
  /\ lease' = [owner |-> ProcessOf[l], live |-> TRUE]
  /\ current' = [current EXCEPT ![l] = TRUE]

Bug_ReleaseAnyRow(p) == [owner |-> Nobody, live |-> FALSE]

(* release deletes the row if p owns it. *)
Released(p) == IF lease.owner = p THEN [owner |-> Nobody, live |-> FALSE] ELSE lease

LeaseExpires ==
  /\ lease.live
  /\ lease' = [owner |-> lease.owner, live |-> FALSE]
  /\ current' = [l \in Loops |-> current[l] /\ ProcessOf[l] # lease.owner]
  /\ UNCHANGED <<mission, process, loop, history>>
-----------------------------------------------------------------------------
(* Scanning.                                                               *)

Goto(l, place) == lane' = [lane EXCEPT ![l] = place]

StartProcess(p) ==
  /\ ~up[p]
  /\ up' = [up EXCEPT ![p] = TRUE]
  /\ UNCHANGED <<mission, lease, stopping, registered, loop, current, history>>

(* The timer's call reads the list, finds the mission active and not in    *)
(* activeMissions, and goes to see that it has reviewers.                  *)
Scan(l) == LET p == ProcessOf[l] IN
  /\ up[p] /\ ~stopping[p] /\ lane[l] = "idle"
  /\ mission.status = "active" /\ ~registered[p]
  /\ Goto(l, "preparing")
  /\ UNCHANGED <<mission, lease, process, cycle, current, history>>

(* runMission's acquire, once they are seen to, whatever has become of the *)
(* mission.  One that is refused comes out of activeMissions at once.      *)
Begin(l) == LET p == ProcessOf[l] IN
  /\ lane[l] = "preparing"
  /\ \/ /\ MayAcquire(p) /\ Held(l) /\ Goto(l, "cycling")
        /\ registered' = [registered EXCEPT ![p] = TRUE]
        /\ overlapped' = (overlapped \/ \E k \in Loops : ProcessOf[k] = p /\ lane[k] \in Running)
     \/ /\ ~MayAcquire(p) /\ Goto(l, "idle")
        /\ registered' = [registered EXCEPT ![p] = FALSE]
        /\ UNCHANGED <<lease, current, overlapped>>
  /\ UNCHANGED <<mission, up, stopping, cycle, faults, requests>>
-----------------------------------------------------------------------------
(* runMission.                                                             *)

(* The loop's condition, of which a later cycle may find the budget spent, *)
(* and the renewal.                                                        *)
Cycle(l) == LET p == ProcessOf[l] IN
  /\ lane[l] = "cycling"
  /\ \/ (stopping[p] \/ cycle[l] = "later") /\ Goto(l, "releasing") /\ UNCHANGED <<lease, current>>
     \/ ~stopping[p] /\ MayRenew(p) /\ Held(l) /\ Goto(l, "advising")
     \/ ~stopping[p] /\ ~MayRenew(p) /\ Goto(l, "releasing") /\ UNCHANGED <<lease, current>>
  /\ UNCHANGED <<mission, process, cycle, history>>

(* What the orchestrator may make of the mission.  reconcile leaves one    *)
(* alone that is not active; the advance of the first cycle, which reads   *)
(* through missions.next, may continue a failed or cancelled one at a      *)
(* pending step, or find no step to take.  Planning a step may challenge   *)
(* the requirement.                                                        *)
Outcomes(l) ==
  LET As(status) == [mission EXCEPT !.status = status]
      Challenge == [mission EXCEPT !.status = "awaiting_approval", !.challenged = TRUE] IN
  CASE mission.status = "active" ->
         {Challenge} \cup {As(s) : s \in {"active", "awaiting_approval", "blocked", "failed", "completed"}}
    [] mission.status \in {"failed", "cancelled"} /\ cycle[l] = "first" ->
         {Challenge} \cup {As(s) : s \in {"active", "awaiting_approval", "blocked", "completed"}}
    [] OTHER -> {mission}

(* classifyStop, of the state that an outcome is reported as; accessBlocker *)
(* is left out, which nothing in the code sets.                            *)
StopClass(m) ==
  CASE m.status \in {"completed", "cancelled"} -> "terminal"
    [] m.status = "awaiting_approval" -> "interaction"
    [] m.status = "blocked" -> IF m.interrupted \/ m.challenged THEN "interaction" ELSE "recoverable"
    [] m.status = "failed" -> "recoverable"
    [] OTHER -> "continue"

(* advance or reconcile, and the branch that runMission then takes.  A     *)
(* call that changes the status may report what it did instead ("advanced",*)
(* "remediating", "terminal", "blocked_churn"): the first three continue,  *)
(* and the last is as recoverable as "blocked".                            *)
Advise(l) ==
  /\ lane[l] = "advising"
  /\ \E m \in Outcomes(l) :
       /\ mission' = m
       /\ \/ StopClass(m) \in {"terminal", "interaction"} /\ Goto(l, "releasing")
          \/ StopClass(m) = "recoverable" /\ Goto(l, "resuming")
          \/ (StopClass(m) = "continue" \/ m # mission) /\ Goto(l, "cycling")
  /\ cycle' = [cycle EXCEPT ![l] = "later"]
  /\ UNCHANGED <<lease, process, current, history>>

(* An exception out of the cycle: a query fails, or next refuses a blocked *)
(* mission or one that awaits approval.                                    *)
AdviseThrows(l) ==
  /\ lane[l] = "advising" /\ Goto(l, "releasing")
  /\ UNCHANGED <<mission, lease, process, cycle, current, history>>

(* resume reads the mission anew.  It looks only at its status. *)
MayResume == mission.status \in {"blocked", "failed"}

ResumedMission == [mission EXCEPT !.status = "active", !.interrupted = FALSE]

Resume(l) ==
  /\ lane[l] = "resuming"
  /\ \/ MayResume /\ mission' = ResumedMission /\ Goto(l, "cycling")
     \/ ~MayResume /\ Goto(l, "releasing") /\ UNCHANGED mission
  /\ UNCHANGED <<lease, process, cycle, current, history>>

(* The finally blocks of runMission and of scanMissions: the mission       *)
(* leaves activeMissions although another loop may have put it there.      *)
Ends(l) ==
  /\ lane[l] = "releasing" /\ Goto(l, "idle")
  /\ cycle' = [cycle EXCEPT ![l] = "first"]
  /\ current' = [current EXCEPT ![l] = FALSE]
  /\ registered' = [registered EXCEPT ![ProcessOf[l]] = FALSE]
  /\ UNCHANGED <<mission, up, stopping, overlapped, requests>>

Release(l) == Ends(l) /\ lease' = Released(ProcessOf[l]) /\ UNCHANGED faults
-----------------------------------------------------------------------------
(* The end of a process takes all it has in memory along, its loops        *)
(* included; its row stays behind.                                         *)
Dies(p) ==
  /\ up[p] /\ up' = [up EXCEPT ![p] = FALSE]
  /\ stopping' = [stopping EXCEPT ![p] = FALSE]
  /\ registered' = [registered EXCEPT ![p] = FALSE]
  /\ lease' = [owner |-> IF lease.owner = p THEN Former ELSE lease.owner, live |-> lease.live]
  /\ lane' = [l \in Loops |-> IF ProcessOf[l] = p THEN "idle" ELSE lane[l]]
  /\ cycle' = [l \in Loops |-> IF ProcessOf[l] = p THEN "first" ELSE cycle[l]]
  /\ current' = [l \in Loops |-> current[l] /\ ProcessOf[l] # p]
  /\ UNCHANGED <<mission, overlapped, requests>>

(* stop has awaited the missions of activeMissions. *)
Exit(p) == stopping[p] /\ ~registered[p] /\ Dies(p) /\ UNCHANGED faults

Faulty == faults < MaxFaults /\ faults' = faults + 1

Crash(p) == Dies(p) /\ Faulty

ReleaseFails(l) == Ends(l) /\ Faulty /\ UNCHANGED lease

StopSignal(p) ==
  /\ up[p] /\ ~stopping[p] /\ stopping' = [stopping EXCEPT ![p] = TRUE] /\ Faulty
  /\ UNCHANGED <<mission, lease, up, registered, loop, current, overlapped, requests>>
-----------------------------------------------------------------------------
(* Requests of users (MissionManager).                                     *)

Requested(m) ==
  /\ requests < MaxRequests /\ requests' = requests + 1
  /\ mission' = m
  /\ UNCHANGED <<lease, process, loop, current, overlapped, faults>>

Interrupt == Requested([mission EXCEPT !.status = "blocked", !.interrupted = TRUE])

UserResume == MayResume /\ Requested(ResumedMission)

(* approve, with or without approval, and overrideRequirement, which alone *)
(* takes a challenge back. *)
Approve ==
  /\ mission.status = "awaiting_approval"
  /\ \/ \E status \in {"active", "blocked"} : Requested([mission EXCEPT !.status = status])
     \/ mission.challenged /\ Requested([mission EXCEPT !.status = "active", !.challenged = FALSE])

Cancel == Requested([mission EXCEPT !.status = "cancelled"])
-----------------------------------------------------------------------------
RunMission(l) == Begin(l) \/ Cycle(l) \/ Advise(l) \/ Resume(l) \/ Release(l)

Next ==
  \/ \E l \in Loops : Scan(l) \/ RunMission(l) \/ AdviseThrows(l) \/ ReleaseFails(l)
  \/ \E p \in Processes : StartProcess(p) \/ Exit(p) \/ StopSignal(p) \/ Crash(p)
  \/ LeaseExpires
  \/ Interrupt \/ UserResume \/ Approve \/ Cancel

Spec == Init /\ [][Next]_vars

(* Processes are started again, the scanner's interval fires, the awaits   *)
(* of runMission end, and the lease of a process that is gone runs out.    *)
FairSpec ==
  /\ Spec
  /\ \A p \in Processes : WF_vars(StartProcess(p)) /\ WF_vars(Exit(p))
  /\ \A l \in Loops : WF_vars(Scan(l)) /\ WF_vars(RunMission(l))
  /\ WF_vars(LeaseExpires /\ lease.owner = Former)
-----------------------------------------------------------------------------
(* Properties.                                                             *)

(* No two processes supervise the mission within the time of a lease they  *)
(* acquired or renewed: a slow supervisor, whose lease went to another,    *)
(* neither renews that lease nor releases it (acquire, renew, release).    *)
(* The exception is a process that came to run the mission twice at once,  *)
(* whose first run releases the lease under the second.                    *)
OneSupervisor ==
  overlapped \/ \A k, l \in Loops : current[k] /\ current[l] => ProcessOf[k] = ProcessOf[l]

(* The lease is the lock of SupervisorLock, until a process runs the       *)
(* mission twice at once: no acquire or renew takes the mission from a     *)
(* process that is within its time, and no release or expiry of one hands  *)
(* it to another (acquire, renew, release, and who calls them when).       *)
Lock == INSTANCE SupervisorLock WITH
  holders <- IF overlapped THEN {} ELSE {ProcessOf[l] : l \in {k \in Loops : current[k]}},
  broken <- overlapped

ImplementsLock == Lock!Spec

(* An active mission is taken up again whatever happened to its supervisor *)
(* (scanMissions, the lease's expiry).                                     *)
Supervised == \E l \in Loops : lane[l] \in Running
ActiveIsSupervised == mission.status = "active" ~> Supervised \/ mission.status # "active"
=============================================================================
