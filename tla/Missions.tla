------------------------------ MODULE Missions ------------------------------
(***************************************************************************)
(* MissionManager (src/src/missions.ts): one durable mission, its steps,   *)
(* and the calls that change them.                                         *)
(*                                                                         *)
(* Every call gets the mission, changes its copy and saves the whole copy; *)
(* nothing locks the mission in between, and several calls are in flight   *)
(* at once (HTTP requests, the supervisor in the worker process).  With a  *)
(* database (PgStateStore) a get is two queries, the missions row and then *)
(* the mission_steps rows, and a save is one transaction; without one the  *)
(* mission is one file, read and written at once.  A call decides as soon  *)
(* as its get returns, and then saves; a call that throws saves nothing.   *)
(*                                                                         *)
(* The statuses "verifying" and "skipped" are declared by the code but     *)
(* never given to a mission or a step; they are left out.                  *)
(***************************************************************************)
EXTENDS Integers, FiniteSets

CONSTANTS
  StepCount,       \* steps of the mission
  NeedsApproval,   \* the steps created with requiresApproval
  MaxRemediation,  \* maxRemediationAttempts of the mission
  Database,        \* databaseEnabled(): a get is two queries
  Calls,           \* calls that may be in flight at one time
  MaxApprovals,    \* bound: approvals and overrides of one step
  MaxReopenings,   \* bound: resumes and challenges of one step
  MaxOvertakes     \* bound: saves of overtaken copies

Steps == 1..StepCount

ASSUME StepsAssumption ==
  /\ StepCount \in Nat \ {0}
  /\ NeedsApproval \subseteq Steps
  /\ Database \in BOOLEAN
ASSUME BoundsAssumption ==
  /\ MaxRemediation \in Nat \ {0}
  /\ MaxApprovals \in Nat
  /\ MaxReopenings \in Nat
  /\ MaxOvertakes \in Nat

VARIABLES
  mission,    \* what is stored
  calls,      \* the calls in flight
  approvals,  \* history: approvals and overrides saved for a step
  reopened,   \* history: resumes and challenges saved that reopened a step
  runs,       \* history: how often a save made a step run that did not run before
  overtakes   \* history: how many saves were of overtaken copies

histories == <<approvals, reopened, runs, overtakes>>
vars == <<mission, calls, histories>>

MissionStatus == {"planned", "running", "blocked", "awaiting_approval",
                  "completed", "failed", "cancelled"}
StepStatus == {"pending", "running", "blocked", "awaiting_approval", "completed", "failed"}

(* The missions row and the mission_steps rows. *)
Row == [status: MissionStatus, current: 0..StepCount, challenged: BOOLEAN]
StepRows == [status: [Steps -> StepStatus], attempts: [Steps -> Nat]]
Mission == [row: Row, steps: StepRows]

(* A call in flight: idle; it has read a row; it has decided to save copy, *)
(* and what the saved copy adds to the histories.  It is overtaken when    *)
(* another call has saved since it read the steps.                         *)
Call == [stage: {"idle", "read", "decided"}, row: Row, copy: Mission,
         counts: {"nothing", "approval", "reopening"}, step: 0..StepCount,
         overtaken: BOOLEAN]

NewMission ==
  [row |-> [status |-> "planned", current |-> 0, challenged |-> FALSE],
   steps |-> [status |-> [s \in Steps |-> "pending"], attempts |-> [s \in Steps |-> 0]]]

(* A call that has decided nothing yet. *)
OpenCall(stage, row) ==
  [stage |-> stage, row |-> row, copy |-> NewMission, counts |-> "nothing", step |-> 0,
   overtaken |-> FALSE]

NoCall == OpenCall("idle", NewMission.row)

TypeOK ==
  /\ mission \in Mission
  /\ calls \in [Calls -> Call]
  /\ approvals \in [Steps -> Nat]
  /\ reopened \in [Steps -> Nat]
  /\ runs \in [Steps -> Nat]
  /\ overtakes \in Nat

(* MissionManager.create *)
Init ==
  /\ mission = NewMission
  /\ calls = [c \in Calls |-> NoCall]
  /\ approvals = [s \in Steps |-> 0]
  /\ reopened = [s \in Steps |-> 0]
  /\ runs = [s \in Steps |-> 0]
  /\ overtakes = 0
-----------------------------------------------------------------------------
(* What a call does to its copy m.                                         *)

(* s is the first step with one of these statuses, or 0 if there is none. *)
IsFirst(s, steps, statuses) ==
  LET found == {t \in Steps : steps.status[t] \in statuses} IN
  IF found = {} THEN s = 0 ELSE s \in found /\ \A t \in found : s <= t

AllDone(steps) == \A s \in Steps : steps.status[s] = "completed"

Marked(m, s, status) ==
  [status |-> [m.steps.status EXCEPT ![s] = status], attempts |-> m.steps.attempts]

(* A step begins another attempt. *)
Attempted(m, s) ==
  [status |-> [m.steps.status EXCEPT ![s] = "running"],
   attempts |-> [m.steps.attempts EXCEPT ![s] = @ + 1]]

(* The row of m with another status and current step. *)
Moved(m, status, current) ==
  [status |-> status, current |-> current, challenged |-> m.row.challenged]

Started(m) == [row |-> Moved(m, "running", m.row.current), steps |-> m.steps]

(* next without a pending step: the mission is completed, or stuck. *)
Ended(m) ==
  [row |-> Moved(m, IF AllDone(m.steps) THEN "completed" ELSE "blocked", m.row.current),
   steps |-> m.steps]

(* next, when no step runs: s, the first pending step, starts or waits for *)
(* its approval.                                                           *)
Bug_NextRunsAnything(m, s) ==
  IF s = 0 THEN Ended(m) ELSE [row |-> Moved(m, "running", s), steps |-> Attempted(m, s)]

Advanced(m, s) ==
  IF s = 0 THEN Ended(m)
  ELSE IF s \in NeedsApproval
    THEN [row |-> Moved(m, "awaiting_approval", s), steps |-> Marked(m, s, "awaiting_approval")]
    ELSE [row |-> Moved(m, "running", s), steps |-> Attempted(m, s)]

Challenged(m, s) ==
  [row |-> [status |-> "awaiting_approval", current |-> s, challenged |-> TRUE],
   steps |-> Marked(m, s, "awaiting_approval")]

Overridden(m, s) ==
  [row |-> [status |-> "running", current |-> m.row.current, challenged |-> FALSE],
   steps |-> Attempted(m, s)]

Approved(m, s) == [row |-> Moved(m, "running", m.row.current), steps |-> Attempted(m, s)]

Denied(m, s) == [row |-> Moved(m, "blocked", m.row.current), steps |-> Marked(m, s, "blocked")]

(* verify, passed. *)
Bug_NothingPendingIsDone(m, s) ==
  LET steps == Marked(m, s, "completed") IN
  [row |-> Moved(m, IF IsFirst(0, steps, {"pending"}) THEN "completed" ELSE "running", 0),
   steps |-> steps]

Passed(m, s) ==
  LET steps == Marked(m, s, "completed") IN
  [row |-> Moved(m, IF AllDone(steps) THEN "completed" ELSE "running", 0), steps |-> steps]

(* verify, not passed: another attempt, up to maxRemediationAttempts. *)
Bug_OneAttemptTooMany(m, s) ==
  IF m.steps.attempts[s] <= MaxRemediation
    THEN [row |-> Moved(m, "running", 0), steps |-> Marked(m, s, "pending")]
    ELSE [row |-> Moved(m, "failed", m.row.current), steps |-> Marked(m, s, "failed")]

Bug_AttemptGivenBack(m, s) ==
  IF m.steps.attempts[s] < MaxRemediation
    THEN [row |-> Moved(m, "running", 0),
          steps |-> [status |-> [m.steps.status EXCEPT ![s] = "pending"],
                     attempts |-> [m.steps.attempts EXCEPT ![s] = @ - 1]]]
    ELSE [row |-> Moved(m, "failed", m.row.current), steps |-> Marked(m, s, "failed")]

Failed(m, s) ==
  IF m.steps.attempts[s] < MaxRemediation
    THEN [row |-> Moved(m, "running", 0), steps |-> Marked(m, s, "pending")]
    ELSE [row |-> Moved(m, "failed", m.row.current), steps |-> Marked(m, s, "failed")]

(* block and interrupt stop the current step, if there is one; interrupt   *)
(* also marks the metadata for the supervisor, which is left out here.     *)
Stopped(m) ==
  LET s == m.row.current IN
  [row |-> Moved(m, "blocked", s), steps |-> IF s = 0 THEN m.steps ELSE Marked(m, s, "blocked")]

(* resume reopens s, the first step that is blocked or failed. *)
Resumed(m, s) ==
  [row |-> Moved(m, "running", 0), steps |-> IF s = 0 THEN m.steps ELSE Marked(m, s, "pending")]

Cancelled(m) == [row |-> Moved(m, "cancelled", m.row.current), steps |-> m.steps]
-----------------------------------------------------------------------------
(* get, first query of a database: the missions row. *)
ReadRow(c) ==
  /\ Database
  /\ calls[c].stage = "idle"
  /\ calls' = [calls EXCEPT ![c] = OpenCall("read", mission.row)]
  /\ UNCHANGED <<mission, histories>>

(* Call c gets the mission (with a database, its second query) ...         *)
Getting(c) == calls[c].stage = IF Database THEN "read" ELSE "idle"

(* ... which is the row it read before, and the steps as they are now.     *)
Got(c) == IF Database THEN [row |-> calls[c].row, steps |-> mission.steps] ELSE mission

(* The call will save m. *)
Decide(c, m, counts, s) ==
  /\ Getting(c)
  /\ calls' = [calls EXCEPT ![c] = [stage |-> "decided", row |-> NewMission.row, copy |-> m,
                                   counts |-> counts, step |-> s, overtaken |-> FALSE]]
  /\ UNCHANGED <<mission, histories>>

(* Calls that have decided to reopen or to approve s, and not saved yet;   *)
(* for the bounds only.                                                    *)
UnderWay(counts, s) == Cardinality({c \in Calls : calls[c].counts = counts /\ calls[c].step = s})

Start(c) ==
  /\ Got(c).row.status \notin {"completed", "cancelled"}
  /\ Decide(c, Started(Got(c)), "nothing", 0)

(* next, when it does not find a running step (then it saves nothing). *)
NextStep(c) == \E s \in 0..StepCount :
  /\ Got(c).row.status \notin {"awaiting_approval", "blocked"}
  /\ \A t \in Steps : Got(c).steps.status[t] # "running"
  /\ IsFirst(s, Got(c).steps, {"pending"})
  /\ Decide(c, Advanced(Got(c), s), "nothing", 0)

SetAlias(c) == Decide(c, Got(c), "nothing", 0)

RequirementChallenge(c, s) ==
  /\ reopened[s] + UnderWay("reopening", s) < MaxReopenings
  /\ Decide(c, Challenged(Got(c), s), "reopening", s)

OverrideRequirement(c, s) ==
  /\ Got(c).steps.status[s] = "awaiting_approval"
  /\ Got(c).row.challenged
  /\ approvals[s] + UnderWay("approval", s) < MaxApprovals
  /\ Decide(c, Overridden(Got(c), s), "approval", s)

Approve(c, s) ==
  /\ Got(c).steps.status[s] = "awaiting_approval"
  /\ approvals[s] + UnderWay("approval", s) < MaxApprovals
  /\ Decide(c, Approved(Got(c), s), "approval", s)

Deny(c, s) ==
  /\ Got(c).steps.status[s] = "awaiting_approval"
  /\ Decide(c, Denied(Got(c), s), "nothing", 0)

VerifyPassed(c, s) == Decide(c, Passed(Got(c), s), "nothing", 0)
VerifyFailed(c, s) == Decide(c, Failed(Got(c), s), "nothing", 0)

Block(c) == Decide(c, Stopped(Got(c)), "nothing", 0)
Cancel(c) == Decide(c, Cancelled(Got(c)), "nothing", 0)

Resume(c) == \E s \in 0..StepCount :
  /\ Got(c).row.status \in {"blocked", "failed"}
  /\ IsFirst(s, Got(c).steps, {"blocked", "failed"})
  /\ s # 0 => reopened[s] + UnderWay("reopening", s) < MaxReopenings
  /\ Decide(c, Resumed(Got(c), s), IF s = 0 THEN "nothing" ELSE "reopening", s)

(* history, after a save of this kind for step s. *)
Counted(history, happened, s) == IF happened THEN [history EXCEPT ![s] = @ + 1] ELSE history

(* The steps that did not run, and run by copy. *)
Revived(copy) ==
  {s \in Steps : mission.steps.status[s] # "running" /\ copy.steps.status[s] = "running"}

(* save: the whole copy replaces what is stored. *)
Save(c) ==
  /\ calls[c].stage = "decided"
  /\ calls[c].overtaken => overtakes < MaxOvertakes
  /\ mission' = calls[c].copy
  /\ approvals' = Counted(approvals, calls[c].counts = "approval", calls[c].step)
  /\ reopened' = Counted(reopened, calls[c].counts = "reopening", calls[c].step)
  /\ runs' = [s \in Steps |-> runs[s] + IF s \in Revived(calls[c].copy) THEN 1 ELSE 0]
  /\ overtakes' = overtakes + IF calls[c].overtaken THEN 1 ELSE 0
  /\ calls' = [d \in Calls |->
       IF d = c THEN NoCall
       ELSE [calls[d] EXCEPT !.overtaken = calls[d].stage = "decided"]]

(* The call throws (a refused precondition, a failed query) or its process *)
(* stops, and nothing is saved.                                            *)
Abandon(c) ==
  /\ calls[c].stage # "idle"
  /\ calls' = [calls EXCEPT ![c] = NoCall]
  /\ UNCHANGED <<mission, histories>>

Answer(c) ==
  \/ Start(c) \/ NextStep(c) \/ SetAlias(c)
  \/ Block(c) \/ Resume(c) \/ Cancel(c)
  \/ \E s \in Steps : RequirementChallenge(c, s) \/ OverrideRequirement(c, s)
  \/ \E s \in Steps : Approve(c, s) \/ Deny(c, s)
  \/ \E s \in Steps : VerifyPassed(c, s) \/ VerifyFailed(c, s)

Next == \E c \in Calls : ReadRow(c) \/ Answer(c) \/ Save(c) \/ Abandon(c)

Spec == Init /\ [][Next]_vars
-----------------------------------------------------------------------------
(* Properties.                                                             *)

(* "Approval-marked steps must not execute until approval is recorded": a  *)
(* step that needs approval runs only after it was approved or its         *)
(* requirement overridden, and it comes to run no more often than that.    *)
(* Only a save of a copy that another call has overtaken, which brings     *)
(* back a step as it was, can make it run once more on an approval already *)
(* used: once for each such save, and no torn get and no other order of    *)
(* the calls can (next, approve, overrideRequirement, resume, verify).     *)
ApprovedBeforeRunning ==
  \A s \in NeedsApproval :
    /\ mission.steps.status[s] = "running" => approvals[s] > 0
    /\ mission.steps.attempts[s] <= approvals[s]
    /\ runs[s] <= approvals[s] + overtakes

(* "A mission may remediate a failed verification up to its configured     *)
(* attempt limit": the attempts on record never exceed                     *)
(* maxRemediationAttempts, and one more for every time a resume or a       *)
(* challenge reopened the step.  A save of an overtaken copy can take      *)
(* attempts off the record, so a step may run that often again after each, *)
(* and not more (next, approve, verify, resume, requirementChallenge).     *)
Allowed(s) == MaxRemediation + reopened[s]

AttemptBudget ==
  \A s \in Steps :
    /\ mission.steps.attempts[s] <= Allowed(s)
    /\ runs[s] <= (overtakes + 1) * Allowed(s)

(* A mission is completed only when each of its steps is, also when calls  *)
(* save stale copies (verify, next, requirementChallenge, start).  It      *)
(* holds of the file store; with a database a get may join the row of one  *)
(* save with the steps of another.                                         *)
CompletedWhenDone == mission.row.status = "completed" => AllDone(mission.steps)
=============================================================================
