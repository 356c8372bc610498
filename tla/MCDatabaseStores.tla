-------------------------- MODULE MCDatabaseStores --------------------------
(***************************************************************************)
(* What the stores promise with a database: the work queue, and the        *)
(* missions.  They share no state: in a behaviour one of them is at work   *)
(* and the other stays as it was in the beginning.                         *)
(***************************************************************************)
EXTENDS WorkQueue, TLC

CONSTANTS c1, c2, api, StepCount, NeedsApproval, MaxRemediation, MaxApprovals, MaxReopenings,
  MaxOvertakes

VARIABLES part, mission, calls, approvals, reopened, runs, overtakes

missions == <<mission, calls, approvals, reopened, runs, overtakes>>

(* Missions and what is proved of it, which then holds of this mission.    *)
M == INSTANCE MissionsProofs WITH Calls <- Workers

ASSUME MissionsAssumption == M!StepsAssumption /\ M!BoundsAssumption

StoresInit == part \in {"work", "missions"} /\ Init /\ M!Init

StoresNext ==
  /\ UNCHANGED part
  /\ \/ part = "work" /\ Next /\ UNCHANGED missions
     \/ part = "missions" /\ M!Next /\ UNCHANGED vars

StoresSpec == StoresInit /\ [][StoresNext]_<<part, vars, missions>>

StoresSymmetry == Permutations(Workers)

(* An approval-marked step runs only after an approval, and comes to run   *)
(* no more often than it was approved and overtaken copies were saved      *)
(* (start, next, approve, verify), whatever gets are torn.                 *)
ApprovedBeforeRunning == M!ApprovedBeforeRunning

(* The attempts on record keep to the limit and the reopenings that users  *)
(* asked for, and a step runs no more often than that after each save of   *)
(* an overtaken copy (start, next, verify, resume).                        *)
AttemptBudget == M!AttemptBudget
=============================================================================
