----------------------------- MODULE JobLedger ------------------------------
(***************************************************************************)
(* What the node job protocol promises to whoever enqueues a job, without  *)
(* leases, tokens, requests or agents.  A job waits, is handed out, and is *)
(* either settled for good or taken back.  A job whose operation may be    *)
(* replayed is taken back to wait again; any other is parked until         *)
(* somebody releases it.  So a job that may not be replayed is handed out  *)
(* once, and once more for each release.                                   *)
(***************************************************************************)
EXTENDS Integers

CONSTANT Jobs

VARIABLES
  phase,      \* "none", "waiting", "held", "parked", "done"
  policy,     \* "automatic" or "manual", meaningful once posted
  handouts,   \* how often the job was handed out
  releases    \* how often somebody released it

vars == <<phase, policy, handouts, releases>>

Phase == {"none", "waiting", "held", "parked", "done"}
Policy == {"automatic", "manual"}

TypeOK ==
  /\ phase \in [Jobs -> Phase]
  /\ policy \in [Jobs -> Policy]
  /\ handouts \in [Jobs -> Nat]
  /\ releases \in [Jobs -> Nat]

Init ==
  /\ phase = [j \in Jobs |-> "none"]
  /\ policy \in [Jobs -> Policy]
  /\ handouts = [j \in Jobs |-> 0]
  /\ releases = [j \in Jobs |-> 0]

Counts(j, h, r) == handouts'[j] = handouts[j] + h /\ releases'[j] = releases[j] + r
Moves(j, from, to) == phase[j] = from /\ phase'[j] = to

Post(j) == Moves(j, "none", "waiting") /\ Counts(j, 0, 0)
HandOut(j) == Moves(j, "waiting", "held") /\ Counts(j, 1, 0) /\ policy'[j] = policy[j]
Settle(j) == Moves(j, "held", "done") /\ Counts(j, 0, 0) /\ policy'[j] = policy[j]
Release(j) == Moves(j, "parked", "waiting") /\ Counts(j, 0, 1) /\ policy'[j] = policy[j]
TakeBack(j) ==
  /\ Moves(j, "held", IF policy[j] = "automatic" THEN "waiting" ELSE "parked")
  /\ Counts(j, 0, 0) /\ policy'[j] = policy[j]
(* Taken back and handed out again at once. *)
HandOver(j) ==
  /\ policy[j] = "automatic"
  /\ Moves(j, "held", "held") /\ Counts(j, 1, 0) /\ policy'[j] = policy[j]
Keep(j) ==
  Moves(j, phase[j], phase[j]) /\ Counts(j, 0, 0) /\ policy'[j] = policy[j]

JobStep(j) ==
  Post(j) \/ HandOut(j) \/ Settle(j) \/ Release(j) \/ TakeBack(j) \/ HandOver(j)

(* One step of the protocol may move several jobs. *)
Next ==
  /\ phase' \in [Jobs -> Phase] /\ policy' \in [Jobs -> Policy]
  /\ handouts' \in [Jobs -> Nat] /\ releases' \in [Jobs -> Nat]
  /\ \A j \in Jobs : JobStep(j) \/ Keep(j)

Spec == Init /\ [][Next]_vars
=============================================================================
