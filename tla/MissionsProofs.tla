--------------------------- MODULE MissionsProofs ---------------------------
(***************************************************************************)
(* Proofs about Missions for any number of steps and of overlapping calls, *)
(* any attempt limit and any set of steps that need approval.              *)
(*                                                                         *)
(* The properties speak of what is stored, but a stored mission is a copy  *)
(* some call decided on earlier.  So IInv says of every copy about to be   *)
(* saved what it says of the stored mission, against the histories as      *)
(* that save will leave them; and of a copy that no other call overtook,   *)
(* how it continues what is stored now.                                    *)
(***************************************************************************)
EXTENDS Missions, TLAPS

(* A step that is still to run has an attempt left. *)
StepOK(steps, app, reo, s) ==
  /\ steps.attempts[s] <= MaxRemediation + reo[s]
  /\ steps.status[s] \in {"pending", "awaiting_approval"} =>
       steps.attempts[s] < MaxRemediation + reo[s]
  /\ s \in NeedsApproval => steps.attempts[s] <= app[s]
  /\ steps.status[s] = "running" => steps.attempts[s] > 0

StepsOK(steps, app, reo) == \A s \in Steps : StepOK(steps, app, reo, s)

Truthful(m) == m.row.status = "completed" => AllDone(m.steps)

CopyOK(call) ==
  call.stage = "decided" =>
    /\ call.counts # "nothing" => call.step \in Steps
    /\ StepsOK(call.copy.steps,
               Counted(approvals, call.counts = "approval", call.step),
               Counted(reopened, call.counts = "reopening", call.step))

(* Steps new after steps old: no attempt is lost, and a step that comes to *)
(* run makes another attempt, with an approval if it needs one.            *)
Continues(old, new, counts, step) == \A s \in Steps :
  /\ old.attempts[s] <= new.attempts[s]
  /\ old.status[s] # "running" /\ new.status[s] = "running" =>
       /\ old.attempts[s] < new.attempts[s]
       /\ s \in NeedsApproval => counts = "approval" /\ step = s

FreshOK(call) ==
  call.stage = "decided" /\ ~call.overtaken =>
    Continues(mission.steps, call.copy.steps, call.counts, call.step)

(* Each run of a step took an attempt that is still on record, or that the *)
(* save of an overtaken copy took off it.                                  *)
RunsOK == \A s \in Steps :
  /\ runs[s] <= mission.steps.attempts[s] + overtakes * Allowed(s)
  /\ s \in NeedsApproval => runs[s] <= approvals[s] + overtakes

(* Without a database, no copy claims more than it holds. *)
TruthfulCopies ==
  ~Database => /\ Truthful(mission)
               /\ \A c \in Calls : calls[c].stage = "decided" => Truthful(calls[c].copy)

IInv ==
  /\ TypeOK
  /\ StepsOK(mission.steps, approvals, reopened)
  /\ \A c \in Calls : CopyOK(calls[c]) /\ FreshOK(calls[c])
  /\ RunsOK
  /\ TruthfulCopies
-----------------------------------------------------------------------------
USE StepsAssumption, BoundsAssumption

LEMMA StepNumbers == Steps \subseteq 0..StepCount /\ 0 \notin Steps /\ 0 \in 0..StepCount
BY DEF Steps

(* Moving the row of a mission gives a row. *)
LEMMA MovedRow ==
  ASSUME NEW m \in Mission, NEW status \in MissionStatus, NEW current \in 0..StepCount
  PROVE  Moved(m, status, current) \in Row /\ Moved(m, status, current).status = status
BY DEF Moved, Mission, Row

(* More approvals and reopenings never spoil the steps of a copy. *)
LEMMA HistoriesGrow ==
  ASSUME NEW steps \in StepRows,
         NEW app \in [Steps -> Nat], NEW reo \in [Steps -> Nat],
         NEW app1 \in [Steps -> Nat], NEW reo1 \in [Steps -> Nat],
         \A s \in Steps : app[s] <= app1[s] /\ reo[s] <= reo1[s],
         StepsOK(steps, app, reo)
  PROVE  StepsOK(steps, app1, reo1)
BY DEF StepsOK, StepOK, StepRows

(* A step counted in a history. *)
LEMMA CountedHistory ==
  ASSUME NEW h \in [Steps -> Nat], NEW b \in BOOLEAN, NEW s, b => s \in Steps
  PROVE  /\ Counted(h, b, s) \in [Steps -> Nat]
         /\ \A t \in Steps : h[t] <= Counted(h, b, s)[t]
         /\ b => Counted(h, b, s)[s] = h[s] + 1
         /\ ~b => Counted(h, b, s) = h
BY DEF Counted

(* A step may stop in any way; to run again it needs an attempt left. *)
LEMMA MarkedSteps ==
  ASSUME NEW m \in Mission, NEW s \in Steps, NEW status \in StepStatus \ {"running"},
         NEW app \in [Steps -> Nat], NEW reo \in [Steps -> Nat], StepsOK(m.steps, app, reo),
         status \in {"pending", "awaiting_approval"} =>
           m.steps.attempts[s] < MaxRemediation + reo[s]
  PROVE  /\ Marked(m, s, status) \in StepRows
         /\ StepsOK(Marked(m, s, status), app, reo)
<1> DEFINE old == m.steps
           new == Marked(m, s, status)
<1>1. old \in StepRows
  BY DEF Mission
<1>2. /\ new \in StepRows
      /\ new.attempts = old.attempts
      /\ new.status[s] = status
      /\ \A t \in Steps : t # s => new.status[t] = old.status[t]
  BY <1>1 DEF Marked, StepRows
<1>3. ASSUME NEW t \in Steps
      PROVE  StepOK(new, app, reo, t)
  <2>1. StepOK(old, app, reo, t)
    BY DEF StepsOK
  <2> HIDE DEF old, new
  <2>2. CASE t = s
    BY <1>2, <2>1, <2>2 DEF StepOK, old
  <2>3. CASE t # s
    BY <1>2, <2>1, <2>3 DEF StepOK
  <2> QED BY <2>2, <2>3
<1> QED BY <1>2, <1>3 DEF StepsOK

(* A step that was to run may make its attempt, with an approval if it     *)
(* needs one.                                                              *)
LEMMA AttemptedSteps ==
  ASSUME NEW m \in Mission, NEW s \in Steps,
         NEW app \in [Steps -> Nat], NEW reo \in [Steps -> Nat], NEW approved \in BOOLEAN,
         StepsOK(m.steps, app, reo),
         m.steps.status[s] \in {"pending", "awaiting_approval"},
         s \in NeedsApproval => approved
  PROVE  /\ Attempted(m, s) \in StepRows
         /\ StepsOK(Attempted(m, s), Counted(app, approved, s), reo)
<1> DEFINE old == m.steps
           new == Attempted(m, s)
           app1 == Counted(app, approved, s)
<1>1. old \in StepRows
  BY DEF Mission
<1>2. /\ new \in StepRows
      /\ new.status[s] = "running"
      /\ new.attempts[s] = old.attempts[s] + 1
      /\ \A t \in Steps : t # s => /\ new.status[t] = old.status[t]
                                  /\ new.attempts[t] = old.attempts[t]
  <2>1. \A t \in Steps : old.attempts[t] \in Nat /\ old.attempts[t] + 1 \in Nat
    BY <1>1 DEF StepRows
  <2> QED BY <1>1, <2>1 DEF Attempted, StepRows, StepStatus
<1>3. /\ app1 \in [Steps -> Nat]
      /\ \A t \in Steps : app[t] <= app1[t]
      /\ approved => app1[s] = app[s] + 1
  BY CountedHistory
<1>4. ASSUME NEW t \in Steps
      PROVE  StepOK(new, app1, reo, t)
  <2>1. StepOK(old, app, reo, t) /\ old.attempts[t] \in Nat
    BY <1>1 DEF StepsOK, StepRows
  <2>2. m.steps = old
    OBVIOUS
  <2> HIDE DEF old, new, app1
  <2>3. CASE t = s
    BY <1>2, <1>3, <2>1, <2>2, <2>3 DEF StepOK
  <2>4. CASE t # s
    BY <1>2, <1>3, <2>1, <2>4 DEF StepOK
  <2> QED BY <2>3, <2>4
<1> QED BY <1>2, <1>4 DEF StepsOK
-----------------------------------------------------------------------------
(* Each operation turns a sound copy into a sound one.                     *)

Sound(m, app, reo) == m \in Mission /\ StepsOK(m.steps, app, reo)

(* A mission put together from a moved row and some steps. *)
LEMMA SoundMission ==
  ASSUME NEW m \in Mission, NEW status \in MissionStatus, NEW current \in 0..StepCount,
         NEW steps \in StepRows, NEW app, NEW reo, StepsOK(steps, app, reo),
         status = "completed" => AllDone(steps)
  PROVE  /\ Sound([row |-> Moved(m, status, current), steps |-> steps], app, reo)
         /\ Truthful([row |-> Moved(m, status, current), steps |-> steps])
<1> DEFINE n == [row |-> Moved(m, status, current), steps |-> steps]
<1>1. n.row = Moved(m, status, current) /\ n.steps = steps
  OBVIOUS
<1>2. n \in Mission
  BY MovedRow DEF Mission
<1>3. n.row.status = status
  BY <1>1, MovedRow
<1> QED BY <1>1, <1>2, <1>3 DEF Sound, Truthful

(* The parts of a sound mission. *)
LEMMA MissionParts ==
  ASSUME NEW m \in Mission
  PROVE  /\ m.steps \in StepRows /\ m.row \in Row
         /\ m.row.status \in MissionStatus /\ m.row.current \in 0..StepCount
         /\ \A s \in Steps : m.steps.attempts[s] \in Nat /\ m.steps.status[s] \in StepStatus
BY DEF Mission, Row, StepRows

LEMMA StartedSound ==
  ASSUME NEW m, NEW app, NEW reo, Sound(m, app, reo)
  PROVE  Sound(Started(m), app, reo) /\ Truthful(Started(m))
BY MissionParts, SoundMission DEF Started, Sound, MissionStatus

LEMMA CancelledSound ==
  ASSUME NEW m, NEW app, NEW reo, Sound(m, app, reo)
  PROVE  Sound(Cancelled(m), app, reo) /\ Truthful(Cancelled(m))
BY MissionParts, SoundMission DEF Cancelled, Sound, MissionStatus

LEMMA EndedSound ==
  ASSUME NEW m, NEW app, NEW reo, Sound(m, app, reo)
  PROVE  Sound(Ended(m), app, reo) /\ Truthful(Ended(m))
<1> DEFINE status == IF AllDone(m.steps) THEN "completed" ELSE "blocked"
<1>1. status \in MissionStatus /\ (status = "completed" => AllDone(m.steps))
  BY DEF MissionStatus
<1>2. Ended(m) = [row |-> Moved(m, status, m.row.current), steps |-> m.steps]
  BY DEF Ended
<1> HIDE DEF status
<1> QED BY <1>1, <1>2, MissionParts, SoundMission DEF Sound

LEMMA AdvancedSound ==
  ASSUME NEW m, NEW app \in [Steps -> Nat], NEW reo \in [Steps -> Nat], Sound(m, app, reo),
         NEW s \in 0..StepCount, IsFirst(s, m.steps, {"pending"})
  PROVE  Sound(Advanced(m, s), app, reo) /\ Truthful(Advanced(m, s))
<1>1. CASE s = 0
  BY <1>1, EndedSound DEF Advanced
<1>2. CASE s # 0 /\ s \in NeedsApproval
  <2>1. s \in Steps /\ m.steps.status[s] = "pending"
    BY <1>2 DEF IsFirst
  <2>2. m.steps.attempts[s] < MaxRemediation + reo[s]
    BY <2>1 DEF Sound, StepsOK, StepOK
  <2>3. /\ Marked(m, s, "awaiting_approval") \in StepRows
        /\ StepsOK(Marked(m, s, "awaiting_approval"), app, reo)
    BY <2>1, <2>2, MarkedSteps DEF Sound, StepStatus
  <2> QED BY <1>2, <2>3, SoundMission DEF Advanced, Sound, MissionStatus
<1>3. CASE s # 0 /\ s \notin NeedsApproval
  <2>1. s \in Steps /\ m.steps.status[s] = "pending"
    BY <1>3 DEF IsFirst
  <2>2. Counted(app, FALSE, s) = app
    BY DEF Counted
  <2>3. Attempted(m, s) \in StepRows /\ StepsOK(Attempted(m, s), app, reo)
    BY <1>3, <2>1, <2>2, AttemptedSteps DEF Sound
  <2> QED BY <1>3, <2>3, SoundMission DEF Advanced, Sound, MissionStatus
<1> QED BY <1>1, <1>2, <1>3

LEMMA ChallengedSound ==
  ASSUME NEW m, NEW app \in [Steps -> Nat], NEW reo \in [Steps -> Nat], Sound(m, app, reo),
         NEW s \in Steps
  PROVE  Sound(Challenged(m, s), app, Counted(reo, TRUE, s)) /\ Truthful(Challenged(m, s))
<1> DEFINE reo1 == Counted(reo, TRUE, s)
           n == Challenged(m, s)
<1>1. reo1 \in [Steps -> Nat] /\ (\A t \in Steps : reo[t] <= reo1[t]) /\ reo1[s] = reo[s] + 1
  BY CountedHistory
<1>2. m \in Mission /\ StepsOK(m.steps, app, reo1)
  <2> HIDE DEF reo1
  <2> QED BY <1>1, HistoriesGrow, MissionParts DEF Sound
<1>3. m.steps.attempts[s] < MaxRemediation + reo1[s]
  <2>1. m.steps.attempts[s] <= MaxRemediation + reo[s] /\ m.steps.attempts[s] \in Nat
    BY MissionParts DEF Sound, StepsOK, StepOK
  <2> HIDE DEF reo1
  <2> QED BY <1>1, <2>1
<1> HIDE DEF reo1
<1>4. Marked(m, s, "awaiting_approval") \in StepRows
      /\ StepsOK(Marked(m, s, "awaiting_approval"), app, reo1)
  BY <1>1, <1>2, <1>3, MarkedSteps DEF StepStatus
<1>5. n.row \in Row /\ n.row.status = "awaiting_approval"
  BY StepNumbers DEF Challenged, Row, MissionStatus
<1>6. n.steps = Marked(m, s, "awaiting_approval") /\ n = [row |-> n.row, steps |-> n.steps]
  BY DEF Challenged
<1> QED BY <1>4, <1>5, <1>6 DEF Sound, Truthful, Mission, reo1

LEMMA OverriddenSound ==
  ASSUME NEW m, NEW app \in [Steps -> Nat], NEW reo \in [Steps -> Nat], Sound(m, app, reo),
         NEW s \in Steps, m.steps.status[s] = "awaiting_approval"
  PROVE  Sound(Overridden(m, s), Counted(app, TRUE, s), reo) /\ Truthful(Overridden(m, s))
<1> DEFINE n == Overridden(m, s)
<1>1. Attempted(m, s) \in StepRows /\ StepsOK(Attempted(m, s), Counted(app, TRUE, s), reo)
  BY AttemptedSteps DEF Sound
<1>2. n.row \in Row /\ n.row.status = "running"
  BY MissionParts DEF Overridden, Row, MissionStatus, Sound
<1>3. n.steps = Attempted(m, s) /\ n = [row |-> n.row, steps |-> n.steps]
  BY DEF Overridden
<1> QED BY <1>1, <1>2, <1>3 DEF Sound, Truthful, Mission

LEMMA ApprovedSound ==
  ASSUME NEW m, NEW app \in [Steps -> Nat], NEW reo \in [Steps -> Nat], Sound(m, app, reo),
         NEW s \in Steps, m.steps.status[s] = "awaiting_approval"
  PROVE  Sound(Approved(m, s), Counted(app, TRUE, s), reo) /\ Truthful(Approved(m, s))
<1>1. Attempted(m, s) \in StepRows /\ StepsOK(Attempted(m, s), Counted(app, TRUE, s), reo)
  BY AttemptedSteps DEF Sound
<1> QED BY <1>1, MissionParts, SoundMission DEF Approved, Sound, MissionStatus

LEMMA DeniedSound ==
  ASSUME NEW m, NEW app \in [Steps -> Nat], NEW reo \in [Steps -> Nat], Sound(m, app, reo),
         NEW s \in Steps
  PROVE  Sound(Denied(m, s), app, reo) /\ Truthful(Denied(m, s))
<1>1. Marked(m, s, "blocked") \in StepRows /\ StepsOK(Marked(m, s, "blocked"), app, reo)
  BY MarkedSteps DEF Sound, StepStatus
<1> QED BY <1>1, MissionParts, SoundMission DEF Denied, Sound, MissionStatus

LEMMA PassedSound ==
  ASSUME NEW m, NEW app \in [Steps -> Nat], NEW reo \in [Steps -> Nat], Sound(m, app, reo),
         NEW s \in Steps
  PROVE  Sound(Passed(m, s), app, reo) /\ Truthful(Passed(m, s))
<1> DEFINE steps == Marked(m, s, "completed")
           status == IF AllDone(steps) THEN "completed" ELSE "running"
<1>1. steps \in StepRows /\ StepsOK(steps, app, reo)
  BY MarkedSteps DEF Sound, StepStatus
<1>2. status \in MissionStatus /\ (status = "completed" => AllDone(steps))
  BY DEF MissionStatus
<1>3. Passed(m, s) = [row |-> Moved(m, status, 0), steps |-> steps]
  BY DEF Passed
<1> HIDE DEF steps, status
<1> QED BY <1>1, <1>2, <1>3, StepNumbers, SoundMission DEF Sound

LEMMA FailedSound ==
  ASSUME NEW m, NEW app \in [Steps -> Nat], NEW reo \in [Steps -> Nat], Sound(m, app, reo),
         NEW s \in Steps
  PROVE  Sound(Failed(m, s), app, reo) /\ Truthful(Failed(m, s))
<1>1. CASE m.steps.attempts[s] < MaxRemediation
  <2>1. m.steps.attempts[s] < MaxRemediation + reo[s]
    BY <1>1, MissionParts DEF Sound
  <2>2. Marked(m, s, "pending") \in StepRows /\ StepsOK(Marked(m, s, "pending"), app, reo)
    BY <2>1, MarkedSteps DEF Sound, StepStatus
  <2> QED BY <1>1, <2>2, StepNumbers, SoundMission DEF Failed, Sound, MissionStatus
<1>2. CASE ~(m.steps.attempts[s] < MaxRemediation)
  <2>1. Marked(m, s, "failed") \in StepRows /\ StepsOK(Marked(m, s, "failed"), app, reo)
    BY MarkedSteps DEF Sound, StepStatus
  <2> QED BY <1>2, <2>1, MissionParts, SoundMission DEF Failed, Sound, MissionStatus
<1> QED BY <1>1, <1>2

LEMMA StoppedSound ==
  ASSUME NEW m, NEW app \in [Steps -> Nat], NEW reo \in [Steps -> Nat], Sound(m, app, reo)
  PROVE  Sound(Stopped(m), app, reo) /\ Truthful(Stopped(m))
<1> DEFINE s == m.row.current
<1>1. s \in 0..StepCount /\ m.steps \in StepRows
  BY MissionParts DEF Sound
<1>2. CASE s = 0
  BY <1>1, <1>2, SoundMission DEF Stopped, Sound, MissionStatus
<1>3. CASE s # 0
  <2>1. s \in Steps
    BY <1>1, <1>3 DEF Steps
  <2> HIDE DEF s
  <2>2. Marked(m, s, "blocked") \in StepRows /\ StepsOK(Marked(m, s, "blocked"), app, reo)
    BY <2>1, MarkedSteps DEF Sound, StepStatus
  <2>3. Stopped(m) = [row |-> Moved(m, "blocked", s), steps |-> Marked(m, s, "blocked")]
    BY <1>3 DEF Stopped, s
  <2> QED BY <1>1, <2>2, <2>3, SoundMission DEF Sound, MissionStatus
<1> QED BY <1>2, <1>3

LEMMA ResumedSound ==
  ASSUME NEW m, NEW app \in [Steps -> Nat], NEW reo \in [Steps -> Nat], Sound(m, app, reo),
         NEW s \in 0..StepCount
  PROVE  Sound(Resumed(m, s), app, Counted(reo, s # 0, s)) /\ Truthful(Resumed(m, s))
<1>1. CASE s = 0
  <2>1. Counted(reo, s # 0, s) = reo
    BY <1>1 DEF Counted
  <2>2. Resumed(m, s) = [row |-> Moved(m, "running", 0), steps |-> m.steps]
    BY <1>1 DEF Resumed
  <2> QED BY <2>1, <2>2, MissionParts, StepNumbers, SoundMission DEF Sound, MissionStatus
<1>2. CASE s # 0
  <2> DEFINE reo1 == Counted(reo, s # 0, s)
  <2>0. s \in Steps
    BY <1>2 DEF Steps
  <2>1. reo1 \in [Steps -> Nat] /\ (\A t \in Steps : reo[t] <= reo1[t]) /\ reo1[s] = reo[s] + 1
    BY <1>2, <2>0, CountedHistory
  <2>2. m \in Mission /\ StepsOK(m.steps, app, reo1)
    <3> HIDE DEF reo1
    <3> QED BY <2>1, HistoriesGrow, MissionParts DEF Sound
  <2>3. m.steps.attempts[s] < MaxRemediation + reo1[s]
    BY <2>0, <2>1, <2>2, MissionParts DEF Sound, StepsOK, StepOK
  <2> HIDE DEF reo1
  <2>4. Marked(m, s, "pending") \in StepRows /\ StepsOK(Marked(m, s, "pending"), app, reo1)
    BY <2>0, <2>1, <2>2, <2>3, MarkedSteps DEF StepStatus
  <2>5. Resumed(m, s) = [row |-> Moved(m, "running", 0), steps |-> Marked(m, s, "pending")]
    BY <1>2 DEF Resumed
  <2> QED BY <2>2, <2>4, <2>5, StepNumbers, SoundMission DEF reo1, MissionStatus
<1> QED BY <1>1, <1>2
-----------------------------------------------------------------------------
(* What a call gets is sound, although a database may tear it. *)
LEMMA GotSound ==
  ASSUME IInv, NEW c \in Calls
  PROVE  Sound(Got(c), approvals, reopened)
<1>1. Got(c).steps = mission.steps
  BY DEF Got
<1>2. Got(c) \in Mission
  BY DEF IInv, TypeOK, Got, Mission, Call
<1> QED BY <1>1, <1>2 DEF Sound, IInv

(* What an operation makes of the steps of its copy continues them. *)
LEMMA StepsContinue ==
  ASSUME NEW m \in Mission, NEW steps, NEW counts, NEW step,
         \/ steps = m.steps
         \/ \E s \in Steps, status \in StepStatus \ {"running"} : steps = Marked(m, s, status)
         \/ /\ step \in Steps /\ steps = Attempted(m, step)
            /\ step \in NeedsApproval => counts = "approval"
         \/ \E s \in Steps \ NeedsApproval : steps = Attempted(m, s)
  PROVE  Continues(m.steps, steps, counts, step)
<1> DEFINE old == m.steps
<1>1. /\ old \in StepRows
      /\ \A t \in Steps : old.attempts[t] \in Nat
  BY MissionParts DEF Mission
<1>2. CASE steps = m.steps
  BY <1>1, <1>2 DEF Continues
<1>3. ASSUME NEW s \in Steps, NEW status \in StepStatus \ {"running"}, steps = Marked(m, s, status)
      PROVE  Continues(m.steps, steps, counts, step)
  <2>1. /\ steps.attempts = old.attempts
        /\ \A t \in Steps : steps.status[t] = IF t = s THEN status ELSE old.status[t]
    BY <1>1, <1>3 DEF Marked, StepRows
  <2> HIDE DEF old
  <2>2. \A t \in Steps : steps.status[t] = "running" => old.status[t] = "running"
    BY <2>1
  <2>3. \A t \in Steps : old.attempts[t] <= steps.attempts[t]
    BY <1>1, <2>1
  <2> QED BY <2>2, <2>3 DEF Continues, old
<1>4. ASSUME NEW s \in Steps, steps = Attempted(m, s),
             s \in NeedsApproval => counts = "approval" /\ step = s
      PROVE  Continues(m.steps, steps, counts, step)
  <2>1. \A t \in Steps :
          /\ steps.attempts[t] = IF t = s THEN old.attempts[t] + 1 ELSE old.attempts[t]
          /\ steps.status[t] = IF t = s THEN "running" ELSE old.status[t]
    BY <1>1, <1>4 DEF Attempted, StepRows
  <2> HIDE DEF old
  <2>2. ASSUME NEW t \in Steps
        PROVE  /\ old.attempts[t] <= steps.attempts[t]
               /\ old.status[t] # "running" /\ steps.status[t] = "running" =>
                    /\ old.attempts[t] < steps.attempts[t]
                    /\ t \in NeedsApproval => counts = "approval" /\ step = t
    <3>1. CASE t = s
      BY <1>1, <1>4, <2>1, <3>1
    <3>2. CASE t # s
      BY <1>1, <2>1, <3>2
    <3> QED BY <3>1, <3>2
  <2> QED BY <2>2 DEF Continues, old
<1> QED BY <1>2, <1>3, <1>4

(* A call that decides to save a sound copy keeps the invariant. *)
LEMMA DecideStep ==
  ASSUME IInv, NEW c \in Calls, NEW m, NEW s \in 0..StepCount,
         NEW counts \in {"nothing", "approval", "reopening"}, Decide(c, m, counts, s),
         counts # "nothing" => s \in Steps,
         Sound(m, Counted(approvals, counts = "approval", s),
                  Counted(reopened, counts = "reopening", s)),
         Continues(mission.steps, m.steps, counts, s),
         ~Database /\ Truthful(mission) => Truthful(m)
  PROVE  IInv'
<1> DEFINE call == [stage |-> "decided", row |-> NewMission.row, copy |-> m,
                    counts |-> counts, step |-> s, overtaken |-> FALSE]
<1>1. /\ calls' = [calls EXCEPT ![c] = call]
      /\ UNCHANGED <<mission, histories>>
  BY DEF Decide
<1>2. call \in Call
  BY StepNumbers DEF Call, Sound, NewMission, Row, MissionStatus
<1>3. TypeOK'
  <2> HIDE DEF call
  <2> QED BY <1>1, <1>2 DEF IInv, TypeOK, histories
<1>4. \A d \in Calls : calls'[d] = IF d = c THEN call ELSE calls[d]
  <2> HIDE DEF call
  <2> QED BY <1>1 DEF IInv, TypeOK
<1>5. CopyOK(call) /\ FreshOK(call)
  BY DEF CopyOK, FreshOK, Sound
<1>6. ASSUME NEW d \in Calls
      PROVE  CopyOK(calls[d])' /\ FreshOK(calls[d])'
  <2>1. CopyOK(calls'[d]) /\ FreshOK(calls'[d])
    BY <1>4, <1>5 DEF IInv
  <2> QED BY <1>1, <2>1 DEF CopyOK, FreshOK, histories
<1>7. TruthfulCopies'
  BY <1>1, <1>4 DEF IInv, TruthfulCopies
<1>8. (StepsOK(mission.steps, approvals, reopened) /\ RunsOK)'
  BY <1>1 DEF IInv, RunsOK, Allowed, histories
<1> QED BY <1>1, <1>3, <1>6, <1>7, <1>8 DEF IInv

(* A call that decides nothing about the histories. *)
LEMMA PlainDecideStep ==
  ASSUME IInv, NEW c \in Calls, NEW m, Decide(c, m, "nothing", 0),
         Sound(m, approvals, reopened), Continues(Got(c).steps, m.steps, "nothing", 0), ~Database /\ Truthful(mission) => Truthful(m)
  PROVE  IInv'
<1>1. /\ Counted(approvals, "nothing" = "approval", 0) = approvals
      /\ Counted(reopened, "nothing" = "reopening", 0) = reopened
  BY DEF Counted
<1> QED BY <1>1, StepNumbers, DecideStep DEF Got

LEMMA ApprovalDecideStep ==
  ASSUME IInv, NEW c \in Calls, NEW m, NEW s \in Steps, Decide(c, m, "approval", s),
         Sound(m, Counted(approvals, TRUE, s), reopened), Truthful(m),
         Continues(Got(c).steps, m.steps, "approval", s)
  PROVE  IInv'
<1>1. /\ Counted(approvals, "approval" = "approval", s) = Counted(approvals, TRUE, s)
      /\ Counted(reopened, "approval" = "reopening", s) = reopened
  BY DEF Counted
<1> QED BY <1>1, StepNumbers, DecideStep DEF Got

LEMMA ReopeningDecideStep ==
  ASSUME IInv, NEW c \in Calls, NEW m, NEW s \in Steps, Decide(c, m, "reopening", s),
         Sound(m, approvals, Counted(reopened, TRUE, s)), Truthful(m),
         Continues(Got(c).steps, m.steps, "reopening", s)
  PROVE  IInv'
<1>1. /\ Counted(approvals, "reopening" = "approval", s) = approvals
      /\ Counted(reopened, "reopening" = "reopening", s) = Counted(reopened, TRUE, s)
  BY DEF Counted
<1> QED BY <1>1, StepNumbers, DecideStep DEF Got

LEMMA NextStepStep == ASSUME IInv, NEW c \in Calls, NextStep(c) PROVE IInv'
<1>1. PICK s \in 0..StepCount : /\ IsFirst(s, Got(c).steps, {"pending"})
                               /\ Decide(c, Advanced(Got(c), s), "nothing", 0)
  BY DEF NextStep
<1>2. Sound(Advanced(Got(c), s), approvals, reopened) /\ Truthful(Advanced(Got(c), s))
  BY <1>1, GotSound, AdvancedSound DEF IInv, TypeOK
<1>3. Continues(Got(c).steps, Advanced(Got(c), s).steps, "nothing", 0)
  <2>1. Got(c) \in Mission
    BY GotSound DEF Sound
  <2>2. s # 0 => s \in Steps
    BY DEF Steps
  <2> QED BY <2>1, <2>2, StepsContinue DEF Advanced, Ended, StepStatus
<1> QED BY <1>1, <1>2, <1>3, PlainDecideStep

LEMMA ResumeStep == ASSUME IInv, NEW c \in Calls, Resume(c) PROVE IInv'
<1>1. PICK s \in 0..StepCount :
        Decide(c, Resumed(Got(c), s), IF s = 0 THEN "nothing" ELSE "reopening", s)
  BY DEF Resume
<1>2. Sound(Resumed(Got(c), s), approvals, Counted(reopened, s # 0, s))
      /\ Truthful(Resumed(Got(c), s))
  BY GotSound, ResumedSound DEF IInv, TypeOK
<1> DEFINE counts == IF s = 0 THEN "nothing" ELSE "reopening"
<1>5. Continues(Got(c).steps, Resumed(Got(c), s).steps, counts, s)
  <2>1. Got(c) \in Mission
    BY GotSound DEF Sound
  <2>2. s # 0 => s \in Steps
    BY DEF Steps
  <2> HIDE DEF counts
  <2> QED BY <2>1, <2>2, StepsContinue DEF Resumed, StepStatus
<1>3. CASE s = 0
  <2>1. Counted(reopened, s # 0, s) = reopened
    BY <1>3 DEF Counted
  <2> QED BY <1>1, <1>2, <1>3, <1>5, <2>1, PlainDecideStep
<1>4. CASE s # 0
  <2>1. s \in Steps /\ Counted(reopened, s # 0, s) = Counted(reopened, TRUE, s)
    BY <1>4 DEF Steps, Counted
  <2> QED BY <1>1, <1>2, <1>4, <1>5, <2>1, ReopeningDecideStep
<1> QED BY <1>3, <1>4

(* Every decision keeps the invariant. *)
LEMMA AnswerStep == ASSUME IInv, NEW c \in Calls, Answer(c) PROVE IInv'
<1> DEFINE m == Got(c)
<1>1. approvals \in [Steps -> Nat] /\ reopened \in [Steps -> Nat]
  BY DEF IInv, TypeOK
<1>2. Sound(m, approvals, reopened) /\ m \in Mission
  BY GotSound DEF Sound
<1>15. /\ Continues(m.steps, m.steps, "nothing", 0)
       /\ Continues(m.steps, Started(m).steps, "nothing", 0)
       /\ Continues(m.steps, Cancelled(m).steps, "nothing", 0)
  <2> HIDE DEF m
  <2> QED BY <1>2, StepsContinue DEF Started, Cancelled
<1>16. Continues(m.steps, Stopped(m).steps, "nothing", 0)
  <2>1. m.row.current \in 0..StepCount
    BY <1>2, MissionParts
  <2>2. m.row.current # 0 => m.row.current \in Steps
    BY <2>1 DEF Steps
  <2> HIDE DEF m
  <2> QED BY <1>2, <2>2, StepsContinue DEF Stopped, StepStatus
<1>17. ASSUME NEW s \in Steps
       PROVE  /\ Continues(m.steps, Challenged(m, s).steps, "reopening", s)
              /\ Continues(m.steps, Denied(m, s).steps, "nothing", 0)
              /\ Continues(m.steps, Passed(m, s).steps, "nothing", 0)
              /\ Continues(m.steps, Failed(m, s).steps, "nothing", 0)
  <2> HIDE DEF m
  <2>1. Continues(m.steps, Challenged(m, s).steps, "reopening", s)
    BY <1>2, StepsContinue DEF Challenged, StepStatus
  <2>2. Continues(m.steps, Denied(m, s).steps, "nothing", 0)
    BY <1>2, StepsContinue DEF Denied, StepStatus
  <2>3. Continues(m.steps, Passed(m, s).steps, "nothing", 0)
    BY <1>2, StepsContinue DEF Passed, StepStatus
  <2>4. Continues(m.steps, Failed(m, s).steps, "nothing", 0)
    BY <1>2, StepsContinue DEF Failed, StepStatus
  <2> QED BY <2>1, <2>2, <2>3, <2>4
<1>18. ASSUME NEW s \in Steps
       PROVE  /\ Continues(m.steps, Overridden(m, s).steps, "approval", s)
              /\ Continues(m.steps, Approved(m, s).steps, "approval", s)
  <2> HIDE DEF m
  <2> QED BY <1>2, StepsContinue DEF Overridden, Approved
<1>3. CASE Start(c)
  BY <1>2, <1>3, StartedSound, <1>15, PlainDecideStep DEF Start
<1>4. CASE NextStep(c)
  BY <1>4, NextStepStep
<1>5. CASE SetAlias(c)
  <2>1. ~Database => m = mission
    BY DEF Got
  <2> QED BY <1>2, <1>5, <2>1, <1>15, PlainDecideStep DEF SetAlias
<1>6. CASE Block(c)
  BY <1>1, <1>2, <1>6, StoppedSound, <1>16, PlainDecideStep DEF Block
<1>7. CASE Resume(c)
  BY <1>7, ResumeStep
<1>8. CASE Cancel(c)
  BY <1>2, <1>8, CancelledSound, <1>15, PlainDecideStep DEF Cancel
<1>9. ASSUME NEW s \in Steps, RequirementChallenge(c, s)
      PROVE  IInv'
  BY <1>1, <1>2, <1>9, ChallengedSound, <1>17, ReopeningDecideStep DEF RequirementChallenge
<1>10. ASSUME NEW s \in Steps, OverrideRequirement(c, s)
       PROVE  IInv'
  BY <1>1, <1>2, <1>10, OverriddenSound, <1>18, ApprovalDecideStep DEF OverrideRequirement
<1>11. ASSUME NEW s \in Steps, Approve(c, s)
       PROVE  IInv'
  BY <1>1, <1>2, <1>11, ApprovedSound, <1>18, ApprovalDecideStep DEF Approve
<1>12. ASSUME NEW s \in Steps, Deny(c, s)
       PROVE  IInv'
  BY <1>1, <1>2, <1>12, DeniedSound, <1>17, PlainDecideStep DEF Deny
<1>13. ASSUME NEW s \in Steps, VerifyPassed(c, s)
       PROVE  IInv'
  BY <1>1, <1>2, <1>13, PassedSound, <1>17, PlainDecideStep DEF VerifyPassed
<1>14. ASSUME NEW s \in Steps, VerifyFailed(c, s)
       PROVE  IInv'
  BY <1>1, <1>2, <1>14, FailedSound, <1>17, PlainDecideStep DEF VerifyFailed
<1> QED BY <1>3, <1>4, <1>5, <1>6, <1>7, <1>8, <1>9, <1>10, <1>11, <1>12, <1>13, <1>14 DEF Answer

LEMMA NoCallIsCall == NoCall \in Call /\ NoCall.stage = "idle" /\ NewMission \in Mission
<1>1. NewMission \in Mission
  BY StepNumbers DEF NewMission, Mission, Row, StepRows, MissionStatus, StepStatus
<1>2. NewMission.row \in Row
  BY <1>1 DEF Mission
<1> QED BY <1>1, <1>2, StepNumbers DEF NoCall, OpenCall, Call

(* Putting a call that has decided nothing in the place of another keeps   *)
(* the invariant when nothing else changes.                                *)
LEMMA OpenCallStep ==
  ASSUME IInv, NEW c \in Calls, NEW call \in Call, call.stage # "decided",
         calls' = [calls EXCEPT ![c] = call], UNCHANGED <<mission, histories>>
  PROVE  IInv'
<1>1. \A d \in Calls : calls'[d] = IF d = c THEN call ELSE calls[d]
  BY DEF IInv, TypeOK
<1>2. TypeOK'
  BY DEF IInv, TypeOK, histories
<1>3. ASSUME NEW d \in Calls
      PROVE  CopyOK(calls[d])' /\ FreshOK(calls[d])'
  <2>1. CopyOK(calls'[d]) /\ FreshOK(calls'[d])
    BY <1>1 DEF IInv, CopyOK, FreshOK
  <2> QED BY <2>1 DEF CopyOK, FreshOK, histories
<1>4. TruthfulCopies'
  BY <1>1 DEF IInv, TruthfulCopies
<1>5. (StepsOK(mission.steps, approvals, reopened) /\ RunsOK)'
  BY DEF IInv, RunsOK, Allowed, histories
<1> QED BY <1>2, <1>3, <1>4, <1>5 DEF IInv

LEMMA ReadRowStep == ASSUME IInv, NEW c \in Calls, ReadRow(c) PROVE IInv'
<1> DEFINE call == OpenCall("read", mission.row)
<1>1. call \in Call /\ call.stage # "decided"
  BY NoCallIsCall, StepNumbers DEF OpenCall, Call, IInv, TypeOK, Mission
<1>2. calls' = [calls EXCEPT ![c] = call] /\ UNCHANGED <<mission, histories>>
  BY DEF ReadRow
<1> HIDE DEF call
<1> QED BY <1>1, <1>2, OpenCallStep

(* More attempts allowed, and more overtaken copies saved, allow more. *)
LEMMA Budgets ==
  ASSUME NEW n \in Nat, NEW b \in Nat, NEW b1 \in Nat, b <= b1
  PROVE  /\ n * b <= n * b1
         /\ (n + 1) * b1 = n * b1 + b1
         /\ n * b \in Nat /\ n * b1 \in Nat
<1>1. PICK k \in Nat : b1 = b + k
  <2>1. b1 - b \in Nat /\ b1 = b + (b1 - b)
    OBVIOUS
  <2> QED BY <2>1
<1>2. n * (b + k) = n * b + n * k /\ n * k \in Nat /\ n * b \in Nat
  OBVIOUS
<1>3. n * b <= n * b1
  BY <1>1, <1>2
<1> QED BY <1>3

(* A save of a copy that was not overtaken takes an attempt for each run,  *)
(* and one of an overtaken copy is counted as such.                        *)
LEMMA SaveCountsRuns ==
  ASSUME IInv, NEW c \in Calls, Save(c), NEW s \in Steps, reopened[s] <= reopened'[s],
         reopened'[s] \in Nat, approvals[s] <= approvals'[s], approvals'[s] \in Nat
  PROVE  /\ runs'[s] <= mission'.steps.attempts[s] + overtakes' * Allowed(s)'
         /\ s \in NeedsApproval => runs'[s] <= approvals'[s] + overtakes'
<1> DEFINE call == calls[c]
           a == mission.steps.attempts[s]
           a1 == mission'.steps.attempts[s]
           b == Allowed(s)
           b1 == Allowed(s)'
           one == IF s \in Revived(call.copy) THEN 1 ELSE 0
<1>1. /\ call.stage = "decided" /\ mission' = call.copy
      /\ approvals' = Counted(approvals, call.counts = "approval", call.step)
      /\ reopened' = Counted(reopened, call.counts = "reopening", call.step)
      /\ runs'[s] = runs[s] + one
      /\ overtakes' = overtakes + IF call.overtaken THEN 1 ELSE 0
  BY DEF Save
<1>2. /\ call \in Call /\ CopyOK(call) /\ FreshOK(call)
      /\ runs[s] \in Nat /\ overtakes \in Nat /\ approvals \in [Steps -> Nat] /\ approvals[s] \in Nat
      /\ reopened[s] \in Nat /\ call.overtaken \in BOOLEAN
  BY DEF IInv, TypeOK, Call
<1>3. a \in Nat /\ a1 \in Nat
  BY <1>1, <1>2, MissionParts DEF Call, IInv, TypeOK
<1>4. b \in Nat /\ b1 \in Nat /\ b <= b1 /\ a <= b
  <2>1. a <= b
    BY DEF IInv, StepsOK, StepOK, Allowed
  <2> QED BY <1>2, <2>1 DEF Allowed
<1>5. runs[s] <= a + overtakes * b /\ (s \in NeedsApproval => runs[s] <= approvals[s] + overtakes)
  BY DEF IInv, RunsOK
<1>6. one \in {0, 1}
  OBVIOUS
<1>7. /\ overtakes * b <= overtakes * b1
      /\ (overtakes + 1) * b1 = overtakes * b1 + b1
      /\ overtakes * b \in Nat /\ overtakes * b1 \in Nat
  <2> HIDE DEF b, b1
  <2> QED BY <1>2, <1>4, Budgets
<1>8. CASE call.overtaken
  <2>1. one = 1 => a1 > 0
    <3>1. StepsOK(call.copy.steps, approvals', reopened')
      BY <1>1, <1>2 DEF CopyOK
    <3>2. StepOK(call.copy.steps, approvals', reopened', s)
      BY <3>1 DEF StepsOK
    <3> QED BY <1>1, <1>3, <3>2 DEF StepOK, Revived
  <2>2. overtakes' = overtakes + 1
    BY <1>1, <1>8
  <2> DEFINE p == overtakes * b
             q == overtakes * b1
             q1 == (overtakes + 1) * b1
  <2> HIDE DEF call, a, a1, b, b1, one, p, q, q1
  <2>3. p \in Nat /\ q \in Nat /\ p <= q /\ q1 = q + b1 /\ runs[s] <= a + p
    BY <1>5, <1>7 DEF p, q, q1
  <2>4. runs[s] + one <= a1 + q1
    BY <1>2, <1>3, <1>4, <1>6, <2>1, <2>3
  <2>5. runs'[s] <= a1 + overtakes' * b1
    BY <1>1, <2>2, <2>4 DEF q1
  <2>6. s \in NeedsApproval => runs'[s] <= approvals'[s] + overtakes'
    BY <1>1, <1>2, <1>5, <1>6, <2>2
  <2> QED BY <2>5, <2>6 DEF a1, b1
<1>9. CASE ~call.overtaken
  <2>1. /\ a <= a1
        /\ one = 1 => /\ a < a1
                      /\ s \in NeedsApproval => call.counts = "approval" /\ call.step = s
    BY <1>1, <1>2, <1>9 DEF FreshOK, Continues, Revived
  <2>2. overtakes' = overtakes
    BY <1>1, <1>2, <1>9
  <2>3. one = 1 /\ s \in NeedsApproval => approvals'[s] = approvals[s] + 1
    <3>1. SUFFICES ASSUME one = 1, s \in NeedsApproval
                   PROVE  approvals'[s] = approvals[s] + 1
      OBVIOUS
    <3> HIDE DEF call, one
    <3>2. call.counts = "approval" /\ call.step = s
      BY <2>1, <3>1
    <3>3. approvals' = Counted(approvals, TRUE, s)
      BY <1>1, <3>2
    <3>4. Counted(approvals, TRUE, s)[s] = approvals[s] + 1
      BY <1>2, CountedHistory
    <3> QED BY <3>3, <3>4
  <2> DEFINE p == overtakes * b
             q == overtakes * b1
  <2> HIDE DEF call, a, a1, b, b1, one, p, q
  <2>4. p \in Nat /\ q \in Nat /\ p <= q /\ runs[s] <= a + p
    BY <1>5, <1>7 DEF p, q
  <2>5. runs[s] + one <= a1 + q
    BY <1>2, <1>3, <1>6, <2>1, <2>4
  <2>6. runs'[s] <= a1 + overtakes' * b1
    BY <1>1, <2>2, <2>5 DEF q
  <2>7. s \in NeedsApproval => runs'[s] <= approvals'[s] + overtakes'
    BY <1>1, <1>2, <1>5, <1>6, <2>2, <2>3
  <2> QED BY <2>6, <2>7 DEF a1, b1
<1> QED BY <1>8, <1>9

LEMMA SaveStep == ASSUME IInv, NEW c \in Calls, Save(c) PROVE IInv'
<1> DEFINE call == calls[c]
           After(d) == IF d = c THEN NoCall
                       ELSE [calls[d] EXCEPT !.overtaken = calls[d].stage = "decided"]
<1>1. /\ call.stage = "decided" /\ mission' = call.copy
      /\ approvals' = Counted(approvals, call.counts = "approval", call.step)
      /\ reopened' = Counted(reopened, call.counts = "reopening", call.step)
      /\ runs' = [s \in Steps |-> runs[s] + IF s \in Revived(call.copy) THEN 1 ELSE 0]
      /\ overtakes' = overtakes + IF call.overtaken THEN 1 ELSE 0
      /\ calls' = [d \in Calls |-> After(d)]
  BY DEF Save
<1>2. /\ call \in Call /\ CopyOK(call)
      /\ approvals \in [Steps -> Nat] /\ reopened \in [Steps -> Nat]
  BY DEF IInv, TypeOK
<1>3. call.counts # "nothing" => call.step \in Steps
  BY <1>1, <1>2 DEF CopyOK
<1>4. /\ approvals' \in [Steps -> Nat] /\ reopened' \in [Steps -> Nat]
      /\ \A s \in Steps : approvals[s] <= approvals'[s] /\ reopened[s] <= reopened'[s]
  BY <1>1, <1>2, <1>3, CountedHistory
<1>5. StepsOK(mission.steps, approvals, reopened)'
  BY <1>1, <1>2 DEF CopyOK, StepsOK, StepOK
<1>6. \A d \in Calls : calls'[d] = After(d)
  BY <1>1
<1>10. ASSUME NEW d \in Calls
       PROVE  After(d) \in Call
  <2>1. calls[d] \in Call
    BY DEF IInv, TypeOK
  <2>2. (calls[d].stage = "decided") \in BOOLEAN
    OBVIOUS
  <2> QED BY <2>1, <2>2, NoCallIsCall DEF Call
<1>7. TypeOK'
  <2>1. calls' \in [Calls -> Call]
    <3> HIDE DEF After
    <3> QED BY <1>1, <1>10
  <2>2. runs' \in [Steps -> Nat] /\ overtakes' \in Nat
    BY <1>1 DEF IInv, TypeOK
  <2>3. mission' \in Mission
    BY <1>1, <1>2 DEF Call
  <2> QED BY <1>4, <2>1, <2>2, <2>3 DEF TypeOK
<1>8. ASSUME NEW d \in Calls
      PROVE  CopyOK(calls[d])' /\ FreshOK(calls[d])'
  <2>1. CASE d = c
    <3>1. calls'[d].stage = "idle"
      BY <1>6, <2>1, NoCallIsCall
    <3> QED BY <3>1 DEF CopyOK, FreshOK
  <2>2. CASE d # c
    <3> DEFINE other == calls[d]
               next == calls'[d]
               a0 == Counted(approvals, other.counts = "approval", other.step)
               r0 == Counted(reopened, other.counts = "reopening", other.step)
               a1 == Counted(approvals', other.counts = "approval", other.step)
               r1 == Counted(reopened', other.counts = "reopening", other.step)
    <3>0. next = [other EXCEPT !.overtaken = other.stage = "decided"] /\ other \in Call
      BY <1>6, <2>2 DEF IInv, TypeOK
    <3>1. /\ next.stage = other.stage /\ next.counts = other.counts /\ next.step = other.step
          /\ next.copy = other.copy /\ next.overtaken = (other.stage = "decided")
          /\ CopyOK(other)
      BY <3>0 DEF Call, IInv
    <3>6. FreshOK(calls[d])'
      BY <3>1 DEF FreshOK
    <3>2. SUFFICES ASSUME other.stage = "decided"
                   PROVE  /\ other.counts # "nothing" => other.step \in Steps
                          /\ StepsOK(other.copy.steps, a1, r1)
      BY <3>1, <3>6 DEF CopyOK
    <3>3. (other.counts # "nothing" => other.step \in Steps) /\ StepsOK(other.copy.steps, a0, r0)
      BY <3>1, <3>2 DEF CopyOK
    <3>4. /\ a0 \in [Steps -> Nat] /\ r0 \in [Steps -> Nat]
          /\ a1 \in [Steps -> Nat] /\ r1 \in [Steps -> Nat]
          /\ \A s \in Steps : a0[s] <= a1[s] /\ r0[s] <= r1[s]
      BY <1>2, <1>4, <3>3 DEF Counted
    <3>5. other.copy.steps \in StepRows
      BY <3>0, MissionParts DEF Call
    <3> HIDE DEF other, a0, r0, a1, r1
    <3> QED BY <3>3, <3>4, <3>5, HistoriesGrow
  <2> QED BY <2>1, <2>2
<1>9. TruthfulCopies'
  <2>1. ASSUME NEW d \in Calls, calls'[d].stage = "decided"
        PROVE  calls[d].stage = "decided" /\ calls'[d].copy = calls[d].copy
    <3>1. calls[d] \in Call /\ calls'[d] = After(d)
      BY <1>6 DEF IInv, TypeOK
    <3>2. d # c
      BY <2>1, <3>1, NoCallIsCall
    <3>3. calls'[d] = [calls[d] EXCEPT !.overtaken = calls[d].stage = "decided"]
      BY <3>1, <3>2
    <3> QED BY <2>1, <3>1, <3>3 DEF Call
  <2> QED BY <1>1, <2>1 DEF IInv, TruthfulCopies
<1>11. RunsOK'
  BY <1>4, SaveCountsRuns DEF RunsOK
<1> QED BY <1>5, <1>7, <1>8, <1>9, <1>11 DEF IInv
-----------------------------------------------------------------------------
(* A new mission satisfies the invariant. *)
LEMMA InitInvariant == Init => IInv
<1> SUFFICES ASSUME Init PROVE IInv
  OBVIOUS
<1>1. TypeOK
  BY NoCallIsCall DEF Init, TypeOK
<1>2. StepsOK(mission.steps, approvals, reopened)
  BY DEF Init, NewMission, StepsOK, StepOK
<1>6. RunsOK
  <2>1. ASSUME NEW s \in Steps
        PROVE  /\ runs[s] = 0 /\ overtakes = 0 /\ approvals[s] = 0 /\ Allowed(s) \in Nat
               /\ mission.steps.attempts[s] = 0
    BY DEF Init, NewMission, Allowed
  <2> QED BY <2>1 DEF RunsOK
<1>3. \A c \in Calls : calls[c].stage = "idle"
  BY NoCallIsCall DEF Init
<1>4. \A c \in Calls : CopyOK(calls[c]) /\ FreshOK(calls[c])
  BY <1>3 DEF CopyOK, FreshOK
<1>5. TruthfulCopies
  BY <1>3 DEF TruthfulCopies, Truthful, Init, NewMission
<1> QED BY <1>1, <1>2, <1>4, <1>5, <1>6 DEF IInv

(* Every step of every call keeps the invariant. *)
LEMMA NextInvariant == IInv /\ [Next]_vars => IInv'
<1> SUFFICES ASSUME IInv, [Next]_vars PROVE IInv'
  OBVIOUS
<1>1. ASSUME NEW c \in Calls, ReadRow(c)
      PROVE  IInv'
  BY <1>1, ReadRowStep
<1>2. ASSUME NEW c \in Calls, Answer(c)
      PROVE  IInv'
  BY <1>2, AnswerStep
<1>3. ASSUME NEW c \in Calls, Save(c)
      PROVE  IInv'
  BY <1>3, SaveStep
<1>4. ASSUME NEW c \in Calls, Abandon(c)
      PROVE  IInv'
  BY <1>4, NoCallIsCall, OpenCallStep DEF Abandon
<1>5. CASE UNCHANGED vars
  BY <1>5 DEF vars, histories, IInv, TypeOK, StepsOK, StepOK, CopyOK, FreshOK, RunsOK, Allowed,
             TruthfulCopies, Truthful
<1> QED BY <1>1, <1>2, <1>3, <1>4, <1>5 DEF Next

(* The invariant holds in every state of every mission. *)
THEOREM MissionInvariant == Spec => []IInv
BY InitInvariant, NextInvariant, PTL DEF Spec

(* The stored mission, the copies and the histories keep their types. *)
THEOREM MissionTypes == Spec => []TypeOK
BY MissionInvariant, PTL DEF IInv

(* What the invariant says of the two properties. *)
LEMMA ApprovalsHold == IInv => ApprovedBeforeRunning
<1> SUFFICES ASSUME IInv, NEW s \in NeedsApproval
             PROVE  /\ mission.steps.status[s] = "running" => approvals[s] > 0
                    /\ mission.steps.attempts[s] <= approvals[s]
                    /\ runs[s] <= approvals[s] + overtakes
  BY DEF ApprovedBeforeRunning
<1>1. /\ s \in Steps /\ approvals[s] \in Nat /\ mission.steps.attempts[s] \in Nat
      /\ runs[s] <= approvals[s] + overtakes /\ StepOK(mission.steps, approvals, reopened, s)
  BY MissionParts DEF IInv, TypeOK, RunsOK, StepsOK
<1> QED BY <1>1 DEF StepOK

LEMMA BudgetHolds == IInv => AttemptBudget
<1> SUFFICES ASSUME IInv, NEW s \in Steps
             PROVE  /\ mission.steps.attempts[s] <= Allowed(s)
                    /\ runs[s] <= (overtakes + 1) * Allowed(s)
  BY DEF AttemptBudget
<1>1. /\ runs[s] \in Nat /\ overtakes \in Nat /\ Allowed(s) \in Nat
      /\ mission.steps.attempts[s] \in Nat
  BY MissionParts DEF IInv, TypeOK, Allowed
<1>2. /\ mission.steps.attempts[s] <= Allowed(s)
      /\ runs[s] <= mission.steps.attempts[s] + overtakes * Allowed(s)
  BY DEF IInv, RunsOK, StepsOK, StepOK, Allowed
<1> DEFINE b == Allowed(s)
<1> HIDE DEF b
<1>3. (overtakes + 1) * b = overtakes * b + b /\ overtakes * b \in Nat
  BY <1>1 DEF b
<1> QED BY <1>1, <1>2, <1>3 DEF b

(* An approval-marked step runs only after an approval, and comes to run   *)
(* no more often than it was approved and overtaken copies were saved,     *)
(* whatever overlapping calls read torn and save.                          *)
THEOREM ApprovalsRespected == Spec => []ApprovedBeforeRunning
BY ApprovalsHold, MissionInvariant, PTL

(* The attempts of a step on record keep to the limit and its reopenings,  *)
(* and it runs no more often than that after each save of an overtaken     *)
(* copy, whatever overlapping calls read torn and save.                    *)
THEOREM AttemptsBounded == Spec => []AttemptBudget
BY BudgetHolds, MissionInvariant, PTL

(* In a file store a completed mission has no step left. *)
THEOREM CompletionHonest == ASSUME ~Database PROVE Spec => []CompletedWhenDone
<1>1. IInv => CompletedWhenDone
  BY DEF IInv, TruthfulCopies, Truthful, CompletedWhenDone
<1> QED BY <1>1, MissionInvariant, PTL
=============================================================================
