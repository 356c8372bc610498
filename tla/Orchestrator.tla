----------------------------- MODULE Orchestrator -----------------------------
(***************************************************************************)
(* MissionOrchestrator (src/src/orchestrator.ts): how its calls turn work  *)
(* and evidence into the verdict on a step, between executors, worker      *)
(* clients and users.                                                      *)
(*                                                                         *)
(* Its callers are the supervisor of the mission, cycle after cycle, and   *)
(* users, whose tool calls autonomous_advance and autonomous_reconcile     *)
(* take no lock and no lease (operations.ts:262): calls overlap, at every  *)
(* await between what they read and what they write.                       *)
(*                                                                         *)
(* One mission of one step.  Its operations are those of Missions, each    *)
(* taken at once here: that they overlap is Missions' own subject.  A call *)
(* decides by what it has read.                                            *)
(*                                                                         *)
(* Abstracted: the contents of plans and findings, the learning from       *)
(* experience, and the 6 hours after which evidence is too old (it may be, *)
(* or not, whenever it is asked).                                          *)
(***************************************************************************)
EXTENDS Integers, Sequences, FiniteSets

CONSTANTS
  MaxRemediation,  \* maxRemediationAttempts of the mission
  MaxWork,         \* bound: work items
  MaxEvidence,     \* bound: evidence records
  MaxUser,         \* bound: what users, clients and faults do besides
  NoList,          \* a caller has read no work
  Callers,         \* who may call the orchestrator at one time
  Supervisor       \* the one of them that holds the mission's lease

ASSUME OrchestratorAssumption ==
  /\ MaxRemediation \in Nat \ {0} /\ MaxWork \in Nat /\ MaxEvidence \in Nat /\ MaxUser \in Nat
  /\ IsFiniteSet(Callers) /\ Supervisor \in Callers

VARIABLES
  mission,   \* the stored mission
  work,      \* the work items of the step, in the order of their creation
  evidence,  \* the evidence of the step, as a call of missions.evidence finds it
  goal,      \* what the wording of the goal makes of the mission
  database,  \* databaseEnabled()
  at,        \* where a caller is in its call
  listed,    \* the work it has read
  judged,    \* how much of the evidence it has read
  peak,      \* history: the most calls that were under way at one time
  others     \* bound

vars == <<mission, work, evidence, goal, database, at, listed, judged, peak, others>>

M == INSTANCE Missions WITH
  StepCount <- 1, NeedsApproval <- {}, Database <- FALSE, Calls <- {}, MaxApprovals <- 0,
  MaxReopenings <- 0, MaxOvertakes <- 0,
  calls <- <<>>, approvals <- <<>>, reopened <- <<>>, runs <- <<>>, overtakes <- 0

Kinds == {"plan", "remedy", "council", "repeat", "action"}

(* result: what a worker made of it.  "executed" is the envelope of the    *)
(* executor, in which reconcile finds no verdict; a client of the worker   *)
(* API completes an item with a result of its own.                         *)
WorkItem ==
  [kind: Kinds, status: {"active", "completed", "failed", "cancelled"},
   result: {"none", "executed", "plain", "approve"}]

(* after: the work items there were when it was observed. *)
Record == [kind: {"check", "review"}, status: {"pass", "fail", "unknown"}, after: 0..MaxWork]

Places == {"idle", "advance", "advance list", "advance done", "advance judge", "plan", "reconcile",
           "list", "gather", "judge", "pass", "fail", "block"}

TypeOK ==
  /\ mission \in M!Mission
  /\ work \in Seq(WorkItem) /\ Len(work) <= MaxWork
  /\ evidence \in Seq(Record) /\ Len(evidence) <= MaxEvidence
  /\ goal \in [critical: BOOLEAN, open: BOOLEAN] /\ database \in BOOLEAN
  /\ at \in [Callers -> Places]
  /\ listed \in [Callers -> Seq(WorkItem) \cup {NoList}]
  /\ judged \in [Callers -> 0..MaxEvidence]
  /\ peak \in 0..Cardinality(Callers)
  /\ others \in 0..MaxUser

Init ==
  /\ mission = M!NewMission
  /\ work = <<>> /\ evidence = <<>>
  /\ goal \in [critical: BOOLEAN, open: BOOLEAN] /\ database \in BOOLEAN
  /\ at = [c \in Callers |-> "idle"] /\ listed = [c \in Callers |-> NoList]
  /\ judged = [c \in Callers |-> 0] /\ peak = 0
  /\ others = 0
-----------------------------------------------------------------------------
(* What a call of the orchestrator has read.                               *)

Step == mission.steps.status[1]
Attempts == mission.steps.attempts[1]

Having(ws, status) == {i \in DOMAIN ws : ws[i].status = status}
OfKind(ws, kind) == {i \in DOMAIN ws : ws[i].kind = kind}
Newest(set) == CHOOSE i \in set : \A j \in set : j <= i

Seen(c) == SubSeq(evidence, 1, judged[c])
Some(records, status) == \E i \in DOMAIN records : records[i].status = status

(* Evidence that is not of reasoning or of a council. *)
Deterministic(c) == SelectSeq(Seen(c), LAMBDA e : e.kind = "check")

(* The newest remediation is over, and a check passed after its directive. *)
Remedies(c) == OfKind(listed[c], "remedy")
Ready(c) ==
  LET r == Newest(Remedies(c)) IN
  /\ listed[c][r].status = "completed"
  /\ \E i \in DOMAIN Deterministic(c) : Deterministic(c)[i].status = "pass" /\ Deterministic(c)[i].after >= r

(* reliabilityGate: three passes in a row where it is critical, else one   *)
(* among the last two.                                                     *)
LastPassed(c, n) ==
  /\ n <= Len(Deterministic(c))
  /\ \A i \in (Len(Deterministic(c)) - n + 1)..Len(Deterministic(c)) : Deterministic(c)[i].status = "pass"
Streak(c) == Cardinality({n \in 1..judged[c] : LastPassed(c, n)})

LastTwo(c) == {i \in DOMAIN Deterministic(c) : i + 1 >= Len(Deterministic(c))}
Reliable(c) ==
  IF goal.critical THEN Streak(c) >= 3 ELSE \E i \in LastTwo(c) : Deterministic(c)[i].status = "pass"
MissingRuns(c) ==
  CASE Reliable(c) -> 0
    [] ~Reliable(c) /\ goal.critical -> 3 - Streak(c)
    [] OTHER -> IF Some(Deterministic(c), "pass") THEN 0 ELSE 1

(* Repeats count, whatever became of them. *)
Repeats(c) == OfKind(listed[c], "repeat")
-----------------------------------------------------------------------------
(* Steps of the orchestrator, in the call of c.                            *)

Others == UNCHANGED <<goal, database, peak, others>>

Goes(c, place) == at' = [at EXCEPT ![c] = place]
Reads(c, ws, n) == listed' = [listed EXCEPT ![c] = ws] /\ judged' = [judged EXCEPT ![c] = n]
Rests(c) == Goes(c, "idle") /\ Reads(c, NoList, 0)
Keeps == UNCHANGED <<listed, judged>>

New(kind) == [kind |-> kind, status |-> "active", result |-> "none"]
Enqueues(kinds) == Len(work) + Len(kinds) <= MaxWork /\ work' = work \o kinds

Busy == {c \in Callers : at[c] # "idle"}

Begins(c, place) ==
  /\ at[c] = "idle" /\ Goes(c, place) /\ Keeps
  /\ peak' = IF Cardinality(Busy) + 1 > peak THEN Cardinality(Busy) + 1 ELSE peak
  /\ UNCHANGED <<mission, work, evidence, goal, database>>

Bounded == others < MaxUser /\ others' = others + 1

(* A cycle of the supervisor, and the first cycle of a run. *)
Cycle == Begins(Supervisor, "reconcile") /\ UNCHANGED others
FirstCycle == Begins(Supervisor, "advance") /\ Bounded

(* A user's tool call, autonomous_reconcile or autonomous_advance. *)
ToolCall(c, place) == c # Supervisor /\ Begins(c, place) /\ Bounded

(* advance: missions.next.  It throws where the mission waits, and what    *)
(* then ends the supervisor is recorded as evidence ...                    *)
Waits == mission.row.status \in {"awaiting_approval", "blocked"}

NextThrows(c) ==
  /\ at[c] = "advance" /\ Waits /\ Rests(c)
  /\ \/ UNCHANGED evidence
     \/ /\ c = Supervisor /\ ~database /\ Len(evidence) < MaxEvidence
        /\ evidence' = Append(evidence, [kind |-> "check", status |-> "fail", after |-> Len(work)])
  /\ UNCHANGED <<mission, work>> /\ Others

(* ... and otherwise it finds the running step, or starts one.             *)
NextRuns(c) ==
  /\ at[c] = "advance" /\ ~Waits /\ Step = "running"
  /\ Goes(c, "advance list") /\ Keeps
  /\ UNCHANGED <<mission, work, evidence>> /\ Others

NextStarts(c) == \E s \in 0..1 :
  /\ at[c] = "advance" /\ ~Waits /\ Step # "running"
  /\ M!IsFirst(s, mission.steps, {"pending"}) /\ mission' = M!Advanced(mission, s)
  /\ IF s = 0 THEN Rests(c) ELSE Goes(c, "advance list") /\ Keeps
  /\ UNCHANGED <<work, evidence>> /\ Others

Bug_Outstanding(ws) == {i \in Having(ws, "active") : ws[i].kind # "council"}

Outstanding(ws) == Having(ws, "active")

(* advance lists the work twice: what is outstanding, and what is done. *)
AdvanceList(c) ==
  /\ at[c] = "advance list"
  /\ IF Outstanding(work) # {} THEN Rests(c) ELSE Goes(c, "advance done") /\ Keeps
  /\ UNCHANGED <<mission, work, evidence>> /\ Others

AdvanceDone(c) ==
  /\ at[c] = "advance done"
  /\ Goes(c, IF Having(work, "completed") = {} THEN "plan" ELSE "advance judge") /\ Keeps
  /\ UNCHANGED <<mission, work, evidence>> /\ Others

(* advance: work was completed and no evidence failed. *)
AdvanceJudge(c) ==
  /\ at[c] = "advance judge"
  /\ Goes(c, IF Some(evidence, "fail") THEN "plan" ELSE "pass") /\ Keeps
  /\ UNCHANGED <<mission, work, evidence>> /\ Others

(* advance: a requirement is challenged, or planning is enqueued. *)
Plan(c) ==
  /\ at[c] = "plan" /\ Rests(c)
  /\ IF goal.open THEN mission' = M!Challenged(mission, 1) /\ UNCHANGED work
     ELSE Enqueues(<<New("plan")>>) /\ UNCHANGED mission
  /\ UNCHANGED evidence /\ Others

Reconcile(c) ==
  /\ at[c] = "reconcile"
  /\ IF mission.row.status \in {"completed", "failed", "cancelled", "blocked", "awaiting_approval"}
       THEN Rests(c)
       ELSE /\ Goes(c, IF mission.row.current = 0 /\ Step # "running" THEN "advance" ELSE "list")
            /\ Keeps
  /\ UNCHANGED <<mission, work, evidence>> /\ Others

Bug_Excused(ws) == IF Having(ws, "completed") = {} THEN Having(ws, "failed") ELSE {}

Broken(ws) == Having(ws, "failed")

(* reconcile: work that is active is waited for; work that failed blocks   *)
(* the mission, if the last three failed alike, or fails the attempt.      *)
List(c) ==
  /\ at[c] = "list"
  /\ LET failed == Broken(work) IN
     CASE Outstanding(work) # {} -> Rests(c)
       [] Outstanding(work) = {} /\ failed # {} ->
            /\ \E place \in {"fail"} \cup (IF Cardinality(failed) >= 3 THEN {"block"} ELSE {}) : Goes(c, place)
            /\ Keeps
       [] Outstanding(work) = {} /\ failed = {} /\ Having(work, "completed") # {} ->
            Goes(c, "gather") /\ Reads(c, work, 0)
       [] OTHER -> Rests(c)
  /\ UNCHANGED <<mission, work, evidence>> /\ Others

(* reconcile: the evidence on what was completed. *)
Gather(c) ==
  /\ at[c] = "gather" /\ Goes(c, "judge") /\ Reads(c, listed[c], Len(evidence))
  /\ UNCHANGED <<mission, work, evidence>> /\ Others

(* The verdict on the candidate: that of the newest council. *)
Councils(c) == OfKind(listed[c], "council")
Approved(c) == listed[c][Newest(Councils(c))].result = "approve"

(* executionAcceptance, asked when an executor completed some of the work. *)
Executed(c) == \E i \in Having(listed[c], "completed") : listed[c][i].result = "executed"

NeedsRuns(c) == MissingRuns(c) > Cardinality(Repeats(c))

(* reconcile: completed work and its evidence are judged. *)
Enqueue(c, kinds) == Enqueues(kinds) /\ Rests(c) /\ UNCHANGED <<mission, evidence>> /\ Others

Awaits(c) ==
  /\ at[c] = "judge" /\ Rests(c) /\ UNCHANGED <<mission, work, evidence>> /\ Others
  /\ IF Remedies(c) # {} /\ listed[c][Newest(Remedies(c))].status = "completed" THEN ~Ready(c)
     ELSE ~Some(Deterministic(c), "fail") /\ ~Some(Deterministic(c), "pass")

(* The remediation is not what is waited for. *)
PastRemedy(c) ==
  /\ at[c] = "judge"
  /\ Remedies(c) # {} =>
       IF Ready(c) THEN Councils(c) # {} /\ Newest(Councils(c)) > Newest(Remedies(c))
       ELSE listed[c][Newest(Remedies(c))].status # "completed"

ReviewRemedy(c) ==
  /\ at[c] = "judge" /\ Remedies(c) # {} /\ Ready(c)
  /\ \A i \in Councils(c) : i < Newest(Remedies(c))
  /\ Enqueue(c, <<New("council")>>)

Settles(c, place) ==
  /\ Goes(c, place) /\ Reads(c, NoList, 0)
  /\ UNCHANGED <<mission, work, evidence>> /\ Others

ChecksFailed(c) == PastRemedy(c) /\ Some(Deterministic(c), "fail") /\ Settles(c, "fail")

ChecksPassed(c) == PastRemedy(c) /\ ~Some(Deterministic(c), "fail") /\ Some(Deterministic(c), "pass")

RepeatRuns(c) ==
  /\ ChecksPassed(c) /\ NeedsRuns(c)
  /\ Enqueue(c, [i \in 1..(MissingRuns(c) - Cardinality(Repeats(c))) |-> New("repeat")])

Review(c) == ChecksPassed(c) /\ ~NeedsRuns(c) /\ Councils(c) = {} /\ Enqueue(c, <<New("council")>>)

Accept(c) ==
  /\ ChecksPassed(c) /\ ~NeedsRuns(c) /\ Councils(c) # {} /\ Approved(c)
  /\ \/ Settles(c, "pass")
     \/ Executed(c) /\ Settles(c, "fail")

Remedy(c) ==
  /\ ChecksPassed(c) /\ ~NeedsRuns(c) /\ Councils(c) # {} /\ ~Approved(c)
  /\ Enqueue(c, <<New("remedy")>>)

(* missions.verify and missions.block.  An attempt that failed is followed *)
(* by another, while the mission runs.                                     *)
Pass(c) ==
  /\ at[c] = "pass" /\ Rests(c) /\ mission' = M!Passed(mission, 1)
  /\ UNCHANGED <<work, evidence>> /\ Others

Fail(c) ==
  /\ at[c] = "fail" /\ mission' = M!Failed(mission, 1)
  /\ IF mission'.row.status = "failed" THEN Rests(c) ELSE Goes(c, "advance") /\ Keeps
  /\ UNCHANGED <<work, evidence>> /\ Others

Block(c) ==
  /\ at[c] = "block" /\ Rests(c) /\ mission' = M!Stopped(mission)
  /\ UNCHANGED <<work, evidence>> /\ Others
-----------------------------------------------------------------------------
(* Workers.                                                                *)

Workers == UNCHANGED <<mission, goal, database, at, listed, judged, peak>>

Becomes(ws, i, status, result) ==
  [ws EXCEPT ![i] = [kind |-> ws[i].kind, status |-> status, result |-> result]]

(* A record of an execution node is always found; one of an executor or a  *)
(* client is kept in a file, where nobody looks who has a database.        *)
Found(byNode) == byNode \/ ~database

Observe(kind, status, byNode) ==
  IF ~Found(byNode) THEN UNCHANGED evidence
  ELSE /\ Len(evidence) < MaxEvidence
       /\ evidence' = Append(evidence, [kind |-> kind, status |-> status, after |-> Len(work)])

(* The executor reasons, and enqueues an action of the plan; a reply that  *)
(* is no plan is evidence of a failure.                                    *)
Reason(i) ==
  /\ work[i].status = "active" /\ work[i].kind \in {"plan", "remedy"}
  /\ LET done == Becomes(work, i, "completed", "executed") IN
     \/ work' = done /\ UNCHANGED evidence
     \/ Len(work) < MaxWork /\ work' = Append(done, New("action")) /\ UNCHANGED evidence
     \/ work' = done /\ Observe("check", "fail", FALSE)
  /\ UNCHANGED others /\ Workers

(* A governed action of a plan, run here, is evidence that it passed. *)
Hosted(i) == work[i].kind = "action" /\ Observe("check", "pass", FALSE)

(* The executor runs an action, reviews, or repeats a verification. *)
Execute(i) ==
  /\ work[i].status = "active"
  /\ CASE work[i].kind = "action" -> Hosted(i)
       [] work[i].kind = "council" ->
            UNCHANGED evidence \/ \E s \in {"pass", "fail"} : Observe("review", s, FALSE)
       [] work[i].kind = "repeat" -> Observe("check", "unknown", FALSE)
       [] OTHER -> FALSE
  /\ work' = Becomes(work, i, "completed", "executed")
  /\ UNCHANGED others /\ Workers

(* An item fails for good. *)
GivesUp(i) ==
  /\ work[i].status = "active" /\ work' = Becomes(work, i, "failed", "none")
  /\ UNCHANGED <<evidence, others>> /\ Workers

(* A client of the worker API completes an item, or cancels one. *)
ClientCompletes(i) ==
  /\ Bounded /\ work[i].status = "active"
  /\ work' = Becomes(work, i, "completed", IF work[i].kind = "council" THEN "approve" ELSE "plain")
  /\ UNCHANGED evidence /\ Workers

ClientCancels(i) ==
  /\ Bounded /\ work[i].status \in {"active", "failed"} /\ work' = Becomes(work, i, "cancelled", "none")
  /\ UNCHANGED evidence /\ Workers

(* A node reports a job of the plan, or a client what it observed. *)
Observed(status, byNode) ==
  /\ Bounded /\ Observe("check", status, byNode) /\ UNCHANGED work /\ Workers
-----------------------------------------------------------------------------
(* Users, the supervisor's own resume, and crashes.                        *)

Elsewhere == UNCHANGED <<work, evidence, goal, database, at, listed, judged, peak>>

Resume == \E s \in 0..1 :
  /\ mission.row.status \in {"blocked", "failed"} /\ Bounded
  /\ M!IsFirst(s, mission.steps, {"blocked", "failed"}) /\ mission' = M!Resumed(mission, s)
  /\ Elsewhere

Override ==
  /\ Step = "awaiting_approval" /\ Bounded /\ mission' = M!Overridden(mission, 1) /\ Elsewhere

Interrupt == Bounded /\ mission' = M!Stopped(mission) /\ Elsewhere
Cancel == Bounded /\ mission' = M!Cancelled(mission) /\ Elsewhere

Crash(c) ==
  /\ at[c] # "idle" /\ Bounded /\ Rests(c)
  /\ UNCHANGED <<mission, work, evidence, goal, database, peak>>

Continue(c) ==
  \/ NextThrows(c) \/ NextRuns(c) \/ NextStarts(c)
  \/ AdvanceList(c) \/ AdvanceDone(c) \/ AdvanceJudge(c) \/ Plan(c)
  \/ Reconcile(c) \/ List(c) \/ Gather(c) \/ Awaits(c) \/ ReviewRemedy(c) \/ ChecksFailed(c)
  \/ RepeatRuns(c) \/ Review(c) \/ Accept(c) \/ Remedy(c)
  \/ Pass(c) \/ Fail(c) \/ Block(c)

Work(i) == i \in DOMAIN work /\ (Reason(i) \/ Execute(i) \/ GivesUp(i))

Next ==
  \/ Cycle \/ FirstCycle
  \/ \E c \in Callers : \E place \in {"reconcile", "advance"} : ToolCall(c, place)
  \/ \E c \in Callers : Continue(c) \/ Crash(c)
  \/ \E i \in 1..MaxWork : Work(i)
  \/ \E i \in DOMAIN work : ClientCompletes(i) \/ ClientCancels(i)
  \/ \E s \in {"pass", "fail", "unknown"} : \E byNode \in BOOLEAN : Observed(s, byNode)
  \/ Resume \/ Override \/ Interrupt \/ Cancel

(* The worker process looks for missions to supervise every 3 seconds, the *)
(* supervisor reconciles every 1.5 and its calls end.  Without a database  *)
(* an executor, which polls every 2, recovers before it claims, so every   *)
(* item ends; with one an item may stay leased for ever (work_queue_stuck).*)
(* Nothing is assumed of users' calls.                                     *)
Spec ==
  /\ Init /\ [][Next]_vars
  /\ WF_vars(Cycle \/ Continue(Supervisor))
  /\ \A i \in 1..MaxWork : WF_vars(~database /\ Work(i))
-----------------------------------------------------------------------------
(* Properties.                                                             *)

(* Of plans, remedies and reviews, no more are under way at a time than    *)
(* calls of the orchestrator overlapped; and while no two ever did, it     *)
(* asks for no more than three repeated verifications in all, however      *)
(* results, cancellations, crashes and users come in between its reads and *)
(* its enqueue (orchestrator.ts, advance and reconcile).  A user's call    *)
(* that overlaps the supervisor's does give a second plan, for nothing     *)
(* keeps them apart.                                                       *)
Decisions == {"plan", "remedy", "council"}
Deciding(ws) == {i \in Having(ws, "active") : ws[i].kind \in Decisions}

WorkBounded ==
  /\ Cardinality(Deciding(work)) <= peak
  /\ peak <= 1 => Cardinality(OfKind(work, "repeat")) <= 3

(* A running step whose work failed does not stay so: its attempts run     *)
(* out, or the mission stops, passes or waits, unless the failed work is   *)
(* taken away (orchestrator.ts:7, verify in missions.ts); only with a      *)
(* database it may, behind some item that stays leased for ever.           *)
(* The bound on work must leave room: for a plan and its action in every   *)
(* cycle that may still plan, and for what calls of users have yet to      *)
(* enqueue.                                                                *)
HasRoom ==
  Len(work) + 2 * (MaxRemediation + MaxUser - others) + 3 * Cardinality(Busy \ {Supervisor}) <= MaxWork

FailureSettles ==
  (mission.row.status = "running" /\ Having(work, "failed") # {} /\ HasRoom)
    ~> \/ mission.row.status # "running" \/ Having(work, "failed") = {}
       \/ database /\ [](Having(work, "active") # {})

(* "exhausted verification becomes a failed mission rather than an         *)
(* invented success" (src/agent/FS-REMOTE-DEVELOPMENT-INSTRUCTIONS.md:47): *)
(* the mission is completed only with some check that passed.  It does not *)
(* hold: advance passes a step whose work is completed when no evidence    *)
(* failed, also when there is none.                                        *)
NoInventedSuccess ==
  mission.row.status = "completed" => Some(evidence, "pass")
=============================================================================
