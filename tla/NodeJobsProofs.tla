--------------------------- MODULE NodeJobsProofs ---------------------------
(***************************************************************************)
(* Proofs about NodeJobs for any number of nodes, agents, jobs, leases,    *)
(* late requests and credential rotations.                                 *)
(*                                                                         *)
(* None of the properties is inductive.  IInv adds what ties a row's       *)
(* token and counters to its status (RowsOK), what a request on its way    *)
(* and an answered but unfinished complete know of their row (RequestsOK), *)
(* and what an agent knows of the lease it works for (AgentsOK).           *)
(***************************************************************************)
EXTENDS NodeJobs, TLAPS

(* A manual job was leased as often as it was released, or once more. *)
CountsOK(row, ret) ==
  /\ row.status = "absent" => row.attempts = 0
  /\ row.policy = "automatic" => ret = 0 /\ row.status # "recovery_required"
  /\ row.policy = "manual" =>
       row.attempts = IF row.status \in {"absent", "queued"} THEN ret ELSE ret + 1

(* Exactly the leased rows have a token, that of the last attempt.         *)
LeaseOK(row) ==
  /\ row.token = IF row.status = "leased" THEN row.attempts ELSE 0
  /\ row.status = "leased" => row.attempts > 0
  /\ row.live => row.status = "leased"

(* Exactly the settled rows have a result, that of the last attempt.       *)
ResultOK(row, by) ==
  /\ by = IF row.status \in Settled THEN row.attempts ELSE 0
  /\ row.status \in Settled => row.attempts > 0
  /\ row.evidence = "pass" => row.status = "completed"
  /\ row.evidence = "fail" => row.status = "failed"

RowOK(row, ret, by) == CountsOK(row, ret) /\ LeaseOK(row) /\ ResultOK(row, by)

RowsOK == \A j \in JobIds : RowOK(jobs[j], retries[j], settledBy[j])

RequestOK(r) ==
  /\ r.kind = "claim" <=> r.handle = NoHandle
  /\ r.kind = "complete" => r.result \in Settled
  /\ r.stage = "updated" =>
       /\ r.kind = "complete"
       /\ jobs[r.handle.job].status = r.result
       /\ jobs[r.handle.job].attempts = r.handle.attempt

RequestsOK == \A r \in requests : RequestOK(r)

AgentOK(a) ==
  /\ lane[a] = "executing" => held[a] # NoHandle
  /\ held[a] # NoHandle => held[a].attempt <= jobs[held[a].job].attempts
  /\ \A b \in Agents : a # b /\ held[a] # NoHandle => held[a] # held[b]

AgentsOK == \A a \in Agents : AgentOK(a)

IInv == TypeOK /\ RowsOK /\ RequestsOK /\ AgentsOK
-----------------------------------------------------------------------------
USE NodesAssumption, BoundsAssumption, InputsAssumption

(* A row stays a row when one of its columns is set. *)
LEMMA RowUpdates ==
  ASSUME NEW row \in Row
  PROVE  /\ \A s \in Status : [row EXCEPT !.status = s] \in Row
         /\ \A n \in 0..MaxAttempts : [row EXCEPT !.token = n] \in Row
         /\ \A n \in 0..MaxAttempts : [row EXCEPT !.attempts = n] \in Row
         /\ \A b \in BOOLEAN : [row EXCEPT !.live = b] \in Row
         /\ \A e \in {"none", "pass", "fail"} : [row EXCEPT !.evidence = e] \in Row
BY DEF Row

(* A lease taken back, a fresh lease and a result keep a row in order.     *)
LEMMA TakenBackRow ==
  ASSUME NEW row \in Row, NEW ret, NEW by, RowOK(row, ret, by), Expired(row)
  PROVE  /\ TakenBack(row) \in Row
         /\ RowOK(TakenBack(row), ret, by)
         /\ TakenBack(row).attempts = row.attempts
         /\ TakenBack(row).policy = row.policy
         /\ TakenBack(row).node = row.node
         /\ TakenBack(row).status =
              IF row.policy = "automatic" THEN "queued" ELSE "recovery_required"
<1> DEFINE parked == IF row.policy = "automatic" THEN "queued" ELSE "recovery_required"
           once == [row EXCEPT !.status = parked]
<1>1. once \in Row
  BY RowUpdates DEF Status
<1>2. TakenBack(row) = [once EXCEPT !.token = 0]
  BY DEF TakenBack
<1>3. TakenBack(row) \in Row
  <2>1. 0 \in 0..MaxAttempts
    OBVIOUS
  <2> HIDE DEF once
  <2>2. [once EXCEPT !.token = 0] \in Row
    BY <1>1, <2>1, RowUpdates
  <2> QED BY <1>2, <2>2
<1>4. /\ TakenBack(row).status = parked /\ TakenBack(row).token = 0
      /\ TakenBack(row).attempts = row.attempts /\ TakenBack(row).policy = row.policy
      /\ TakenBack(row).live = row.live /\ TakenBack(row).evidence = row.evidence
      /\ TakenBack(row).node = row.node
  BY DEF TakenBack, Row
<1>5. CountsOK(TakenBack(row), ret)
  BY <1>4 DEF RowOK, CountsOK, Expired, Row
<1>6. LeaseOK(TakenBack(row)) /\ ResultOK(TakenBack(row), by)
  BY <1>4 DEF RowOK, LeaseOK, ResultOK, Expired, Settled
<1> QED BY <1>3, <1>4, <1>5, <1>6 DEF RowOK

(* A lease drawn by claim keeps a row in order: it is the newest one. *)
LEMMA FreshLeaseRow ==
  ASSUME NEW row \in Row, NEW ret, NEW by, RowOK(row, ret, by),
         row.status = "queued", row.attempts < MaxAttempts
  PROVE  /\ FreshLease(row) \in Row
         /\ RowOK(FreshLease(row), ret, by)
         /\ FreshLease(row).attempts = row.attempts + 1
         /\ FreshLease(row).token = row.attempts + 1
         /\ FreshLease(row).status = "leased"
         /\ FreshLease(row).policy = row.policy
<1> DEFINE r1 == [row EXCEPT !.status = "leased"]
           r2 == [r1 EXCEPT !.attempts = row.attempts + 1]
           r3 == [r2 EXCEPT !.live = TRUE]
<1>0. row.attempts + 1 \in 0..MaxAttempts
  BY DEF Row
<1>1. r1 \in Row
  BY RowUpdates DEF Status
<1>2. r2 \in Row
  <2> HIDE DEF r1
  <2> QED BY <1>0, <1>1, RowUpdates
<1>3. r3 \in Row
  <2> HIDE DEF r2
  <2> QED BY <1>2, RowUpdates
<1>4. FreshLease(row) = [r3 EXCEPT !.token = row.attempts + 1]
  BY DEF FreshLease, Row
<1>5. FreshLease(row) \in Row
  <2> HIDE DEF r3
  <2> QED BY <1>0, <1>3, <1>4, RowUpdates
<1>6. /\ FreshLease(row).status = "leased" /\ FreshLease(row).token = row.attempts + 1
      /\ FreshLease(row).attempts = row.attempts + 1 /\ FreshLease(row).policy = row.policy
      /\ FreshLease(row).live = TRUE /\ FreshLease(row).evidence = row.evidence
  BY DEF FreshLease, Row
<1>7. CountsOK(FreshLease(row), ret)
  BY <1>6 DEF RowOK, CountsOK, Row
<1>8. LeaseOK(FreshLease(row)) /\ ResultOK(FreshLease(row), by)
  BY <1>6 DEF RowOK, LeaseOK, ResultOK, Row, Settled
<1> QED BY <1>5, <1>6, <1>7, <1>8 DEF RowOK

(* A result stored by complete keeps a row in order: its token is gone. *)
LEMMA SettledRowRow ==
  ASSUME NEW row \in Row, NEW ret, NEW by, RowOK(row, ret, by),
         row.status = "leased", NEW result \in Settled
  PROVE  /\ SettledRow(row, result) \in Row
         /\ RowOK(SettledRow(row, result), ret, row.attempts)
         /\ SettledRow(row, result).status = result
         /\ SettledRow(row, result).attempts = row.attempts
         /\ SettledRow(row, result).policy = row.policy
<1> DEFINE r1 == [row EXCEPT !.status = result]
           r2 == [r1 EXCEPT !.token = 0]
           r3 == SettledRow(row, result)
<1>1. r1 \in Row
  BY RowUpdates DEF Status
<1>2. r2 \in Row
  <2>1. 0 \in 0..MaxAttempts
    OBVIOUS
  <2> HIDE DEF r1
  <2> QED BY <1>1, <2>1, RowUpdates
<1>3. r3 = [r2 EXCEPT !.live = FALSE]
  BY DEF SettledRow, Row
<1>4. r3 \in Row
  <2> HIDE DEF r2, r3
  <2> QED BY <1>2, <1>3, RowUpdates
<1>5. /\ r3.status = result /\ r3.token = 0 /\ r3.live = FALSE
      /\ r3.attempts = row.attempts /\ r3.policy = row.policy /\ r3.evidence = row.evidence
  BY DEF SettledRow, Row
<1>6. CountsOK(r3, ret)
  BY <1>5 DEF RowOK, CountsOK, Row, Settled
<1>7. LeaseOK(r3) /\ ResultOK(r3, row.attempts)
  BY <1>5 DEF RowOK, LeaseOK, ResultOK, Row, Settled
<1> QED BY <1>4, <1>5, <1>6, <1>7 DEF RowOK

(* What recover leaves of a row: it is untouched or its dead lease is gone. *)
LEMMA RecoveredRows ==
  ASSUME TypeOK, RowsOK
  PROVE  /\ Recovered \in [JobIds -> Row]
         /\ \A j \in JobIds :
              /\ RowOK(Recovered[j], retries[j], settledBy[j])
              /\ Recovered[j].attempts = jobs[j].attempts
              /\ Recovered[j].policy = jobs[j].policy
              /\ \/ Recovered[j] = jobs[j]
                 \/ /\ jobs[j].status = "leased"
                    /\ Recovered[j].status =
                         IF jobs[j].policy = "automatic" THEN "queued" ELSE "recovery_required"
<1>1. ASSUME NEW j \in JobIds
      PROVE  /\ Recovered[j] \in Row
             /\ RowOK(Recovered[j], retries[j], settledBy[j])
             /\ Recovered[j].attempts = jobs[j].attempts
             /\ Recovered[j].policy = jobs[j].policy
             /\ \/ Recovered[j] = jobs[j]
                \/ /\ jobs[j].status = "leased"
                   /\ Recovered[j].status =
                        IF jobs[j].policy = "automatic" THEN "queued" ELSE "recovery_required"
  <2>1. jobs[j] \in Row /\ RowOK(jobs[j], retries[j], settledBy[j])
    BY DEF TypeOK, RowsOK
  <2>2. CASE ~Expired(jobs[j])
    BY <2>1, <2>2 DEF Recovered
  <2>3. CASE Expired(jobs[j])
    <3>1. Recovered[j] = TakenBack(jobs[j])
      BY <2>3 DEF Recovered
    <3> QED BY <2>1, <2>3, <3>1, TakenBackRow DEF Expired
  <2> QED BY <2>2, <2>3
<1> QED BY <1>1 DEF Recovered

(* The row a renewal or a result is accepted for, and the lease it holds.  *)
LEMMA AcceptedHandle ==
  ASSUME TypeOK, RowsOK, RequestsOK, NEW r \in requests, r.kind # "claim", Acceptable(r)
  PROVE  /\ r.handle \in Handle
         /\ r.handle.job \in JobIds
         /\ jobs[r.handle.job] \in Row
         /\ jobs[r.handle.job].status = "leased"
         /\ jobs[r.handle.job].attempts = r.handle.attempt
<1>1. r.handle \in Handle /\ r.handle.job \in JobIds /\ r.kind \in {"renew", "complete"}
  BY DEF TypeOK, Requests, RequestsOK, RequestOK, Handle
<1>2. HoldsToken(r)
  BY <1>1 DEF Acceptable
<1>3. jobs[r.handle.job] \in Row /\ LeaseOK(jobs[r.handle.job])
  BY <1>1 DEF TypeOK, RowsOK, RowOK
<1> QED BY <1>1, <1>2, <1>3 DEF HoldsToken, LeaseOK, Row

(* What an agent posts (claim, renew, complete) is a request. *)
LEMMA PostIsRequest ==
  ASSUME TypeOK, NEW a \in Agents, NEW kind \in {"claim", "renew", "complete"},
         NEW h \in Handle \cup {NoHandle}, NEW result \in Settled \cup {"none"}
  PROVE  Request(kind, a, h, result) \in Requests
BY DEF Request, Requests, TypeOK

(* A request stays one when its client gives up or its result is stored.   *)
LEMMA RequestUpdates ==
  ASSUME NEW r \in Requests
  PROVE  /\ [r EXCEPT !.open = FALSE] \in Requests
         /\ [r EXCEPT !.stage = "updated"] \in Requests
BY DEF Requests

(* Every variable starts with its type. *)
LEMMA TypeInit == Init => TypeOK
BY DEF Init, TypeOK, AbsentJob, Row, Status

(* The agent's error handling (workLoop's and renewLoop's catch) keeps types. *)
LEMMA ClientErrorType ==
  ASSUME TypeOK, NEW r \in requests, ClientError(r)
  PROVE  /\ lane' \in [Agents -> {"down", "idle", "claiming", "executing", "completing",
                                  "awaitRenew"}]
         /\ held' \in [Agents -> Handle \cup {NoHandle}]
         /\ current' \in [Agents -> Handle \cup {NoHandle}]
         /\ posting' \in [Agents -> SUBSET Handle]
<1>1. r.agent \in Agents
  BY DEF TypeOK, Requests
<1> QED BY <1>1 DEF ClientError, TypeOK

(* No handler, loop or fault takes a variable out of its type. *)
LEMMA TypeStep ==
  ASSUME TypeOK, RowsOK, RequestsOK, AgentsOK, Next
  PROVE  TypeOK'
<1>1. ASSUME NEW n \in Nodes, Register(n) PROVE TypeOK'
  BY <1>1 DEF Register, TypeOK, agentVars
<1>2. ASSUME NEW n \in Nodes, NEW op \in Operations, NEW key \in Keys \cup {NoKey},
             Enqueue(n, op, key)
      PROVE TypeOK'
  <2>1. PICK j \in JobIds : jobs' = [jobs EXCEPT ![j] = QueuedJob(n, op, key)]
    BY <1>2 DEF Enqueue
  <2>2. RetryPolicy(op) \in {"automatic", "manual"}
    BY DEF RetryPolicy
  <2>3. QueuedJob(n, op, key) \in Row
    BY <2>2 DEF QueuedJob, Row, Status
  <2>4. jobs' \in [JobIds -> Row]
    BY <2>1, <2>3 DEF TypeOK
  <2> QED BY <1>2, <2>4 DEF Enqueue, TypeOK, agentVars
<1>3. CASE Recover
  BY <1>3, RecoveredRows DEF Recover, TypeOK, agentVars
<1>4. ASSUME NEW j \in JobIds, RetryJob(j) PROVE TypeOK'
  <2>1. jobs[j] \in Row /\ CountsOK(jobs[j], retries[j])
    BY DEF TypeOK, RowsOK, RowOK
  <2>2. jobs' \in [JobIds -> Row]
    BY <1>4, <2>1, RowUpdates DEF RetryJob, TypeOK, Status
  <2>3. retries[j] + 1 \in 0..MaxAttempts
    BY <1>4, <2>1 DEF RetryJob, CountsOK, Row, TypeOK
  <2>4. retries' \in [JobIds -> 0..MaxAttempts]
    BY <1>4, <2>3 DEF RetryJob, TypeOK
  <2> QED BY <1>4, <2>2, <2>4 DEF RetryJob, TypeOK, agentVars
<1>5. ASSUME NEW r \in requests, ClaimNothing(r) PROVE TypeOK'
  <2>1. r.agent \in Agents
    BY DEF TypeOK, Requests
  <2> QED BY <1>5, <2>1, RecoveredRows DEF ClaimNothing, TypeOK
<1>6. ASSUME NEW r \in requests, NEW j \in JobIds, ClaimJob(r, j) PROVE TypeOK'
  <2> DEFINE h == [job |-> j, attempt |-> FreshLease(Recovered[j]).token]
  <2>1. r.agent \in Agents
    BY DEF TypeOK, Requests
  <2>2. /\ Recovered \in [JobIds -> Row]
        /\ FreshLease(Recovered[j]) \in Row
        /\ FreshLease(Recovered[j]).token \in 1..MaxAttempts
    BY <1>6, RecoveredRows, FreshLeaseRow DEF ClaimJob, Row
  <2>3. jobs' \in [JobIds -> Row]
    BY <1>6, <2>2 DEF ClaimJob
  <2>4. h \in Handle
    BY <2>2 DEF Handle
  <2>5. /\ lane' \in [Agents -> {"down", "idle", "claiming", "executing", "completing",
                                 "awaitRenew"}]
        /\ held' \in [Agents -> Handle \cup {NoHandle}]
        /\ current' \in [Agents -> Handle \cup {NoHandle}]
        /\ napping' \in [Agents -> SUBSET Handle]
    BY <1>6, <2>1, <2>4 DEF ClaimJob, TypeOK
  <2> QED BY <1>6, <2>3, <2>5 DEF ClaimJob, TypeOK
<1>7. ASSUME NEW r \in requests, Renew(r) PROVE TypeOK'
  <2>1. r.agent \in Agents /\ r.handle \in Handle /\ jobs[r.handle.job] \in Row
    BY <1>7, AcceptedHandle DEF TypeOK, Requests, Renew
  <2>2. jobs' \in [JobIds -> Row]
    BY <1>7, <2>1, RowUpdates DEF Renew, TypeOK
  <2>3. napping' \in [Agents -> SUBSET Handle] /\ posting' \in [Agents -> SUBSET Handle]
    BY <1>7, <2>1 DEF Renew, TypeOK
  <2> QED BY <1>7, <2>2, <2>3 DEF Renew, TypeOK
<1>8. ASSUME NEW r \in requests, CompleteRow(r) PROVE TypeOK'
  <2>1. r \in Requests /\ r.kind # "claim" /\ r.result \in Settled
    BY <1>8 DEF CompleteRow, RequestsOK, RequestOK, TypeOK
  <2>2. /\ r.handle \in Handle /\ jobs[r.handle.job] \in Row
        /\ jobs[r.handle.job].status = "leased"
    BY <1>8, <2>1, AcceptedHandle DEF CompleteRow
  <2>3. SettledRow(jobs[r.handle.job], r.result) \in Row
    <3>1. RowOK(jobs[r.handle.job], retries[r.handle.job], settledBy[r.handle.job])
      BY <2>2 DEF RowsOK, Handle
    <3> QED BY <2>1, <2>2, <3>1, SettledRowRow
  <2>4. jobs' \in [JobIds -> Row]
    BY <1>8, <2>2, <2>3 DEF CompleteRow, TypeOK
  <2>5. settledBy' \in [JobIds -> 0..MaxAttempts]
    BY <1>8, <2>2 DEF CompleteRow, TypeOK, Handle
  <2>6. requests' \in SUBSET Requests
    BY <1>8, <2>1, RequestUpdates DEF CompleteRow, TypeOK
  <2> QED BY <1>8, <2>4, <2>5, <2>6 DEF CompleteRow, TypeOK, agentVars
<1>9. ASSUME NEW r \in requests, CompleteEvidence(r) PROVE TypeOK'
  <2>1. /\ r.agent \in Agents /\ r.handle \in Handle
    BY <1>9 DEF CompleteEvidence, RequestsOK, RequestOK, TypeOK, Requests
  <2>2. jobs[r.handle.job] \in Row
    BY <2>1 DEF TypeOK, Handle
  <2>3. jobs' \in [JobIds -> Row]
    <3>1. jobs[r.handle.job].evidence \in {"none", "pass", "fail"}
      BY <2>2 DEF Row
    <3> QED BY <1>9, <2>1, <2>2, <3>1, RowUpdates DEF CompleteEvidence, TypeOK
  <2> QED BY <1>9, <2>1, <2>3 DEF CompleteEvidence, TypeOK
<1>10. ASSUME NEW r \in requests, Refuse(r) \/ CompleteInterrupted(r) PROVE TypeOK'
  <2>1. ClientError(r)
    BY <1>10 DEF Refuse, CompleteInterrupted
  <2> QED BY <1>10, <2>1, ClientErrorType DEF Refuse, CompleteInterrupted, TypeOK
<1>11. ASSUME NEW r \in requests, Lose(r) PROVE TypeOK'
  <2>1. r \in Requests /\ ClientError(r)
    BY <1>11 DEF Lose, TypeOK
  <2>2. requests' \in SUBSET Requests
    BY <1>11, <2>1, RequestUpdates DEF Lose, TypeOK
  <2> QED BY <1>11, <2>1, <2>2, ClientErrorType DEF Lose, TypeOK
<1>12. ASSUME NEW a \in Agents, Heartbeat(a) \/ RenewLoopEnded(a) \/ StopSignal(a) \/ Exit(a)
       PROVE TypeOK'
  <2>1. CASE Heartbeat(a)
    BY <2>1 DEF Heartbeat, TypeOK, agentVars
  <2>2. CASE RenewLoopEnded(a)
    BY <2>2 DEF RenewLoopEnded, TypeOK
  <2>3. CASE StopSignal(a) \/ Exit(a)
    BY <2>3 DEF StopSignal, Exit, TypeOK
  <2> QED BY <1>12, <2>1, <2>2, <2>3
<1>13. ASSUME NEW a \in Agents, PostClaim(a) PROVE TypeOK'
  <2>1. Request("claim", a, NoHandle, "none") \in Requests
    BY PostIsRequest
  <2>2. requests' \in SUBSET Requests
    BY <1>13, <2>1 DEF PostClaim, TypeOK
  <2> QED BY <1>13, <2>2 DEF PostClaim, TypeOK
<1>14. ASSUME NEW a \in Agents, NEW result \in Settled, FinishExecution(a, result)
       PROVE TypeOK'
  <2>1. requests' \in SUBSET Requests
    BY <1>14, PostIsRequest DEF FinishExecution, TypeOK
  <2> QED BY <1>14, <2>1 DEF FinishExecution, TypeOK
<1>15. ASSUME NEW a \in Agents, NEW h \in Handle, RenewTimer(a, h) PROVE TypeOK'
  <2>1. requests' \in SUBSET Requests
    BY <1>15, PostIsRequest DEF RenewTimer, TypeOK
  <2> QED BY <1>15, <2>1 DEF RenewTimer, TypeOK
<1>16. ASSUME NEW a \in Agents, AgentCrash(a) PROVE TypeOK'
  <2> DEFINE mine == {r \in requests : r.agent = a /\ r.open}
  <2>1. PICK kept \in SUBSET mine :
          requests' = (requests \ mine) \cup {[r EXCEPT !.open = FALSE] : r \in kept}
    BY <1>16 DEF AgentCrash
  <2>2. \A r \in kept : [r EXCEPT !.open = FALSE] \in Requests
    BY RequestUpdates DEF TypeOK
  <2>3. requests' \in SUBSET Requests
    BY <2>1, <2>2 DEF TypeOK
  <2> QED BY <1>16, <2>3 DEF AgentCrash, TypeOK
<1>17. ASSUME NEW a \in Agents, NEW p \in Profiles, AgentStart(a, p) \/ RefreshReadiness(a, p)
       PROVE TypeOK'
  BY <1>17, NodesAssumption DEF AgentStart, RefreshReadiness, TypeOK
<1>18. ASSUME NEW j \in JobIds, LeaseExpires(j) PROVE TypeOK'
  <2>1. jobs' \in [JobIds -> Row]
    BY <1>18, RowUpdates DEF LeaseExpires, TypeOK
  <2> QED BY <1>18, <2>1 DEF LeaseExpires, TypeOK, agentVars
<1> QED
  BY <1>1, <1>2, <1>3, <1>4, <1>5, <1>6, <1>7, <1>8, <1>9, <1>10, <1>11, <1>12, <1>13, <1>14,
     <1>15, <1>16, <1>17, <1>18
  DEF Next, ControlPlane, Agent, Environment
-----------------------------------------------------------------------------
(* What one step of the system does to one row. *)
SameCounts(j) == retries'[j] = retries[j] /\ settledBy'[j] = settledBy[j]

RowKept(j) == jobs'[j] = jobs[j] /\ SameCounts(j)
RowQueued(j) ==
  /\ jobs[j].status = "absent"
  /\ \E n \in Nodes, op \in Operations, key \in Keys \cup {NoKey} :
       jobs'[j] = QueuedJob(n, op, key)
  /\ SameCounts(j)
RowTakenBack(j) == Expired(jobs[j]) /\ jobs'[j] = TakenBack(jobs[j]) /\ SameCounts(j)
RowLeased(j) ==
  \E row \in Row :
    /\ row = jobs[j] \/ (Expired(jobs[j]) /\ row = TakenBack(jobs[j]))
    /\ row.status = "queued" /\ row.attempts < MaxAttempts
    /\ jobs'[j] = FreshLease(row)
    /\ SameCounts(j)
RowReleased(j) ==
  /\ jobs[j].status = "recovery_required"
  /\ jobs'[j] = [jobs[j] EXCEPT !.status = "queued"]
  /\ retries'[j] = retries[j] + 1 /\ settledBy'[j] = settledBy[j]
RowTimed(j) ==
  /\ jobs[j].status = "leased"
  /\ jobs'[j] = [jobs[j] EXCEPT !.live = TRUE] \/ jobs'[j] = [jobs[j] EXCEPT !.live = FALSE]
  /\ SameCounts(j)
RowSettled(j) ==
  /\ jobs[j].status = "leased"
  /\ \E result \in Settled : jobs'[j] = SettledRow(jobs[j], result)
  /\ retries'[j] = retries[j] /\ settledBy'[j] = jobs[j].attempts
RowEvidenced(j) ==
  /\ jobs[j].status \in Settled
  /\ \E e \in {"pass", "fail"} :
       /\ jobs'[j] = [jobs[j] EXCEPT !.evidence = e]
       /\ e = jobs[j].evidence \/ e = (IF jobs[j].status = "completed" THEN "pass" ELSE "fail")
  /\ SameCounts(j)

RowStep(j) ==
  \/ RowKept(j) \/ RowQueued(j) \/ RowTakenBack(j) \/ RowLeased(j)
  \/ RowReleased(j) \/ RowTimed(j) \/ RowSettled(j) \/ RowEvidenced(j)

(* recover keeps a row or takes its lease back. *)
LEMMA RecoveredCases ==
  ASSUME NEW j \in JobIds
  PROVE  \/ Recovered[j] = jobs[j]
         \/ Expired(jobs[j]) /\ Recovered[j] = TakenBack(jobs[j])
BY DEF Recovered

(* Whatever a step does to a row is one of the seven writes nodes.ts makes. *)
LEMMA EveryRowSteps ==
  ASSUME IInv, Next, NEW j \in JobIds
  PROVE  RowStep(j)
<1> USE DEF RowStep, SameCounts
<1>0. jobs \in [JobIds -> Row] /\ jobs[j] \in Row /\ RowOK(jobs[j], retries[j], settledBy[j])
  BY DEF IInv, TypeOK, RowsOK
<1>1. CASE UNCHANGED <<jobs, retries, settledBy>>
  BY <1>1 DEF RowKept
<1>2. ASSUME NEW n \in Nodes, NEW op \in Operations, NEW key \in Keys \cup {NoKey},
             Enqueue(n, op, key)
      PROVE RowStep(j)
  <2>1. PICK i \in JobIds : i \notin Rows /\ jobs' = [jobs EXCEPT ![i] = QueuedJob(n, op, key)]
    BY <1>2 DEF Enqueue
  <2>2. SameCounts(j)
    BY <1>2 DEF Enqueue
  <2>3. CASE i = j
    BY <1>0, <2>1, <2>2, <2>3 DEF Rows, RowQueued
  <2>4. CASE i # j
    BY <1>0, <2>1, <2>2, <2>4 DEF RowKept
  <2> QED BY <2>3, <2>4
<1>3. CASE Recover
  BY <1>0, <1>3, RecoveredCases DEF Recover, RowKept, RowTakenBack
<1>4. ASSUME NEW i \in JobIds, RetryJob(i) PROVE RowStep(j)
  <2>1. CASE i = j
    BY <1>0, <1>4, <2>1 DEF RetryJob, RowReleased, IInv, TypeOK
  <2>2. CASE i # j
    BY <1>0, <1>4, <2>2 DEF RetryJob, RowKept, IInv, TypeOK
  <2> QED BY <2>1, <2>2
<1>5. ASSUME NEW r \in requests, ClaimNothing(r) PROVE RowStep(j)
  BY <1>0, <1>5, RecoveredCases DEF ClaimNothing, RowKept, RowTakenBack
<1>6. ASSUME NEW r \in requests, NEW i \in JobIds, ClaimJob(r, i) PROVE RowStep(j)
  <2>1. Recovered \in [JobIds -> Row]
    BY RecoveredRows DEF IInv
  <2>2. jobs' = [Recovered EXCEPT ![i] = FreshLease(Recovered[i])] /\ SameCounts(j)
    BY <1>6 DEF ClaimJob
  <2>3. CASE i = j
    <3>1. Recovered[j] \in Row /\ jobs'[j] = FreshLease(Recovered[j])
      BY <2>1, <2>2, <2>3
    <3>2. Recovered[j].status = "queued" /\ Recovered[j].attempts < MaxAttempts
      BY <1>6, <2>3 DEF ClaimJob
    <3> QED BY <2>2, <3>1, <3>2, RecoveredCases DEF RowLeased
  <2>4. CASE i # j
    BY <2>1, <2>2, <2>4, RecoveredCases DEF RowKept, RowTakenBack
  <2> QED BY <2>3, <2>4
<1>7. ASSUME NEW r \in requests, Renew(r) PROVE RowStep(j)
  <2>1. r.handle.job \in JobIds /\ jobs[r.handle.job].status = "leased"
    BY <1>7, AcceptedHandle DEF IInv, Renew
  <2>2. CASE r.handle.job = j
    BY <1>0, <1>7, <2>1, <2>2 DEF Renew, RowTimed
  <2>3. CASE r.handle.job # j
    BY <1>0, <1>7, <2>3 DEF Renew, RowKept
  <2> QED BY <2>2, <2>3
<1>8. ASSUME NEW r \in requests, CompleteRow(r) PROVE RowStep(j)
  <2>1. /\ r.handle.job \in JobIds /\ jobs[r.handle.job].status = "leased"
        /\ jobs[r.handle.job].attempts = r.handle.attempt
    BY <1>8, AcceptedHandle DEF IInv, CompleteRow
  <2>2. r.result \in Settled
    BY <1>8 DEF IInv, RequestsOK, RequestOK, CompleteRow
  <2>3. settledBy \in [JobIds -> 0..MaxAttempts]
    BY DEF IInv, TypeOK
  <2>4. CASE r.handle.job = j
    BY <1>0, <1>8, <2>1, <2>2, <2>3, <2>4 DEF CompleteRow, RowSettled
  <2>5. CASE r.handle.job # j
    BY <1>0, <1>8, <2>1, <2>3, <2>5 DEF CompleteRow, RowKept
  <2> QED BY <2>4, <2>5
<1>9. ASSUME NEW r \in requests, CompleteEvidence(r) PROVE RowStep(j)
  <2>1. /\ r.kind = "complete" /\ r.result \in Settled
        /\ jobs[r.handle.job].status = r.result
    BY <1>9 DEF IInv, RequestsOK, RequestOK, CompleteEvidence
  <2>2. CASE r.handle.job = j
    <3> DEFINE e == IF jobs[j].evidence # "none" THEN jobs[j].evidence
                    ELSE IF r.result = "completed" THEN "pass" ELSE "fail"
    <3>1. e \in {"pass", "fail"}
      BY <1>0 DEF Row
    <3>2. jobs'[j] = [jobs[j] EXCEPT !.evidence = e]
      BY <1>0, <1>9, <2>2 DEF CompleteEvidence
    <3>3. e = jobs[j].evidence \/ e = (IF jobs[j].status = "completed" THEN "pass" ELSE "fail")
      BY <2>1, <2>2
    <3> HIDE DEF e
    <3> QED BY <1>9, <2>1, <2>2, <3>1, <3>2, <3>3 DEF CompleteEvidence, RowEvidenced
  <2>3. CASE r.handle.job # j
    BY <1>0, <1>9, <2>3 DEF CompleteEvidence, RowKept
  <2> QED BY <2>2, <2>3
<1>10. ASSUME NEW i \in JobIds, LeaseExpires(i) PROVE RowStep(j)
  <2>1. CASE i = j
    BY <1>0, <1>10, <2>1 DEF LeaseExpires, RowTimed, RowOK, LeaseOK
  <2>2. CASE i # j
    BY <1>0, <1>10, <2>2 DEF LeaseExpires, RowKept
  <2> QED BY <2>1, <2>2
<1>11. CASE \/ \E n \in Nodes : Register(n)
            \/ \E r \in requests : Refuse(r) \/ Lose(r) \/ CompleteInterrupted(r)
            \/ \E a \in Agents : Agent(a)
            \/ \E a \in Agents : AgentCrash(a)
            \/ \E a \in Stoppable : StopSignal(a)
  <2>1. UNCHANGED <<jobs, retries, settledBy>>
    BY <1>11
    DEF Register, Refuse, Lose, CompleteInterrupted, Agent, Heartbeat, PostClaim,
        FinishExecution, RenewLoopEnded, Exit, RenewTimer, AgentStart, RefreshReadiness,
        AgentCrash, StopSignal
  <2> QED BY <1>1, <2>1
<1> QED
  BY <1>2, <1>3, <1>4, <1>5, <1>6, <1>7, <1>8, <1>9, <1>10, <1>11
  DEF Next, ControlPlane, Environment

(* An empty table is in order. *)
LEMMA RowsInit == Init => RowsOK
BY DEF Init, RowsOK, RowOK, CountsOK, LeaseOK, ResultOK, AbsentJob, Settled

(* Every write of nodes.ts keeps the rows in order. *)
LEMMA RowsStep ==
  ASSUME IInv, Next
  PROVE  RowsOK'
<1> SUFFICES ASSUME NEW j \in JobIds PROVE RowOK(jobs'[j], retries'[j], settledBy'[j])
  BY DEF RowsOK
<1>1. jobs[j] \in Row /\ RowOK(jobs[j], retries[j], settledBy[j])
  BY DEF IInv, TypeOK, RowsOK
<1>2. retries[j] \in Nat
  BY DEF IInv, TypeOK
<1>3. CASE RowKept(j)
  BY <1>1, <1>3 DEF RowKept, SameCounts
<1>4. CASE RowQueued(j)
  <2>1. PICK n \in Nodes, op \in Operations, key \in Keys \cup {NoKey} :
          jobs'[j] = QueuedJob(n, op, key)
    BY <1>4 DEF RowQueued
  <2>2. /\ jobs'[j].status = "queued" /\ jobs'[j].attempts = 0 /\ jobs'[j].token = 0
        /\ jobs'[j].live = FALSE /\ jobs'[j].evidence = "none"
    BY <2>1 DEF QueuedJob
  <2>3. retries'[j] = 0 /\ settledBy'[j] = 0
    BY <1>1, <1>4 DEF RowQueued, SameCounts, RowOK, CountsOK, ResultOK, Row, Settled
  <2> QED BY <2>2, <2>3 DEF RowOK, CountsOK, LeaseOK, ResultOK, Settled
<1>5. CASE RowTakenBack(j)
  BY <1>1, <1>5, TakenBackRow DEF RowTakenBack, SameCounts
<1>6. CASE RowLeased(j)
  <2>1. PICK row \in Row :
          /\ row = jobs[j] \/ (Expired(jobs[j]) /\ row = TakenBack(jobs[j]))
          /\ row.status = "queued" /\ row.attempts < MaxAttempts
          /\ jobs'[j] = FreshLease(row)
          /\ SameCounts(j)
    BY <1>6 DEF RowLeased
  <2>2. RowOK(row, retries[j], settledBy[j])
    BY <1>1, <2>1, TakenBackRow
  <2> QED BY <2>1, <2>2, FreshLeaseRow DEF SameCounts
<1>7. CASE RowReleased(j)
  BY <1>1, <1>2, <1>7 DEF RowReleased, RowOK, CountsOK, LeaseOK, ResultOK, Row, Settled
<1>8. CASE RowTimed(j)
  BY <1>1, <1>8 DEF RowTimed, SameCounts, RowOK, CountsOK, LeaseOK, ResultOK, Row
<1>9. CASE RowSettled(j)
  BY <1>1, <1>9, SettledRowRow DEF RowSettled
<1>10. CASE RowEvidenced(j)
  BY <1>1, <1>10
  DEF RowEvidenced, SameCounts, RowOK, CountsOK, LeaseOK, ResultOK, Row, Settled
<1> QED
  BY <1>3, <1>4, <1>5, <1>6, <1>7, <1>8, <1>9, <1>10, EveryRowSteps DEF RowStep
-----------------------------------------------------------------------------
(* A settled row keeps its status, attempts and result. *)
LEMMA SettledKept ==
  ASSUME IInv, Next, NEW j \in JobIds, jobs[j].status \in Settled
  PROVE  /\ jobs'[j].status = jobs[j].status
         /\ jobs'[j].attempts = jobs[j].attempts
         /\ settledBy'[j] = settledBy[j]
<1>1. jobs[j] \in Row /\ jobs[j].status \notin {"absent", "queued", "leased", "recovery_required"}
  BY DEF IInv, TypeOK, Settled
<1>2. RowKept(j) \/ RowEvidenced(j)
  BY <1>1, EveryRowSteps
  DEF RowStep, RowQueued, RowTakenBack, RowLeased, RowReleased, RowTimed, RowSettled, Expired
<1> QED BY <1>1, <1>2 DEF RowKept, RowEvidenced, SameCounts, Row

(* Leases are only ever added to a row. *)
LEMMA AttemptsGrow ==
  ASSUME IInv, Next, NEW j \in JobIds
  PROVE  jobs'[j].attempts >= jobs[j].attempts
<1>1. jobs[j] \in Row /\ RowOK(jobs[j], retries[j], settledBy[j]) /\ jobs[j].attempts \in Nat
  BY DEF IInv, TypeOK, RowsOK, Row
<1>2. CASE RowQueued(j)
  BY <1>1, <1>2 DEF RowQueued, QueuedJob, RowOK, CountsOK
<1>3. CASE RowTakenBack(j)
  BY <1>1, <1>3, TakenBackRow DEF RowTakenBack
<1>4. CASE RowLeased(j)
  <2>1. PICK row \in Row :
          /\ row = jobs[j] \/ (Expired(jobs[j]) /\ row = TakenBack(jobs[j]))
          /\ row.status = "queued" /\ row.attempts < MaxAttempts
          /\ jobs'[j] = FreshLease(row)
    BY <1>4 DEF RowLeased
  <2>2. RowOK(row, retries[j], settledBy[j]) /\ row.attempts = jobs[j].attempts
    BY <1>1, <2>1, TakenBackRow
  <2> QED BY <1>1, <2>1, <2>2, FreshLeaseRow
<1>5. CASE RowSettled(j)
  BY <1>1, <1>5, SettledRowRow DEF RowSettled
<1>6. CASE RowKept(j) \/ RowReleased(j) \/ RowTimed(j) \/ RowEvidenced(j)
  BY <1>1, <1>6 DEF RowKept, RowReleased, RowTimed, RowEvidenced, Row
<1> QED BY <1>2, <1>3, <1>4, <1>5, <1>6, EveryRowSteps DEF RowStep

(* Where the requests of a step come from. *)
Posted(r) ==
  /\ r.stage = "sent"
  /\ \/ r.kind = "claim" /\ r.handle = NoHandle
     \/ r.kind = "renew" /\ r.handle # NoHandle
     \/ r.kind = "complete" /\ r.handle # NoHandle /\ r.result \in Settled

RequestStep(r) ==
  \/ r \in requests
  \/ \E q \in requests : r = [q EXCEPT !.open = FALSE]
  \/ \E q \in requests : CompleteRow(q) /\ r = [q EXCEPT !.stage = "updated"]
  \/ Posted(r)

(* A request after a step was there before or was just posted by its agent. *)
LEMMA EveryRequestSteps ==
  ASSUME IInv, Next, NEW r \in requests'
  PROVE  RequestStep(r)
<1> USE DEF RequestStep
<1>1. ASSUME NEW n \in Nodes,
             \/ Register(n)
             \/ \E op \in Operations, key \in Keys \cup {NoKey} : Enqueue(n, op, key)
      PROVE RequestStep(r)
  BY <1>1 DEF Register, Enqueue
<1>2. CASE Recover \/ \E j \in JobIds : RetryJob(j) \/ LeaseExpires(j)
  BY <1>2 DEF Recover, RetryJob, LeaseExpires
<1>3. ASSUME NEW q \in requests,
             \/ ClaimNothing(q) \/ Renew(q) \/ CompleteEvidence(q)
             \/ Refuse(q) \/ Lose(q) \/ CompleteInterrupted(q)
             \/ \E j \in JobIds : ClaimJob(q, j)
      PROVE RequestStep(r)
  BY <1>3 DEF ClaimNothing, ClaimJob, Renew, CompleteEvidence, Refuse, Lose, CompleteInterrupted
<1>4. ASSUME NEW q \in requests, CompleteRow(q) PROVE RequestStep(r)
  <2>1. r \in requests \/ r = [q EXCEPT !.stage = "updated"]
    BY <1>4 DEF CompleteRow
  <2> QED BY <1>4, <2>1
<1>5. ASSUME NEW a \in Agents, PostClaim(a) PROVE RequestStep(r)
  BY <1>5 DEF PostClaim, Request, Posted
<1>6. ASSUME NEW a \in Agents, NEW result \in Settled, FinishExecution(a, result)
      PROVE RequestStep(r)
  BY <1>6 DEF FinishExecution, Request, Posted, IInv, AgentsOK, AgentOK
<1>7. ASSUME NEW a \in Agents, NEW h \in Handle, RenewTimer(a, h) PROVE RequestStep(r)
  <2>1. h # NoHandle
    BY DEF Handle, NoHandle
  <2> QED BY <1>7, <2>1 DEF RenewTimer, Request, Posted
<1>8. ASSUME NEW a \in Agents,
             \/ Heartbeat(a) \/ RenewLoopEnded(a) \/ Exit(a) \/ StopSignal(a)
             \/ \E p \in Profiles : AgentStart(a, p) \/ RefreshReadiness(a, p)
      PROVE RequestStep(r)
  BY <1>8
  DEF Heartbeat, RenewLoopEnded, Exit, AgentStart, RefreshReadiness, StopSignal
<1>9. ASSUME NEW a \in Agents, AgentCrash(a) PROVE RequestStep(r)
  <2> DEFINE mine == {q \in requests : q.agent = a /\ q.open}
  <2>1. PICK kept \in SUBSET mine :
          requests' = (requests \ mine) \cup {[q EXCEPT !.open = FALSE] : q \in kept}
    BY <1>9 DEF AgentCrash
  <2> QED BY <2>1
<1> QED
  BY <1>1, <1>2, <1>3, <1>4, <1>5, <1>6, <1>7, <1>8, <1>9 DEF Next, ControlPlane, Agent, Environment

(* What a request knows of its row stays true while the row moves on. *)
LEMMA RequestsStep ==
  ASSUME IInv, Next
  PROVE  RequestsOK'
<1> SUFFICES ASSUME NEW r \in requests' PROVE RequestOK(r)'
  BY DEF RequestsOK
<1>1. ASSUME NEW q \in requests, r = q \/ r = [q EXCEPT !.open = FALSE] PROVE RequestOK(r)'
  <2>1. /\ r.kind = q.kind /\ r.handle = q.handle /\ r.result = q.result /\ r.stage = q.stage
        /\ RequestOK(q) /\ q \in Requests
    BY <1>1 DEF IInv, RequestsOK, TypeOK, Requests
  <2>2. CASE r.stage = "updated"
    <3>1. q.handle.job \in JobIds /\ jobs[q.handle.job].status \in Settled
      BY <2>1, <2>2 DEF RequestOK, Requests, Handle
    <3> QED BY <2>1, <2>2, <3>1, SettledKept DEF RequestOK
  <2>3. CASE r.stage # "updated"
    BY <2>1, <2>3 DEF RequestOK
  <2> QED BY <2>2, <2>3
<1>2. ASSUME NEW q \in requests, CompleteRow(q), r = [q EXCEPT !.stage = "updated"]
      PROVE RequestOK(r)'
  <2>1. q.kind = "complete" /\ q \in Requests /\ RequestOK(q)
    BY <1>2 DEF CompleteRow, IInv, RequestsOK, TypeOK
  <2>2. /\ r.kind = "complete" /\ r.handle = q.handle /\ r.result = q.result
    BY <1>2, <2>1 DEF Requests
  <2>3. /\ q.handle.job \in JobIds /\ jobs[q.handle.job] \in Row
        /\ jobs[q.handle.job].status = "leased"
        /\ jobs[q.handle.job].attempts = q.handle.attempt
    BY <1>2, <2>1, AcceptedHandle DEF CompleteRow, IInv
  <2>4. jobs'[q.handle.job] = SettledRow(jobs[q.handle.job], q.result)
    BY <1>2, <2>3 DEF CompleteRow, IInv, TypeOK
  <2>5. jobs'[q.handle.job].status = q.result /\ jobs'[q.handle.job].attempts = q.handle.attempt
    BY <2>3, <2>4 DEF SettledRow, Row
  <2> QED BY <2>1, <2>2, <2>5 DEF RequestOK
<1>3. CASE Posted(r)
  BY <1>3 DEF Posted, RequestOK
<1> QED BY <1>1, <1>2, <1>3, EveryRequestSteps DEF RequestStep
-----------------------------------------------------------------------------
(* What one step does to the lease agent a works for. *)
HeldKept(a) == held'[a] = held[a] /\ (lane'[a] = "executing" => lane[a] = "executing")
HeldDropped(a) == held'[a] = NoHandle /\ lane'[a] # "executing"
HeldGranted(a) ==
  \E j \in JobIds :
    /\ held'[a] = [job |-> j, attempt |-> jobs[j].attempts + 1]
    /\ jobs'[j].attempts = jobs[j].attempts + 1
    /\ \A b \in Agents : a # b => held'[b] = held[b]

(* What a step does to an agent: it keeps, drops or is granted a lease. *)
LEMMA EveryAgentSteps ==
  ASSUME IInv, Next, NEW a \in Agents
  PROVE  HeldKept(a) \/ HeldDropped(a) \/ HeldGranted(a)
<1>0. /\ held \in [Agents -> Handle \cup {NoHandle}]
      /\ DOMAIN lane = Agents
      /\ \A r \in requests : r.agent \in Agents
  BY DEF IInv, TypeOK, Requests
<1>1. CASE UNCHANGED <<lane, held>>
  BY <1>1 DEF HeldKept
<1>2. CASE \/ \E n \in Nodes : Register(n)
           \/ \E n \in Nodes, op \in Operations, key \in Keys \cup {NoKey} : Enqueue(n, op, key)
           \/ Recover
           \/ \E j \in JobIds : RetryJob(j) \/ LeaseExpires(j)
           \/ \E r \in requests : Renew(r) \/ CompleteRow(r)
           \/ \E b \in Agents : Heartbeat(b) \/ \E h \in Handle : RenewTimer(b, h)
           \/ \E b \in Agents : \E p \in Profiles : RefreshReadiness(b, p)
           \/ \E b \in Stoppable : StopSignal(b)
  <2>1. UNCHANGED <<lane, held>>
    BY <1>2
    DEF Register, Enqueue, Recover, RetryJob, LeaseExpires, Renew, CompleteRow, Heartbeat,
        RenewTimer, RefreshReadiness, StopSignal, agentVars
  <2> QED BY <1>1, <2>1
<1>3. ASSUME NEW r \in requests, Refuse(r) \/ Lose(r) \/ CompleteInterrupted(r)
      PROVE HeldKept(a) \/ HeldDropped(a)
  <2>1. ClientError(r)
    BY <1>3 DEF Refuse, Lose, CompleteInterrupted
  <2> QED BY <1>0, <2>1 DEF ClientError, HeldKept, HeldDropped
<1>4. ASSUME NEW r \in requests, ClaimNothing(r) \/ CompleteEvidence(r)
      PROVE HeldKept(a)
  BY <1>0, <1>4 DEF ClaimNothing, CompleteEvidence, HeldKept
<1>5. ASSUME NEW r \in requests, NEW j \in JobIds, ClaimJob(r, j)
      PROVE HeldKept(a) \/ HeldGranted(a)
  <2>1. /\ Recovered[j] \in Row /\ Recovered[j].attempts = jobs[j].attempts
        /\ RowOK(Recovered[j], retries[j], settledBy[j])
        /\ Recovered \in [JobIds -> Row]
    BY RecoveredRows DEF IInv
  <2>2. /\ FreshLease(Recovered[j]).token = jobs[j].attempts + 1
        /\ FreshLease(Recovered[j]).attempts = jobs[j].attempts + 1
    BY <1>5, <2>1, FreshLeaseRow DEF ClaimJob
  <2>3. jobs'[j].attempts = jobs[j].attempts + 1
    BY <1>5, <2>1, <2>2 DEF ClaimJob
  <2>4. CASE ~r.open \/ r.agent # a
    BY <1>0, <1>5, <2>4 DEF ClaimJob, HeldKept
  <2>5. CASE r.open /\ r.agent = a
    <3>1. /\ held'[a] = [job |-> j, attempt |-> jobs[j].attempts + 1]
          /\ \A b \in Agents : a # b => held'[b] = held[b]
      BY <1>0, <1>5, <2>2, <2>5 DEF ClaimJob
    <3> QED BY <2>3, <3>1 DEF HeldGranted
  <2> QED BY <2>4, <2>5
<1>6. ASSUME NEW b \in Agents,
             \/ PostClaim(b) \/ Exit(b)
             \/ \E result \in Settled : FinishExecution(b, result)
             \/ \E p \in Profiles : AgentStart(b, p)
      PROVE HeldKept(a)
  BY <1>0, <1>6 DEF PostClaim, Exit, FinishExecution, AgentStart, HeldKept
<1>7. ASSUME NEW b \in Agents, RenewLoopEnded(b) \/ AgentCrash(b)
      PROVE HeldKept(a) \/ HeldDropped(a)
  BY <1>0, <1>7 DEF RenewLoopEnded, AgentCrash, HeldKept, HeldDropped
<1> QED
  BY <1>2, <1>3, <1>4, <1>5, <1>6, <1>7 DEF Next, ControlPlane, Agent, Environment

(* What an agent knows of the lease it works for stays true. *)
LEMMA AgentsStep ==
  ASSUME IInv, Next
  PROVE  AgentsOK'
<1>1. \A a \in Agents : held[a] \in Handle \cup {NoHandle} /\ AgentOK(a)
  BY DEF IInv, TypeOK, AgentsOK
<1>2. \A j \in JobIds : jobs[j].attempts \in Nat /\ jobs'[j].attempts >= jobs[j].attempts
  BY AttemptsGrow DEF IInv, TypeOK, Row
<1>3. \A j \in JobIds : jobs'[j].attempts \in Nat
  BY TypeStep DEF IInv, TypeOK, Row
<1> SUFFICES ASSUME NEW a \in Agents PROVE AgentOK(a)'
  BY DEF AgentsOK
<1>4. held'[a] = NoHandle \/ held'[a] \in Handle
  BY TypeStep DEF IInv, TypeOK
<1>5. lane'[a] = "executing" => held'[a] # NoHandle
  <2>1. HeldGranted(a) => held'[a].job \in JobIds
    BY DEF HeldGranted
  <2>2. NoHandle.job \notin JobIds
    BY DEF NoHandle, JobIds
  <2> QED BY <1>1, <2>1, <2>2, EveryAgentSteps DEF HeldKept, HeldDropped, AgentOK
<1>6. held'[a] # NoHandle => held'[a].attempt <= jobs'[held'[a].job].attempts
  <2>1. CASE HeldKept(a)
    BY <1>1, <1>2, <1>3, <2>1 DEF HeldKept, AgentOK, Handle
  <2>2. CASE HeldDropped(a)
    BY <2>2 DEF HeldDropped
  <2>3. CASE HeldGranted(a)
    BY <1>2, <1>3, <2>3 DEF HeldGranted
  <2> QED BY <2>1, <2>2, <2>3, EveryAgentSteps
<1>7. ASSUME NEW b \in Agents, a # b, held'[a] # NoHandle PROVE held'[a] # held'[b]
  <2>1. ASSUME NEW c \in Agents, NEW d \in Agents, c # d, HeldGranted(c)
        PROVE held'[c] # held'[d]
    <3>1. PICK j \in JobIds :
            /\ held'[c] = [job |-> j, attempt |-> jobs[j].attempts + 1]
            /\ held'[d] = held[d]
      BY <2>1 DEF HeldGranted
    <3>2. SUFFICES ASSUME held'[c] = held[d] PROVE FALSE
      BY <3>1
    <3>3. held[d].job = j /\ held[d].attempt = jobs[j].attempts + 1
      BY <3>1, <3>2
    <3>4. held[d] # NoHandle
      BY <3>3 DEF NoHandle, JobIds
    <3> QED BY <1>1, <1>2, <3>3, <3>4 DEF AgentOK
  <2>2. CASE HeldGranted(a) \/ HeldGranted(b)
    BY <1>7, <2>1, <2>2
  <2>3. CASE ~HeldGranted(a) /\ ~HeldGranted(b)
    BY <1>1, <1>7, <2>3, EveryAgentSteps DEF HeldKept, HeldDropped, AgentOK
  <2> QED BY <2>2, <2>3
<1> QED BY <1>5, <1>6, <1>7 DEF AgentOK
-----------------------------------------------------------------------------
(* The strengthening holds at the start. *)
LEMMA InitOK == Init => IInv
<1> SUFFICES ASSUME Init PROVE IInv
  OBVIOUS
<1>1. RequestsOK
  BY DEF Init, RequestsOK
<1>2. AgentsOK
  BY DEF Init, AgentsOK, AgentOK
<1> QED BY <1>1, <1>2, TypeInit, RowsInit DEF IInv

(* The strengthening depends on the variables only. *)
LEMMA StutterOK == IInv /\ UNCHANGED vars => IInv'
BY DEF IInv, vars, agentVars, TypeOK, RowsOK, RowOK, CountsOK, LeaseOK, ResultOK, RequestsOK,
       RequestOK, AgentsOK, AgentOK

(* IInv is inductive: it holds in every state the protocol reaches.        *)
THEOREM Invariance == Spec => []IInv
<1>1. IInv /\ [Next]_vars => IInv'
  <2>1. IInv /\ Next => IInv'
    BY TypeStep, RowsStep, RequestsStep, AgentsStep DEF IInv
  <2> QED BY <2>1, StutterOK
<1> QED BY InitOK, <1>1, PTL DEF Spec

(* Every variable keeps its type, and no counter passes its bound.         *)
THEOREM TypeCorrect == Spec => []TypeOK
<1>1. IInv => TypeOK
  BY DEF IInv
<1> QED BY <1>1, Invariance, PTL

(* A job that may have side effects is leased once, and once more for each *)
(* explicit retry, for any number of agents, crashes and late requests.    *)
THEOREM ManualJobsAreNotReplayed == Spec => []ManualNotReplayed
<1>1. IInv => ManualNotReplayed
  <2> SUFFICES ASSUME IInv, NEW j \in Rows, jobs[j].policy = "manual"
               PROVE  jobs[j].attempts <= retries[j] + 1
    BY DEF ManualNotReplayed
  <2>1. j \in JobIds /\ CountsOK(jobs[j], retries[j]) /\ retries[j] \in Nat
    BY DEF IInv, RowsOK, RowOK, Rows, TypeOK
  <2> QED BY <2>1 DEF CountsOK
<1> QED BY <1>1, Invariance, PTL

(* No two agents hold the same lease, nobody one that was never granted.   *)
THEOREM LeasesHaveOneHolder == Spec => []OneHolderPerLease
<1>1. IInv => OneHolderPerLease
  BY DEF IInv, AgentsOK, AgentOK, OneHolderPerLease
<1> QED BY <1>1, Invariance, PTL

(* Two agents execute a job with side effects at once only if an operator  *)
(* released it in between.                                                 *)
THEOREM SideEffectsAreNotConcurrent == Spec => []NoConcurrentSideEffects
<1>1. IInv => NoConcurrentSideEffects
  <2> SUFFICES ASSUME IInv, NEW a \in Agents, NEW b \in Agents, a # b,
                      lane[a] = "executing", lane[b] = "executing",
                      held[a].job = held[b].job,
                      jobs[held[a].job].policy # "automatic"
               PROVE  retries[held[a].job] > 0
    BY DEF NoConcurrentSideEffects
  <2> DEFINE j == held[a].job
  <2>1. /\ held[a] \in Handle /\ held[b] \in Handle /\ held[a] # held[b]
        /\ held[a].attempt <= jobs[j].attempts /\ held[b].attempt <= jobs[j].attempts
    BY DEF IInv, TypeOK, AgentsOK, AgentOK
  <2>2. j \in JobIds /\ held[a].attempt >= 1 /\ held[b].attempt >= 1
        /\ held[a].attempt # held[b].attempt
        /\ held[a].attempt \in Nat /\ held[b].attempt \in Nat
    BY <2>1 DEF Handle
  <2>3. jobs[j] \in Row /\ CountsOK(jobs[j], retries[j]) /\ retries[j] \in Nat
    BY <2>2 DEF IInv, TypeOK, RowsOK, RowOK
  <2>4. jobs[j].attempts \in Nat /\ jobs[j].attempts >= 2 /\ jobs[j].policy = "manual"
    BY <2>1, <2>2, <2>3 DEF Row
  <2> QED BY <2>3, <2>4 DEF CountsOK
<1> QED BY <1>1, Invariance, PTL

(* A row holds the result of its last lease, and evidence that agrees.     *)
THEOREM ResultsAreOfTheLastAttempt == Spec => []ResultOfLastAttempt
<1>1. IInv => ResultOfLastAttempt
  <2> SUFFICES ASSUME IInv, NEW j \in Rows
               PROVE  /\ (jobs[j].status \in Settled) <=> (settledBy[j] # 0)
                      /\ settledBy[j] # 0 => settledBy[j] = jobs[j].attempts
                      /\ jobs[j].evidence = "pass" => jobs[j].status = "completed"
                      /\ jobs[j].evidence = "fail" => jobs[j].status = "failed"
    BY DEF ResultOfLastAttempt
  <2>1. j \in JobIds /\ ResultOK(jobs[j], settledBy[j]) /\ jobs[j] \in Row
    BY DEF IInv, RowsOK, RowOK, Rows, TypeOK
  <2> QED BY <2>1 DEF ResultOK, Row
<1> QED BY <1>1, Invariance, PTL

(* completed and failed are final.                                         *)
THEOREM SettledRowsAreFinal == Spec => SettledIsFinal
<1>1. IInv /\ [Next]_vars =>
        [\A j \in JobIds : jobs[j].status \in Settled =>
           /\ jobs'[j].status = jobs[j].status
           /\ jobs'[j].attempts = jobs[j].attempts
           /\ settledBy'[j] = settledBy[j]]_vars
  BY SettledKept
<1> QED BY <1>1, Invariance, PTL DEF Spec, SettledIsFinal

(* A renewal or a result of an earlier lease leaves the row as it is.      *)
THEOREM StaleHoldersAreRefused == Spec => StaleHolderIsRefused
<1>1. ASSUME IInv, Next, NEW r \in requests, r \notin requests', r.handle # NoHandle,
             r.handle.attempt < jobs[r.handle.job].attempts
      PROVE jobs'[r.handle.job] = jobs[r.handle.job]
  <2>1. r \in Requests /\ r.kind # "claim" /\ RequestOK(r)
    BY <1>1 DEF IInv, RequestsOK, RequestOK, TypeOK
  <2>2. r.handle.attempt \in Nat /\ jobs[r.handle.job].attempts # r.handle.attempt
    BY <1>1, <2>1 DEF Requests, Handle
  <2>3. ~Renew(r) /\ ~CompleteRow(r) /\ ~CompleteEvidence(r)
    BY <1>1, <2>1, <2>2, AcceptedHandle
    DEF IInv, Renew, CompleteRow, CompleteEvidence, RequestOK
  <2>4. CASE UNCHANGED jobs
    BY <2>4
  <2>5. CASE requests' = requests
    BY <1>1, <2>5
  <2>6. ASSUME NEW q \in requests,
               \/ Renew(q) \/ CompleteRow(q) \/ CompleteEvidence(q)
               \/ ClaimNothing(q) \/ \E j \in JobIds : ClaimJob(q, j)
        PROVE FALSE
    <3>1. q = r
      BY <1>1, <2>6 DEF Renew, CompleteRow, CompleteEvidence, ClaimNothing, ClaimJob
    <3> QED BY <2>1, <2>3, <2>6, <3>1 DEF ClaimNothing, ClaimJob
  <2>7. CASE \/ \E n \in Nodes : Register(n)
             \/ \E n \in Nodes, op \in Operations, key \in Keys \cup {NoKey} : Enqueue(n, op, key)
             \/ Recover
             \/ \E j \in JobIds : RetryJob(j) \/ LeaseExpires(j)
    BY <2>5, <2>7 DEF Register, Enqueue, Recover, RetryJob, LeaseExpires
  <2>8. CASE \/ \E q \in requests : Refuse(q) \/ Lose(q) \/ CompleteInterrupted(q)
             \/ \E a \in Agents : Agent(a)
             \/ \E a \in Agents : AgentCrash(a)
             \/ \E a \in Stoppable : StopSignal(a)
    BY <2>4, <2>8
    DEF Refuse, Lose, CompleteInterrupted, Agent, Heartbeat, PostClaim, FinishExecution,
        RenewLoopEnded, Exit, RenewTimer, AgentStart, RefreshReadiness, AgentCrash, StopSignal
  <2> QED BY <1>1, <2>6, <2>7, <2>8 DEF Next, ControlPlane, Environment
<1>2. IInv /\ [Next]_vars =>
        [\A r \in requests :
           /\ r \notin requests'
           /\ r.handle # NoHandle
           /\ r.handle.attempt < jobs[r.handle.job].attempts
           => jobs'[r.handle.job] = jobs[r.handle.job]]_vars
  BY <1>1
<1> QED BY <1>2, Invariance, PTL DEF Spec, StaleHolderIsRefused

-----------------------------------------------------------------------------
(* Refinement: the rows move as JobLedger says.                            *)
LEMMA LedgerInit == Init => Ledger!Init
BY DEF Init, Ledger!Init, Ledger!Policy, Phase, AbsentJob

(* What a step does to one row is a step of the ledger or keeps the job. *)
LEMMA LedgerRow ==
  ASSUME IInv, Next, NEW j \in JobIds
  PROVE  Ledger!JobStep(j) \/ Ledger!Keep(j)
<1>0. /\ jobs[j] \in Row /\ jobs'[j] \in Row /\ RowOK(jobs[j], retries[j], settledBy[j])
      /\ retries[j] \in Nat /\ jobs[j].attempts \in Nat
  BY TypeStep DEF IInv, TypeOK, RowsOK, Row
<1> USE DEF Ledger!JobStep, Ledger!Keep, Ledger!Moves, Ledger!Counts, Phase, SameCounts
<1>1. CASE RowKept(j)
  BY <1>0, <1>1 DEF RowKept
<1>2. CASE RowQueued(j)
  BY <1>0, <1>2 DEF RowQueued, QueuedJob, RowOK, CountsOK, Ledger!Post
<1>3. CASE RowTakenBack(j)
  BY <1>0, <1>3, TakenBackRow DEF RowTakenBack, Expired, Ledger!TakeBack, Row
<1>4. CASE RowLeased(j)
  <2>1. PICK row \in Row :
          /\ row = jobs[j] \/ (Expired(jobs[j]) /\ row = TakenBack(jobs[j]))
          /\ row.status = "queued" /\ row.attempts < MaxAttempts
          /\ jobs'[j] = FreshLease(row)
          /\ SameCounts(j)
    BY <1>4 DEF RowLeased
  <2>2. /\ RowOK(row, retries[j], settledBy[j])
        /\ row.attempts = jobs[j].attempts /\ row.policy = jobs[j].policy
        /\ jobs[j].status = "queued" \/ (jobs[j].status = "leased" /\ jobs[j].policy = "automatic")
    BY <1>0, <2>1, TakenBackRow DEF Expired, Row
  <2>3. /\ jobs'[j].status = "leased" /\ jobs'[j].attempts = jobs[j].attempts + 1
        /\ jobs'[j].policy = jobs[j].policy
    BY <2>1, <2>2, FreshLeaseRow
  <2> QED BY <1>0, <2>1, <2>2, <2>3 DEF Ledger!HandOut, Ledger!HandOver
<1>5. CASE RowReleased(j)
  BY <1>0, <1>5 DEF RowReleased, Ledger!Release, Row
<1>6. CASE RowTimed(j)
  BY <1>0, <1>6 DEF RowTimed, Row
<1>7. CASE RowSettled(j)
  BY <1>0, <1>7, SettledRowRow DEF RowSettled, Ledger!Settle, Settled
<1>8. CASE RowEvidenced(j)
  BY <1>0, <1>8 DEF RowEvidenced, Row
<1> QED
  BY <1>1, <1>2, <1>3, <1>4, <1>5, <1>6, <1>7, <1>8, EveryRowSteps DEF RowStep

(* The protocol implements the ledger: whatever happens to agents and      *)
(* requests, each job waits, is held, parked, released and settled as      *)
(* JobLedger allows.                                                       *)
THEOREM LedgerImplemented == Spec => ImplementsLedger
<1>1. IInv /\ Next => Ledger!Next
  <2> SUFFICES ASSUME IInv, Next PROVE Ledger!Next
    OBVIOUS
  <2>1. TypeOK'
    BY TypeStep DEF IInv
  <2>2. /\ \A j \in JobIds : Phase(j)' \in Ledger!Phase
        /\ \A j \in JobIds : jobs'[j].policy \in Ledger!Policy
        /\ \A j \in JobIds : jobs'[j].attempts \in Nat
        /\ retries' \in [JobIds -> Nat]
    BY <2>1 DEF TypeOK, Phase, Ledger!Phase, Ledger!Policy, Row
  <2> QED BY <2>2, LedgerRow DEF Ledger!Next
<1>2. UNCHANGED vars => UNCHANGED Ledger!vars
  BY DEF vars, Ledger!vars, Phase
<1>3. IInv /\ [Next]_vars => [Ledger!Next]_(Ledger!vars)
  BY <1>1, <1>2
<1> QED BY <1>3, LedgerInit, Invariance, PTL DEF Spec, ImplementsLedger, Ledger!Spec
-----------------------------------------------------------------------------
(* An agent that works for a lease it counts its own renews that lease.    *)
Renewing(a) ==
  lane[a] = "executing" /\ current[a] = held[a] /\ ~stopped[a]
  => held[a] \in napping[a] \cup posting[a]

(* An executing holder keeps its renewLoop over every step. *)
LEMMA RenewingStep ==
  ASSUME IInv, HolderKeepsRenewing, Next, NEW a \in Agents
  PROVE  Renewing(a)'
<1>0. /\ Renewing(a)
      /\ lane[a] = "executing" => held[a] # NoHandle
      /\ TypeOK
      /\ \A r \in requests : r.agent \in Agents
  BY DEF IInv, AgentsOK, AgentOK, HolderKeepsRenewing, Renewing, TypeOK, Requests
<1> USE DEF Renewing
<1>1. CASE UNCHANGED <<lane, held, current, stopped, napping, posting>>
  BY <1>0, <1>1
<1>2. CASE \/ \E n \in Nodes : Register(n)
           \/ \E n \in Nodes, op \in Operations, key \in Keys \cup {NoKey} : Enqueue(n, op, key)
           \/ Recover
           \/ \E j \in JobIds : RetryJob(j) \/ LeaseExpires(j)
           \/ \E r \in requests : CompleteRow(r)
           \/ \E b \in Agents : Heartbeat(b)
           \/ \E b \in Agents : \E p \in Profiles : RefreshReadiness(b, p)
  <2>1. UNCHANGED <<lane, held, current, stopped, napping, posting>>
    BY <1>2
    DEF Register, Enqueue, Recover, RetryJob, LeaseExpires, CompleteRow, Heartbeat,
        RefreshReadiness, agentVars
  <2> QED BY <1>1, <2>1
<1>3. ASSUME NEW r \in requests, Refuse(r) \/ Lose(r) \/ CompleteInterrupted(r)
      PROVE Renewing(a)'
  <2>1. ClientError(r) /\ UNCHANGED <<napping, stopped>>
    BY <1>3 DEF Refuse, Lose, CompleteInterrupted
  <2>2. CASE ~r.open \/ r.agent # a
    BY <1>0, <2>1, <2>2 DEF ClientError, TypeOK
  <2>3. CASE r.open /\ r.agent = a /\ r.kind = "renew"
    <3>1. current'[a] = NoHandle /\ lane' = lane /\ held' = held
      BY <1>0, <2>1, <2>3 DEF ClientError, TypeOK
    <3> QED BY <1>0, <3>1
  <2>4. CASE r.open /\ r.agent = a /\ r.kind # "renew"
    <3>1. lane'[a] = "idle"
      BY <1>0, <2>1, <2>4 DEF ClientError, TypeOK
    <3> QED BY <3>1
  <2> QED BY <2>2, <2>3, <2>4
<1>4. ASSUME NEW r \in requests, ClaimNothing(r) \/ CompleteEvidence(r) PROVE Renewing(a)'
  <2>1. lane'[a] = "executing" => lane' = lane \/ (lane'[a] = lane[a] /\ r.agent # a)
    BY <1>0, <1>4 DEF ClaimNothing, CompleteEvidence, TypeOK
  <2>2. lane'[a] = "executing" => current'[a] = current[a] /\ lane[a] = "executing"
    BY <1>0, <1>4, <2>1 DEF ClaimNothing, CompleteEvidence, TypeOK
  <2>3. UNCHANGED <<held, stopped, napping, posting>>
    BY <1>4 DEF ClaimNothing, CompleteEvidence
  <2> QED BY <1>0, <2>2, <2>3
<1>5. ASSUME NEW r \in requests, NEW j \in JobIds, ClaimJob(r, j) PROVE Renewing(a)'
  <2>1. UNCHANGED <<stopped, posting>>
    BY <1>5 DEF ClaimJob
  <2>2. CASE ~r.open
    BY <1>0, <1>5, <2>1, <2>2 DEF ClaimJob
  <2>3. CASE r.open /\ r.agent # a
    <3>1. /\ lane'[a] = lane[a] /\ held'[a] = held[a] /\ current'[a] = current[a]
          /\ napping'[a] = napping[a]
      BY <1>0, <1>5, <2>3 DEF ClaimJob, TypeOK
    <3> QED BY <1>0, <2>1, <3>1
  <2>4. CASE r.open /\ r.agent = a
    <3>1. ~stopped[a] => held'[a] \in napping'[a]
      BY <1>0, <1>5, <2>4 DEF ClaimJob, TypeOK
    <3> QED BY <2>1, <3>1
  <2> QED BY <2>2, <2>3, <2>4
<1>6. ASSUME NEW r \in requests, Renew(r) PROVE Renewing(a)'
  <2>1. UNCHANGED <<lane, held, current, stopped>>
    BY <1>6 DEF Renew
  <2>2. CASE ~r.open \/ r.agent # a
    BY <1>0, <1>6, <2>1, <2>2 DEF Renew, TypeOK
  <2>3. CASE r.open /\ r.agent = a
    <3>1. /\ posting'[a] = posting[a] \ {r.handle}
          /\ napping'[a] = IF current[a] = r.handle /\ ~stopped[a]
                             THEN napping[a] \cup {r.handle} ELSE napping[a]
      BY <1>0, <1>6, <2>3 DEF Renew, TypeOK
    <3> QED BY <1>0, <2>1, <3>1
  <2> QED BY <2>2, <2>3
<1>7. ASSUME NEW b \in Agents, NEW h \in Handle, RenewTimer(b, h) PROVE Renewing(a)'
  <2>1. UNCHANGED <<lane, held, current, stopped>>
    BY <1>7 DEF RenewTimer
  <2>2. CASE a # b
    BY <1>0, <1>7, <2>1, <2>2 DEF RenewTimer, TypeOK
  <2>3. CASE a = b
    <3>1. /\ napping'[a] = napping[a] \ {h}
          /\ posting'[a] = IF current[a] = h THEN posting[a] \cup {h} ELSE posting[a]
      BY <1>0, <1>7, <2>3 DEF RenewTimer, TypeOK
    <3> QED BY <1>0, <2>1, <3>1
  <2> QED BY <2>2, <2>3
<1>8. ASSUME NEW b \in Agents,
             \/ PostClaim(b) \/ RenewLoopEnded(b) \/ Exit(b) \/ AgentCrash(b)
             \/ \E p \in Profiles : AgentStart(b, p)
             \/ \E result \in Settled : FinishExecution(b, result)
      PROVE Renewing(a)'
  <2>1. CASE a = b
    <3>1. lane'[a] # "executing"
      BY <1>0, <1>8, <2>1
      DEF PostClaim, RenewLoopEnded, Exit, AgentCrash, AgentStart, FinishExecution, TypeOK
    <3> QED BY <3>1
  <2>2. CASE a # b
    <3>1. /\ lane'[a] = lane[a] /\ held'[a] = held[a] /\ current'[a] = current[a]
          /\ napping'[a] = napping[a] /\ posting'[a] = posting[a] /\ stopped'[a] = stopped[a]
      BY <1>0, <1>8, <2>2
      DEF PostClaim, RenewLoopEnded, Exit, AgentCrash, AgentStart, FinishExecution, TypeOK
    <3> QED BY <1>0, <3>1
  <2> QED BY <2>1, <2>2
<1>9. ASSUME NEW b \in Stoppable, StopSignal(b) PROVE Renewing(a)'
  <2>1. UNCHANGED <<lane, held, current, napping, posting>> /\ (stopped[a] => stopped'[a])
    BY <1>0, <1>9 DEF StopSignal, TypeOK
  <2> QED BY <1>0, <2>1
<1> QED
  BY <1>2, <1>3, <1>4, <1>5, <1>6, <1>7, <1>8, <1>9 DEF Next, ControlPlane, Agent, Environment

(* The renewLoop of a lease ends before the job only if the agent no       *)
(* longer counts itself the holder, or was told to stop.                   *)
THEOREM HoldersKeepRenewing == Spec => []HolderKeepsRenewing
<1>1. Init => HolderKeepsRenewing
  BY DEF Init, HolderKeepsRenewing
<1>2. IInv /\ HolderKeepsRenewing /\ [Next]_vars => HolderKeepsRenewing'
  <2>1. IInv /\ HolderKeepsRenewing /\ Next => HolderKeepsRenewing'
    BY RenewingStep DEF HolderKeepsRenewing, Renewing
  <2>2. HolderKeepsRenewing /\ UNCHANGED vars => HolderKeepsRenewing'
    BY DEF HolderKeepsRenewing, vars, agentVars
  <2> QED BY <2>1, <2>2
<1> QED BY <1>1, <1>2, Invariance, PTL DEF Spec
=============================================================================
