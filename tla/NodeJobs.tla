------------------------------ MODULE NodeJobs ------------------------------
(***************************************************************************)
(* The leased job protocol between the hosted control plane and the node   *)
(* agents that connect outbound to it.                                     *)
(*                                                                         *)
(*   control plane  src/src/nodes.ts   rows of the table node_jobs, the    *)
(*                                     handlers of /node/*                 *)
(*   agent          src/src/node-main.ts   heartbeatLoop, workLoop and one *)
(*                                     renewLoop per claimed job           *)
(*                                                                         *)
(* Agents reach the control plane by HTTP posts.  A post is a request in   *)
(* `requests'; it is handled at most once, by one step of the control      *)
(* plane that also delivers the answer.  A post whose client gave up (15 s *)
(* timeout, broken connection, crash) stays as a late request with open =  *)
(* FALSE: the control plane may still handle it, nobody hears the answer.  *)
(*                                                                         *)
(* The columns lease_expires_at and now() appear only in comparisons, so a *)
(* row keeps the truth value of lease_expires_at >= now() in `live' and    *)
(* time is the action LeaseExpires.  The token of a lease is the number of *)
(* the attempt that drew it (attempts grows by one with every fresh token);*)
(* 0 stands for SQL NULL.                                                  *)
(*                                                                         *)
(* Operators named Bug... are variants of the definition that follows them *)
(* with one plausible mistake.  No specification uses them: README.md says *)
(* which property rejects which.                                           *)
(***************************************************************************)
EXTENDS Integers, FiniteSets

CONSTANTS
  Nodes,             \* registered execution nodes
  Agents,            \* agent processes (several may run for one node)
  NodeOf,            \* the node an agent process was configured for
  Operations,        \* [capability, operation, verification] that are enqueued
  Keys,              \* idempotency keys callers use
  NoKey,             \* an enqueue without idempotency key
  Profiles,          \* what an agent may report: "ready", "blocked", "incompatible"
  Stoppable,         \* agents that may be told to stop (SIGINT, SIGTERM)
  MaxJobs,           \* bound: rows ever enqueued
  MaxAttempts,       \* bound: leases ever granted on one row
  MaxRegistrations,  \* bound: credential rotations of one node
  MaxLate            \* bound: late requests at one time

ASSUME NodesAssumption == NodeOf \in [Agents -> Nodes]
ASSUME BoundsAssumption ==
  /\ MaxJobs \in Nat
  /\ MaxAttempts \in Nat
  /\ MaxRegistrations \in Nat
  /\ MaxLate \in Nat
ASSUME InputsAssumption ==
  /\ NoKey \notin Keys
  /\ Stoppable \subseteq Agents
  /\ Profiles \subseteq {"ready", "blocked", "incompatible"}
  /\ Operations \subseteq [capability: STRING, operation: STRING, verification: BOOLEAN]

VARIABLES
  jobs,       \* the rows of node_jobs, by creation order
  cred,       \* execution_nodes.credential_hash: 0 none, else the rotation number
  reported,   \* execution_nodes.metadata: what the node last reported
  requests,   \* HTTP posts that are not yet handled to the end
  lane,       \* where an agent's workLoop stands
  held,       \* workLoop's local j: the job it claimed
  current,    \* the agent's global `current'
  napping,    \* renewLoops of the agent that sleep until the next renewal
  posting,    \* renewLoops of the agent that await /node/renew
  stopped,    \* the agent's global `stopped', set by a signal
  secret,     \* the credential the agent process started with
  profile,    \* the readiness and protocol of the agent process
  retries,    \* history: explicit retries of a row
  settledBy   \* history: the attempt whose result a row holds, 0 none

agentVars == <<lane, held, current, napping, posting, stopped, secret, profile>>
vars == <<jobs, cred, reported, requests, agentVars, retries, settledBy>>

JobIds == 1..MaxJobs
Handle == [job: JobIds, attempt: 1..MaxAttempts]
NoHandle == [job |-> 0, attempt |-> 0]
Settled == {"completed", "failed"}
Status == {"absent", "queued", "leased", "recovery_required"} \cup Settled
Row == [status: Status, node: Nodes \cup {"none"}, policy: {"automatic", "manual"},
        key: Keys \cup {NoKey}, attempts: 0..MaxAttempts, token: 0..MaxAttempts,
        live: BOOLEAN, evidence: {"none", "pass", "fail"}]

-----------------------------------------------------------------------------
(* node-retry-policy.ts: which operations may be replayed after lease loss. *)

SafeOperations ==
  ({"filesystem"} \X {"list", "read", "search", "map", "instructions"})
  \cup ({"git"} \X {"status", "diff", "inspect", "worktree_list", "changed_since"})
  \cup ({"process"} \X {"read", "exec_list", "exec_poll"})
  \cup ({"browser"} \X {"snapshot", "console", "network", "accessibility", "performance"})
  \cup ({"engineering"} \X {"docker_status", "docker_logs"})

RetryPolicy(op) ==
  IF \/ op.verification /\ op.capability = "command" /\ op.operation = "run"
     \/ <<op.capability, op.operation>> \in SafeOperations
    THEN "automatic"
    ELSE "manual"

(* node-lifecycle.ts, for a node that has just authenticated (so is online): *)
(* "unknown" is a node that has reported neither readiness nor protocol.     *)
QueueAllowed(report) == report # "incompatible"
ClaimAllowed(report) == report \in {"ready", "unknown"}
-----------------------------------------------------------------------------
AbsentJob == [status |-> "absent", node |-> "none", policy |-> "manual", key |-> NoKey,
              attempts |-> 0, token |-> 0, live |-> FALSE, evidence |-> "none"]

QueuedJob(n, op, key) ==
  [status |-> "queued", node |-> n, policy |-> RetryPolicy(op), key |-> key,
   attempts |-> 0, token |-> 0, live |-> FALSE, evidence |-> "none"]

Rows == {j \in JobIds : jobs[j].status # "absent"}

Request(kind, a, h, result) ==
  [kind |-> kind, agent |-> a, secret |-> secret[a], handle |-> h,
   result |-> result, stage |-> "sent", open |-> TRUE]

Requests ==
  [kind: {"claim", "renew", "complete"}, agent: Agents, secret: 0..MaxRegistrations,
   handle: Handle \cup {NoHandle}, result: Settled \cup {"none"},
   stage: {"sent", "updated"}, open: BOOLEAN]

TypeOK ==
  /\ jobs \in [JobIds -> Row]
  /\ cred \in [Nodes -> 0..MaxRegistrations]
  /\ reported \in [Nodes -> Profiles \cup {"unknown"}]
  /\ requests \in SUBSET Requests
  /\ lane \in [Agents -> {"down", "idle", "claiming", "executing", "completing", "awaitRenew"}]
  /\ held \in [Agents -> Handle \cup {NoHandle}]
  /\ current \in [Agents -> Handle \cup {NoHandle}]
  /\ napping \in [Agents -> SUBSET Handle]
  /\ posting \in [Agents -> SUBSET Handle]
  /\ stopped \in [Agents -> BOOLEAN]
  /\ secret \in [Agents -> 0..MaxRegistrations]
  /\ profile \in [Agents -> Profiles]
  /\ retries \in [JobIds -> 0..MaxAttempts]
  /\ settledBy \in [JobIds -> 0..MaxAttempts]

Init ==
  /\ jobs = [j \in JobIds |-> AbsentJob]
  /\ cred = [n \in Nodes |-> 0]
  /\ reported = [n \in Nodes |-> "unknown"]
  /\ requests = {}
  /\ lane = [a \in Agents |-> "down"]
  /\ held = [a \in Agents |-> NoHandle]
  /\ current = [a \in Agents |-> NoHandle]
  /\ napping = [a \in Agents |-> {}]
  /\ posting = [a \in Agents |-> {}]
  /\ stopped = [a \in Agents |-> FALSE]
  /\ secret = [a \in Agents |-> 0]
  /\ profile \in [Agents -> Profiles]
  /\ retries = [j \in JobIds |-> 0]
  /\ settledBy = [j \in JobIds |-> 0]
-----------------------------------------------------------------------------
Bug_RenewErrorKeepsCurrent(r) ==
  LET a == r.agent IN
  IF ~r.open THEN UNCHANGED <<lane, held, current, posting>>
  ELSE IF r.kind = "renew"
    THEN /\ posting' = [posting EXCEPT ![a] = @ \ {r.handle}]
         /\ UNCHANGED <<lane, held, current>>
    ELSE /\ lane' = [lane EXCEPT ![a] = "idle"]
         /\ held' = [held EXCEPT ![a] = NoHandle]
         /\ current' = [current EXCEPT ![a] = NoHandle]
         /\ UNCHANGED posting

(* The agent's side of a post that ended in an error (refused, lost or     *)
(* timed out).  workLoop's catch clears `current' and, after a failed      *)
(* complete, does not wait for the renewLoop.  renewLoop's catch clears    *)
(* `current' whatever job it belongs to by now.                            *)
ClientError(r) ==
  LET a == r.agent IN
  IF ~r.open THEN UNCHANGED <<lane, held, current, posting>>
  ELSE /\ current' = [current EXCEPT ![a] = NoHandle]
       /\ IF r.kind = "renew"
            THEN /\ posting' = [posting EXCEPT ![a] = @ \ {r.handle}]
                 /\ UNCHANGED <<lane, held>>
            ELSE /\ lane' = [lane EXCEPT ![a] = "idle"]
                 /\ held' = [held EXCEPT ![a] = NoHandle]
                 /\ UNCHANGED posting

Late == {r \in requests : ~r.open}
Authentic(r) == r.secret = cred[NodeOf[r.agent]] /\ r.secret # 0

Bug_AnyToken(r) ==
  LET row == jobs[r.handle.job] IN
  /\ r.handle # NoHandle
  /\ row.node = NodeOf[r.agent]
  /\ row.token # 0

(* The WHERE clause renew and complete share: the row is this node's and   *)
(* its lease_token_hash is the one presented.                              *)
HoldsToken(r) ==
  LET row == jobs[r.handle.job] IN
  /\ r.handle # NoHandle
  /\ row.node = NodeOf[r.agent]
  /\ row.token = r.handle.attempt
  /\ row.token # 0

Acceptable(r) ==
  /\ Authentic(r)
  /\ CASE r.kind = "claim"    -> ClaimAllowed(reported[NodeOf[r.agent]])
       [] r.kind = "renew"    -> HoldsToken(r) /\ jobs[r.handle.job].status = "leased"
       [] r.kind = "complete" -> HoldsToken(r) /\ jobs[r.handle.job].live

(* The control plane refuses a post (401, 409): nothing changes there. *)
Refuse(r) ==
  /\ r \in requests /\ r.stage = "sent"
  /\ ~Acceptable(r)
  /\ requests' = requests \ {r}
  /\ ClientError(r)
  /\ UNCHANGED <<jobs, cred, reported, napping, stopped, secret, profile,
                 retries, settledBy>>

(* The client gives up on a post: it never arrives, or arrives late. *)
Lose(r) ==
  /\ r \in requests /\ r.stage = "sent" /\ r.open
  /\ \/ requests' = requests \ {r}
     \/ /\ Cardinality(Late) < MaxLate
        /\ requests' = (requests \ {r}) \cup {[r EXCEPT !.open = FALSE]}
  /\ ClientError(r)
  /\ UNCHANGED <<jobs, cred, reported, napping, stopped, secret, profile,
                 retries, settledBy>>
-----------------------------------------------------------------------------
(* NodeRegistry.register: rotates the credential, forgets the metadata. *)
Register(n) ==
  /\ cred[n] < MaxRegistrations
  /\ cred' = [cred EXCEPT ![n] = @ + 1]
  /\ reported' = [reported EXCEPT ![n] = "unknown"]
  /\ UNCHANGED <<jobs, requests, agentVars, retries, settledBy>>

(* NodeRegistry.heartbeat, and the agent's heartbeatLoop that posts it. *)
Heartbeat(a) ==
  /\ lane[a] # "down" /\ ~stopped[a]
  /\ secret[a] = cred[NodeOf[a]]
  /\ secret[a] # 0
  /\ reported' = [reported EXCEPT ![NodeOf[a]] = profile[a]]
  /\ UNCHANGED <<jobs, cred, requests, agentVars, retries, settledBy>>

(* NodeRegistry.enqueue; a key already used answers the existing row. *)
Enqueue(n, op, key) ==
  /\ cred[n] # 0
  /\ QueueAllowed(reported[n])
  /\ key # NoKey => \A i \in Rows : jobs[i].key # key
  /\ \E j \in JobIds :
       /\ j \notin Rows
       /\ \A i \in JobIds : i < j => i \in Rows
       /\ jobs' = [jobs EXCEPT ![j] = QueuedJob(n, op, key)]
  /\ UNCHANGED <<cred, reported, requests, agentVars, retries, settledBy>>

Expired(row) == row.status = "leased" /\ ~row.live

Bug_RecoverIgnoresPolicy ==
  [j \in JobIds |-> IF Expired(jobs[j])
                      THEN [jobs[j] EXCEPT !.status = "queued", !.token = 0] ELSE jobs[j]]

Bug_RecoverParksAll ==
  [j \in JobIds |-> IF Expired(jobs[j])
                      THEN [jobs[j] EXCEPT !.status = "recovery_required", !.token = 0]
                      ELSE jobs[j]]

Bug_RecoverNothing == jobs

(* A lease taken back: the row waits again, or for an operator. *)
TakenBack(row) ==
  [row EXCEPT !.status = IF row.policy = "automatic" THEN "queued" ELSE "recovery_required",
              !.token = 0]

(* The rows after NodeRegistry.recover: two UPDATEs over expired leases. *)
Recovered ==
  [j \in JobIds |-> IF Expired(jobs[j]) THEN TakenBack(jobs[j]) ELSE jobs[j]]

Recover ==
  /\ Recovered # jobs
  /\ jobs' = Recovered
  /\ UNCHANGED <<cred, reported, requests, agentVars, retries, settledBy>>

Bug_RetryAnyStatus(j) ==
  /\ j \in Rows
  /\ jobs' = [jobs EXCEPT ![j].status = "queued"]
  /\ retries' = [retries EXCEPT ![j] = @ + 1]
  /\ UNCHANGED <<cred, reported, requests, agentVars, settledBy>>

(* NodeRegistry.retryJob: an operator releases a parked job. *)
RetryJob(j) ==
  /\ jobs[j].status = "recovery_required"
  /\ jobs' = [jobs EXCEPT ![j].status = "queued"]
  /\ retries' = [retries EXCEPT ![j] = @ + 1]
  /\ UNCHANGED <<cred, reported, requests, agentVars, settledBy>>

LeaseExpires(j) ==
  /\ jobs[j].live
  /\ jobs' = [jobs EXCEPT ![j].live = FALSE]
  /\ UNCHANGED <<cred, reported, requests, agentVars, retries, settledBy>>
-----------------------------------------------------------------------------
Bug_TokenReused(row) ==
  [row EXCEPT !.status = "leased", !.attempts = @ + 1, !.live = TRUE,
              !.token = IF row.attempts = 0 THEN 1 ELSE row.attempts]

(* claim's UPDATE: every lease draws a fresh token. *)
FreshLease(row) ==
  [row EXCEPT !.status = "leased", !.attempts = @ + 1, !.live = TRUE,
              !.token = row.attempts + 1]

(* NodeRegistry.claim: recover, then lease the oldest queued row of the    *)
(* node under a fresh token.  The agent executes what it is handed.        *)
ClaimNothing(r) ==
  /\ r \in requests /\ r.kind = "claim"
  /\ Acceptable(r)
  /\ \A j \in JobIds : ~(Recovered[j].status = "queued" /\ Recovered[j].node = NodeOf[r.agent])
  /\ jobs' = Recovered
  /\ requests' = requests \ {r}
  /\ lane' = IF r.open THEN [lane EXCEPT ![r.agent] = "idle"] ELSE lane
  /\ UNCHANGED <<cred, reported, held, current, napping, posting, stopped, secret, profile,
                 retries, settledBy>>

ClaimJob(r, j) ==
  LET h == [job |-> j, attempt |-> FreshLease(Recovered[j]).token]
      a == r.agent IN
  /\ r \in requests /\ r.kind = "claim"
  /\ Acceptable(r)
  /\ Recovered[j].status = "queued" /\ Recovered[j].node = NodeOf[a]
  /\ \A i \in JobIds :
       Recovered[i].status = "queued" /\ Recovered[i].node = NodeOf[a] => j <= i
  /\ Recovered[j].attempts < MaxAttempts
  /\ jobs' = [Recovered EXCEPT ![j] = FreshLease(Recovered[j])]
  /\ requests' = requests \ {r}
  /\ IF r.open
       THEN /\ lane' = [lane EXCEPT ![a] = "executing"]
            /\ held' = [held EXCEPT ![a] = h]
            /\ current' = [current EXCEPT ![a] = h]
            /\ napping' = IF stopped[a] THEN napping ELSE [napping EXCEPT ![a] = @ \cup {h}]
       ELSE UNCHANGED <<lane, held, current, napping>>
  /\ UNCHANGED <<cred, reported, posting, stopped, secret, profile,
                 retries, settledBy>>

(* NodeRegistry.renew: status and token are checked, the deadline is not.  *)
Renew(r) ==
  LET a == r.agent IN
  /\ r \in requests /\ r.kind = "renew"
  /\ Acceptable(r)
  /\ jobs' = [jobs EXCEPT ![r.handle.job].live = TRUE]
  /\ requests' = requests \ {r}
  /\ IF r.open
       THEN /\ posting' = [posting EXCEPT ![a] = @ \ {r.handle}]
            /\ napping' = IF current[a] = r.handle /\ ~stopped[a]
                            THEN [napping EXCEPT ![a] = @ \cup {r.handle}] ELSE napping
       ELSE UNCHANGED <<posting, napping>>
  /\ UNCHANGED <<cred, reported, lane, held, current, stopped, secret, profile,
                 retries, settledBy>>

SettledRow(row, result) == [row EXCEPT !.status = result, !.token = 0, !.live = FALSE]

(* NodeRegistry.complete, first statement: the row takes the result and    *)
(* gives up its token.                                                     *)
CompleteRow(r) ==
  LET j == r.handle.job IN
  /\ r \in requests /\ r.kind = "complete" /\ r.stage = "sent"
  /\ Acceptable(r)
  /\ jobs' = [jobs EXCEPT ![j] = SettledRow(@, r.result)]
  /\ settledBy' = [settledBy EXCEPT ![j] = r.handle.attempt]
  /\ requests' = (requests \ {r}) \cup {[r EXCEPT !.stage = "updated"]}
  /\ UNCHANGED <<cred, reported, agentVars, retries>>

(* Its last statement: the evidence row (one per job id), then the answer. *)
CompleteEvidence(r) ==
  LET j == r.handle.job
      a == r.agent IN
  /\ r \in requests /\ r.stage = "updated"
  /\ jobs' = [jobs EXCEPT ![j].evidence =
       IF @ # "none" THEN @ ELSE IF r.result = "completed" THEN "pass" ELSE "fail"]
  /\ requests' = requests \ {r}
  /\ IF r.open
       THEN /\ lane' = [lane EXCEPT ![a] = "awaitRenew"]
            /\ current' = [current EXCEPT ![a] = NoHandle]
       ELSE UNCHANGED <<lane, current>>
  /\ UNCHANGED <<cred, reported, held, napping, posting, stopped, secret, profile,
                 retries, settledBy>>

(* Between the two, the usage record throws or the control plane stops.    *)
CompleteInterrupted(r) ==
  /\ r \in requests /\ r.stage = "updated"
  /\ requests' = requests \ {r}
  /\ ClientError(r)
  /\ UNCHANGED <<jobs, cred, reported, napping, stopped, secret, profile,
                 retries, settledBy>>
-----------------------------------------------------------------------------
(* workLoop: ask for work, unless the local doctor blocks execution. *)
PostClaim(a) ==
  /\ lane[a] = "idle" /\ ~stopped[a]
  /\ profile[a] # "blocked"
  /\ lane' = [lane EXCEPT ![a] = "claiming"]
  /\ requests' = requests \cup {Request("claim", a, NoHandle, "none")}
  /\ UNCHANGED <<jobs, cred, reported, held, current, napping, posting, stopped, secret, profile,
                 retries, settledBy>>

(* workLoop: execute(j) ends; the result is posted only if current===j.    *)
FinishExecution(a, result) ==
  /\ lane[a] = "executing"
  /\ IF current[a] = held[a]
       THEN /\ lane' = [lane EXCEPT ![a] = "completing"]
            /\ requests' = requests \cup {Request("complete", a, held[a], result)}
            /\ UNCHANGED current
       ELSE /\ lane' = [lane EXCEPT ![a] = "awaitRenew"]
            /\ current' = [current EXCEPT ![a] = NoHandle]
            /\ UNCHANGED requests
  /\ UNCHANGED <<jobs, cred, reported, held, napping, posting, stopped, secret, profile, retries,
                 settledBy>>

(* workLoop: `await renew' returns when the job's renewLoop has ended. *)
RenewLoopEnded(a) ==
  /\ lane[a] = "awaitRenew"
  /\ held[a] \notin napping[a] \cup posting[a]
  /\ lane' = [lane EXCEPT ![a] = "idle"]
  /\ held' = [held EXCEPT ![a] = NoHandle]
  /\ UNCHANGED <<jobs, cred, reported, requests, current, napping, posting, stopped, secret, profile,
                 retries, settledBy>>

(* renewLoop: the timer fires; it renews only while current===job. *)
RenewTimer(a, h) ==
  /\ h \in napping[a]
  /\ napping' = [napping EXCEPT ![a] = @ \ {h}]
  /\ IF current[a] = h
       THEN /\ posting' = [posting EXCEPT ![a] = @ \cup {h}]
            /\ requests' = requests \cup {Request("renew", a, h, "none")}
       ELSE UNCHANGED <<posting, requests>>
  /\ UNCHANGED <<jobs, cred, reported, lane, held, current, stopped, secret, profile,
                 retries, settledBy>>

(* The agent process dies; what it had posted may still arrive. *)
AgentCrash(a) ==
  LET mine == {r \in requests : r.agent = a /\ r.open} IN
  /\ lane[a] # "down"
  /\ lane' = [lane EXCEPT ![a] = "down"]
  /\ held' = [held EXCEPT ![a] = NoHandle]
  /\ current' = [current EXCEPT ![a] = NoHandle]
  /\ napping' = [napping EXCEPT ![a] = {}]
  /\ posting' = [posting EXCEPT ![a] = {}]
  /\ stopped' = [stopped EXCEPT ![a] = FALSE]
  /\ \E kept \in SUBSET mine :
       /\ {r \in mine : r.stage = "updated"} \subseteq kept
       /\ Cardinality(Late \cup kept) <= MaxLate \/ \A r \in kept : r.stage = "updated"
       /\ requests' = (requests \ mine) \cup {[r EXCEPT !.open = FALSE] : r \in kept}
  /\ UNCHANGED <<jobs, cred, reported, secret, profile, retries, settledBy>>

(* SIGINT and SIGTERM only set `stopped': the loops end on their own.      *)
StopSignal(a) ==
  /\ a \in Stoppable /\ lane[a] # "down" /\ ~stopped[a]
  /\ stopped' = [stopped EXCEPT ![a] = TRUE]
  /\ UNCHANGED <<jobs, cred, reported, requests, lane, held, current, napping, posting, secret,
                 profile, retries, settledBy>>

(* The process exits when its loops have ended and no timer is pending.    *)
Exit(a) ==
  /\ stopped[a] /\ lane[a] = "idle" /\ napping[a] = {} /\ posting[a] = {}
  /\ lane' = [lane EXCEPT ![a] = "down"]
  /\ stopped' = [stopped EXCEPT ![a] = FALSE]
  /\ UNCHANGED <<jobs, cred, reported, requests, held, current, napping, posting, secret,
                 profile, retries, settledBy>>

(* A new process with the credential the node has now, maybe upgraded. *)
AgentStart(a, p) ==
  /\ lane[a] = "down"
  /\ cred[NodeOf[a]] # 0
  /\ lane' = [lane EXCEPT ![a] = "idle"]
  /\ secret' = [secret EXCEPT ![a] = cred[NodeOf[a]]]
  /\ profile' = [profile EXCEPT ![a] = p]
  /\ UNCHANGED <<jobs, cred, reported, requests, held, current, napping, posting, stopped,
                 retries, settledBy>>

(* refreshReadiness: the local doctor changes its mind. *)
RefreshReadiness(a, p) ==
  /\ lane[a] # "down" /\ ~stopped[a]
  /\ profile[a] # p
  /\ {p, profile[a]} \subseteq {"ready", "blocked"}
  /\ profile' = [profile EXCEPT ![a] = p]
  /\ UNCHANGED <<jobs, cred, reported, requests, lane, held, current, napping, posting,
                 stopped, secret, retries, settledBy>>
-----------------------------------------------------------------------------
ControlPlane ==
  \/ \E n \in Nodes : Register(n)
  \/ \E n \in Nodes, op \in Operations, key \in Keys \cup {NoKey} : Enqueue(n, op, key)
  \/ Recover
  \/ \E j \in JobIds : RetryJob(j)
  \/ \E r \in requests : ClaimNothing(r)
  \/ \E r \in requests, j \in JobIds : ClaimJob(r, j)
  \/ \E r \in requests : Renew(r)
  \/ \E r \in requests : CompleteRow(r)
  \/ \E r \in requests : CompleteEvidence(r)
  \/ \E r \in requests : Refuse(r)

Agent(a) ==
  \/ Heartbeat(a)
  \/ PostClaim(a)
  \/ \E result \in Settled : FinishExecution(a, result)
  \/ RenewLoopEnded(a)
  \/ Exit(a)
  \/ \E h \in Handle : RenewTimer(a, h)
  \/ \E p \in Profiles : AgentStart(a, p)
  \/ \E p \in Profiles : RefreshReadiness(a, p)

Environment ==
  \/ \E j \in JobIds : LeaseExpires(j)
  \/ \E r \in requests : Lose(r)
  \/ \E r \in requests : CompleteInterrupted(r)
  \/ \E a \in Agents : AgentCrash(a)
  \/ \E a \in Stoppable : StopSignal(a)

Next == ControlPlane \/ (\E a \in Agents : Agent(a)) \/ Environment

Spec == Init /\ [][Next]_vars

(* What the scheduling justifies.  Every post ends, at the latest by its   *)
(* 15 s timeout; the loops of a live process go on; a supervisor restarts  *)
(* a dead one; a lease nobody renews expires.  An agent that comes up      *)
(* again and again posts a claim in the end, and of claims posted again    *)
(* and again one is answered.  Nothing is said about completes: any number *)
(* of them may be lost, and any process may die at any time.               *)
PostEnds(a, kind) ==
  \E r \in requests :
    /\ r.agent = a /\ r.kind = kind /\ r.open
    /\ Lose(r) \/ Refuse(r) \/ Renew(r) \/ CompleteRow(r) \/ ClaimNothing(r)
       \/ \E j \in JobIds : ClaimJob(r, j)

ClaimAnswered(a) ==
  \E r \in requests :
    /\ r.agent = a /\ r.open
    /\ ClaimNothing(r) \/ \E j \in JobIds : ClaimJob(r, j)

UnrenewedLeaseExpires(j) ==
  /\ \A a \in Agents : \A h \in napping[a] \cup posting[a] : h.job # j
  /\ LeaseExpires(j)

Fairness ==
  /\ \A a \in Agents :
       /\ SF_vars(PostClaim(a))
       /\ SF_vars(ClaimAnswered(a))
       /\ \A kind \in {"claim", "renew", "complete"} : WF_vars(PostEnds(a, kind))
       /\ WF_vars(\E result \in Settled : FinishExecution(a, result))
       /\ WF_vars(\E h \in Handle : RenewTimer(a, h))
       /\ WF_vars(RenewLoopEnded(a))
       /\ WF_vars(Exit(a))
       /\ WF_vars(\E p \in Profiles : AgentStart(a, p))
  /\ WF_vars(\E r \in requests : CompleteEvidence(r) \/ CompleteInterrupted(r))
  /\ \A j \in JobIds : WF_vars(UnrenewedLeaseExpires(j))

FairSpec == Spec /\ Fairness
-----------------------------------------------------------------------------
(* Properties.                                                             *)

(* A job whose operation may have side effects is leased once, and once    *)
(* more for each explicit retry: "lease loss requires explicit recovery    *)
(* before retry" (node-retry-policy.ts), whatever expires, is lost, comes  *)
(* late or restarts.                                                       *)
ManualNotReplayed ==
  \A j \in Rows : jobs[j].policy = "manual" => jobs[j].attempts <= retries[j] + 1

(* Two agents execute the same job at the same time only if the job is     *)
(* replay-safe or an operator released it meanwhile (nodes.ts claim,       *)
(* recover, retryJob against the workLoop of an agent that lost its lease).*)
NoConcurrentSideEffects ==
  \A a, b \in Agents :
    /\ a # b
    /\ lane[a] = "executing" /\ lane[b] = "executing"
    /\ held[a].job = held[b].job
    => jobs[held[a].job].policy = "automatic" \/ retries[held[a].job] > 0

(* A row takes a result only from its last lease, the evidence row agrees  *)
(* with the status, and a settled row is never leased again (complete's    *)
(* token test; a result of an abandoned attempt must not settle the job).  *)
ResultOfLastAttempt ==
  \A j \in Rows :
    /\ (jobs[j].status \in Settled) <=> (settledBy[j] # 0)
    /\ settledBy[j] # 0 => settledBy[j] = jobs[j].attempts
    /\ jobs[j].evidence = "pass" => jobs[j].status = "completed"
    /\ jobs[j].evidence = "fail" => jobs[j].status = "failed"

(* An agent works for a lease the control plane granted to it alone: no    *)
(* two agents ever hold the same token, and nobody holds the token of a    *)
(* lease that was not granted yet (claim's fresh token, FOR UPDATE SKIP    *)
(* LOCKED, late and lost answers).                                         *)
OneHolderPerLease ==
  /\ \A a, b \in Agents : a # b /\ held[a] # NoHandle => held[a] # held[b]
  /\ \A a \in Agents :
       held[a] # NoHandle => held[a].attempt <= jobs[held[a].job].attempts

(* A holder that lost its lease for good can do no more with its token: a  *)
(* renewal or a result of an earlier attempt, however late, leaves the row *)
(* of a job that was handed out again as it is.                            *)
StaleHolderIsRefused ==
  [][\A r \in requests :
       /\ r \notin requests'
       /\ r.handle # NoHandle
       /\ r.handle.attempt < jobs[r.handle.job].attempts
       => jobs'[r.handle.job] = jobs[r.handle.job]]_vars

(* An agent that executes and still counts itself the holder has the       *)
(* renewLoop of that job running, unless it was told to stop (node-main.ts *)
(* workLoop and renewLoop share `current').                                *)
HolderKeepsRenewing ==
  \A a \in Agents :
    lane[a] = "executing" /\ current[a] = held[a] /\ ~stopped[a]
    => held[a] \in napping[a] \cup posting[a]

(* completed and failed are final: no late complete, renewal, recovery,    *)
(* retry or claim changes a settled row's status, result or attempts.      *)
SettledIsFinal ==
  [][\A j \in JobIds : jobs[j].status \in Settled =>
       /\ jobs'[j].status = jobs[j].status
       /\ jobs'[j].attempts = jobs[j].attempts
       /\ settledBy'[j] = settledBy[j]]_vars

(* No job is forgotten: a queued job is handed out, and a leased one is    *)
(* settled, parked for an operator or handed out again, whatever crashes   *)
(* and losses (claim's call of recover is all that finds dead leases).     *)
(* Attempts beyond the bound are not followed.                             *)
EveryJobMovesOn ==
  \A j \in JobIds : \A k \in 0..(MaxAttempts - 1) :
    (jobs[j].status \in {"queued", "leased"} /\ jobs[j].attempts = k)
      ~> (jobs[j].status \in Settled \cup {"recovery_required"} \/ jobs[j].attempts > k)

(* The protocol implements the ledger that JobLedger specifies.            *)
Phase(j) ==
  CASE jobs[j].status = "absent" -> "none"
    [] jobs[j].status = "queued" -> "waiting"
    [] jobs[j].status = "leased" -> "held"
    [] jobs[j].status = "recovery_required" -> "parked"
    [] OTHER -> "done"

Ledger == INSTANCE JobLedger WITH
  Jobs <- JobIds,
  phase <- [j \in JobIds |-> Phase(j)],
  policy <- [j \in JobIds |-> jobs[j].policy],
  handouts <- [j \in JobIds |-> jobs[j].attempts],
  releases <- retries

ImplementsLedger == Ledger!Spec
=============================================================================
