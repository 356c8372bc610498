# Formal verification of FS Engineering Remote v3

TLA+ models of the parts of this repository that coordinate concurrent work, TLC runs that check
them on small instances, and TLAPS proofs that hold for every instance. File names without a
directory are under `src/src/`; `nodes.ts:18` is a line of that file. Many of these sources put whole methods
on one line, so a line number often stands for a method.

1. [Inventory](#1-inventory)
2. [The modules and how they correspond to the code](#2-the-modules-and-how-they-correspond-to-the-code)
3. [What the runs check](#3-what-the-runs-check)
4. [Fairness](#4-fairness)
5. [What is proved](#5-what-is-proved)
6. [Divergences between code and documents](#6-divergences-between-code-and-documents)
7. [Mistakes the properties reject](#7-mistakes-the-properties-reject)
8. [Plan](#8-plan)
9. [Not modelled](#9-not-modelled)

To repeat a run: `tlc -config DatabaseStores.cfg MCDatabaseStores.tla`. To repeat a proof:
`tlapm WorkQueueProofs.tla`.

## 1. Inventory

A control plane (`index.ts`, `http.ts`, `server.ts`, `actions.ts`, `operations.ts`) offers missions,
work, nodes, execution sessions and accounts over MCP and REST. Executor processes
(`executor-main.ts`) drive missions and work off a queue. Node agents (`node-main.ts`) on users'
machines connect outbound and execute jobs. They share one Postgres database (`db.ts`, `pg-state.ts`);
without `DATABASE_URL` missions and work items are JSON files instead. Skills bundled for agents
(`src/agent/skills`) bring programs of their own: the context keeper and the terminal opener.

| Component | State | Operations | Interacts with |
|---|---|---|---|
| Node job protocol (`nodes.ts`, `node-http.ts`, `node-main.ts`) | rows of `execution_nodes` and `node_jobs`, evidence; in the agent `current`, `stopped`, one `renewLoop` per job | register, heartbeat, enqueue, claim, renew, complete, recover, retryJob; the agent's three loops | agents by HTTP post with a 15 s timeout; the plan compiler enqueues |
| Work queue and executor (`workers.ts`, `executor.ts`) | work items with status, attempts, lease, result; per executor the running item, its timer and AbortController | enqueue, claim, heartbeat, complete, fail, recover, cancel | executors and API clients share the store; the orchestrator enqueues and reads |
| Missions (`missions.ts`) | a mission's status, current step, metadata; its steps' status and attempts; evidence, events | create, start, next, approve, verify, block, resume, interrupt, cancel, requirementChallenge, overrideRequirement, setAlias | API requests and supervisors call it concurrently |
| Supervision (`executor-main.ts:179-216`, `continuous-supervisor.ts`, `supervisor-lease.ts`, `stop-policy.ts`) | `mission_supervisor_leases`; per process `activeMissions`, `stopped`, a cycle count | scan, acquire, renew, release, cycle, resume, stop | the orchestrator and missions; other executors through the lease |
| Orchestrator (`orchestrator.ts` and the gates it calls) | none of its own | advance, reconcile | missions, work queue, evidence |
| Work handlers (`executor-main.ts:40-174`, `plans.ts`, `execution-router.ts`, `hosted-git-executor.ts`) | child work items, node jobs, working copies | one handler per work kind | queue, nodes, git, model providers |
| Review council (`council*.ts`, `reasoning.ts`) | a checkpoint file with a seat per role and chunk | create, updateSeat, runBatch, resumeUntilTerminal, complete | model gateway |
| Execution sessions (`processes.ts`) | `jobs` by process ID, `sessions` by session ID, a metadata and a log file per session; run calls | start, read, list, write, stop, cancel, run; reconcile and prune at start-up | the operating system's processes and their events |
| Runtime ownership (`runtime-ownership.ts`, `index.ts`, `config.ts`) | `runtime-ownership.json`, the listening port | configure, acquire, serve, stop, release | a second runtime in the same directory; signals |
| Context keeper (`agent/skills/core/ck`) | `projects.json`, per project `context.json` and `CONTEXT.md`, `current-session.json`, native memory | save, init, forget, migrate, the session hook | commands of other conversations, through the files |
| Workspace tools (`operations.ts`) | files of a root, recovery checkpoint, current task and project context under `.agent` | write, edit, patch, bounded edit, check, commit, deploy, ensure, stop | users who edit the same files |
| Browser sessions (`browser.ts`) | `sessions` by ID, `nextId`, a manager per OAuth request | start, navigate, use, close, eviction | playwright's browsers |
| HTTP surface (`http.ts`, `actions.ts`, `oauth-http.ts`) | authorization codes, access tokens | hook, authenticate, scope, act, exchange | every operation, in the name of a user |
| Skill catalogue (`skills.ts`, `scripts/build-skill-registry.mjs`) | `registry.json`, the index a catalogue holds | list, read, evaluate, resources, build | whoever edits the skills |
| Diagnostics (`diagnostics.ts`) | none of its own | five probes in order | tunnel, public address, API |
| Terminal opener (`terminal-opener/scripts/open-terminal.js`) | one command line | parse, validate, probe, launch | the terminal's multiplexer and process |
| Accounts (`auth-store.ts`, `user-platform-http.ts`) | users, memberships, sessions, invitations, reset tokens | invite, signup, login, logout, setRole, setStatus, reset | all requests through the tenant context |
| Quotas (`accounting*.ts`, `rate-limit.ts`) | `execution_usage`, sliding windows | gate, record, allow | work handlers, nodes, HTTP |
| Models (`model-*.ts`, `provider-health.ts`, `reviewer-*.ts`) | health samples, a reviewer catalogue | route, fall back, measure, select | network |
| Decision learning (`decision-*.ts`) | append-only files of experiences and data sets | capture, train, evaluate | the orchestrator, which ignores its failures |
| Schemas, pages, local helpers, benchmarks | none that outlives a request, or stored reports | schemas, path checks, git, rankings | everything above |

What is hard in them, and what makes them right:

* **Node jobs.** Posts are lost, late and repeated; leases end while the agent still works; several
  processes of one node, before and after a restart, hold credentials of different age; two jobs
  share one global `current`. Right means: an operation with side effects is not repeated unless an
  operator says so; a result settles the lease it was produced under and nothing else; settled is
  final; no job is forgotten.
* **Work queue.** Every operation but the database's claim reads, decides and writes a whole copy
  without a version check, and an executor's timer does so while its handler runs. Right means: the
  attempt budget holds, a result belongs to the attempt stored with it, an expired lease is taken back.
* **Missions.** The same read-decide-write with any two calls, and a get that is two queries. Right
  means: nothing that needs approval runs without one, attempts stay within the limit that was asked
  for, completed means that every step is. A stale copy that is saved brings a step back as it was,
  so the first two hold only but for such saves, each of which gives away one run (section 6).
* **Supervision.** Processes crash and stop, scans overlap, users interrupt between two awaits of the
  supervisor. Right means: one supervisor at a time, no active mission without one for ever, and a
  mission that waits for its user waits.
* **Execution sessions.** Output, exit and close are three events; descendants outlive the process
  that was killed; process IDs are reused; the runtime restarts under the children. Right means: who
  is told that a command has finished has all its output, and a reported end never changes.
* **Orchestrator.** It decides by lists it read awaits ago, is called every 1.5 seconds, after every
  crash and, without any lock, by users, and finds work and evidence of earlier attempts among that of
  the current one. Right means: one call decides nothing twice, failures lead somewhere, and success
  rests on evidence.
* **Context keeper.** Commands without locks write several files each, one after the other. Right
  means: projects do not share a directory, a session is entered once, what was saved stays readable,
  and the next conversation is told the truth about it.
* **Workspace tools.** Calls and users edit one file, a failed check rolls back, notes are read and
  merged. Right means: what others finished is not taken back, the fields that a save carries over
  stay as they were recorded, nothing dangerous runs without a checkpoint.
* **Browsers, runtime ownership, HTTP surface, skills, diagnostics, terminal.** Awaits between a test
  and its effect, starts and stops that overlap, a code posted twice, an index that is being written,
  links that change during a diagnosis, errors that arrive after the answer.
* **Council.** Seats save one file concurrently; adjudication must wait for all of them and must come.
  **Accounts.** Overlapping transactions must not leave a workspace without an owner. **Quotas.** What
  the gate admits is not yet counted. These are not modelled (sections 8 and 9).

`PROJECT.json` lists every component with its files and status, and under `hazards` the hardest of these
difficulties at its line, with the properties that cover it or the reason why none does.

## 2. The modules and how they correspond to the code

For each component `M`: `M.tla` is the specification, `MProofs.tla` holds its theorems, `MCM.tla` gives
its constants values for TLC, and `M*.cfg` are the runs. Three MC modules put components that share no
state into one run, one of which is at work in each behaviour while the others stay as they are:
`MCDatabaseStores` (WorkQueue and Missions with a database), `MCFileStores` (Missions and WorkQueue with files) and
`MCTools` (TerminalOpener, Browsers, Runtime, Diagnostics, Skills, Actions, Workspace). `WorkQueueProofs`
and `ToolsProofs` extend `MCDatabaseStores` and `MCTools`, so that their theorems are about what the
runs check; `MCDatabaseStores` instantiates `MissionsProofs`, to have its lemmas for the mission
beside the queue. A definition's lines in the code are in
`PROJECT.json` under `map`. Conventions that all modules share:

* One action per operation or per stretch of code between two awaits. Between them anything else
  may happen.
* Time occurs only in comparisons with a deadline, so a lease has a truth value (`live`) and an action
  that ends it at any moment. No property depends on how long anything takes.
* A random token is the number of its grant: fresh and different from all others.
* Variables marked `history` do not influence any action; properties need them. Constants marked
  `bound` only keep TLC's state space finite; they occur in guards and the theorems hold for every
  value of them.
* Operators named `Bug_...` are not used by any specification (section 7).

### NodeJobs and JobLedger

`NodeJobs` is `nodes.ts` together with the agent of `node-main.ts`. A row of `node_jobs` is a record
`jobs[j]`; its `token` is the number of the attempt that drew it, 0 for NULL. `requests` are HTTP
posts; the control plane handles a request in one step that also delivers the answer, except that
`complete` updates the row (`CompleteRow`) and inserts evidence (`CompleteEvidence`) separately and
may stop in between. A post that its client gave up stays as a late request and may still be
handled; one whose answer is lost is the same. The agent's `workLoop` is `lane` and `held`, its
global `current` is `current`, and its renew loops are the handles in `napping` (in their timeout)
and `posting`. Both loops' catch blocks are `ClientError`, which clears `current` as the code does.
Registration rotates `cred`; `profile` is what a process really is and `reported` what the node row
says. `JobLedger` is the abstract promise: a job waits, is held, and is settled or taken back, to
wait again if it may be replayed and to be parked if not. `Ledger` in `NodeJobs` is the refinement
mapping.

### Missions

A call gets the mission (`Getting`, `Got`: two steps with a database, one with files), decides on its
copy, and saves the whole copy (`Save`) or throws. Each method of `MissionManager` is one action
whose result is an operator of its own (`Advanced`, `Passed`, ...). `approvals` and `reopened` count
what users granted, and `runs` how often a save made a step run (`Revived`), which the stored
`attempts` do not tell: a copy is `overtaken` when another call saves after it was decided, and the
save of one, counted in `overtakes`, may put the stored attempts back. `block` and `interrupt` differ only in metadata, and are one action here.

### WorkQueue

One item. An executor has a main lane (`lane`: claim, execute, complete or fail) and its heartbeat
timer; an API client recovers or cancels. A handler that returns adds evidence and usage before its
worker completes (`HandlerReturns`, then `Complete`). `saves[c]` is the copy that caller `c` is about to write.
`Database` chooses between the claim transaction of `pg-state.ts:16` and the file store's
recover, list and save. Failing saves and crashes are faults.

### Supervision

A loop is a call of `scanMissions` that becomes a `runMission`; `ProcessOf` says in which process. A
scan passes its tests (`Scan`), waits for reviewer readiness, and then acquires (`Begin`), so that two
scans of one process may both get through. A cycle renews (`Cycle`), calls the orchestrator
(`Advise`), and on a recoverable outcome resumes the mission in a step of its own (`Resume`).
`registered` is the process's `activeMissions` entry, `lease` the row. The mission's `interrupted` and
`challenged` are the metadata that make a blocked mission wait for its user (`StopClass`); the third
boundary that `stop-policy.ts` knows, `accessBlocker`, is set nowhere in the code. `Outcomes` is all that
`advance` and `reconcile` can make of a mission, including that a first cycle may revive a cancelled
or failed one through `missions.next`. `SupervisorLock` is what the lease promises, without rows,
owners and times: a lock that passes from one process to another only by way of a moment in which
nobody has it, and that may break for good. `Lock` in `Supervision` is the refinement mapping: the
lock's holders are the processes within their time, and it breaks when a process runs the mission
twice at once.

### ExecSessions

`child` and `printed` are the operating system: processes print, exit, leave descendants on the pipes
and free their IDs. `heard` counts the data events handled. `job`, `byPid` are the runtime's maps,
`file`, `log`, `newer` its files and their order by activity. `Data`, `Close`, `Stop`, `Cancel`,
`WriteSession` and `Poll` are the handlers; `StartUp` reconciles and prunes; `GoDown` is a stop or
crash, which the children survive. `Run...` are the lanes of a foreground `run`.

### Orchestrator

`MissionOrchestrator` and the gates it calls, for a mission of one step. A caller `c` is the supervisor
or a tool call of a user: `at[c]` is the await at which its call stands, `listed[c]` the work it has read
and `judged[c]` how much of the evidence. It decides by these copies while workers, clients, users and the
other callers change `work`, `evidence` and `mission`. `Cycle` and `FirstCycle` begin what the supervisor asks
for, `ToolCall` what a user does (`autonomous_reconcile`, `autonomous_advance`, `operations.ts:262`), at any
time, for nothing keeps them apart; `peak` is how many calls have overlapped. `AdvanceList`,
`AdvanceDone`, `AdvanceJudge` and `Plan` are `advance`, `Reconcile`, `List`, `Gather` and the decisions
after it are `reconcile`, one action per branch.
The mission changes by the operators of `Missions` (`INSTANCE M`), each at once: that the calls of
missions overlap is the subject of that module. `Reason`, `Execute` (with the hosted kinds) and
`GivesUp` are the executors' handlers by what they leave behind; `database` says where evidence is
looked for, and `goal` what the wording of the goal decides. `Reliable`, `MissingRuns`, `Streak`,
`Ready` and `PastRemedy` are the gates of `reliability.ts`, `remediation.ts` and
`remediation-cycle.ts` over the sequences read.

### ContextKeeper

A command is a process `cmd[c]` with the registry it read, the context it drafts and the place between
two file operations where it is. A file that is torn or just being written reads as missing, as
`readJson` has it. `talk[t]` is a conversation: its project, whether it saved, and whom the hook told
it was unsaved. `LegacyIndex` is what version 1 left for `migrate`, and `LegacyPath` the path that its
`meta.json` names, which `migrate` prefers to the registry's. `Die` stops a command between two writes
or within one, or fails the write, after which `migrate` goes on with the next project (`GoesOn`).
`RemovePartly` is a `forget` that fails or dies in its recursive removal. `cut` are the directories that
a command so left.

### The parts of MCTools

* `TerminalOpener`: a command line is a sequence of words and `Parse` takes one option at a time;
  `Validate`, `Probe`, `Mux`, `Detach` and the late `ReportDetachedError` follow `main`. What comes
  first in `main` comes first in `Chosen` and `Probe`: they nest IFs, because the arms of a CASE have
  no order, and a proof about overlapping ones fails where TLC takes the first.
* `Browsers`: a call is at one of the awaits of `start`, `close` or a use; OAuth clients' calls have a
  manager of their own, which ends with the call.
* `Runtime`: a process is at one of the awaits of its start (`start`) and of its stop (`stop`), which
  may overlap; the record is truncated (`Torn`) before it is written.
* `Diagnostics`: `step` is the probe that is next; `Change` may take any link away or bring it back.
* `Skills`: a call walks its file operations one by one; `Edit` changes the skills, the build script
  scans them and writes the index in two steps. A requested name is trimmed (`Candidate`), and refused
  when it begins with two dots (`Readable`); `Trimmed` and `Dotted` say which names these are.
* `Actions`: a request is at the hook, the authentication, the handler or the operation, or at the two
  halves of the transaction that exchanges a code. `acted` remembers each operation with its route, who
  called it and for whom it acted; `Required` is the scope that a route asks for, and most ask for none.
* `Workspace`: the text of the one file is the set of edits in it, so a hash is the text. A call is at
  an await of its tool; temporary files have the names the clock gives them, and notes under `.agent`
  are sets of fields with the call that gave them. A save of the project context carries over the
  fields it is not given (`TakesOver`, `Records`), but not `client` and `metadata` (`Carried`).

## 3. What the runs check

Each run is one question. State counts are those of TLC.

| Run | Instance | Properties | What it shows |
|---|---|---|---|
| `node_jobs` | one node, two agent processes, one job (replay-safe or not), 2 leases, 2 rotations, 1 late request; 309k states | `TypeOK`, `ManualNotReplayed`, `NoConcurrentSideEffects`, `ResultOfLastAttempt`, `OneHolderPerLease`, `StaleHolderIsRefused`, `ImplementsLedger` | an unsafe job is leased once per release; nobody but the last holder settles it; `JobLedger` is implemented |
| `node_jobs_mixed` | one agent, two jobs, idempotency key, all profiles, stop signal; 504k | `HolderKeepsRenewing` | two jobs share `current`; a holder's renewals go on |
| `node_jobs_live` | one agent with crashes and stops, 3 leases, fair; 79k | `EveryJobMovesOn` | no queued or leased job is forgotten |
| `database_stores` | database; one approval-marked step with two overlapping calls, 1 save of an overtaken copy; two executors and an API client of one item, 2 attempts, 4 grants, 2 faults; 1.83M | `TypeOK`, `ApprovedBeforeRunning`, `AttemptBudget`, `BoundedAttempts`, `ResultOfItsAttempt` | torn gets grant no attempt and the save of a stale copy one run at most; stale copies of items break neither budget nor results |
| `file_stores` | files; two steps with two calls, 1 save of an overtaken copy; two executors of one item, 3 grants, 1 fault, fair; 963k | `TypeOK`, `CompletedWhenDone`, `ExpiredLeaseRecovered` | lost updates never complete an unfinished mission; claim takes every expired lease back |
| `work_queue_stuck` | one executor, database, fair | `ExpiredLeaseRecovered` (violated) | section 6 |
| `orchestrator` | one step of 2 attempts, the supervisor and a user as callers, 9 work items, 2 records of evidence, 2 interventions of users, clients or crashes, fair; 1.06M | `WorkBounded`, `FailureSettles` | no more decisions are under way than calls overlapped; a step whose work failed does not stay running, but behind an item that stays leased in a database |
| `orchestrator_unverified` | 3 work items, 2 records, 1 intervention | `NoInventedSuccess` (violated) | section 6 |
| `supervision` | two processes, one of them with two overlapping scans, 1 fault, 1 request, fair; 510k | `OneSupervisor`, `ImplementsLock`, `ActiveIsSupervised` | the lease is a lock, keeps supervisors apart and brings one back |
| `exec_sessions` | one session, one run call, two process IDs, output cap 1, 2 records, 2 restarts; 517k | `TypeOK`, `NothingMissed`, `EndedStaysEnded` | a reported exit comes with all the output, and stays |
| `context_keeper` | two projects of one name, one left by version 1; two conversations, two overlapping commands of 4, 2 deaths or failures; 2.12M | `UniqueDirs`, `OneEntryPerSession`, `RegisteredIsReadable`, `SavedIsKept`, `NoFalseAlarm` | overlapping and dying commands give no directory or entry twice; without overlap, saved sessions stay readable unless a command died within the write of `context.json` itself, and the hook raises no false alarm |
| `tools` | each part of `MCTools` by itself: command lines of 4 words; two shared clients and one of OAuth, 3 browsers, limit 1; three processes, 1 kill; 2 changes during a diagnosis; one skill of 3 resources, one with an outer blank and one with leading dots, 2 edits; one user, 2 requests at a time of 3; two workspace calls, 2 edits of users, 1 fault; 1.80M in all | `TypeOK`, `LaunchIsRight`, `BrowsersAreInReach`, `LeaseNamesRuntime`, `DiagnosisIsRight`, `ListedIsReadable`, `CallsAreOwned`, `EditsSurvive`, `ContextKept`, `CoveredByCheckpoint` | each tool's answer agrees with what was done |

Why the bounds are enough to be worth checking, and what they leave to the proofs:

* *Two actors*: every hazard listed needs a holder and one other party (an earlier holder, a timer, a
  client, a second process). The executors count twice each, for their timers save on their own. A
  third process makes no new pair; the theorems hold for any number. `Runtime` has three processes: one
  that serves, one that was killed and one that is refused.
* *Two leases or attempts*: enough for an earlier and a later holder, three where liveness must see a
  job taken back twice. `MaxGrants = 4` with `MaxAttempts = 2` lets stale copies bring grants back
  that no counter remembers.
* *One late request*: one stale post at a time meets every state of the row; the post it is late for
  may itself be a renewal, a claim or a result.
* *Two records and a cap of one*: one record below the cap and one above. *Two restarts*: a session
  reconciled once and reconciled again.
* *One fault and one request* in `supervision` cross every place of a cycle; a second meets the same
  places, and the safety theorems hold for any number of both.
* *One save of an overtaken copy* in `database_stores` and `file_stores`: each is counted, a second repeats
  what the first does, and the theorems, `CompletionHonest` among them, hold for any number.
* *Two callers, nine work items and two records* in `orchestrator`: a plan and its action, repeats, a
  council and a remedy, a second plan after a failed attempt, and the second of each that an overlapping
  call gives. Three passes in a row, which end the repeats of a critical step, take three records: with
  three, `WorkBounded` held over 2.9M states, and both properties with one intervention less; these
  instances are left out for their time.
  `FailureSettles` asks only where the bound leaves room for what the remaining attempts and calls may
  enqueue (`HasRoom`), so that the bound settles nothing.
* *Four commands* in `context_keeper`: an init, a save and two that overlap either; three of them may
  overlap, and *two deaths* let one command find what another left. *Four words* of a command line hold
  two options, `--` and a command.
* *A limit of one browser* makes every second start evict or be refused. *Two temporary-file times* let
  names be equal and different.
* In `exec_sessions` two sessions never run; two sessions without a run call (1.5M states), and two
  with one (4.0M), were checked with the same result and are left out for their time.

Several properties hold only as long as processes do not overlap (`overlapped`, `mixed`, `clash`), or
count what overlaps cost (`overtakes`, `peak`), and say so: what they are about has no lock, and section 6
has what overlapping calls do to it. The other sequences, with crashes, torn files, users and restarts in
every place, are what they are checked against; `UniqueDirs`, `OneEntryPerSession`, `CompletedWhenDone`
with files, and the properties of items hold with overlap.

Symmetry is used where processes or calls are interchangeable and no liveness is asked of them. In
`file_stores`, which has a liveness property, it permutes the calls of the mission only, and the
property is about the item, which does not move in the behaviours in which the mission does.

Deadlock is not checked: every bound makes the system stop somewhere, and a job that is settled or a
mission that is completed is a legitimate end.

## 4. Fairness

* `NodeJobs!Fairness`: every post ends within its timeout, the loops of a live agent go on, a dead
  agent is started again (the installed service does that), a lease that nobody renews runs out. An
  agent that comes up again and again posts a claim, and of claims posted again and again one is
  answered (strong fairness): otherwise a network that loses every claim would be fair. Nothing is
  assumed of results, which may be lost each time.
* `WorkQueue!FairSpec`, and the same in `MCFileStores!StoresSpec` for the part that is at work: a started executor's awaited calls return and its poll fires (weak fairness
  of its main lane and of its timer's save). Crashes need no fairness: they may never happen.
* `Supervision!FairSpec`: processes are started again, the scan timer fires, awaits return, a stopped
  process exits, and the lease of a process that is gone runs out, which is the clock. A lease whose
  holder lives need not run out.
* `Orchestrator!Spec`: the supervisor's cycles go on (scans come every 3 seconds, reconciles every
  1.5, and the awaits between return). Without a database each work item goes on and ends, too: executors
  poll every 2 seconds and recover before they claim. With a database nothing is assumed of items, for
  there one may stay leased for ever (section 6, `work_queue_stuck`), and `FailureSettles` then allows that
  some item stays under way for good. Users' tool calls, clients, nodes and crashes need no fairness. The first cycle, which follows a crash or a
  restart, needs none either.

## 5. What is proved

`NodeJobsProofs`, `MissionsProofs`, `WorkQueueProofs`, `ExecSessionsProofs`, `SupervisionProofs`,
`OrchestratorProofs`, `ContextKeeperProofs` and `ToolsProofs` are checked by TLAPS without omissions
(`ToolsProofs` takes some twelve minutes, the others at most two or three). They assume only the
`ASSUME`s of the modules, which TLC evaluates on every run: constants have their types, special
values are distinct, at least one browser is allowed, and the browser's clients and the
orchestrator's callers are finitely many. All
bounds are arbitrary naturals. Two hypotheses are stated where they are used: `~Database` and
`Root \notin Dirs` (below).

| Theorem | Property |
|---|---|
| `Invariance`, `TypeCorrect` | `IInv`, `TypeOK` of NodeJobs |
| `ManualJobsAreNotReplayed`, `LeasesHaveOneHolder`, `SideEffectsAreNotConcurrent`, `ResultsAreOfTheLastAttempt`, `HoldersKeepRenewing` | the safety invariants of NodeJobs |
| `StaleHoldersAreRefused` | `StaleHolderIsRefused` |
| `SettledRowsAreFinal` | `SettledIsFinal`, which `ImplementsLedger` implies and no run repeats |
| `LedgerImplemented` | `ImplementsLedger`: NodeJobs refines JobLedger |
| `MissionInvariant`, `MissionTypes`, `ApprovalsRespected`, `AttemptsBounded` | `IInv`, `TypeOK`, `ApprovedBeforeRunning`, `AttemptBudget` |
| `CompletionHonest` | `CompletedWhenDone`, assuming `~Database` |
| `QueueInvariant`, `QueueTypes`, `AttemptsStayBounded`, `ResultsBelong` | `IInv`, `TypeOK`, `BoundedAttempts`, `ResultOfItsAttempt`, with a database or without |
| `StoredApprovalsRespected`, `StoredAttemptsBounded` | `ApprovedBeforeRunning` and `AttemptBudget` in `MCDatabaseStores`, beside the queue |
| `SessionsInvariant`, `SessionsTypes`, `OutputComplete`, `EndsAreFinal` | `IndInv`, `TypeOK`, `NothingMissed`, `EndedStaysEnded` |
| `SupervisionInvariant`, `SupervisionTypes`, `SupervisorIsAlone` | `IInv`, `TypeOK` (no run repeats it), `OneSupervisor` |
| `LockImplemented` | `ImplementsLock`: Supervision refines SupervisorLock |
| `OrchestratorInvariant`, `WorkStaysBounded` | `IInv`, `WorkBounded` |
| `KeeperInvariant`, `DirsAreUnique`, `SessionsAreRecordedOnce` | `IInv`, `UniqueDirs`, `OneEntryPerSession` |
| `SoloInvariant`, `ProjectsAreReadable`, `SavesAreKept`, `AlarmsAreTrue` | `SoloInv`, `RegisteredIsReadable`, `SavedIsKept`, `NoFalseAlarm`, assuming `Root \notin Dirs` |
| `Typed` | `TypeOK` of `MCTools`: that of whichever part runs |
| `Launches` | `LaunchIsRight` |
| `Reached` | `BrowsersAreInReach` |
| `LeaseNamed` | `LeaseNamesRuntime` |
| `Diagnosed` | `DiagnosisIsRight` |
| `Offers` | `ListedIsReadable` |
| `OwnedCalls` | `CallsAreOwned` |
| `Survives`, `Merges`, `Covered` | `EditsSurvive`, `ContextKept`, `CoveredByCheckpoint` |

None of the safety properties is inductive as it stands. The arguments:

* **NodeJobs.** `OneHolderPerLease` and `ResultOfLastAttempt` need to know when a row has a token and
  which one. `RowsOK` ties a row's token, counters, result and evidence to its status (exactly a leased
  row has a token, that of its last attempt; a manual job was leased as often as it was released, or
  once more). `RequestsOK` says what an answered but unfinished complete knows of its row, `AgentsOK`
  that an agent holds a lease that was granted and that nobody else holds. A fresh lease has a number
  above all earlier ones, so whoever still holds an earlier one is refused. The refinement follows
  action by action from `RowsOK`: only an expired lease is taken back, and only to where its policy
  allows.
* **Missions, WorkQueue.** What is stored is a copy that some call decided on earlier. So the
  invariant asks of every copy about to be saved what it asks of the stored state, against the
  histories as that save will leave them; the histories only grow, so a copy that is sound stays
  sound however long its save takes. A save that overtakes no other continues what is stored: it
  takes no attempt off and needs an approval of its own for a step that comes to run (`Continues`,
  `FreshOK`), so the runs of a step are its attempts on record, and what the counted saves of overtaken
  copies took off (`RunsOK`). In `Missions` this covers torn gets: `StepOK` speaks of one
  step, so steps and row of different saves cannot break it. `CompletedWhenDone` relates the two and
  is therefore proved for the file store only.
* **ExecSessions.** A session that has exited has had its close event, which the system delivers when
  the pipes are at their end, so everything printed was heard, and everything heard is in the log up
  to the cap. The invariant carries this from the processes to the job (`JobOK`), its files (`DiskOK`)
  and the client's last answer (`AnswerOK`), so that it survives restarts, when only the files remain.
* **Supervision.** `HolderOwnsRow`: who is within its time owns the live row, so acquire and renew
  succeed for nobody else. It needs `OneLoop`: a process that runs the mission once releases no row
  under a second run of its own. Both hold until scans overlap (`overlapped`). The refinement rests on
  the same two: before a step the processes within their time are one or none; acquire and renew
  leave just the caller, whom they find alone or the lock free (`TakingSteps`), and every other step
  takes the one away or leaves it (`LosingSteps`).
* **Orchestrator.** What it enqueues it decided some awaits ago, and another call may have decided the
  same. `IInv` counts: the decisions under way and the callers that found nothing under way and may
  still enqueue one (`Deciders`) are together no more than the calls that overlapped at some time
  (`peak`); for when a caller comes to be one, it has just found no work at all, and callers that are busy are
  within `peak`. While none ever overlapped (`Alone`), the list that the one call judges by names the
  items there are, whatever became of them since, so it sees every repeat there is, and the gate asks
  for three at most (`RunsMissing`, `RepeatsKeep`).
* **ContextKeeper.** The files have no lock, so a command may write back a registry or a context that
  others changed meanwhile. The invariant asks of every copy that a running command holds what it asks
  of the files: no directory twice (`GoodJob`, `GoodFiles`), no session twice. A copy that replaces the
  file then keeps both, and a torn file, read as empty, has them as well.
* **ContextKeeper, without overlap.** `SoloInv` is about the time before two commands first overlap.
  `Solo` says that at most one command is at work, what its copy has to do with the files at each
  place where it may stand or die (`InitJob`, `SaveJob`, `ForgetJob`, `MigrateJob`), and that every
  registered project is `Kept`: its context is whole, or the command at work has written one of its
  two files (`Half`), or a dead command left it so (`cut`); and it holds every session it owes, among
  them that of the conversation that started last, if it was saved, in a directory that was cut, too,
  as long as its `context.json` is there. The hook's claim is an action
  property and follows from the same invariant. `Root \notin Dirs` leaves out the names without a
  letter or digit, whose directory is that of all contexts, which `forget` removes (section 6); the
  run leaves them out too.
* **Tools.** In a behaviour of `MCTools` one part runs, so each theorem is `part = "x" => XInv` with an
  inductive invariant of that part, and the steps of the others leave it alone.
  * *Launches* (`OpenerInv`): options may come in any number and order, with a `--` at any place, so
    `Scanned` says what the options read so far come from; `Stages` says how far a launch is and what it
    did on the way there, late errors included.
  * *Reached* (`BrowsersInv`): the ID that `start` takes is read before an await, so uniqueness is a
    count: `IdsGoUp` has as many browsers as IDs given and pages to be opened, which takes
    cardinalities of finite sets. `InReach` accounts for each browser that runs by a session, a page
    to be opened, or as an orphan.
  * *LeaseNamed* (`ProcessInv`): as long as no two processes were busy together, one is busy at most,
    none while one serves, and the record is of the one that goes on to serve.
  * *Diagnosed* (`LinksInv`): a probe that passed proves its link was up at that time.
  * *Offers* (`SkillsInv`): the name that is read is the one listed where trimming and the test for leading
    dots leave it alone, and the formula excepts the others; what a walk has found and what is still to
    come cover the skill, as long as it is not edited (`WalkIsTrue`); the counting of a limited list is again one of finite sets.
  * *OwnedCalls* (`SurfaceInv`): a request is for nobody before it is authenticated; one that is about
    to spend a code holds its lock, so no second one reads it as live; each token belongs to a code
    spent on it, and no two to one; and what acted by a route that asks for a scope, did so for a user
    whose code granted it (`GrantsAreKept`, `GrantsStay`).
  * *Survives, Merges, Covered* (`FilesInv`): what a call has read is kept up to what was finished
    since its look (`LooksAreKept`), and what it is about to rename is its own text, unless names
    clashed. Marks are used once (`OwnMarks`). A save of the context that is alone holds from its load on what the
    file holds (`NotesAreKept`). `GoodCall` says which tool may stand at which await.

Only model-checked:

* the liveness properties (`EveryJobMovesOn`, `ExpiredLeaseRecovered`, `ActiveIsSupervised`,
  `FailureSettles`), whose fairness needs ENABLED;
* that the bounds of the runs do not hide an action: each action fires in a passing run.

## 6. Divergences between code and documents

Runs that violate what the repository says of itself:

* **An expired lease may stay** (`work_queue_stuck`, `workers.ts:13`, `pg-state.ts:16`). "Expired
  leases are recoverable". With a database `claim` returns before it reaches `recover`, so only an
  executor's start or a request takes a lease back. An executor that restarts before its old lease
  ends leaves the item leased for good, and the mission reports `working`.
* **Success without evidence** (`orchestrator_unverified`, `orchestrator.ts:5`). "Missing or failed
  required checks are not approval." The `advance` of a first cycle passes a step that has completed
  work and no failed evidence, with no evidence at all, too: a plan that enqueued nothing completes
  the mission when the supervisor restarts.

The rest of this section is behaviour that the models have, without a run of its own: the predicate
that excludes it does not hold, or an action of the model is the divergence.

Nodes, queue, missions, supervision, sessions:

* `node-main.ts:8`: one lost or refused renewal, even of an earlier job, clears `current`; the agent
  then withholds the finished result although its lease is still honoured.
* `nodes.ts:18`: a process that speaks an unsupported protocol may claim and execute before its first
  heartbeat, judged by its predecessor's report ("protocol-incompatible node cannot queue or claim
  work", `tests/node-lifecycle.test.ts:7`).
* `workers.ts:18`: "Completed work cannot be cancelled." is tested on the copy `cancel` read, which it
  then saves over a completion; a heartbeat timer's late save (`executor.ts:12`) does the same.
* `missions.ts:20`: `next` does not look at `cancelled`; the first cycle of a supervisor may revive a
  mission that was cancelled after the scan, and so may a `verify` after `cancel`.
* `missions.ts:12`: a save of a stale copy undoes what others saved. It brings a step back as it was, so
  that a step whose approval was used and whose verification failed runs again without another, and
  puts its attempts back, so that it is attempted more often than the limit: once, or one budget, for
  each such save (`overtakes`). A cancel, an interrupt or a verification is lost the same way.
* `missions.ts` with a database: `CompletedWhenDone` does not hold, because `getMission` may join the
  row of one save with the steps of another.
* `executor-main.ts:194`: overlapping scans run one mission twice in one process, with one owner name.
  The first run to end releases the lease under the second, and another process may then acquire it.
  `OneSupervisor` excepts this case; without the exception TLC refutes it.
* `continuous-supervisor.ts:10`: a user's interrupt that is saved between the end of a cycle and the
  supervisor's `resume` is resumed with the rest, although "user, requirements and access boundaries
  remain interaction stops" (`tests/stop-policy.test.ts:3`). A mission whose attempts are spent is
  `failed`, which the stop policy calls recoverable, so it is resumed again and again; if the process
  dies between the two steps it stays failed and no scan picks it up.
* `processes.ts:265`: `exec_cancel` goes by process ID; of two sessions that had the same one the
  later is killed when the earlier is cancelled. `processes.ts:142`: a `run` whose process was killed
  by the timer waits on while a descendant keeps the pipes open.

Orchestrator:

* `operations.ts:262`: a user's `autonomous_advance` or `autonomous_reconcile` takes no lock and no lease, so
  it may run between the supervisor's reads and its enqueue: two plans, remedies or councils may come to
  be under way (`peak`), and more than three repeated verifications of one gate.
* `advance` passes a step without evidence also right after `reconcile` failed the attempt because work
  of it failed, if other work of the step is completed.
* Failed work and failed evidence of earlier attempts stay in what `reconcile` reads (`orchestrator.ts:7`),
  so every later attempt fails too. An approval of an earlier attempt's council stays as well and counts
  for a later one.
* `executor.ts:12` stores the handler's result inside an envelope, and `reconcile` looks for the
  council's verdict outside it: an approval by a council that an executor ran is read as `changes`.
  Only a client that completes the item itself is understood.
* `reliability.ts:2`: once the repeats are spent, missing runs no longer keep a critical step from
  its review.
* `productContractResolved` is set nowhere: an override of a requirement is followed by the same
  challenge.
* `executor-main.ts:197`: whatever a supervisor's call throws is recorded as failed deterministic
  evidence, also where the mission only waits for its user.
* `missions.ts:30`: with a database `addEvidence` still writes a file, while `evidence` (line 31) reads
  the database; only nodes and verifications that write there are found.
* `execution-router.ts:13`: the hosted dispatch of reasoning that is retried is not idempotent, and
  enqueues its actions again.

Context keeper:

* `current-session.json` is global: with two conversations at a time, a save of the first is recorded
  under the ID of the second (`save.mjs:112`). A session saved in another project is reported as unsaved
  (`session-start.mjs:129`).
* A command that dies or fails within the plain write of `context.json` (`shared.mjs:64`) loses all
  sessions of the project; what `migrate` makes of the directory later begins anew. `SavedIsKept` and
  `RegisteredIsReadable` except this missing file. A `forget` that cannot remove all files leaves the
  project registered without some of them (`forget.mjs:32`).
* `save --init` of a registered project starts an empty context: its sessions are gone. `migrate` writes
  over the `CONTEXT.md` of version 1, though "nothing is deleted" (`SKILL.md:119`); only `meta.json` has
  a backup, and a crash between its renaming and the write of the context leaves what it held in the
  backup only.
* A torn `projects.json` reads as empty and is then replaced (`shared.mjs:24`). A crash of `forget` after
  it removed the directory leaves an entry that cannot be forgotten any more.
* A name without a letter or digit gives the directory `contexts/` itself (`save.mjs:57`), which
  `forget` removes with all contexts in it (`forget.mjs:31`).
* The numbers of `list` are resolved against the registry of the moment of `forget` or `resume`.

Workspace tools:

* `operations.ts:436`: a patch compares hashes before its awaited writes and renames afterwards; an
  edit in between is overwritten, though the tool "Prevents overwriting concurrent user/agent changes"
  (`server.ts:273`). Temporary names repeat within a millisecond (`clash`).
* `operations.ts:366`: a failure to read the project context counts as none, and the save that follows
  loses earlier fields. `client` and `metadata` are not carried over at all (`operations.ts:381`). Checkpoints and notes are written in place. Fields of the client are spread last
  over those of the server (`operations.ts:660`).
* `operations.ts:580`: `gitCommit` may throw after it has committed. `operations.ts:498`: checks run, and
  the lifecycle starts containers, on read-only roots. A lifecycle that cannot be read is `persistent`.
* A bounded edit is accepted by a check that may have run on what others wrote meanwhile.

Other tools:

* Terminal opener: a multiplexer that does not answer within ten seconds is killed though the window may
  be open, and the fallback runs the command a second time (`lost` excepts it from `LaunchIsReported`).
* `browser.ts`, `actions.ts:118`: a browser that an OAuth request starts is in a manager that ends with
  the request, so no other call reaches or closes it; one whose page fails stays open (`orphans`). The
  limit is read before awaits, so starts that overlap exceed it. Only `navigate` counts as activity.
* `runtime-ownership.ts:66`: the release reads the record and unlinks it in two steps, and between the
  probe of the port and `listen` another runtime may take it: with overlapping starts and stops a
  runtime may serve without a record. A second signal ends the process with its record left behind.
* `diagnostics.ts:75` takes `FS_REMOTE_HOSTED` as `true`, `http.ts:45` as `1`.
* `skills.ts:197`: a requested name is trimmed, and `skills.ts:73` refuses every path that begins with two
  dots, so a resource whose name has outer blanks or is like `..notes` is listed and cannot be read (or
  another is read for it).
* `actions.ts:118`: of the compact routes those of skills and browser ask for a scope, the others for none;
  `CallsAreOwned` is about scopes where a route asks for one.
* `skills.ts:85`: the runtime's own catalogue never reads the index again, that of an OAuth request
  always does; the index is written in place, and a call that meets it torn fails.

## 7. Mistakes the properties reject

Each `Bug_` operator stands before the definition it would replace and is a plausible mistake in it.
With the replacement, TLC refutes the property named, under the bounds of the property's own run.

| Replaces | By | Mistake | Refuted |
|---|---|---|---|
| `NodeJobs!RetryJob` | `Bug_RetryAnyStatus` | retry without a look at the status | `TypeOK` |
| `NodeJobs!Recovered` | `Bug_RecoverIgnoresPolicy` | requeues whatever expired | `ManualNotReplayed`, `NoConcurrentSideEffects` |
| | `Bug_RecoverParksAll` | parks replay-safe jobs, too | `ImplementsLedger` |
| | `Bug_RecoverNothing` | finds nothing | `EveryJobMovesOn` |
| `NodeJobs!HoldsToken` | `Bug_AnyToken` | no token test | `ResultOfLastAttempt`, `StaleHolderIsRefused` |
| `NodeJobs!FreshLease` | `Bug_TokenReused` | the old token again | `OneHolderPerLease` |
| `NodeJobs!ClientError` | `Bug_RenewErrorKeepsCurrent` | a failed renewal ends its loop only | `HolderKeepsRenewing` |
| `Missions!Failed` | `Bug_AttemptGivenBack`, `Bug_OneAttemptTooMany` | gives the attempt back; `<=` for `<` | `TypeOK`, `AttemptBudget` |
| `Missions!Advanced` | `Bug_NextRunsAnything` | skips the approval | `ApprovedBeforeRunning` |
| `Missions!Passed` | `Bug_NothingPendingIsDone` | completed when no step is pending | `CompletedWhenDone` |
| `WorkQueue!Unleased` | `Bug_LeaseLeft` | the lease stays on the item | `TypeOK` |
| `WorkQueue!FailedItem` | `Bug_OneRetryMore` | off by one | `BoundedAttempts` |
| `WorkQueue!Owned` | `Bug_AnyLease` | no token test | `ResultOfItsAttempt` |
| `WorkQueue!ClaimRecovers` | `Bug_ClaimOnlyLists` | claim without recover | `ExpiredLeaseRecovered` |
| `Orchestrator!Outstanding` | `Bug_Outstanding` | a council under way does not count | `WorkBounded` |
| `Orchestrator!Broken` | `Bug_Excused` | failed work is excused by completed work | `FailureSettles` |
| `Supervision!Released` | `Bug_ReleaseAnyRow` | deletes another's row | `ImplementsLock` |
| `Supervision!MayRenew` | `Bug_RenewAnyOwner` | renews another's lease | `OneSupervisor` |
| `Supervision!MayAcquire` | `Bug_AcquireOnlyFree` | never takes over an expired lease | `ActiveIsSupervised` |
| `ExecSessions!Persisted` | `Bug_CloseNotPersisted` | the end is not written | `TypeOK` |
| `ExecSessions!Drained` | `Bug_ExitEvent` | `exit` for `close` | `NothingMissed` |
| `ExecSessions!StatusAtClose` | `Bug_CloseForgetsKill` | a killed session exits | `EndedStaysEnded` |
| `ContextKeeper!Free` | `Bug_FreeIfNew` | a new project takes any directory | `UniqueDirs` |
| `ContextKeeper!Recorded` | `Bug_AlwaysAppend` | no look for the session's entry | `OneEntryPerSession` |
| `ContextKeeper!WriteView` | `Bug_ViewOfInitOnly` | a save does not render `CONTEXT.md` | `RegisteredIsReadable` |
| `ContextKeeper!NeedsMigration` | `Bug_MigrateAgain` | migrates what is migrated | `SavedIsKept` |
| `ContextKeeper!SessionId` | `Bug_OwnId` | an ID of its own for every save | `NoFalseAlarm` |
| `TerminalOpener!Chosen` | `Bug_LaunchFirst` | launch before help and detection | `TypeOK` |
| `TerminalOpener!AfterError` | `Bug_ErrorLost` | the late error changes no status | `LaunchIsRight` |
| `Browsers!NewId` | `Bug_SmallestFree` | the ID of a closed session again | `BrowsersAreInReach` |
| `Runtime!FirstStep` | `Bug_NoProbe` | the record before the port | `LeaseNamesRuntime` |
| `Diagnostics!ConnectorRuns` | `Bug_NoHosted` | wants a connector of a hosted deployment | `DiagnosisIsRight` |
| `Skills!Offered` | `Bug_ListsEntry` | lists the entry point | `ListedIsReadable` |
| `Actions!Unlocked` | `Bug_NoLock` | the code is read without `FOR UPDATE` | `CallsAreOwned` |
| `Workspace!StillMine` | `Bug_RollBackAnyway` | rolls back whatever the file holds | `EditsSurvive` |
| `Workspace!TakesOver` | `Bug_Replace` | saves only what the call brought | `ContextKept` |
| `Workspace!Strict` | `Bug_Lenient` | no checkpoint stops a call | `CoveredByCheckpoint` |

## 8. Plan

Done, in this order: `NodeJobs` with `JobLedger`, `Missions`, `WorkQueue`, `ExecSessions`,
`Supervision` with `SupervisorLock`, `Orchestrator` over `Missions`, `ContextKeeper`, and the parts of `MCTools`; all of
them with proofs of the safety properties that their runs check. Next:

1. **`CouncilCheckpoint`** (`council-checkpoint.ts`, `council-coordinator.ts`, `council-seat-runner.ts`):
   concurrent seats over one file, crashes, batches. Properties: no completed seat is lost,
   adjudication only over terminated seats, the council terminates. The code is suspected to keep
   none of them when seats run at once; what holds with one seat at a time is to be stated.
2. **`Memberships`** (`auth-store.ts:6-16`): overlapping transactions with row locks. Properties: a
   workspace keeps an owner; a disabled user has no session; an invitation and a reset are used once.
3. **Dispatch** (`plans.ts`, `execution-router.ts`, `executor-main.ts:39-60`): plans compiled to child
   work, dispatched to `NodeJobs` through its ledger and repeated after a failure. Composes
   `WorkQueue` and `JobLedger`. Property: one dispatch per idempotency key.
4. **Pure gates** (`model-fallback.ts`, `connection-supervisor.ts`, `rate-limit.ts`): functions checked
   against reference definitions over bounded inputs.

An abstract specification worth stating besides `JobLedger` and `SupervisorLock`: a session's life
for `ExecSessions`. An item's life is none for `WorkQueue`: late saves of heartbeats bring leases
back over completions, with a database and with files.

Theorems to add: that this abstract specification is implemented, and the invariants of the
modules to come in the form the code keeps.

## 9. Not modelled

* Text: prompts, summaries, hashes, redaction, truncation of output, wording of errors. Where a text
  decides something (a plan's operation, a verdict, the wording of a goal) its cases are inputs.
* Usage: what `execute` and `complete` account for is added up and gated in separate statements, with
  no bound promised on what passes in between.
* `NodeJobs`: payloads, capability and project checks; the `status` column of nodes, which claim and
  renew set before they look; heartbeats as two steps; two jobs that share an idempotency key across
  workspaces (the index forbids it with an error).
* `WorkQueue`: the order among items; workers that claim through the API, whose steps are a subset of
  an executor's; `fail` with `retry` false.
* `Missions`: events, which are only appended.
* `Supervision`: the file store, where `acquire` always succeeds; `accessBlocker`, which nothing sets; more than one mission, for leases and
  `activeMissions` are per mission; what `ensureReviewerReadiness` writes.
* `Orchestrator`: missions of several steps; torn and stale copies of the mission (`Missions` has
  them); quality and risk scores; the six hours after which evidence is too old are
  a choice; decision capture, whose failures are ignored; what handlers do in git and containers.
* `ExecSessions`: two runtimes in one state directory; processes of other programs; a spawn of `start`
  that fails; sessions read by process ID; `waitForActivity`.
* `ContextKeeper`: dates, descriptions, what `init.mjs` guesses; `list`, `resume` and `info`, which only
  read and print.
* `Workspace`: searching, listing and inspection; more than one root; the journal `events.jsonl`, only
  appended to; what commands change outside the file.
* `Actions`: the pages and registrations of OAuth, rate limits, and what the routed operations do.
* `Runtime`: what migrations and the bootstrap of an owner do to the database.
* The components of section 1 that no module covers: `PROJECT.json` gives the reason for each. In
  short: the council and accounts are next in the plan; decision learning, benchmarks and reports
  compute over stored records; schemas and pages are constants; git, browser, container and model
  calls are I/O.
