------------------------- MODULE ExecSessionsProofs -------------------------
(* Proofs about ExecSessions.  The inductive invariant ties the five       *)
(* places a session leaves traces in: its job, its file, its log, its      *)
(* processes and what its client was told.                                 *)
EXTENDS ExecSessions, TLAPS

(* The runtime's memory: the file and the log say what the job says.       *)
JobOK(s) ==
  job[s].status # "none" =>
    /\ file[s].status = job[s].status
    /\ log[s] = job[s].buffered
    /\ job[s].buffered = Least(heard[s], MaxBuffered)
    /\ job[s].status = "exited" => Drained(s)
    /\ child[s].state # "none" /\ job[s].pid \in Pids

(* What outlives it.                                                       *)
DiskOK(s) ==
  /\ file[s].status = "exited" => child[s].state = "dead"
  /\ file[s].status = "exited" => log[s] = Least(printed[s], MaxBuffered)

(* What a client knows.                                                    *)
AnswerOK(s) ==
  /\ answer[s].status = "exited" => child[s].state = "dead"
  /\ answer[s].status = "exited" /\ ~answer[s].truncated
       => answer[s].cursor = Least(printed[s], MaxBuffered)

(* A session not yet started has left no trace.                            *)
FreshOK(s) ==
  child[s].state = "none" =>
    /\ file[s].status = "none" /\ log[s] = 0 /\ answer[s].status = "none"
    /\ printed[s] = 0 /\ heard[s] = 0

CallOK(c) ==
  /\ call[c].status = "idle" => child[c].state = "none"
  /\ call[c].status = "done" => Drained(c)

SessionOK(s) == JobOK(s) /\ DiskOK(s) /\ AnswerOK(s) /\ FreshOK(s)

IndInv ==
  /\ TypeOK
  /\ \A s \in Sessions : SessionOK(s)
  /\ \A c \in Calls : CallOK(c)

LEMMA LeastIsNat ==
  ASSUME NEW a \in Nat, NEW b \in Nat
  PROVE  /\ Least(a, b) \in Nat /\ Least(a, b) <= a /\ Least(a, b) <= b
         /\ Least(a, b) = a \/ Least(a, b) = b
  BY DEF Least

LEMMA InitInv == Init => IndInv
<1> SUFFICES ASSUME Init PROVE IndInv
  OBVIOUS
<1> USE SessionsAssumption DEF Init
<1>1. TypeOK
  <2>1. job \in [Sessions -> Job] /\ file \in [Sessions -> File]
    BY DEF Job, File, JobStatus, FileStatus, NoJob, NoFile
  <2>2. call \in [Calls -> Call] /\ child \in [Children -> Child] /\ answer \in [Sessions -> Answer]
    BY DEF Call, Child, Answer, FileStatus
  <2>3. \A s \in Sessions : job[s].status = "none"
    BY DEF NoJob
  <2>4. newer \in SUBSET (Sessions \X Sessions) /\ restarts \in 0..MaxRestarts
    OBVIOUS
  <2>5. /\ printed \in [Children -> Nat] /\ heard \in [Children -> Nat] /\ log \in [Sessions -> Nat]
        /\ \A x \in Children : heard[x] <= printed[x] /\ printed[x] <= MaxRecords
    OBVIOUS
  <2> QED BY <2>1, <2>2, <2>3, <2>4, <2>5 DEF TypeOK
<1>2. \A s \in Sessions : SessionOK(s)
  BY DEF SessionOK, JobOK, DiskOK, AnswerOK, FreshOK, NoJob, NoFile, Children
<1>3. \A c \in Calls : CallOK(c)
  BY DEF CallOK, Children
<1> QED BY <1>1, <1>2, <1>3 DEF IndInv

(* Steps of the commands' own processes.                                   *)
LEMMA EnvironmentInv ==
  ASSUME IndInv, NEW x \in Children,
         PrintRecord(x) \/ Exit(x) \/ ExitOrphaning(x) \/ DescendantsExit(x)
  PROVE  IndInv'
<1> USE SessionsAssumption
<1>1. CASE PrintRecord(x)
  <2>1. TypeOK'
    BY <1>1 DEF IndInv, TypeOK, PrintRecord, Outside, runtime, disk, Children
  <2>2. \A s \in Sessions : SessionOK(s)'
    BY <1>1 DEF IndInv, TypeOK, PrintRecord, Outside, runtime, disk, Children, SessionOK, JobOK,
       DiskOK, AnswerOK, FreshOK, Drained, Child
  <2>3. \A c \in Calls : CallOK(c)'
    BY <1>1 DEF IndInv, TypeOK, PrintRecord, Outside, runtime, disk, Children, CallOK, Drained
  <2> QED BY <2>1, <2>2, <2>3 DEF IndInv
<1>2. ASSUME NEW state \in {"orphaned", "dead"}, Moves(x, state), UNCHANGED printed, Outside,
             child[x].state \in {"alive", "orphaned"}
      PROVE  IndInv'
  <2>1. TypeOK'
    BY <1>2 DEF IndInv, TypeOK, Moves, Outside, runtime, disk, Children, Child
  <2>2. \A y \in Children : child'[y].state # child[y].state => child[y].state # "none" /\ child[y].state # "dead"  /\ child'[y].state # "none"
    BY <1>2 DEF IndInv, TypeOK, Moves, Child
  <2>3. \A s \in Sessions : SessionOK(s)'
    BY <1>2, <2>2 DEF IndInv, Outside, runtime, disk, Children, SessionOK, JobOK,
       DiskOK, AnswerOK, FreshOK, Drained
  <2>4. \A c \in Calls : CallOK(c)'
    BY <1>2, <2>2 DEF IndInv, Outside, runtime, disk, Children, CallOK, Drained
  <2> QED BY <2>1, <2>3, <2>4 DEF IndInv
<1> QED BY <1>1, <1>2 DEF Exit, ExitOrphaning, DescendantsExit

(* A job that becomes j and is persisted keeps the types.                  *)
LEMMA PersistedTypes ==
  ASSUME TypeOK, NEW s \in Sessions, NEW j \in Job, j.status # "none", up, Persisted(s, j)
  PROVE  /\ job' \in [Sessions -> Job] /\ file' \in [Sessions -> File]
         /\ newer' \in SUBSET (Sessions \X Sessions)
         /\ job'[s] = j /\ file'[s].status = j.status
         /\ \A t \in Sessions \ {s} : job'[t] = job[t] /\ file'[t] = file[t]
<1>1. [status |-> j.status, closed |-> j.closed] \in File
  BY DEF Job, File, JobStatus, FileStatus
<1>2. newer' \in SUBSET (Sessions \X Sessions)
  BY DEF TypeOK, Persisted
<1> QED BY <1>1, <1>2 DEF TypeOK, Persisted

(* A signal changes no process's state.                                    *)
LEMMA SignalledStates ==
  ASSUME TypeOK, NEW p, child' = Signalled(p)
  PROVE  /\ child' \in [Children -> Child]
         /\ \A x \in Children : child'[x].state = child[x].state
<1>1. \A x \in Children : child[x].state = "alive" /\ child[x].pid = p
        => [state |-> "alive", pid |-> p, signalled |-> TRUE] \in Child
  BY DEF TypeOK, Child
<1> QED BY <1>1 DEF TypeOK, Signalled

(* Steps of session s.                                                     *)
LEMMA StartInv ==
  ASSUME IndInv, NEW s \in Sessions, NEW p \in Pids, Start(s, p)
  PROVE  IndInv'
<1> USE SessionsAssumption
<1> DEFINE j == [status |-> "running", pid |-> p, closed |-> FALSE, buffered |-> 0]
<1>1. j \in Job /\ j.status = "running" /\ j.buffered = 0 /\ j.pid = p
  BY DEF Job, JobStatus
<1>2. Persisted(s, j) /\ up /\ up' = up /\ child[s].state = "none"
  BY DEF Start, Spawned
<1> HIDE DEF j
<1>3. /\ child' \in [Children -> Child] /\ child'[s].state = "alive"
      /\ \A x \in Children \ {s} : child'[x] = child[x]
  BY DEF Start, Spawned, IndInv, TypeOK, Child, Children
<1>4. TypeOK'
  BY <1>1, <1>2, <1>3, PersistedTypes DEF Start, IndInv, TypeOK
<1>5. \A t \in Sessions : SessionOK(t)'
  <2> TAKE t \in Sessions
  <2>1. CASE t = s
    BY <2>1, <1>1, <1>2, <1>3, PersistedTypes
    DEF Start, IndInv, SessionOK, JobOK, DiskOK, AnswerOK, FreshOK, Least
  <2>2. CASE t # s
    BY <2>2, <1>1, <1>2, <1>3, PersistedTypes
    DEF Start, IndInv, Children, SessionOK, JobOK, DiskOK, AnswerOK, FreshOK, Drained
  <2> QED BY <2>1, <2>2
<1>6. \A c \in Calls : CallOK(c)'
  BY <1>3 DEF Start, IndInv, CallOK, Drained, Children
<1> QED BY <1>4, <1>5, <1>6 DEF IndInv

LEMMA DataInv ==
  ASSUME IndInv, NEW s \in Sessions, Data(s)
  PROVE  IndInv'
<1> USE SessionsAssumption
<1> DEFINE j == [status |-> job[s].status, pid |-> job[s].pid, closed |-> job[s].closed,
                 buffered |-> job[s].buffered + 1]
<1>1. /\ j \in Job /\ j.status = job[s].status /\ j.buffered = job[s].buffered + 1
      /\ j.pid = job[s].pid
  BY DEF IndInv, TypeOK, Job
<1>2. up /\ up' = up /\ j.status # "none"
  BY DEF Data, IndInv, TypeOK
<1>3. /\ heard' \in [Children -> Nat] /\ heard'[s] = heard[s] + 1 /\ heard[s] < printed[s]
      /\ \A x \in Children \ {s} : heard'[x] = heard[x]
      /\ heard[s] \in Nat /\ printed[s] \in Nat /\ log[s] \in Nat
  BY DEF Data, IndInv, TypeOK, Children
<1>4. job[s].status # "exited"
  BY <1>2, <1>3 DEF Data, IndInv, SessionOK, JobOK, Drained
<1>5. CASE job[s].buffered < MaxBuffered /\ log' = [log EXCEPT ![s] = @ + 1] /\ Persisted(s, j)
  <2>1. log' \in [Sessions -> Nat] /\ log'[s] = log[s] + 1
    BY <1>5, <1>3 DEF IndInv, TypeOK
  <2>2. TypeOK'
    <3>1. UNCHANGED <<restarts, byPid, call, child, printed, answer>>
      BY DEF Data
    <3> HIDE DEF j
    <3>2. TypeOK /\ Persisted(s, j)
      BY <1>5 DEF IndInv
    <3>3. /\ job' \in [Sessions -> Job] /\ file' \in [Sessions -> File]
          /\ newer' \in SUBSET (Sessions \X Sessions)
          /\ job'[s] = j /\ file'[s].status = j.status
          /\ \A t \in Sessions \ {s} : job'[t] = job[t] /\ file'[t] = file[t]
      BY <1>1, <1>2, <3>2, PersistedTypes
    <3>4. \A t \in Sessions : job'[t].status # "none" => up' /\ file'[t].status = job'[t].status
      BY <1>2, <3>2, <3>3 DEF TypeOK
    <3>5. \A x \in Children : heard'[x] <= printed'[x] /\ printed'[x] <= MaxRecords
      BY <1>3, <3>1, <3>2 DEF TypeOK
    <3> QED BY <1>2, <1>3, <2>1, <3>1, <3>2, <3>3, <3>4, <3>5 DEF TypeOK
  <2>3. \A t \in Sessions \ {s} : SessionOK(t)'
    BY <1>1, <1>2, <1>3, <1>5, PersistedTypes
    DEF Data, IndInv, TypeOK, Children, SessionOK, JobOK, DiskOK, AnswerOK, FreshOK, Drained
  <2>4. SessionOK(s)'
    <3>1. job'[s] = j /\ file'[s].status = job[s].status /\ file[s].status = job[s].status
      BY <1>1, <1>2, <1>5, PersistedTypes DEF IndInv, TypeOK
    <3>2. JobOK(s) /\ job[s].status # "none" /\ child' = child /\ job[s].buffered \in Nat
      BY DEF Data, IndInv, SessionOK, TypeOK, Job
    <3>3. JobOK(s)'
      BY <1>1, <1>3, <1>4, <1>5, <2>1, <3>1, <3>2 DEF JobOK, Least
    <3>4. DiskOK(s)' /\ FreshOK(s)'
      BY <1>4, <3>1, <3>2 DEF JobOK, DiskOK, FreshOK
    <3>5. AnswerOK(s)'
      BY DEF Data, IndInv, SessionOK, AnswerOK
    <3> QED BY <3>3, <3>4, <3>5 DEF SessionOK
  <2>5. \A c \in Calls : CallOK(c)'
    BY <1>3 DEF Data, IndInv, CallOK, Drained, Children
  <2> QED BY <2>2, <2>3, <2>4, <2>5 DEF IndInv
<1>6. CASE job[s].buffered >= MaxBuffered /\ UNCHANGED <<job, disk>>
  <2>1. job[s].buffered \in Nat
    BY DEF IndInv, TypeOK, Job
  <2>2. TypeOK'
    BY <1>2, <1>3, <1>6 DEF Data, IndInv, TypeOK, disk
  <2>3. \A t \in Sessions \ {s} : SessionOK(t)'
    BY <1>2, <1>3, <1>6
    DEF Data, IndInv, disk, Children, SessionOK, JobOK, DiskOK, AnswerOK, FreshOK, Drained
  <2>4. SessionOK(s)'
    BY <1>2, <1>3, <1>4, <1>6, <2>1
    DEF Data, IndInv, disk, Children, SessionOK, JobOK, DiskOK, AnswerOK, FreshOK, Drained, Least
  <2>5. \A c \in Calls : CallOK(c)'
    BY <1>3 DEF Data, IndInv, CallOK, Drained, Children
  <2> QED BY <2>2, <2>3, <2>4, <2>5 DEF IndInv
<1> QED BY <1>5, <1>6 DEF Data

(* A persisted change of status and exit code only.                        *)
LEMMA RepersistedInv ==
  ASSUME IndInv, NEW s \in Sessions, NEW j \in Job, Persisted(s, j),
         job[s].status # "none", j.status # "none", j.buffered = job[s].buffered, j.pid = job[s].pid,
         j.status = "exited" => Drained(s),
         child' \in [Children -> Child],
         \A x \in Children : child'[x].state = child[x].state,
         UNCHANGED <<up, restarts, byPid, log, call, printed, heard, answer>>
  PROVE  IndInv'
<1> USE SessionsAssumption
<1>1. up
  BY DEF IndInv, TypeOK
<1>2. TypeOK'
  BY <1>1, PersistedTypes DEF IndInv, TypeOK
<1>3. \A t \in Sessions \ {s} : SessionOK(t)'
  BY <1>1, PersistedTypes
  DEF IndInv, Children, SessionOK, JobOK, DiskOK, AnswerOK, FreshOK, Drained
<1>4. SessionOK(s)'
  <2>1. job'[s] = j /\ file'[s].status = j.status /\ child'[s].state = child[s].state
    BY <1>1, PersistedTypes DEF IndInv, Children
  <2>2. SessionOK(s)
    BY DEF IndInv
  <2> QED BY <2>1, <2>2 DEF SessionOK, JobOK, DiskOK, AnswerOK, FreshOK, Drained
<1>5. \A c \in Calls : CallOK(c)'
  BY DEF IndInv, CallOK, Drained, Children
<1> QED BY <1>2, <1>3, <1>4, <1>5 DEF IndInv

LEMMA CloseInv ==
  ASSUME IndInv, NEW s \in Sessions, Close(s)
  PROVE  IndInv'
<1> DEFINE j == [status |-> StatusAtClose(job[s].status), pid |-> job[s].pid, closed |-> TRUE,
                 buffered |-> job[s].buffered]
<1>1. job[s] \in Job
  BY DEF IndInv, TypeOK
<1>2. /\ j \in Job /\ j.status # "none" /\ j.buffered = job[s].buffered /\ j.pid = job[s].pid
      /\ j.status = "exited" => Drained(s)
  BY <1>1 DEF Close, Job, JobStatus, StatusAtClose
<1> QED BY <1>2, RepersistedInv DEF Close, IndInv, TypeOK

LEMMA StopInv ==
  ASSUME IndInv, NEW p \in Pids, Stop(p)
  PROVE  IndInv'
<1> DEFINE s == byPid[p]
           j == WithStatus(job[s], "killed")
<1>1. s \in Sessions /\ job[s] \in Job
  BY DEF IndInv, TypeOK, Stop
<1>2. j \in Job /\ j.status = "killed" /\ j.buffered = job[s].buffered /\ j.pid = job[s].pid
  BY <1>1 DEF Job, JobStatus, WithStatus
<1>3. /\ child' \in [Children -> Child]
      /\ \A x \in Children : child'[x].state = child[x].state
  BY SignalledStates DEF Stop, IndInv
<1>4. job[s].status = "running" /\ Persisted(s, j)
  BY DEF Stop
<1>5. UNCHANGED <<up, restarts, byPid, log, call, printed, heard, answer>>
  BY DEF Stop
<1> HIDE DEF j, s
<1> QED BY <1>1, <1>2, <1>3, <1>4, <1>5, RepersistedInv

LEMMA WriteSessionInv ==
  ASSUME IndInv, NEW s \in Sessions, WriteSession(s)
  PROVE  IndInv'
<1>1. job[s] \in Job
  BY DEF IndInv, TypeOK
<1> QED BY <1>1, RepersistedInv DEF WriteSession, IndInv, TypeOK

LEMMA PollInv ==
  ASSUME IndInv, NEW s \in Sessions, NEW n \in Nat, Poll(s, n)
  PROVE  IndInv'
<1> USE SessionsAssumption
<1> DEFINE next == Least(answer[s].cursor + n, log[s])
           a == [status |-> Reported(s), cursor |-> next, truncated |-> next < log[s]]
<1>1. answer[s].cursor \in Nat /\ log[s] \in Nat /\ job[s] \in Job /\ file[s] \in File
  BY DEF IndInv, TypeOK, Answer
<1>2. next \in Nat /\ next <= log[s]
  <2>1. answer[s].cursor + n \in Nat /\ log[s] \in Nat
    BY <1>1
  <2> HIDE DEF a
  <2> QED BY <2>1, LeastIsNat
<1>3. Reported(s) \in FileStatus
  BY <1>1 DEF Reported, FileStatus, File, Job, JobStatus
<1>4. a \in Answer /\ answer' = [answer EXCEPT ![s] = a]
  BY <1>2, <1>3 DEF Answer, Poll
<1>5. Reported(s) = "exited" =>
        child[s].state = "dead" /\ log[s] = Least(printed[s], MaxBuffered)
  BY DEF IndInv, TypeOK, SessionOK, JobOK, DiskOK, Drained, Reported
<1>6. TypeOK'
  BY <1>4 DEF Poll, IndInv, TypeOK, runtime, disk
<1>7. \A t \in Sessions \ {s} : SessionOK(t)'
  BY <1>4 DEF Poll, IndInv, TypeOK, runtime, disk, SessionOK, JobOK, DiskOK, AnswerOK, FreshOK, Drained
<1>8. SessionOK(s)'
  <2>1. answer'[s] = a
    BY <1>4 DEF IndInv, TypeOK
  <2>2. /\ a.status = Reported(s) /\ a.cursor = next /\ a.truncated = (next < log[s])
    OBVIOUS
  <2> HIDE DEF a, next
  <2>6. ~(next < log[s]) => next = log[s]
    BY <1>1, <1>2
  <2>7. ~a.truncated => next = log[s]
    BY <2>2, <2>6
  <2>8. child' = child /\ printed' = printed
    BY DEF Poll
  <2>3. AnswerOK(s)'
    BY <1>5, <2>1, <2>2, <2>7, <2>8 DEF AnswerOK
  <2>4. child[s].state # "none"
    BY DEF Poll, Reported, IndInv, SessionOK, JobOK, FreshOK
  <2>5. JobOK(s)' /\ DiskOK(s)' /\ FreshOK(s)'
    BY <2>4 DEF Poll, IndInv, runtime, disk, SessionOK, JobOK, DiskOK, FreshOK, Drained
  <2> QED BY <2>3, <2>5 DEF SessionOK
<1>9. \A c \in Calls : CallOK(c)'
  BY DEF Poll, IndInv, CallOK, Drained
<1> QED BY <1>6, <1>7, <1>8, <1>9 DEF IndInv

LEMMA SessionStepInv ==
  ASSUME IndInv, SessionStep \/ \E p \in Pids : Stop(p)
  PROVE  IndInv'
<1>1. ASSUME NEW s \in Sessions, Cancel(s)
      PROVE  IndInv'
  <2>1. job[s].pid \in Pids
    BY <1>1 DEF Cancel, IndInv, SessionOK, JobOK
  <2> QED BY <1>1, <2>1, StopInv DEF Cancel
<1>2. ASSUME NEW p \in Pids, Stop(p)
      PROVE  IndInv'
  BY <1>2, StopInv
<1>3. 1..MaxRecords \subseteq Nat
  OBVIOUS
<1> QED
  BY <1>1, <1>2, <1>3, StartInv, DataInv, CloseInv, WriteSessionInv, PollInv DEF SessionStep

(* Steps of run calls.                                                     *)
LEMMA RunStepInv ==
  ASSUME IndInv, NEW c \in Calls,
         (\E p \in Pids : Run(c, p)) \/ RunError(c) \/ RunData(c) \/ RunTimeout(c) \/ RunClose(c)
  PROVE  IndInv'
<1> USE SessionsAssumption
<1>1. c \in Children /\ c \notin Sessions
  BY DEF Children
<1>2. \A status \in {"running", "done", "failed"}, b \in BOOLEAN :
        Becomes(c, status, b) => /\ call' \in [Calls -> Call] /\ call'[c].status = status
                                 /\ \A d \in Calls \ {c} : call'[d] = call[d]
  BY DEF IndInv, TypeOK, Becomes, Call
<1>3. call[c].timedOut \in BOOLEAN
  BY DEF IndInv, TypeOK, Call
<1>4. CASE \E p \in Pids : Run(c, p)
  <2> PICK p \in Pids : Run(c, p)
    BY <1>4
  <2>1. /\ child' \in [Children -> Child] /\ child'[c].state = "alive"
        /\ \A x \in Children \ {c} : child'[x] = child[x]
    BY <1>1 DEF Run, Spawned, IndInv, TypeOK, Child
  <2>2. TypeOK'
    BY <1>2, <2>1 DEF Run, RunLane, IndInv, TypeOK, runtime, disk
  <2>3. \A s \in Sessions : SessionOK(s)'
    BY <1>1, <2>1 DEF Run, RunLane, IndInv, Children, runtime, disk, SessionOK, JobOK, DiskOK,
       AnswerOK, FreshOK, Drained
  <2>4. \A d \in Calls : CallOK(d)'
    BY <1>1, <1>2, <2>1 DEF Run, RunLane, IndInv, Children, CallOK, Drained
  <2> QED BY <2>2, <2>3, <2>4 DEF IndInv
<1>5. CASE RunError(c) \/ RunClose(c)
  <2>1. UNCHANGED <<child, heard>> /\ RunLane
    BY <1>5 DEF RunError, RunClose
  <2>2. TypeOK'
    BY <1>2, <1>3, <1>5, <2>1 DEF RunError, RunClose, RunLane, IndInv, TypeOK, runtime, disk
  <2>3. \A s \in Sessions : SessionOK(s)'
    BY <2>1 DEF RunLane, IndInv, runtime, disk, SessionOK, JobOK, DiskOK, AnswerOK, FreshOK, Drained
  <2>4. \A d \in Calls : CallOK(d)'
    BY <1>2, <1>3, <1>5, <2>1 DEF RunError, RunClose, RunLane, IndInv, CallOK, Drained
  <2> QED BY <2>2, <2>3, <2>4 DEF IndInv
<1>6. CASE RunData(c)
  <2>1. /\ heard' \in [Children -> Nat] /\ heard'[c] = heard[c] + 1 /\ heard[c] < printed[c]
        /\ \A x \in Children \ {c} : heard'[x] = heard[x]
        /\ heard[c] \in Nat /\ printed[c] \in Nat
    BY <1>1, <1>6 DEF RunData, IndInv, TypeOK
  <2>2. TypeOK'
    BY <1>6, <2>1 DEF RunData, RunLane, IndInv, TypeOK, runtime, disk
  <2>3. \A s \in Sessions : SessionOK(s)'
    BY <1>1, <1>6, <2>1 DEF RunData, RunLane, IndInv, Children, runtime, disk, SessionOK, JobOK,
       DiskOK, AnswerOK, FreshOK, Drained
  <2>4. \A d \in Calls : CallOK(d)'
    BY <1>1, <1>6, <2>1 DEF RunData, RunLane, IndInv, Children, CallOK, Drained
  <2> QED BY <2>2, <2>3, <2>4 DEF IndInv
<1>7. CASE RunTimeout(c)
  <2>1. /\ child' \in [Children -> Child]
        /\ \A x \in Children : child'[x].state = child[x].state
    BY <1>7, SignalledStates DEF RunTimeout, IndInv
  <2>2. TypeOK'
    BY <1>2, <1>7, <2>1 DEF RunTimeout, RunLane, IndInv, TypeOK, runtime, disk
  <2>3. \A s \in Sessions : SessionOK(s)'
    BY <1>7, <2>1 DEF RunTimeout, RunLane, IndInv, Children, runtime, disk, SessionOK, JobOK,
       DiskOK, AnswerOK, FreshOK, Drained
  <2>4. \A d \in Calls : CallOK(d)'
    BY <1>2, <1>7, <2>1 DEF RunTimeout, RunLane, IndInv, Children, CallOK, Drained
  <2> QED BY <2>2, <2>3, <2>4 DEF IndInv
<1> QED BY <1>4, <1>5, <1>6, <1>7

(* The runtime itself.                                                     *)
LEMMA StartUpInv ==
  ASSUME IndInv, StartUp
  PROVE  IndInv'
<1> USE SessionsAssumption
<1> PICK kept \in SUBSET Sessions :
      /\ file' = [s \in Sessions |-> IF s \in kept THEN Reconciled(file[s]) ELSE NoFile]
      /\ log' = [s \in Sessions |-> IF s \in kept THEN log[s] ELSE 0]
  BY DEF StartUp
<1>1. \A s \in Sessions : job[s].status = "none"
  BY DEF StartUp, IndInv, TypeOK
<1>2. \A s \in Sessions : /\ file[s] \in File /\ file'[s] \in File
                          /\ file'[s].status \in {"none", "interrupted", file[s].status}
                          /\ file'[s].status = "exited" => s \in kept /\ file[s].status = "exited"
                          /\ file[s].status = "none" => file'[s].status = "none"
  <2> TAKE s \in Sessions
  <2>1. file[s] \in File
    BY DEF IndInv, TypeOK
  <2>2. file'[s] = IF s \in kept THEN Reconciled(file[s]) ELSE NoFile
    OBVIOUS
  <2> QED BY <2>1, <2>2 DEF File, FileStatus, Reconciled, NoFile
<1>3. TypeOK'
  <2>1. file' \in [Sessions -> File] /\ log' \in [Sessions -> Nat]
    BY <1>2 DEF IndInv, TypeOK
  <2> QED BY <1>1, <2>1 DEF StartUp, IndInv, TypeOK, runtime
<1>4. \A s \in Sessions : SessionOK(s)'
  BY <1>1, <1>2 DEF StartUp, IndInv, runtime, SessionOK, JobOK, DiskOK, AnswerOK, FreshOK
<1>5. \A c \in Calls : CallOK(c)'
  BY DEF StartUp, IndInv, CallOK, Drained
<1> QED BY <1>3, <1>4, <1>5 DEF IndInv

LEMMA GoDownInv ==
  ASSUME IndInv, GoDown
  PROVE  IndInv'
<1> USE SessionsAssumption
<1>1. \A s \in Sessions : job'[s].status = "none"
  BY DEF GoDown, NoJob
<1>2. TypeOK'
  <2>1. job' \in [Sessions -> Job]
    BY DEF GoDown, Job, NoJob, JobStatus
  <2>2. call' \in [Calls -> Call]
    BY DEF GoDown, IndInv, TypeOK, Call
  <2>3. restarts' \in 0..MaxRestarts /\ byPid' \in [Pids -> Sessions \cup {NoSession}]
    BY DEF GoDown, IndInv, TypeOK
  <2> QED BY <1>1, <2>1, <2>2, <2>3 DEF GoDown, IndInv, TypeOK, disk
<1>3. \A s \in Sessions : SessionOK(s)'
  BY <1>1 DEF GoDown, disk, IndInv, SessionOK, JobOK, DiskOK, AnswerOK, FreshOK
<1>4. \A c \in Calls : CallOK(c)'
  BY DEF GoDown, IndInv, CallOK, Drained
<1> QED BY <1>2, <1>3, <1>4 DEF IndInv

LEMMA StepInv == IndInv /\ [Next]_vars => IndInv'
<1> SUFFICES ASSUME IndInv, [Next]_vars PROVE IndInv'
  OBVIOUS
<1>1. CASE Environment
  BY <1>1, EnvironmentInv DEF Environment
<1>2. CASE SessionStep \/ \E p \in Pids : Stop(p)
  BY <1>2, SessionStepInv
<1>3. CASE RunStep
  BY <1>3, RunStepInv DEF RunStep
<1>4. CASE UNCHANGED vars
  BY <1>4 DEF vars, runtime, disk, IndInv, TypeOK, SessionOK, JobOK, DiskOK, AnswerOK, FreshOK,
     CallOK, Drained
<1> QED BY <1>1, <1>2, <1>3, <1>4, StartUpInv, GoDownInv DEF Next

(* The inductive invariant holds for any number of sessions, calls,        *)
(* process IDs and restarts.                                               *)
THEOREM SessionsInvariant == Spec => []IndInv
  BY InitInv, StepInv, PTL DEF Spec

(* TypeOK: among the rest, the file of a live session has its status.      *)
THEOREM SessionsTypes == Spec => []TypeOK
<1>1. IndInv => TypeOK
  BY DEF IndInv
<1> QED BY <1>1, SessionsInvariant, PTL

(* NothingMissed: what a client was told of a finished command is all of   *)
(* its output.                                                             *)
THEOREM OutputComplete == Spec => []NothingMissed
<1>1. IndInv => NothingMissed
  BY DEF IndInv, NothingMissed, SessionOK, AnswerOK, CallOK, Drained
<1> QED BY <1>1, SessionsInvariant, PTL

(* EndedStaysEnded: a reported end is never taken back.                    *)
LEMMA ReportStep ==
  ASSUME IndInv, [Next]_vars, NEW s \in Sessions,
         Reported(s) \in {"exited", "killed", "interrupted"}
  PROVE  Reported(s)' \in {Reported(s), "none"}
<1> USE SessionsAssumption
<1>1. job[s] \in Job /\ file[s] \in File
  BY DEF IndInv, TypeOK
<1>2. child[s].state # "none"
  BY DEF IndInv, SessionOK, JobOK, FreshOK, Reported
<1>3. ASSUME NEW t \in Sessions, NEW j \in Job, j.status # "none", Persisted(t, j), up,
             job[t].status # "none",
             job[t].status # "running" => j.status = job[t].status
      PROVE  Reported(s)' = Reported(s)
  <2>1. CASE t = s
    BY <1>1, <1>3, <2>1, PersistedTypes DEF IndInv, Reported, Job, JobStatus
  <2>2. CASE t # s
    BY <1>3, <2>2, PersistedTypes DEF IndInv, Reported
  <2> QED BY <2>1, <2>2
<1>4. \A t \in Sessions : job[t] \in Job /\ (job[t].status # "none" => up)
  BY DEF IndInv, TypeOK
<1>5. UNCHANGED <<job, file>> => Reported(s)' = Reported(s)
  BY DEF Reported
<1>6. ASSUME NEW t \in Sessions, NEW p \in Pids, Start(t, p)
      PROVE  Reported(s)' = Reported(s)
  <2> DEFINE j == [status |-> "running", pid |-> p, closed |-> FALSE, buffered |-> 0]
  <2>1. j \in Job /\ j.status # "none" /\ Persisted(t, j) /\ up /\ t # s
    BY <1>2, <1>6 DEF Start, Spawned, Job, JobStatus
  <2> HIDE DEF j
  <2> QED BY <2>1, PersistedTypes DEF IndInv, Reported
<1>7. ASSUME NEW t \in Sessions, Data(t)
      PROVE  Reported(s)' = Reported(s)
  <2> DEFINE j == [status |-> job[t].status, pid |-> job[t].pid, closed |-> job[t].closed,
                   buffered |-> job[t].buffered + 1]
  <2>1. j \in Job /\ j.status = job[t].status /\ j.status # "none" /\ up
    BY <1>4, <1>7 DEF Data, Job
  <2>2. Persisted(t, j) \/ UNCHANGED <<job, file>>
    BY <1>7 DEF Data, disk
  <2> HIDE DEF j
  <2> QED BY <1>3, <1>5, <2>1, <2>2
<1>8. ASSUME NEW t \in Sessions, Close(t)
      PROVE  Reported(s)' = Reported(s) \/ UNCHANGED <<job, file>>
  <2> DEFINE j == [status |-> StatusAtClose(job[t].status), pid |-> job[t].pid, closed |-> TRUE,
                   buffered |-> job[t].buffered]
  <2>1. /\ j \in Job /\ j.status # "none" /\ up /\ Persisted(t, j) /\ job[t].status # "none"
        /\ job[t].status # "running" => j.status = job[t].status
    BY <1>4, <1>8 DEF Close, Job, JobStatus, StatusAtClose
  <2> HIDE DEF j
  <2> QED BY <1>3, <2>1
<1>9. ASSUME NEW p \in Pids, Stop(p)
      PROVE  Reported(s)' = Reported(s)
  <2> DEFINE t == byPid[p]
             j == WithStatus(job[t], "killed")
  <2>1. t \in Sessions
    BY <1>9 DEF Stop, IndInv, TypeOK
  <2>2. /\ j \in Job /\ j.status # "none" /\ up /\ Persisted(t, j)
        /\ job[t].status = "running"
    BY <1>4, <1>9, <2>1 DEF Stop, WithStatus, Job, JobStatus
  <2> HIDE DEF j, t
  <2> QED BY <1>3, <2>1, <2>2
<1>10. ASSUME NEW t \in Sessions, Cancel(t)
       PROVE  Reported(s)' = Reported(s)
  BY <1>9, <1>10 DEF Cancel, IndInv, SessionOK, JobOK
<1>11. ASSUME NEW t \in Sessions, WriteSession(t)
       PROVE  Reported(s)' = Reported(s)
  BY <1>3, <1>4, <1>11 DEF WriteSession
<1>12. CASE StartUp
  <2>1. job[s].status = "none" /\ job' = job
    BY <1>12 DEF StartUp, IndInv, TypeOK, runtime
  <2>2. file'[s] \in {Reconciled(file[s]), NoFile}
    BY <1>12 DEF StartUp
  <2> QED BY <1>1, <2>1, <2>2 DEF Reported, Reconciled, NoFile, File, FileStatus
<1>13. CASE GoDown
  <2>1. job'[s].status = "none" /\ file' = file
    BY <1>13 DEF GoDown, NoJob, disk
  <2> QED BY <1>1, <2>1 DEF Reported, IndInv, TypeOK
<1>14. CASE Environment
  BY <1>5, <1>14 DEF Environment, PrintRecord, Exit, ExitOrphaning, DescendantsExit, Outside,
     runtime, disk
<1>15. CASE RunStep
  BY <1>5, <1>15 DEF RunStep, Run, RunError, RunData, RunTimeout, RunClose, RunLane, runtime, disk
<1>16. ASSUME NEW t \in Sessions, NEW n \in Nat, Poll(t, n)
       PROVE  Reported(s)' = Reported(s)
  BY <1>5, <1>16 DEF Poll, runtime, disk
<1>17. CASE SessionStep
  <2>1. 1..MaxRecords \subseteq Nat
    OBVIOUS
  <2> QED BY <1>5, <1>6, <1>7, <1>8, <1>10, <1>11, <1>16, <1>17, <2>1 DEF SessionStep
<1>18. CASE \E p \in Pids : Stop(p)
  BY <1>9, <1>18
<1>19. CASE UNCHANGED vars
  BY <1>5, <1>19 DEF vars, runtime, disk
<1> QED BY <1>12, <1>13, <1>14, <1>15, <1>17, <1>18, <1>19 DEF Next

(* EndedStaysEnded: a session reported as exited, killed or interrupted is  *)
(* never later reported as running again, nor as ended in another way; a   *)
(* session the service has forgotten is not reported at all.               *)
THEOREM EndsAreFinal == Spec => EndedStaysEnded
<1>1. IndInv /\ [Next]_vars
        => [\A s \in Sessions : Reported(s) \in {"exited", "killed", "interrupted"}
              => Reported(s)' \in {Reported(s), "none"}]_vars
  BY ReportStep
<1> QED BY <1>1, SessionsInvariant, PTL DEF Spec, EndedStaysEnded
=============================================================================
