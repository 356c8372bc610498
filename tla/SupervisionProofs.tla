-------------------------- MODULE SupervisionProofs --------------------------
(***************************************************************************)
(* Proofs about Supervision for any number of processes and of their       *)
(* loops.                                                                  *)
(***************************************************************************)
EXTENDS Supervision, TLAPS

(* While no process has run the mission twice at once: whoever is within   *)
(* its time owns the row of the lease, which has not run out either, and   *)
(* a process has one loop in runMission at most, so that its release takes *)
(* the row from no other loop of its own.                                  *)
HolderOwnsRow ==
  overlapped \/ \A l \in Loops : current[l] => lease.owner = ProcessOf[l] /\ lease.live

OneLoop ==
  overlapped \/ \A k, l \in Loops :
    lane[k] \in Running /\ lane[l] \in Running /\ ProcessOf[k] = ProcessOf[l] => k = l

IInv == TypeOK /\ HolderOwnsRow /\ OneLoop

LEMMA InitInvariant == Init => IInv
  <1> SUFFICES ASSUME Init PROVE IInv
    OBVIOUS
  <1>1. mission \in Mission
    BY DEF Init, Mission, Status
  <1>2. lease \in Lease /\ ~lease.live
    BY DEF Init, Lease
  <1>3. /\ lane \in [Loops -> Lanes] /\ \A l \in Loops : lane[l] = "idle" /\ ~current[l]
        /\ cycle \in [Loops -> {"first", "later"}] /\ current \in [Loops -> BOOLEAN]
    BY DEF Init, Lanes
  <1>4. /\ up \in [Processes -> BOOLEAN] /\ stopping \in [Processes -> BOOLEAN]
        /\ registered \in [Processes -> BOOLEAN] /\ overlapped \in BOOLEAN
    BY DEF Init
  <1>5. faults \in 0..MaxFaults /\ requests \in 0..MaxRequests
    BY SupervisionAssumption DEF Init
  <1>6. TypeOK
    BY <1>1, <1>2, <1>3, <1>4, <1>5 DEF TypeOK
  <1>7. HolderOwnsRow /\ OneLoop
    BY <1>3 DEF HolderOwnsRow, OneLoop, Running
  <1> QED BY <1>6, <1>7 DEF IInv

(* Steps that leave lease, loops and their times alone.                    *)
LEMMA MissionSteps ==
  ASSUME IInv, NEW m \in Mission, Requested(m)
  PROVE  IInv'
  BY SupervisionAssumption
     DEF IInv, TypeOK, HolderOwnsRow, OneLoop, Requested, process, loop

(* Taking the lease or renewing it by a loop that may.                     *)
LEMMA HeldLease ==
  ASSUME IInv, NEW l \in Loops, Held(l),
         MayAcquire(ProcessOf[l]) \/ MayRenew(ProcessOf[l])
  PROVE  /\ lease' \in Lease /\ lease'.owner = ProcessOf[l] /\ lease'.live
         /\ current' \in [Loops -> BOOLEAN]
         /\ \A k \in Loops : k # l => current'[k] = current[k]
         /\ overlapped \/ \A k \in Loops : current'[k] => lease'.owner = ProcessOf[k]
  <1>1. ProcessOf[l] \in Processes
    BY SupervisionAssumption
  <1>2. lease' = [owner |-> ProcessOf[l], live |-> TRUE]
    BY DEF Held
  <1>3. lease' \in Lease /\ lease'.owner = ProcessOf[l] /\ lease'.live
    BY <1>1, <1>2 DEF Lease
  <1>4. /\ current' \in [Loops -> BOOLEAN]
        /\ \A k \in Loops : k # l => current'[k] = current[k]
    BY DEF Held, IInv, TypeOK
  <1>5. ASSUME ~overlapped, NEW k \in Loops, current'[k]
        PROVE  lease'.owner = ProcessOf[k]
    <2>1. CASE k = l
      BY <2>1, <1>3
    <2>2. CASE k # l
      <3>1. lease.owner = ProcessOf[k] /\ lease.live
        BY <2>2, <1>4, <1>5 DEF IInv, HolderOwnsRow
      <3>2. ProcessOf[k] # Nobody
        BY SupervisionAssumption
      <3>3. lease.owner = ProcessOf[l]
        BY <3>1, <3>2 DEF MayAcquire, MayRenew
      <3> QED BY <3>1, <3>3, <1>3
    <2> QED BY <2>1, <2>2
  <1> QED BY <1>3, <1>4, <1>5

LEMMA BeginStep ==
  ASSUME IInv, NEW l \in Loops, Begin(l)
  PROVE  IInv'
  <1>1. CASE ~MayAcquire(ProcessOf[l])
    <2>1. /\ lane' \in [Loops -> Lanes] /\ lane[l] = "preparing" /\ lane'[l] = "idle"
          /\ \A k \in Loops : k # l => lane'[k] = lane[k]
      BY <1>1 DEF Begin, Goto, IInv, TypeOK, Lanes
    <2>2. registered' \in [Processes -> BOOLEAN]
      BY <1>1 DEF Begin, IInv, TypeOK
    <2>3. UNCHANGED <<mission, lease, up, stopping, cycle, current, overlapped, faults, requests>>
      BY <1>1 DEF Begin
    <2>4. TypeOK'
      BY <2>1, <2>2, <2>3 DEF IInv, TypeOK, Running
    <2>5. HolderOwnsRow' /\ OneLoop'
      BY <2>1, <2>3 DEF IInv, HolderOwnsRow, OneLoop, Running
    <2> QED BY <2>4, <2>5 DEF IInv
  <1>2. CASE MayAcquire(ProcessOf[l])
    <2>1. Held(l) /\ Goto(l, "cycling") /\ lane[l] = "preparing"
      BY <1>2 DEF Begin
    <2>2. /\ lease' \in Lease /\ lease'.owner = ProcessOf[l] /\ lease'.live
          /\ current' \in [Loops -> BOOLEAN]
          /\ \A k \in Loops : k # l => current'[k] = current[k]
          /\ overlapped \/ \A k \in Loops : current'[k] => lease'.owner = ProcessOf[k]
      BY <1>2, <2>1, HeldLease
    <2>3. overlapped' = (overlapped \/ \E k \in Loops : ProcessOf[k] = ProcessOf[l] /\ lane[k] \in Running)
      BY <1>2 DEF Begin
    <2>4. /\ lane' \in [Loops -> Lanes] /\ lane'[l] = "cycling"
          /\ \A k \in Loops : k # l => lane'[k] = lane[k]
      BY <2>1 DEF Goto, IInv, TypeOK, Lanes, Running
    <2>5. up[ProcessOf[l]]
      <3>1. lane[l] # "idle"
        BY <2>1
      <3> QED BY <3>1 DEF IInv, TypeOK
    <2>6. TypeOK'
      <3>1. ProcessOf[l] \in Processes /\ registered' \in [Processes -> BOOLEAN]
        BY <1>2, SupervisionAssumption DEF Begin, IInv, TypeOK
      <3>2. lease'.owner # Nobody
        BY <2>2, SupervisionAssumption
      <3>3. \A k \in Loops : lane'[k] # "idle" => up'[ProcessOf[k]]
        BY <2>4, <2>5 DEF Begin, IInv, TypeOK
      <3>4. \A k \in Loops : current'[k] => lane'[k] \in Running
        BY <2>2, <2>4 DEF IInv, TypeOK, Running
      <3> QED BY <2>2, <2>3, <2>4, <3>1, <3>2, <3>3, <3>4 DEF Begin, IInv, TypeOK
    <2>7. HolderOwnsRow'
      BY <2>2, <2>3 DEF HolderOwnsRow
    <2>8. OneLoop'
      BY <2>3, <2>4 DEF IInv, OneLoop
    <2> QED BY <2>6, <2>7, <2>8 DEF IInv
  <1> QED BY <1>1, <1>2

LEMMA CycleStep ==
  ASSUME IInv, NEW l \in Loops, Cycle(l)
  PROVE  IInv'
  <1>1. CASE lease' = lease /\ current' = current /\ Goto(l, "releasing")
    BY <1>1, SupervisionAssumption
       DEF Cycle, Goto, IInv, TypeOK, HolderOwnsRow, OneLoop, Lanes, Running, process, history
  <1>2. CASE MayRenew(ProcessOf[l]) /\ Held(l) /\ Goto(l, "advising")
    <2>1. /\ lease' \in Lease /\ lease'.owner = ProcessOf[l] /\ lease'.live
          /\ current' \in [Loops -> BOOLEAN]
          /\ \A k \in Loops : k # l => current'[k] = current[k]
          /\ overlapped \/ \A k \in Loops : current'[k] => lease'.owner = ProcessOf[k]
      BY <1>2, HeldLease
    <2>2. /\ lane' \in [Loops -> Lanes] /\ lane[l] = "cycling" /\ lane'[l] = "advising"
          /\ \A k \in Loops : k # l => lane'[k] = lane[k]
      BY <1>2 DEF Cycle, Goto, IInv, TypeOK, Lanes, Running
    <2>3. UNCHANGED <<mission, up, stopping, registered, cycle, overlapped, faults, requests>>
      BY DEF Cycle, process, history
    <2>4. TypeOK'
      <3>1. lease'.owner # Nobody
        BY <2>1, SupervisionAssumption
      <3>2. \A k \in Loops : lane'[k] # "idle" => up'[ProcessOf[k]]
        BY <2>2, <2>3 DEF IInv, TypeOK
      <3>3. \A k \in Loops : current'[k] => lane'[k] \in Running
        BY <2>1, <2>2 DEF IInv, TypeOK, Running
      <3> QED BY <2>1, <2>2, <2>3, <3>1, <3>2, <3>3 DEF IInv, TypeOK
    <2>5. HolderOwnsRow'
      BY <2>1, <2>3 DEF HolderOwnsRow
    <2>6. OneLoop'
      BY <2>2, <2>3 DEF IInv, OneLoop, Running
    <2> QED BY <2>4, <2>5, <2>6 DEF IInv
  <1> QED BY <1>1, <1>2 DEF Cycle

(* A call of the orchestrator, whatever it makes of the mission, and the   *)
(* resume of the supervisor: one loop moves on within runMission.          *)
LEMMA LoopMoves ==
  ASSUME IInv, NEW l \in Loops, NEW place \in Running, Goto(l, place), lane[l] \in Running,
         mission' \in Mission, cycle' \in [Loops -> {"first", "later"}],
         UNCHANGED <<lease, up, stopping, registered, current, overlapped, faults, requests>>
  PROVE  IInv'
  <1>1. /\ lane' \in [Loops -> Lanes] /\ lane'[l] \in Running /\ lane[l] # "idle"
        /\ \A k \in Loops : k # l => lane'[k] = lane[k]
    BY DEF Goto, IInv, TypeOK, Lanes, Running
  <1>2. TypeOK'
    BY <1>1 DEF IInv, TypeOK
  <1>3. HolderOwnsRow'
    BY DEF IInv, HolderOwnsRow
  <1>4. OneLoop'
    BY <1>1 DEF IInv, OneLoop
  <1> QED BY <1>2, <1>3, <1>4 DEF IInv

LEMMA AdviseStep ==
  ASSUME IInv, NEW l \in Loops, Advise(l)
  PROVE  IInv'
  <1>1. PICK m \in Outcomes(l) :
          /\ mission' = m
          /\ Goto(l, "releasing") \/ Goto(l, "resuming") \/ Goto(l, "cycling")
    BY DEF Advise
  <1>2. mission \in Mission
    BY DEF IInv, TypeOK
  <1>3. m \in Mission
    <2>1. \A s \in Status, b \in BOOLEAN :
            [mission EXCEPT !.status = s] \in Mission /\ [mission EXCEPT !.status = s, !.challenged = b] \in Mission
      BY <1>2 DEF Mission
    <2> QED BY <1>1, <1>2, <2>1 DEF Outcomes, Status
  <1>4. lane[l] \in Running /\ cycle' \in [Loops -> {"first", "later"}]
    BY DEF Advise, IInv, TypeOK, Running
  <1>5. UNCHANGED <<lease, up, stopping, registered, current, overlapped, faults, requests>>
    BY DEF Advise, process, history
  <1>6. "releasing" \in Running /\ "resuming" \in Running /\ "cycling" \in Running
    BY DEF Running
  <1> QED BY <1>1, <1>3, <1>4, <1>5, <1>6, LoopMoves

LEMMA ResumeStep ==
  ASSUME IInv, NEW l \in Loops, Resume(l) \/ AdviseThrows(l)
  PROVE  IInv'
  <1>1. mission' \in Mission
    <2>1. mission \in Mission
      BY DEF IInv, TypeOK
    <2>2. ResumedMission \in Mission
      BY <2>1 DEF ResumedMission, Mission, Status
    <2>3. mission' = mission \/ mission' = ResumedMission
      BY DEF Resume, AdviseThrows
    <2> QED BY <2>1, <2>2, <2>3
  <1>2. lane[l] \in Running /\ cycle' \in [Loops -> {"first", "later"}]
    BY DEF Resume, AdviseThrows, IInv, TypeOK, Running
  <1>3. UNCHANGED <<lease, up, stopping, registered, current, overlapped, faults, requests>>
    BY DEF Resume, AdviseThrows, process, history
  <1>4. Goto(l, "releasing") \/ Goto(l, "cycling")
    BY DEF Resume, AdviseThrows
  <1>5. "releasing" \in Running /\ "cycling" \in Running
    BY DEF Running
  <1> QED BY <1>1, <1>2, <1>3, <1>4, <1>5, LoopMoves

LEMMA EndStep ==
  ASSUME IInv, NEW l \in Loops, Ends(l), faults' \in 0..MaxFaults,
         lease' = lease \/ lease' = Released(ProcessOf[l])
  PROVE  IInv'
  <1>1. /\ lane' \in [Loops -> Lanes] /\ lane[l] \in Running /\ lane'[l] = "idle"
        /\ \A k \in Loops : k # l => lane'[k] = lane[k]
    BY DEF Ends, Goto, IInv, TypeOK, Lanes, Running
  <1>2. /\ current' \in [Loops -> BOOLEAN] /\ ~current'[l]
        /\ \A k \in Loops : k # l => current'[k] = current[k]
    BY DEF Ends, IInv, TypeOK
  <1>3. lease' \in Lease /\ (lease'.live => lease'.owner # Nobody)
    <2>1. lease \in Lease /\ (lease.live => lease.owner # Nobody)
      BY DEF IInv, TypeOK
    <2>2. lease' = lease \/ lease' = [owner |-> Nobody, live |-> FALSE]
      BY DEF Released
    <2>3. [owner |-> Nobody, live |-> FALSE] \in Lease
      BY DEF Lease
    <2>4. ~[owner |-> Nobody, live |-> FALSE].live
      OBVIOUS
    <2> QED BY <2>1, <2>2, <2>3, <2>4
  <1>4. /\ registered' \in [Processes -> BOOLEAN] /\ cycle' \in [Loops -> {"first", "later"}]
        /\ UNCHANGED <<mission, up, stopping, overlapped, requests>>
    BY DEF Ends, IInv, TypeOK
  <1>5. TypeOK'
    BY <1>1, <1>2, <1>3, <1>4 DEF IInv, TypeOK, Running
  <1>6. HolderOwnsRow'
    <2>1. SUFFICES ASSUME ~overlapped, NEW k \in Loops, current'[k]
                   PROVE  lease' = lease
      BY <1>2, <1>4, <2>1 DEF IInv, HolderOwnsRow
    <2>2. k # l /\ current[k] /\ lane[k] \in Running
      BY <1>2, <2>1 DEF IInv, TypeOK
    <2>3. lease.owner = ProcessOf[k]
      BY <2>1, <2>2 DEF IInv, HolderOwnsRow
    <2>4. ProcessOf[k] # ProcessOf[l]
      BY <2>1, <2>2, <1>1 DEF IInv, OneLoop
    <2> QED BY <2>3, <2>4 DEF Released
  <1>7. OneLoop'
    BY <1>1, <1>4 DEF IInv, OneLoop, Running
  <1> QED BY <1>5, <1>6, <1>7 DEF IInv

LEMMA DieStep ==
  ASSUME IInv, NEW p \in Processes, Dies(p), faults' \in 0..MaxFaults
  PROVE  IInv'
  <1>1. /\ lane' \in [Loops -> Lanes]
        /\ \A l \in Loops : lane'[l] = IF ProcessOf[l] = p THEN "idle" ELSE lane[l]
    BY DEF Dies, IInv, TypeOK, Lanes
  <1>2. /\ current' \in [Loops -> BOOLEAN]
        /\ \A l \in Loops : current'[l] => current[l] /\ ProcessOf[l] # p
    BY DEF Dies, IInv, TypeOK
  <1>3. /\ lease' \in Lease /\ (lease'.live => lease'.owner # Nobody)
        /\ lease.owner # p => lease' = lease
    <2>1. lease' = [owner |-> IF lease.owner = p THEN Former ELSE lease.owner, live |-> lease.live]
      BY DEF Dies
    <2>2. lease = [owner |-> lease.owner, live |-> lease.live] /\ lease \in Lease
      BY DEF IInv, TypeOK, Lease
    <2>3. lease.live => lease.owner # Nobody
      BY DEF IInv, TypeOK
    <2> QED BY <2>1, <2>2, <2>3, SupervisionAssumption DEF Lease
  <1>4. /\ up' \in [Processes -> BOOLEAN] /\ \A q \in Processes : q # p => up'[q] = up[q]
        /\ stopping' \in [Processes -> BOOLEAN] /\ registered' \in [Processes -> BOOLEAN]
        /\ cycle' \in [Loops -> {"first", "later"}]
        /\ UNCHANGED <<mission, overlapped, requests>>
    BY DEF Dies, IInv, TypeOK
  <1>5. TypeOK'
    <2>1. \A l \in Loops : lane'[l] # "idle" => up'[ProcessOf[l]]
      BY <1>1, <1>4, SupervisionAssumption DEF IInv, TypeOK
    <2>2. \A l \in Loops : current'[l] => lane'[l] \in Running
      BY <1>1, <1>2 DEF IInv, TypeOK
    <2> QED BY <1>1, <1>2, <1>3, <1>4, <2>1, <2>2 DEF IInv, TypeOK
  <1>6. HolderOwnsRow'
    BY <1>2, <1>3, <1>4 DEF IInv, HolderOwnsRow
  <1>7. OneLoop'
    BY <1>1, <1>4 DEF IInv, OneLoop, Running
  <1> QED BY <1>5, <1>6, <1>7 DEF IInv

LEMMA ScanStep ==
  ASSUME IInv, NEW l \in Loops, Scan(l)
  PROVE  IInv'
  <1>1. /\ lane' \in [Loops -> Lanes] /\ lane[l] = "idle" /\ lane'[l] = "preparing"
        /\ \A k \in Loops : k # l => lane'[k] = lane[k]
    BY DEF Scan, Goto, IInv, TypeOK, Lanes
  <1>2. UNCHANGED <<mission, lease, up, stopping, registered, cycle, current, overlapped, faults, requests>>
    BY DEF Scan, process, history
  <1>3. up[ProcessOf[l]]
    BY DEF Scan
  <1>4. TypeOK'
    BY <1>1, <1>2, <1>3 DEF IInv, TypeOK, Running
  <1>5. HolderOwnsRow' /\ OneLoop'
    BY <1>1, <1>2 DEF IInv, HolderOwnsRow, OneLoop, Running
  <1> QED BY <1>4, <1>5 DEF IInv

(* Starting a process, telling it to stop, and the lease's running out.    *)
LEMMA QuietSteps ==
  ASSUME IInv, LeaseExpires \/ (\E p \in Processes : StartProcess(p) \/ StopSignal(p))
  PROVE  IInv'
  <1>1. CASE LeaseExpires
    <2>1. lease' = [owner |-> lease.owner, live |-> FALSE]
      BY <1>1 DEF LeaseExpires
    <2>2. lease' \in Lease /\ ~lease'.live
      BY <2>1 DEF IInv, TypeOK, Lease
    <2>3. /\ current' \in [Loops -> BOOLEAN]
          /\ \A l \in Loops : current'[l] => current[l] /\ ProcessOf[l] # lease.owner
      BY <1>1 DEF LeaseExpires, IInv, TypeOK
    <2>4. UNCHANGED <<mission, up, stopping, registered, lane, cycle, overlapped, faults, requests>>
      BY <1>1 DEF LeaseExpires, process, loop, history
    <2>5. TypeOK'
      BY <2>2, <2>3, <2>4 DEF IInv, TypeOK
    <2>6. HolderOwnsRow' /\ OneLoop'
      BY <2>3, <2>4 DEF IInv, HolderOwnsRow, OneLoop
    <2> QED BY <2>5, <2>6 DEF IInv
  <1>2. CASE \E p \in Processes : StartProcess(p) \/ StopSignal(p)
    <2>1. /\ up' \in [Processes -> BOOLEAN] /\ \A q \in Processes : up[q] => up'[q]
          /\ stopping' \in [Processes -> BOOLEAN] /\ faults' \in 0..MaxFaults
      <3>1. PICK p \in Processes : StartProcess(p) \/ StopSignal(p)
        BY <1>2
      <3>2. CASE StartProcess(p)
        BY <3>2 DEF StartProcess, history, IInv, TypeOK
      <3>3. CASE StopSignal(p)
        <4>1. faults' \in 0..MaxFaults
          BY <3>3, SupervisionAssumption DEF StopSignal, Faulty, IInv, TypeOK
        <4> QED BY <3>3, <4>1 DEF StopSignal, IInv, TypeOK
      <3> QED BY <3>1, <3>2, <3>3
    <2>2. UNCHANGED <<mission, lease, registered, lane, cycle, current, overlapped, requests>>
      BY <1>2 DEF StartProcess, StopSignal, loop, history
    <2>3. TypeOK'
      BY <2>1, <2>2, SupervisionAssumption DEF IInv, TypeOK
    <2>4. HolderOwnsRow' /\ OneLoop'
      BY <2>2 DEF IInv, HolderOwnsRow, OneLoop
    <2> QED BY <2>3, <2>4 DEF IInv
  <1> QED BY <1>1, <1>2

LEMMA RequestSteps ==
  ASSUME IInv, Interrupt \/ UserResume \/ Approve \/ Cancel
  PROVE  IInv'
  <1>1. mission \in Mission
    BY DEF IInv, TypeOK
  <1>2. \A s \in Status, b \in BOOLEAN :
          /\ [mission EXCEPT !.status = s] \in Mission
          /\ [mission EXCEPT !.status = s, !.interrupted = b] \in Mission
          /\ [mission EXCEPT !.status = s, !.challenged = b] \in Mission
    BY <1>1 DEF Mission
  <1>3. CASE Interrupt
    BY <1>2, <1>3, MissionSteps DEF Interrupt, Status
  <1>4. CASE UserResume
    BY <1>2, <1>4, MissionSteps DEF UserResume, ResumedMission, Status
  <1>5. CASE Approve
    BY <1>2, <1>5, MissionSteps DEF Approve, Status
  <1>6. CASE Cancel
    BY <1>2, <1>6, MissionSteps DEF Cancel, Status
  <1> QED BY <1>3, <1>4, <1>5, <1>6

LEMMA NextInvariant == IInv /\ [Next]_vars => IInv'
  <1> SUFFICES ASSUME IInv, [Next]_vars PROVE IInv'
    OBVIOUS
  <1>0. IInv => faults \in 0..MaxFaults
    BY DEF IInv, TypeOK
  <1>1. ASSUME NEW l \in Loops, Scan(l) PROVE IInv'
    BY <1>1, ScanStep
  <1>2. ASSUME NEW l \in Loops, RunMission(l) PROVE IInv'
    <2>1. CASE Begin(l)
      BY <2>1, BeginStep
    <2>2. CASE Cycle(l)
      BY <2>2, CycleStep
    <2>3. CASE Advise(l)
      BY <2>3, AdviseStep
    <2>4. CASE Resume(l)
      BY <2>4, ResumeStep
    <2>5. CASE Release(l)
      BY <2>5, <1>0, EndStep DEF Release
    <2> QED BY <1>2, <2>1, <2>2, <2>3, <2>4, <2>5 DEF RunMission
  <1>3. ASSUME NEW l \in Loops, AdviseThrows(l) PROVE IInv'
    BY <1>3, ResumeStep
  <1>4. ASSUME NEW l \in Loops, ReleaseFails(l) PROVE IInv'
    <2>1. Ends(l) /\ lease' = lease /\ faults' \in 0..MaxFaults
      BY <1>4, <1>0, SupervisionAssumption DEF ReleaseFails, Faulty
    <2> QED BY <2>1, EndStep
  <1>5. ASSUME NEW p \in Processes, StartProcess(p) \/ StopSignal(p) PROVE IInv'
    BY <1>5, QuietSteps
  <1>6. ASSUME NEW p \in Processes, Exit(p) \/ Crash(p) PROVE IInv'
    <2>1. Dies(p) /\ faults' \in 0..MaxFaults
      BY <1>6, <1>0, SupervisionAssumption DEF Exit, Crash, Faulty
    <2> QED BY <2>1, DieStep
  <1>7. CASE LeaseExpires
    BY <1>7, QuietSteps
  <1>8. CASE Interrupt \/ UserResume \/ Approve \/ Cancel
    BY <1>8, RequestSteps
  <1>9. CASE UNCHANGED vars
    BY <1>9 DEF IInv, TypeOK, HolderOwnsRow, OneLoop, vars, process, loop, history
  <1> QED BY <1>1, <1>2, <1>3, <1>4, <1>5, <1>6, <1>7, <1>8, <1>9 DEF Next
-----------------------------------------------------------------------------
(* The strengthening that the two theorems below rest on.                  *)
THEOREM SupervisionInvariant == Spec => []IInv
  <1> QED BY InitInvariant, NextInvariant, PTL DEF Spec

(* The model's variables keep their types.                                 *)
THEOREM SupervisionTypes == Spec => []TypeOK
  <1>1. IInv => TypeOK
    BY DEF IInv
  <1> QED BY <1>1, SupervisionInvariant, PTL

(* For any number of processes, as many scans as may overlap: unless a     *)
(* process has run the mission twice at once, no two processes supervise   *)
(* it within the time of their leases (supervisor-lease.ts).               *)
THEOREM SupervisorIsAlone == Spec => []OneSupervisor
  <1>1. IInv => OneSupervisor
    BY DEF IInv, HolderOwnsRow, OneSupervisor
  <1> QED BY <1>1, SupervisionInvariant, PTL
-----------------------------------------------------------------------------
(***************************************************************************)
(* The lease as a lock.                                                    *)
(***************************************************************************)

Holders == {ProcessOf[l] : l \in {k \in Loops : current[k]}}

LockStep == [Lock!Next]_(Lock!vars)

(* Once a process has run the mission twice at once nothing is promised.   *)
LEMMA BrokenSteps ==
  ASSUME overlapped'
  PROVE  overlapped \in BOOLEAN /\ overlapped' \in BOOLEAN => LockStep
  BY DEF LockStep, Lock!Next, Lock!vars, Lock!Break

(* A loop takes the lease, or renews what its process has.                 *)
LEMMA TakingSteps ==
  ASSUME IInv, NEW l \in Loops, Held(l), ~overlapped, overlapped' = overlapped,
         MayAcquire(ProcessOf[l]) \/ MayRenew(ProcessOf[l])
  PROVE  LockStep
  <1> DEFINE p == ProcessOf[l]
  <1>1. p \in Processes
    BY SupervisionAssumption
  <1>2. /\ lease'.owner = p /\ current'[l]
        /\ \A k \in Loops : k # l => current'[k] = current[k]
        /\ \A k \in Loops : current'[k] => lease'.owner = ProcessOf[k]
    BY HeldLease DEF Held, IInv, TypeOK
  <1>3. Holders' = {p}
    BY <1>2 DEF Holders
  <1>4. Holders = {} \/ Holders = {p}
    BY <1>2 DEF Holders
  <1> HIDE DEF p
  <1>5. CASE Holders = {}
    BY <1>1, <1>3, <1>5 DEF LockStep, Lock!Next, Lock!Acquire, Holders
  <1>6. CASE Holders = {p}
    BY <1>3, <1>6 DEF LockStep, Lock!vars, Holders
  <1> QED BY <1>4, <1>5, <1>6

(* Loops drop out of their time: all that had it were of one process.      *)
LEMMA LosingSteps ==
  ASSUME IInv, ~overlapped, overlapped' = overlapped,
         \A l \in Loops : current'[l] => current[l]
  PROVE  LockStep
  <1>1. \A k, l \in Loops : current[k] /\ current[l] => ProcessOf[k] = ProcessOf[l]
    BY DEF IInv, HolderOwnsRow
  <1>2. Holders' = {} \/ Holders' = Holders
    BY <1>1 DEF Holders
  <1>3. CASE Holders' = Holders
    BY <1>3 DEF LockStep, Lock!vars, Holders
  <1>4. CASE Holders' = {} /\ Holders # {}
    BY <1>4 DEF LockStep, Lock!Next, Lock!Lose, Holders
  <1> QED BY <1>2, <1>3, <1>4

(* Every step takes the lease as the lock lets it, loses it, or breaks it. *)
LEMMA NextIsLockStep ==
  ASSUME IInv, [Next]_vars
  PROVE  LockStep
  <1>0. overlapped \in BOOLEAN /\ overlapped' \in BOOLEAN
    BY NextInvariant DEF IInv, TypeOK
  <1>1. CASE overlapped'
    BY <1>0, <1>1, BrokenSteps
  <1>2. CASE ~overlapped' /\ \E l \in Loops : Begin(l)
    <2>1. PICK l \in Loops : Begin(l)
      BY <1>2
    <2>2. CASE MayAcquire(ProcessOf[l]) /\ Held(l)
      <3>1. overlapped' = (overlapped \/ \E k \in Loops : ProcessOf[k] = ProcessOf[l] /\ lane[k] \in Running)
        BY <2>1, <2>2 DEF Begin
      <3>2. ~overlapped /\ overlapped' = overlapped
        BY <3>1, <1>2, <1>0
      <3> QED BY <2>2, <3>2, TakingSteps
    <2>3. CASE ~overlapped /\ overlapped' = overlapped /\ current' = current
      BY <2>3, LosingSteps
    <2> QED BY <2>1, <2>2, <2>3, <1>2 DEF Begin
  <1>3. CASE ~overlapped' /\ ~\E l \in Loops : Begin(l)
    <2>1. overlapped' = overlapped /\ ~overlapped
      BY <1>3 DEF Next, RunMission, Scan, Cycle, Advise, Resume, AdviseThrows, Release, ReleaseFails,
                  Ends, StartProcess, StopSignal, Exit, Crash, Dies, LeaseExpires, Interrupt,
                  UserResume, Approve, Cancel, Requested, vars, history
    <2>2. CASE \E l \in Loops : MayRenew(ProcessOf[l]) /\ Held(l)
      BY <2>1, <2>2, TakingSteps
    <2>3. CASE ~\E l \in Loops : MayRenew(ProcessOf[l]) /\ Held(l)
      <3>1. current \in [Loops -> BOOLEAN]
        BY DEF IInv, TypeOK
      <3>2. CASE current' = current
        BY <3>2, <2>1, LosingSteps
      <3>3. ASSUME NEW l \in Loops, Ends(l) PROVE LockStep
        <4>1. \A k \in Loops : current'[k] => current[k]
          BY <3>1, <3>3 DEF Ends
        <4> QED BY <4>1, <2>1, LosingSteps
      <3>4. ASSUME NEW p \in Processes, Dies(p) PROVE LockStep
        <4>1. \A k \in Loops : current'[k] => current[k]
          BY <3>1, <3>4 DEF Dies
        <4> QED BY <4>1, <2>1, LosingSteps
      <3>5. CASE LeaseExpires
        <4>1. \A k \in Loops : current'[k] => current[k]
          BY <3>1, <3>5 DEF LeaseExpires
        <4> QED BY <4>1, <2>1, LosingSteps
      <3>6. \/ current' = current \/ LeaseExpires
            \/ (\E l \in Loops : Ends(l)) \/ (\E p \in Processes : Dies(p))
        BY <1>3, <2>3 DEF Next, RunMission, Scan, Cycle, Advise, Resume, AdviseThrows, Release,
                          ReleaseFails, StartProcess, StopSignal, Exit, Crash, Interrupt,
                          UserResume, Approve, Cancel, Requested, vars
      <3> QED BY <3>2, <3>3, <3>4, <3>5, <3>6
    <2> QED BY <2>2, <2>3
  <1> QED BY <1>1, <1>2, <1>3

(* For any number of processes and overlapping scans: until a process runs *)
(* the mission twice at once, the lease is a lock, and it goes from one    *)
(* process to another only by way of a moment in which no process is       *)
(* within its time (supervisor-lease.ts, continuous-supervisor.ts).        *)
THEOREM LockImplemented == Spec => ImplementsLock
  <1>1. Init => Lock!Init
    BY DEF Init, Lock!Init
  <1>2. IInv /\ [Next]_vars => [Lock!Next]_(Lock!vars)
    BY NextIsLockStep DEF LockStep
  <1> QED BY <1>1, <1>2, SupervisionInvariant, PTL DEF Spec, ImplementsLock, Lock!Spec
=============================================================================
