---------------------------- MODULE MCFileStores ----------------------------
(***************************************************************************)
(* What the stores promise without a database: the missions, and the work  *)
(* queue, in files.  They share no state: in a behaviour one of them is at *)
(* work and the other stays as it was in the beginning.                    *)
(***************************************************************************)
EXTENDS Missions, TLC

CONSTANTS c1, c2, w1, w2, Workers, MaxAttempts, MaxGrants, MaxFaults

VARIABLES part, item, saves, lane, held, aborted, grantedAt, granted, faults

queue == <<item, saves, lane, held, aborted, grantedAt, granted, faults>>
all == <<part, vars, queue>>

Q == INSTANCE WorkQueue WITH Clients <- {}

StoresInit == part \in {"missions", "work"} /\ Init /\ Q!Init

InQueue == part = "work" /\ UNCHANGED <<part, vars>>

StoresNext ==
  \/ part = "missions" /\ Next /\ UNCHANGED <<part, queue>>
  \/ InQueue /\ Q!Next

(* The fairness of FairSpec. *)
StoresSpec ==
  /\ StoresInit /\ [][StoresNext]_all
  /\ \A w \in Workers : WF_all(InQueue /\ Q!MainLane(w)) /\ WF_all(InQueue /\ Q!SaveOther(Q!Beat(w)))

(* The calls occur in the missions only, of which no liveness is asked.    *)
StoresSymmetry == Permutations(Calls)

(* An expired lease does not stay: some executor takes the item back       *)
(* (start, claim).                                                         *)
ExpiredLeaseRecovered == Q!ExpiredLeaseRecovered
=============================================================================
