-------------------------- MODULE OrchestratorProofs --------------------------
(***************************************************************************)
(* WorkBounded, for every bound, every mission and any number of callers.  *)
(* A caller that found nothing under way may enqueue a decision; such      *)
(* callers and the decisions under way together are no more than the calls *)
(* that ever overlapped.  Where none did, what it judges by is the work    *)
(* there is.                                                               *)
(***************************************************************************)
EXTENDS Orchestrator, FiniteSetTheorems, TLAPS

SameKinds(ws, us) == DOMAIN ws = DOMAIN us /\ \A i \in DOMAIN ws : ws[i].kind = us[i].kind

Observation == [kind: {"check", "review"}, status: {"pass", "fail", "unknown"}, after: Nat]

(* Where a caller has found nothing under way and may yet enqueue. *)
Clear == {"advance done", "advance judge", "plan", "gather", "judge"}
Deciders == {c \in Callers : at[c] \in Clear}

Typed ==
  /\ work \in Seq(WorkItem)
  /\ evidence \in Seq(Observation)
  /\ at \in [Callers -> Places]
  /\ listed \in [Callers -> Seq(WorkItem) \cup {NoList}]
  /\ judged \in [Callers -> Nat]
  /\ peak \in Nat
  /\ \A c \in Callers : at[c] \in {"gather", "judge"} => listed[c] \in Seq(WorkItem)

(* While no two calls overlapped. *)
Alone ==
  /\ Cardinality(OfKind(work, "repeat")) <= 3
  /\ Deciders # {} => Having(work, "active") = {}
  /\ \A c \in Callers : at[c] \in {"gather", "judge"} => SameKinds(work, listed[c])

IInv ==
  /\ Typed
  /\ Cardinality(Busy) <= peak
  /\ Cardinality(Deciding(work)) + Cardinality(Deciders) <= peak
  /\ peak <= 1 => Alone
-----------------------------------------------------------------------------
(* Lemmas about work items and callers.                                    *)

LEMMA KindsFinite ==
  ASSUME NEW ws \in Seq(WorkItem), NEW kind
  PROVE  /\ IsFiniteSet(OfKind(ws, kind)) /\ Cardinality(OfKind(ws, kind)) \in Nat
         /\ OfKind(ws, kind) \subseteq 1..Len(ws)
<1>1. OfKind(ws, kind) \subseteq 1..Len(ws)
  BY DEF OfKind
<1>2. IsFiniteSet(1..Len(ws))
  BY FS_Interval
<1>. QED
  BY <1>1, <1>2, FS_Subset, FS_CardinalityType

LEMMA DecidingFinite ==
  ASSUME NEW ws \in Seq(WorkItem)
  PROVE  /\ IsFiniteSet(Deciding(ws)) /\ Cardinality(Deciding(ws)) \in Nat
         /\ Deciding(ws) \subseteq 1..Len(ws)
<1>1. Deciding(ws) \subseteq 1..Len(ws)
  BY DEF Deciding, Having
<1>2. IsFiniteSet(1..Len(ws))
  BY FS_Interval
<1>. QED
  BY <1>1, <1>2, FS_Subset, FS_CardinalityType

LEMMA CallersFinite ==
  /\ IsFiniteSet(Busy) /\ Cardinality(Busy) \in Nat
  /\ IsFiniteSet(Deciders) /\ Cardinality(Deciders) \in Nat
  /\ Deciders \subseteq Busy /\ Cardinality(Deciders) <= Cardinality(Busy)
<1>1. IsFiniteSet(Callers)
  BY OrchestratorAssumption
<1>2. Busy \subseteq Callers /\ Deciders \subseteq Busy
  BY DEF Busy, Deciders, Clear
<1>3. IsFiniteSet(Busy) /\ IsFiniteSet(Deciders)
  BY <1>1, <1>2, FS_Subset
<1>. QED
  BY <1>2, <1>3, FS_Subset, FS_CardinalityType

LEMMA CallersFiniteNext ==
  /\ IsFiniteSet(Busy') /\ Cardinality(Busy') \in Nat
  /\ IsFiniteSet(Deciders') /\ Cardinality(Deciders') \in Nat
  /\ Deciders' \subseteq Busy' /\ Cardinality(Deciders') <= Cardinality(Busy')
<1>1. IsFiniteSet(Callers)
  BY OrchestratorAssumption
<1>2. Busy' \subseteq Callers /\ Deciders' \subseteq Busy'
  BY DEF Busy, Deciders, Clear
<1>3. IsFiniteSet(Busy') /\ IsFiniteSet(Deciders')
  BY <1>1, <1>2, FS_Subset
<1>. QED
  BY <1>2, <1>3, FS_Subset, FS_CardinalityType

(* An item that ends: the kinds stay, and it is no longer under way. *)
LEMMA EndedItem ==
  ASSUME NEW ws \in Seq(WorkItem), NEW i \in DOMAIN ws,
         NEW status \in {"completed", "failed", "cancelled"},
         NEW result \in {"none", "executed", "plain", "approve"}
  PROVE  LET bs == Becomes(ws, i, status, result) IN
         /\ bs \in Seq(WorkItem) /\ SameKinds(bs, ws)
         /\ Having(bs, "active") \subseteq Having(ws, "active")
         /\ Deciding(bs) \subseteq Deciding(ws)
         /\ OfKind(bs, "repeat") = OfKind(ws, "repeat")
<1>. DEFINE bs == Becomes(ws, i, status, result)
<1>1. /\ bs \in Seq(WorkItem) /\ DOMAIN bs = DOMAIN ws
      /\ \A j \in DOMAIN ws : bs[j].kind = ws[j].kind
      /\ \A j \in DOMAIN ws : j # i => bs[j] = ws[j]
      /\ bs[i].status = status
  <2>. DEFINE ended == [kind |-> ws[i].kind, status |-> status, result |-> result]
  <2>1. ws \in [1..Len(ws) -> WorkItem] /\ Len(ws) \in Nat /\ i \in 1..Len(ws)
    OBVIOUS
  <2>2. ws[i] \in WorkItem /\ ended \in WorkItem
    BY <2>1 DEF WorkItem
  <2>3. bs = [ws EXCEPT ![i] = ended]
    BY DEF Becomes
  <2>4. bs \in [1..Len(ws) -> WorkItem]
    BY <2>1, <2>2, <2>3
  <2>5. bs \in Seq(WorkItem)
    BY <2>1, <2>4
  <2>. QED
    BY <2>1, <2>3, <2>5
<1>2. SameKinds(bs, ws)
  BY <1>1 DEF SameKinds
<1>3. Having(bs, "active") \subseteq Having(ws, "active")
  BY <1>1 DEF Having
<1>4. Deciding(bs) \subseteq Deciding(ws)
  BY <1>1, <1>3 DEF Deciding, Having
<1>5. OfKind(bs, "repeat") = OfKind(ws, "repeat")
  BY <1>1 DEF OfKind
<1>. QED
  BY <1>1, <1>2, <1>3, <1>4, <1>5

LEMMA NewIsItem == ASSUME NEW kind \in Kinds PROVE New(kind) \in WorkItem
BY DEF New, WorkItem

(* An action is added: no decision, and no repeat. *)
LEMMA AddedAction ==
  ASSUME NEW ws \in Seq(WorkItem)
  PROVE  LET as == Append(ws, New("action")) IN
         /\ as \in Seq(WorkItem) /\ Deciding(as) \subseteq Deciding(ws)
         /\ OfKind(as, "repeat") = OfKind(ws, "repeat")
<1>. DEFINE as == Append(ws, New("action"))
<1>1. New("action") \in WorkItem /\ New("action").kind = "action"
  BY NewIsItem DEF New, Kinds
<1>2. /\ as \in Seq(WorkItem) /\ DOMAIN as = DOMAIN ws \cup {Len(ws) + 1}
      /\ \A i \in DOMAIN ws : as[i] = ws[i]
      /\ as[Len(ws) + 1].kind = "action"
  BY <1>1
<1>3. OfKind(as, "repeat") = OfKind(ws, "repeat")
  BY <1>1, <1>2 DEF OfKind
<1>4. Deciding(as) \subseteq Deciding(ws)
  BY <1>2 DEF Deciding, Having, Decisions
<1>. QED
  BY <1>2, <1>3, <1>4

(* A decision is added: one more is under way. *)
LEMMA AddedDecision ==
  ASSUME NEW ws \in Seq(WorkItem), NEW kind \in Decisions
  PROVE  LET ds == ws \o <<New(kind)>> IN
         /\ ds \in Seq(WorkItem) /\ OfKind(ds, "repeat") = OfKind(ws, "repeat")
         /\ Cardinality(Deciding(ds)) = Cardinality(Deciding(ws)) + 1
<1>. DEFINE ds == ws \o <<New(kind)>>
<1>1. New(kind) \in WorkItem /\ New(kind).kind = kind /\ New(kind).status = "active"
  BY NewIsItem DEF New, Kinds, Decisions
<1>2. /\ ds \in Seq(WorkItem) /\ DOMAIN ds = DOMAIN ws \cup {Len(ws) + 1}
      /\ \A i \in DOMAIN ws : ds[i] = ws[i]
      /\ ds[Len(ws) + 1] = New(kind)
  BY <1>1
<1>3. OfKind(ds, "repeat") = OfKind(ws, "repeat")
  BY <1>1, <1>2 DEF OfKind, Decisions
<1>4. Deciding(ds) = Deciding(ws) \cup {Len(ws) + 1}
  BY <1>1, <1>2 DEF Deciding, Having
<1>5. Len(ws) + 1 \notin Deciding(ws) /\ IsFiniteSet(Deciding(ws))
  BY DecidingFinite
<1>6. Cardinality(Deciding(ds)) = Cardinality(Deciding(ws)) + 1
  <2>. HIDE DEF ds
  <2>. QED
    BY <1>4, <1>5, FS_AddElement
<1>. QED
  BY <1>2, <1>3, <1>6

(* Repeats are added: no decision. *)
LEMMA AddedRepeats ==
  ASSUME NEW ws \in Seq(WorkItem), NEW k \in Nat
  PROVE  LET ns == ws \o [i \in 1..k |-> New("repeat")] IN
         /\ ns \in Seq(WorkItem) /\ Deciding(ns) \subseteq Deciding(ws)
         /\ Cardinality(OfKind(ns, "repeat")) = Cardinality(OfKind(ws, "repeat")) + k
<1>. DEFINE rs == [i \in 1..k |-> New("repeat")]
<1>. DEFINE ns == ws \o rs
<1>. DEFINE added == (Len(ws) + 1)..(Len(ws) + k)
<1>1. New("repeat") \in WorkItem /\ New("repeat").kind = "repeat"
  BY NewIsItem DEF New, Kinds
<1>2. rs \in Seq(WorkItem) /\ Len(rs) = k
  BY <1>1
<1>3. /\ ns \in Seq(WorkItem) /\ Len(ns) = Len(ws) + k
      /\ \A i \in 1..Len(ws) : ns[i] = ws[i]
      /\ \A i \in added : ns[i] = New("repeat")
  BY <1>1, <1>2
<1>4. DOMAIN ns = DOMAIN ws \cup added
  BY <1>1, <1>3
<1>5. OfKind(ns, "repeat") = OfKind(ws, "repeat") \cup added
  BY <1>1, <1>3, <1>4 DEF OfKind
<1>6. IsFiniteSet(added) /\ Cardinality(added) = k
  <2>1. /\ Len(ws) + 1 \in Int /\ Len(ws) + k \in Int
        /\ IF Len(ws) + 1 > Len(ws) + k THEN k = 0 ELSE k = (Len(ws) + k) - (Len(ws) + 1) + 1
    BY <1>1
  <2>. QED
    BY <2>1, FS_Interval
<1>7. OfKind(ws, "repeat") \cap added = {}
  BY <1>1 DEF OfKind
<1>8. Cardinality(OfKind(ws, "repeat") \cap added) = 0
  BY <1>7, FS_EmptySet
<1>9. Cardinality(OfKind(ns, "repeat")) = Cardinality(OfKind(ws, "repeat")) + k
  <2>1. IsFiniteSet(OfKind(ws, "repeat")) /\ Cardinality(OfKind(ws, "repeat")) \in Nat
    BY <1>1, KindsFinite
  <2>2. Cardinality(OfKind(ws, "repeat") \cup added)
          = Cardinality(OfKind(ws, "repeat")) + Cardinality(added)
              - Cardinality(OfKind(ws, "repeat") \cap added)
    BY <2>1, <1>6, FS_Union
  <2>3. Cardinality(OfKind(ns, "repeat")) = Cardinality(OfKind(ws, "repeat") \cup added)
    BY <1>5, Zenon
  <2>4. Cardinality(added) = k
    BY <1>6, Zenon
  <2>. HIDE DEF ns, added
  <2>. QED
    BY <1>8, <2>1, <2>2, <2>3, <2>4
<1>10. Deciding(ns) \subseteq Deciding(ws)
  BY <1>1, <1>3, <1>4 DEF Deciding, Having, Decisions
<1>. QED
  BY <1>3, <1>9, <1>10

(* The gate asks for three runs at most. *)
LEMMA RunsMissing ==
  ASSUME NEW c \in Callers, judged[c] \in Nat
  PROVE  MissingRuns(c) \in Int /\ MissingRuns(c) <= 3
<1>1. {n \in 1..judged[c] : LastPassed(c, n)} \subseteq 1..judged[c]
  OBVIOUS
<1>2. IsFiniteSet({n \in 1..judged[c] : LastPassed(c, n)})
  <2>1. IsFiniteSet(1..judged[c])
    BY FS_Interval
  <2>. HIDE DEF LastPassed
  <2>. QED
    BY <1>1, <2>1, FS_Subset, Zenon
<1>3. Streak(c) \in Nat
  BY <1>2, FS_CardinalityType DEF Streak
<1>. QED
  BY <1>3 DEF MissingRuns
-----------------------------------------------------------------------------
(* Steps that leave the work as it is.                                     *)

LEMMA ObservedIsEvidence ==
  ASSUME Typed, NEW kind \in {"check", "review"}, NEW status \in {"pass", "fail", "unknown"}
  PROVE  Append(evidence, [kind |-> kind, status |-> status, after |-> Len(work)]) \in Seq(Observation)
<1>1. work \in Seq(WorkItem) /\ evidence \in Seq(Observation)
  BY DEF Typed
<1>2. Len(work) \in Nat
  BY <1>1
<1>3. [kind |-> kind, status |-> status, after |-> Len(work)] \in Observation
  BY <1>2 DEF Observation
<1>. QED
  BY <1>1, <1>3

(* What the caller of a call reads, and that its call is under way. *)
Reading(c) ==
  \/ listed' = listed /\ judged' = judged
  \/ \E ws \in {NoList, work, listed[c]}, n \in {0, Len(evidence)} : Reads(c, ws, n)

(* A caller moves on.  It comes to where it may enqueue from such a place, *)
(* or when nothing is under way.                                           *)
LEMMA MoveKeeps ==
  ASSUME IInv, NEW c \in Callers, at[c] # "idle", NEW place \in Places,
         Goes(c, place), Reading(c), peak' = peak, work' = work, evidence' \in Seq(Observation),
         place \in Clear => at[c] \in Clear \/ Having(work, "active") = {},
         place \in {"gather", "judge"} => listed'[c] \in Seq(WorkItem),
         place \in {"gather", "judge"} /\ peak <= 1 => SameKinds(work, listed'[c])
  PROVE  IInv'
<1>1. Typed /\ peak \in Nat
  BY DEF IInv, Typed
<1>3. /\ at'[c] = place
      /\ \A d \in Callers : d # c => at'[d] = at[d] /\ listed'[d] = listed[d]
  BY <1>1 DEF Typed, Goes, Reading, Reads
<1>2. Typed'
  <2>1. Len(evidence) \in Nat /\ listed[c] \in Seq(WorkItem) \cup {NoList}
    BY <1>1 DEF Typed
  <2>2. at' \in [Callers -> Places]
    BY <1>1 DEF Typed, Goes
  <2>3. listed' \in [Callers -> Seq(WorkItem) \cup {NoList}] /\ judged' \in [Callers -> Nat]
    BY <1>1, <2>1 DEF Typed, Reading, Reads
  <2>. QED
    BY <1>1, <1>3, <2>2, <2>3 DEF Typed
<1>4. Busy' \subseteq Busy
  BY <1>3 DEF Busy
<1>5. Cardinality(Busy') <= Cardinality(Busy)
  BY <1>4, CallersFinite, FS_Subset
<1>6. Cardinality(Deciding(work)) \in Nat
  BY <1>1, DecidingFinite DEF Typed
<1>7. CASE place \in Clear => at[c] \in Clear
  <2>1. Deciders' \subseteq Deciders
    BY <1>3, <1>7 DEF Deciders
  <2>2. Cardinality(Deciders') <= Cardinality(Deciders)
    BY <2>1, CallersFinite, FS_Subset
  <2>3. Cardinality(Deciding(work')) + Cardinality(Deciders') <= peak'
    BY <1>1, <1>6, <2>2, CallersFinite, CallersFiniteNext DEF IInv
  <2>4. peak' <= 1 => Alone'
    BY <1>3, <2>1 DEF IInv, Alone
  <2>. QED
    BY <1>1, <1>2, <1>5, <2>3, <2>4, CallersFinite, CallersFiniteNext DEF IInv
<1>8. CASE Having(work, "active") = {}
  <2>1. Deciding(work) = {} /\ Cardinality(Deciding(work)) = 0
    BY <1>8, FS_EmptySet DEF Deciding
  <2>2. Cardinality(Deciding(work')) + Cardinality(Deciders') <= peak'
    BY <1>1, <1>5, <2>1, CallersFinite, CallersFiniteNext DEF IInv
  <2>3. peak' <= 1 => Alone'
    BY <1>3, <1>8 DEF IInv, Alone
  <2>. QED
    BY <1>1, <1>2, <1>5, <2>2, <2>3, CallersFinite, CallersFiniteNext DEF IInv
<1>. QED
  BY <1>7, <1>8

(* Nothing of what the invariant speaks about changes. *)
LEMMA StillKeeps ==
  ASSUME IInv, UNCHANGED <<work, evidence, at, listed, judged, peak>>
  PROVE  IInv'
BY DEF IInv, Typed, Busy, Deciders, Deciding, Having, Alone, OfKind, SameKinds

(* A call begins: the most that overlapped is recorded. *)
LEMMA BeginKeeps ==
  ASSUME IInv, NEW c \in Callers, NEW place \in {"reconcile", "advance"}, Begins(c, place)
  PROVE  IInv'
<1>1. Typed /\ peak \in Nat /\ at \in [Callers -> Places] /\ at[c] = "idle"
  BY DEF IInv, Typed, Begins
<1>2. Busy' = Busy \cup {c} /\ c \notin Busy
  BY <1>1 DEF Busy, Begins, Goes
<1>3. Cardinality(Busy') = Cardinality(Busy) + 1
  BY <1>2, CallersFinite, FS_AddElement
<1>4. peak' \in Nat /\ peak <= peak' /\ Cardinality(Busy') <= peak'
  BY <1>1, <1>3, CallersFinite DEF Begins
<1>5. Deciders' = Deciders
  BY <1>1 DEF Deciders, Clear, Begins, Goes
<1>6. /\ at' \in [Callers -> Places] /\ UNCHANGED <<work, evidence, listed, judged>>
      /\ \A d \in Callers : at'[d] = at[d] \/ at'[d] = place
  BY <1>1 DEF Begins, Goes, Keeps, Places
<1>7. Typed'
  BY <1>1, <1>4, <1>6 DEF Typed
<1>8. Cardinality(Deciding(work')) + Cardinality(Deciders') <= peak'
  <2>1. Cardinality(Deciding(work)) \in Nat
    BY <1>1, DecidingFinite DEF Typed
  <2>. QED
    BY <1>1, <1>4, <1>5, <1>6, <2>1, CallersFinite DEF IInv
<1>9. peak' <= 1 => Alone'
  BY <1>1, <1>4, <1>5, <1>6 DEF IInv, Alone
<1>. QED
  BY <1>4, <1>7, <1>8, <1>9 DEF IInv

LEMMA Steps ==
  ASSUME IInv, NEW c \in Callers
  PROVE  /\ evidence \in Seq(Observation)
         /\ Rests(c) => Goes(c, "idle") /\ Reading(c)
         /\ Keeps => Reading(c)
         /\ \A ws \in {NoList, work, listed[c]}, n \in {0, Len(evidence)} : Reads(c, ws, n) => Reading(c)
         /\ {"idle", "advance", "advance list", "list", "pass", "fail", "block"} \subseteq Places \ Clear
         /\ Clear \subseteq Places
BY DEF IInv, Typed, Rests, Reading, Keeps, Clear, Places

(* To a place where nothing is enqueued. *)
LEMMA LeaveKeeps ==
  ASSUME IInv, NEW c \in Callers, at[c] # "idle", work' = work, peak' = peak,
         evidence' \in Seq(Observation),
         NEW place \in {"idle", "advance", "advance list", "list", "pass", "fail", "block"},
         Goes(c, place), Reading(c)
  PROVE  IInv'
<1>1. place \in Places /\ place \notin Clear /\ place \notin {"gather", "judge"}
  BY DEF Places, Clear
<1>. QED
  BY <1>1, MoveKeeps

LEMMA NextKeeps ==
  ASSUME IInv, NEW c \in Callers, NextThrows(c) \/ NextRuns(c) \/ NextStarts(c)
  PROVE  IInv'
<1>1. work' = work /\ peak' = peak /\ at[c] # "idle"
  BY DEF NextThrows, NextRuns, NextStarts, Others
<1>2. evidence' \in Seq(Observation)
  <2>1. evidence' = evidence
          \/ evidence' = Append(evidence, [kind |-> "check", status |-> "fail", after |-> Len(work)])
    BY DEF NextThrows, NextRuns, NextStarts
  <2>2. Typed
    BY DEF IInv
  <2>. QED
    BY <2>1, <2>2, ObservedIsEvidence DEF Typed
<1>3. Rests(c) \/ (Goes(c, "advance list") /\ Keeps)
  BY DEF NextThrows, NextRuns, NextStarts
<1>. QED
  BY <1>1, <1>2, <1>3, Steps, LeaveKeeps

LEMMA ReadsKeep ==
  ASSUME IInv, NEW c \in Callers,
         \/ AdvanceList(c) \/ AdvanceDone(c) \/ AdvanceJudge(c)
         \/ Reconcile(c) \/ List(c) \/ Gather(c)
  PROVE  IInv'
<1>1. work' = work /\ evidence' = evidence /\ peak' = peak /\ at[c] # "idle"
  BY DEF AdvanceList, AdvanceDone, AdvanceJudge, Reconcile, List, Gather, Others
<1>2. evidence' \in Seq(Observation)
  BY <1>1, Steps
<1>3. CASE AdvanceList(c)
  <2>1. CASE Outstanding(work) # {}
    BY <1>1, <1>2, <1>3, <2>1, Steps, LeaveKeeps DEF AdvanceList, Rests
  <2>2. CASE Outstanding(work) = {}
    <3>1. Goes(c, "advance done") /\ Reading(c) /\ Having(work, "active") = {}
      BY <1>3, <2>2, Steps DEF AdvanceList, Outstanding
    <3>2. "advance done" \in Places /\ "advance done" \notin {"gather", "judge"}
      BY DEF Places
    <3>. QED
      BY <1>1, <1>2, <3>1, <3>2, MoveKeeps
  <2>. QED
    BY <2>1, <2>2
<1>4. CASE AdvanceDone(c)
  <2>1. PICK place \in {"plan", "advance judge"} : Goes(c, place) /\ Keeps
    BY <1>4 DEF AdvanceDone
  <2>2. place \in Places /\ place \notin {"gather", "judge"} /\ at[c] \in Clear
    BY <1>4, <2>1 DEF AdvanceDone, Places, Clear
  <2>. QED
    BY <1>1, <1>2, <2>1, <2>2, Steps, MoveKeeps
<1>5. CASE AdvanceJudge(c)
  <2>1. PICK place \in {"plan", "pass"} : Goes(c, place) /\ Keeps
    BY <1>5 DEF AdvanceJudge
  <2>2. place \in Places /\ place \notin {"gather", "judge"} /\ at[c] \in Clear
    BY <1>5, <2>1 DEF AdvanceJudge, Places, Clear
  <2>. QED
    BY <1>1, <1>2, <2>1, <2>2, Steps, MoveKeeps
<1>6. CASE Reconcile(c)
  <2>1. Rests(c) \/ (\E place \in {"advance", "list"} : Goes(c, place) /\ Keeps)
    BY <1>6 DEF Reconcile
  <2>2. CASE Rests(c)
    BY <1>1, <1>2, <2>2, Steps, LeaveKeeps
  <2>3. CASE \E place \in {"advance", "list"} : Goes(c, place) /\ Keeps
    BY <1>1, <1>2, <2>3, Steps, LeaveKeeps
  <2>. QED
    BY <2>1, <2>2, <2>3
<1>7. CASE List(c)
  <2>1. \/ Rests(c)
        \/ (\E place \in {"fail", "block"} : Goes(c, place)) /\ Keeps
        \/ Outstanding(work) = {} /\ Goes(c, "gather") /\ Reads(c, work, 0)
    BY <1>7 DEF List
  <2>2. CASE Rests(c)
    BY <1>1, <1>2, <2>2, Steps, LeaveKeeps
  <2>3. CASE (\E place \in {"fail", "block"} : Goes(c, place)) /\ Keeps
    BY <1>1, <1>2, <2>3, Steps, LeaveKeeps
  <2>4. CASE Outstanding(work) = {} /\ Goes(c, "gather") /\ Reads(c, work, 0)
    <3>1. Reading(c) /\ Having(work, "active") = {} /\ "gather" \in Places
      BY <2>4, Steps DEF Outstanding, Places
    <3>2. listed'[c] = work
      BY <2>4 DEF Reads, IInv, Typed
    <3>3. SameKinds(work, listed'[c])
      BY <3>2 DEF SameKinds
    <3>4. work \in Seq(WorkItem)
      BY DEF IInv, Typed
    <3>. QED
      BY <1>1, <1>2, <2>4, <3>1, <3>2, <3>3, <3>4, MoveKeeps
  <2>. QED
    BY <2>1, <2>2, <2>3, <2>4
<1>8. CASE Gather(c)
  <2>1. /\ at[c] = "gather" /\ Goes(c, "judge") /\ Reads(c, listed[c], Len(evidence))
        /\ "judge" \in Places /\ at[c] \in Clear
    BY <1>8 DEF Gather, Places, Clear
  <2>2. listed'[c] = listed[c]
    BY <2>1 DEF Reads, IInv, Typed
  <2>3. peak <= 1 => SameKinds(work, listed'[c])
    BY <2>1, <2>2 DEF IInv, Alone
  <2>4. Reading(c) /\ listed'[c] \in Seq(WorkItem)
    BY <2>1, <2>2 DEF Reading, IInv, Typed
  <2>. QED
    BY <1>1, <1>2, <2>1, <2>3, <2>4, MoveKeeps
<1>. QED
  BY <1>3, <1>4, <1>5, <1>6, <1>7, <1>8

(* Settling or blocking: nothing is enqueued, and the judgement is over. *)
LEMMA VerdictsKeep ==
  ASSUME IInv, NEW c \in Callers,
         Awaits(c) \/ ChecksFailed(c) \/ Accept(c) \/ Pass(c) \/ Fail(c) \/ Block(c)
  PROVE  IInv'
<1>1. work' = work /\ evidence' = evidence /\ peak' = peak
  BY DEF Awaits, ChecksFailed, Accept, Pass, Fail, Block, Settles, Others
<1>2. at[c] # "idle"
  BY DEF Awaits, ChecksFailed, Accept, Pass, Fail, Block, PastRemedy, ChecksPassed
<1>3. \/ Rests(c)
      \/ \E place \in {"pass", "fail"} : Goes(c, place) /\ Reads(c, NoList, 0)
      \/ Goes(c, "advance") /\ Keeps
  BY DEF Awaits, ChecksFailed, Accept, Pass, Fail, Block, Settles
<1>4. evidence' \in Seq(Observation)
  BY <1>1, Steps
<1>5. CASE Rests(c)
  BY <1>1, <1>2, <1>4, <1>5, Steps, LeaveKeeps
<1>6. CASE \E place \in {"pass", "fail"} : Goes(c, place) /\ Reads(c, NoList, 0)
  <2>1. Reading(c)
    BY <1>6 DEF Reading
  <2>. QED
    BY <1>1, <1>2, <1>4, <1>6, <2>1, LeaveKeeps
<1>7. CASE Goes(c, "advance") /\ Keeps
  BY <1>1, <1>2, <1>4, <1>7, Steps, LeaveKeeps
<1>. QED
  BY <1>3, <1>5, <1>6, <1>7
-----------------------------------------------------------------------------
(* The orchestrator enqueues.                                              *)

(* The caller rests: it may no longer enqueue. *)
LEMMA RestsFewer ==
  ASSUME Typed, NEW c \in Callers, at[c] \in Clear, Rests(c), peak' = peak,
         work' \in Seq(WorkItem), evidence' = evidence
  PROVE  /\ Typed' /\ Busy' \subseteq Busy /\ Cardinality(Busy') <= Cardinality(Busy)
         /\ Deciders' = Deciders \ {c} /\ Cardinality(Deciders') = Cardinality(Deciders) - 1
         /\ at'[c] = "idle" /\ \A d \in Callers : d # c => at'[d] = at[d]
<1>1. Typed'
  BY DEF Typed, Rests, Goes, Reads, Places
<1>2. at'[c] = "idle" /\ \A d \in Callers : d # c => at'[d] = at[d]
  BY DEF Typed, Rests, Goes
<1>3. Busy' \subseteq Busy /\ Deciders' = Deciders \ {c} /\ c \in Deciders
  BY <1>2 DEF Busy, Deciders, Clear
<1>4. Cardinality(Busy') <= Cardinality(Busy)
  BY <1>3, CallersFinite, FS_Subset
<1>5. Cardinality(Deciders') = Cardinality(Deciders) - 1
  BY <1>3, CallersFinite, FS_RemoveElement
<1>. QED
  BY <1>1, <1>2, <1>3, <1>4, <1>5

(* Where no calls overlapped, the caller was the only one who might. *)
LEMMA OnlyCaller ==
  ASSUME IInv, NEW c \in Callers, at[c] \in Clear, peak <= 1,
         Deciders' = Deciders \ {c}, Cardinality(Deciders') = Cardinality(Deciders) - 1
  PROVE  Deciders' = {}
<1>1. Cardinality(Deciding(work)) \in Nat /\ peak \in Nat
  BY DecidingFinite DEF IInv, Typed
<1>2. Cardinality(Deciders') = 0
  BY <1>1, CallersFinite, CallersFiniteNext DEF IInv
<1>. QED
  BY <1>2, CallersFiniteNext, FS_EmptySet

LEMMA DecisionKeeps ==
  ASSUME IInv, NEW c \in Callers, at[c] \in Clear, NEW kind \in Decisions,
         work' = work \o <<New(kind)>>, evidence' = evidence, peak' = peak, Rests(c)
  PROVE  IInv'
<1>1. Typed /\ work \in Seq(WorkItem) /\ peak \in Nat
  BY DEF IInv, Typed
<1>2. /\ work' \in Seq(WorkItem) /\ OfKind(work', "repeat") = OfKind(work, "repeat")
      /\ Cardinality(Deciding(work')) = Cardinality(Deciding(work)) + 1
  BY <1>1, AddedDecision
<1>3. /\ Typed' /\ Cardinality(Busy') <= Cardinality(Busy)
      /\ Deciders' = Deciders \ {c} /\ Cardinality(Deciders') = Cardinality(Deciders) - 1
  BY <1>1, <1>2, RestsFewer
<1>4. Cardinality(Deciding(work)) \in Nat
  BY <1>1, DecidingFinite
<1>5. Cardinality(Deciding(work')) + Cardinality(Deciders') <= peak'
  BY <1>1, <1>2, <1>3, <1>4, CallersFinite DEF IInv
<1>6. peak' <= 1 => Alone'
  <2>. SUFFICES ASSUME peak <= 1 PROVE Alone'
    OBVIOUS
  <2>1. Deciders' = {}
    BY <1>3, OnlyCaller
  <2>2. \A d \in Callers : at'[d] \notin {"gather", "judge"}
    BY <2>1 DEF Deciders, Clear
  <2>. QED
    BY <1>2, <2>1, <2>2 DEF IInv, Alone
<1>. QED
  BY <1>1, <1>3, <1>5, <1>6, CallersFinite, CallersFiniteNext DEF IInv

LEMMA PlanKeeps == ASSUME IInv, NEW c \in Callers, Plan(c) PROVE IInv'
<1>1. Rests(c) /\ evidence' = evidence /\ peak' = peak /\ at[c] = "plan" /\ at[c] \in Clear
  BY DEF Plan, Others, Clear
<1>2. CASE work' = work
  BY <1>1, <1>2, Steps, LeaveKeeps
<1>3. CASE work' = work \o <<New("plan")>>
  BY <1>1, <1>3, DecisionKeeps DEF Decisions
<1>. QED
  BY <1>2, <1>3 DEF Plan, Enqueues

LEMMA DecisionsKeep ==
  ASSUME IInv, NEW c \in Callers, ReviewRemedy(c) \/ Review(c) \/ Remedy(c)
  PROVE  IInv'
<1>1. at[c] \in Clear
  BY DEF ReviewRemedy, Review, Remedy, ChecksPassed, PastRemedy, Clear
<1>2. PICK kind \in Decisions : Enqueue(c, <<New(kind)>>)
  BY DEF ReviewRemedy, Review, Remedy, Decisions
<1>3. work' = work \o <<New(kind)>> /\ evidence' = evidence /\ peak' = peak /\ Rests(c)
  BY <1>2 DEF Enqueue, Enqueues, Others
<1>. QED
  BY <1>1, <1>3, DecisionKeeps

LEMMA RepeatsKeep == ASSUME IInv, NEW c \in Callers, RepeatRuns(c) PROVE IInv'
<1>. DEFINE k == MissingRuns(c) - Cardinality(Repeats(c))
<1>1. /\ at[c] = "judge" /\ at[c] \in Clear /\ MissingRuns(c) > Cardinality(Repeats(c))
      /\ Enqueue(c, [i \in 1..k |-> New("repeat")])
  BY DEF RepeatRuns, ChecksPassed, PastRemedy, NeedsRuns, Clear
<1>2. Typed /\ work \in Seq(WorkItem) /\ judged[c] \in Nat /\ peak \in Nat
  BY DEF IInv, Typed
<1>3. MissingRuns(c) \in Int /\ MissingRuns(c) <= 3
  BY <1>2, RunsMissing
<1>4. Cardinality(Repeats(c)) \in Nat
  <2>1. listed[c] \in Seq(WorkItem)
    BY <1>1, <1>2 DEF Typed
  <2>. QED
    BY <2>1, KindsFinite DEF Repeats
<1>5. k \in Nat
  <2>. HIDE DEF MissingRuns
  <2>. QED
    BY <1>1, <1>3, <1>4
<1>6. /\ work' = work \o [i \in 1..k |-> New("repeat")]
      /\ evidence' = evidence /\ peak' = peak /\ Rests(c)
  BY <1>1 DEF Enqueue, Enqueues, Others
<1>7. /\ work' \in Seq(WorkItem) /\ Deciding(work') \subseteq Deciding(work)
      /\ Cardinality(OfKind(work', "repeat")) = Cardinality(OfKind(work, "repeat")) + k
  <2>. HIDE DEF k
  <2>. QED
    BY <1>2, <1>5, <1>6, AddedRepeats
<1>8. /\ Typed' /\ Cardinality(Busy') <= Cardinality(Busy)
      /\ Deciders' = Deciders \ {c} /\ Cardinality(Deciders') = Cardinality(Deciders) - 1
  BY <1>1, <1>2, <1>6, <1>7, RestsFewer
<1>9. Cardinality(Deciding(work')) + Cardinality(Deciders') <= peak'
  <2>1. /\ Cardinality(Deciding(work')) <= Cardinality(Deciding(work))
        /\ Cardinality(Deciding(work')) \in Nat /\ Cardinality(Deciding(work)) \in Nat
    BY <1>2, <1>7, DecidingFinite, FS_Subset
  <2>2. peak' = peak /\ Cardinality(Deciding(work)) + Cardinality(Deciders) <= peak
    BY <1>6 DEF IInv
  <2>3. peak \in Nat /\ Cardinality(Deciders) \in Nat /\ Cardinality(Deciders') = Cardinality(Deciders) - 1
    BY <1>2, <1>8, CallersFinite
  <2>. QED
    BY <2>1, <2>2, <2>3
<1>10. peak' <= 1 => Alone'
  <2>. SUFFICES ASSUME peak <= 1 PROVE Alone'
    BY <1>6
  <2>1. Deciders' = {}
    BY <1>1, <1>8, OnlyCaller
  <2>2. \A d \in Callers : at'[d] \notin {"gather", "judge"}
    BY <2>1 DEF Deciders, Clear
  <2>3. Repeats(c) = OfKind(work, "repeat")
    BY <1>1 DEF IInv, Alone, SameKinds, Repeats, OfKind
  <2>4. Cardinality(OfKind(work', "repeat")) <= 3
    <3>. HIDE DEF MissingRuns
    <3>. QED
      BY <1>3, <1>4, <1>7, <2>3
  <2>. QED
    BY <2>1, <2>2, <2>4 DEF Alone
<1>. QED
  BY <1>2, <1>6, <1>8, <1>9, <1>10, CallersFinite, CallersFiniteNext DEF IInv
-----------------------------------------------------------------------------
(* Workers and users.                                                      *)

(* Work goes on: it adds no decision, and where the orchestrator is about  *)
(* to enqueue alone, nothing.                                              *)
LEMMA WorkKeeps ==
  ASSUME IInv, work' \in Seq(WorkItem), evidence' \in Seq(Observation),
         UNCHANGED <<at, listed, judged, peak>>,
         Deciding(work') \subseteq Deciding(work), OfKind(work', "repeat") = OfKind(work, "repeat"),
         Having(work, "active") = {} => Having(work', "active") = {} /\ SameKinds(work', work)
  PROVE  IInv'
<1>1. Typed /\ work \in Seq(WorkItem) /\ peak \in Nat
  BY DEF IInv, Typed
<1>2. Typed'
  BY <1>1 DEF Typed
<1>3. Busy' = Busy /\ Deciders' = Deciders
  BY DEF Busy, Deciders
<1>4. Cardinality(Deciding(work')) + Cardinality(Deciders') <= peak'
  <2>1. /\ Cardinality(Deciding(work')) <= Cardinality(Deciding(work))
        /\ Cardinality(Deciding(work')) \in Nat /\ Cardinality(Deciding(work)) \in Nat
    BY <1>1, DecidingFinite, FS_Subset
  <2>. QED
    BY <1>1, <1>3, <2>1, CallersFinite DEF IInv
<1>5. peak' <= 1 => Alone'
  <2>. SUFFICES ASSUME peak <= 1 PROVE Alone'
    OBVIOUS
  <2>1. Alone
    BY DEF IInv
  <2>2. CASE Deciders = {}
    <3>1. \A c \in Callers : at[c] \notin {"gather", "judge"}
      BY <2>2 DEF Deciders, Clear
    <3>. QED
      BY <1>3, <2>1, <2>2, <3>1 DEF Alone
  <2>3. CASE Having(work, "active") = {}
    BY <1>3, <2>1, <2>3 DEF Alone, SameKinds
  <2>. QED
    BY <2>1, <2>2, <2>3 DEF Alone
<1>. QED
  BY <1>2, <1>3, <1>4, <1>5 DEF IInv

(* An item ends. *)
LEMMA EndKeeps ==
  ASSUME IInv, evidence' \in Seq(Observation), UNCHANGED <<at, listed, judged, peak>>,
         NEW i \in DOMAIN work, NEW status \in {"completed", "failed", "cancelled"},
         NEW result \in {"none", "executed", "plain", "approve"},
         work' = Becomes(work, i, status, result)
  PROVE  IInv'
<1>1. work \in Seq(WorkItem)
  BY DEF IInv, Typed
<1>2. /\ work' \in Seq(WorkItem) /\ SameKinds(work', work)
      /\ Having(work', "active") \subseteq Having(work, "active")
      /\ Deciding(work') \subseteq Deciding(work)
      /\ OfKind(work', "repeat") = OfKind(work, "repeat")
  BY <1>1, EndedItem
<1>. QED
  BY <1>2, WorkKeeps

LEMMA ObserveKeeps ==
  ASSUME IInv, NEW kind \in {"check", "review"}, NEW status \in {"pass", "fail", "unknown"},
         NEW byNode \in BOOLEAN, Observe(kind, status, byNode)
  PROVE  evidence' \in Seq(Observation)
<1>1. evidence' = evidence
        \/ evidence' = Append(evidence, [kind |-> kind, status |-> status, after |-> Len(work)])
  BY DEF Observe
<1>. QED
  BY <1>1, ObservedIsEvidence DEF IInv, Typed

LEMMA ReasonKeeps == ASSUME IInv, NEW i \in DOMAIN work, Reason(i) PROVE IInv'
<1>. DEFINE done == Becomes(work, i, "completed", "executed")
<1>1. UNCHANGED <<at, listed, judged, peak>> /\ i \in Having(work, "active")
  BY DEF Reason, Workers, Having
<1>2. evidence' \in Seq(Observation)
  <2>1. evidence' = evidence \/ Observe("check", "fail", FALSE)
    BY DEF Reason
  <2>. QED
    BY <2>1, ObserveKeeps DEF IInv, Typed
<1>3. CASE work' = done
  BY <1>1, <1>2, <1>3, EndKeeps
<1>4. CASE work' = Append(done, New("action"))
  <2>1. work \in Seq(WorkItem)
    BY DEF IInv, Typed
  <2>2. /\ done \in Seq(WorkItem) /\ Deciding(done) \subseteq Deciding(work)
        /\ OfKind(done, "repeat") = OfKind(work, "repeat")
    BY <2>1, EndedItem
  <2>3. /\ work' \in Seq(WorkItem) /\ Deciding(work') \subseteq Deciding(work)
        /\ OfKind(work', "repeat") = OfKind(work, "repeat")
    <3>. HIDE DEF done
    <3>. QED
      BY <1>4, <2>2, AddedAction
  <2>. QED
    BY <1>1, <1>2, <2>3, WorkKeeps
<1>. QED
  BY <1>3, <1>4 DEF Reason

LEMMA ExecuteKeeps == ASSUME IInv, NEW i \in DOMAIN work, Execute(i) PROVE IInv'
<1>1. /\ UNCHANGED <<at, listed, judged, peak>>
      /\ work' = Becomes(work, i, "completed", "executed")
  BY DEF Execute, Workers
<1>2. \/ evidence' = evidence
      \/ \E kind \in {"check", "review"}, status \in {"pass", "fail", "unknown"} :
           Observe(kind, status, FALSE)
  BY DEF Execute, Hosted
<1>3. evidence' \in Seq(Observation)
  BY <1>2, ObserveKeeps DEF IInv, Typed
<1>. QED
  BY <1>1, <1>3, EndKeeps

LEMMA ItemsKeep ==
  ASSUME IInv, NEW i \in DOMAIN work, GivesUp(i) \/ ClientCompletes(i) \/ ClientCancels(i)
  PROVE  IInv'
<1>1. UNCHANGED <<at, listed, judged, peak>> /\ evidence' \in Seq(Observation)
  BY DEF GivesUp, ClientCompletes, ClientCancels, Workers, IInv, Typed
<1>2. PICK status \in {"completed", "failed", "cancelled"},
           result \in {"none", "executed", "plain", "approve"} :
        work' = Becomes(work, i, status, result)
  BY DEF GivesUp, ClientCompletes, ClientCancels
<1>. QED
  BY <1>1, <1>2, EndKeeps

LEMMA UsersKeep ==
  ASSUME IInv, \/ Resume \/ Override \/ Interrupt \/ Cancel
               \/ \E c \in Callers : Crash(c)
  PROVE  IInv'
<1>1. CASE Resume \/ Override \/ Interrupt \/ Cancel
  BY <1>1, StillKeeps DEF Resume, Override, Interrupt, Cancel, Elsewhere
<1>2. ASSUME NEW c \in Callers, Crash(c) PROVE IInv'
  <2>1. /\ at[c] # "idle" /\ Rests(c) /\ work' = work /\ peak' = peak
        /\ evidence' \in Seq(Observation)
    BY <1>2 DEF Crash, IInv, Typed
  <2>. QED
    BY <2>1, Steps, LeaveKeeps
<1>. QED
  BY <1>1, <1>2
-----------------------------------------------------------------------------
LEMMA InitSound == Init => IInv
<1>. SUFFICES ASSUME Init PROVE IInv
  OBVIOUS
<1>1. /\ work = <<>> /\ evidence = <<>> /\ judged = [c \in Callers |-> 0] /\ peak = 0
      /\ at = [c \in Callers |-> "idle"] /\ listed = [c \in Callers |-> NoList]
  BY DEF Init
<1>2. OfKind(work, "repeat") = {} /\ Deciding(work) = {} /\ Busy = {} /\ Deciders = {}
  <2>1. DOMAIN work = {} /\ \A c \in Callers : at[c] = "idle"
    BY <1>1
  <2>. QED
    BY <2>1 DEF OfKind, Deciding, Having, Busy, Deciders, Clear
<1>3. Typed
  BY <1>1 DEF Typed, Places
<1>4. Alone
  BY <1>1, <1>2, FS_EmptySet DEF Alone
<1>5. Cardinality(Busy) = 0 /\ Cardinality(Deciding(work)) = 0 /\ Cardinality(Deciders) = 0
  BY <1>2, FS_EmptySet
<1>. QED
  BY <1>1, <1>3, <1>4, <1>5 DEF IInv

LEMMA NextSound == IInv /\ [Next]_vars => IInv'
<1>. SUFFICES ASSUME IInv, [Next]_vars PROVE IInv'
  OBVIOUS
<1>1. CASE Cycle \/ FirstCycle
  BY <1>1, BeginKeeps, OrchestratorAssumption DEF Cycle, FirstCycle
<1>2. ASSUME NEW c \in Callers, NEW place \in {"reconcile", "advance"}, ToolCall(c, place)
      PROVE  IInv'
  BY <1>2, BeginKeeps DEF ToolCall
<1>3. ASSUME NEW c \in Callers, Continue(c) PROVE IInv'
  BY <1>3, NextKeeps, ReadsKeep, VerdictsKeep, PlanKeeps, DecisionsKeep, RepeatsKeep DEF Continue
<1>4. ASSUME NEW i \in DOMAIN work, Work(i) \/ ClientCompletes(i) \/ ClientCancels(i)
      PROVE  IInv'
  BY <1>4, ReasonKeeps, ExecuteKeeps, ItemsKeep DEF Work
<1>5. ASSUME NEW s \in {"pass", "fail", "unknown"}, NEW byNode \in BOOLEAN, Observed(s, byNode)
      PROVE  IInv'
  <2>1. evidence' \in Seq(Observation) /\ UNCHANGED <<work, at, listed, judged, peak>>
    BY <1>5, ObserveKeeps DEF Observed, Workers
  <2>2. work' \in Seq(WorkItem) /\ SameKinds(work', work)
    BY <2>1 DEF IInv, Typed, SameKinds
  <2>. QED
    BY <2>1, <2>2, WorkKeeps
<1>6. CASE Resume \/ Override \/ Interrupt \/ Cancel \/ \E c \in Callers : Crash(c)
  BY <1>6, UsersKeep
<1>7. CASE UNCHANGED vars
  BY <1>7, StillKeeps DEF vars
<1>8. ASSUME NEW i \in 1..MaxWork, Work(i) PROVE IInv'
  BY <1>4, <1>8 DEF Work
<1>. QED
  BY <1>1, <1>2, <1>3, <1>4, <1>5, <1>6, <1>7, <1>8 DEF Next

(* The decisions of a step under way, and the calls that may yet enqueue   *)
(* one, are together no more than the calls of the orchestrator that ever  *)
(* overlapped, users' tool calls included; and if none did, nothing is     *)
(* under way while a call is about to enqueue, and what it judges by is    *)
(* the work there is (orchestrator.ts, advance and reconcile).             *)
THEOREM OrchestratorInvariant == Spec => []IInv
<1>1. Init => IInv
  BY InitSound
<1>2. IInv /\ [Next]_vars => IInv'
  BY NextSound
<1>. QED
  BY <1>1, <1>2, PTL DEF Spec

(* What the orchestrator has under way stays bounded: as many decisions of *)
(* a step as calls overlapped, nothing else serializing them, and while    *)
(* none did three repeated verifications in all, whatever executors,       *)
(* clients, users and crashes do between its reads and its enqueues        *)
(* (orchestrator.ts, advance and reconcile).                               *)
THEOREM WorkStaysBounded == Spec => []WorkBounded
<1>1. IInv => WorkBounded
  <2>. SUFFICES ASSUME IInv PROVE WorkBounded
    OBVIOUS
  <2>1. /\ Cardinality(Deciding(work)) \in Nat /\ Cardinality(Deciders) \in Nat
        /\ peak \in Nat
    BY DecidingFinite, CallersFinite DEF IInv, Typed
  <2>. QED
    BY <2>1 DEF IInv, Alone, WorkBounded
<1>. QED
  BY <1>1, OrchestratorInvariant, PTL
=============================================================================
