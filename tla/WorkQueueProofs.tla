-------------------------- MODULE WorkQueueProofs --------------------------
(***************************************************************************)
(* Proofs about WorkQueue for any number of executors, clients, attempts   *)
(* and grants, with a database or without.                                 *)
(*                                                                         *)
(* As every save stores a copy decided on earlier, IInv asks of every copy *)
(* about to be saved what it asks of the stored item.  A copy stays sound  *)
(* because grants are only ever added.                                     *)
(***************************************************************************)
EXTENDS MCDatabaseStores, TLAPS

(* A token was granted for the attempt count a, out of n grants. *)
GrantedFor(token, a, at, n) == token \in Tokens /\ token <= n /\ at[token] = a

ItemSound(i, at, n) ==
  /\ i.attempts <= MaxAttempts
  /\ i.status = "queued" => i.attempts < MaxAttempts
  /\ i.status = "leased" => GrantedFor(i.token, i.attempts, at, n)
  /\ i.status = "completed" => GrantedFor(i.result, i.attempts, at, n)
  /\ i.result # 0 => i.status = "completed"

SaveSound(s, at, n) == s.pending => ItemSound(s.copy, at, n)

IInv ==
  /\ TypeOK
  /\ ItemSound(item, grantedAt, granted)
  /\ \A c \in Callers : SaveSound(saves[c], grantedAt, granted)
-----------------------------------------------------------------------------
USE QueueAssumption

LEMMA TokenNumbers == Tokens \subseteq Nat /\ 0 \notin Tokens
BY DEF Tokens

(* Taking the lease off an item. *)
LEMMA UnleasedSound ==
  ASSUME NEW i \in Item, NEW status \in Status \ {"leased", "completed"}, NEW at, NEW n,
         ItemSound(i, at, n), i.status # "completed", status = "queued" => i.attempts < MaxAttempts
  PROVE  Unleased(i, status) \in Item /\ ItemSound(Unleased(i, status), at, n)
<1>1. Unleased(i, status) \in ItemRecord
  BY DEF Unleased, Item, ItemRecord
<1>2. Unleased(i, status) \in Item
  BY <1>1 DEF Unleased, Item
<1> QED BY <1>2 DEF Unleased, ItemSound

LEMMA RecoveredSound ==
  ASSUME NEW i \in Item, NEW at, NEW n, ItemSound(i, at, n), i.status # "completed"
  PROVE  Recovered(i) \in Item /\ ItemSound(Recovered(i), at, n)
<1> DEFINE status == IF i.attempts >= MaxAttempts THEN "failed" ELSE "queued"
<1>1. status \in Status \ {"leased", "completed"}
  BY DEF Status
<1>2. status = "queued" => i.attempts < MaxAttempts
  BY DEF Item, ItemRecord
<1>3. Recovered(i) = Unleased(i, status)
  BY DEF Recovered
<1> HIDE DEF status
<1> QED BY <1>1, <1>2, <1>3, UnleasedSound

LEMMA FailedSound ==
  ASSUME NEW i \in Item, NEW at, NEW n, ItemSound(i, at, n), i.status # "completed"
  PROVE  FailedItem(i) \in Item /\ ItemSound(FailedItem(i), at, n)
<1> DEFINE status == IF i.attempts < MaxAttempts THEN "queued" ELSE "failed"
<1>1. status \in Status \ {"leased", "completed"}
  BY DEF Status
<1>2. status = "queued" => i.attempts < MaxAttempts
  OBVIOUS
<1>3. FailedItem(i) = Unleased(i, status)
  BY DEF FailedItem
<1> HIDE DEF status
<1> QED BY <1>1, <1>2, <1>3, UnleasedSound

(* The owner of a lease completes its own attempt. *)
LEMMA CompletedSound ==
  ASSUME TypeOK, ItemSound(item, grantedAt, granted), NEW token \in {0} \cup Tokens, Owned(token)
  PROVE  Completed(item, token) \in Item /\ ItemSound(Completed(item, token), grantedAt, granted)
<1>1. Completed(item, token) \in ItemRecord
  BY DEF Completed, TypeOK, Item, ItemRecord, Status
<1>2. Completed(item, token) \in Item
  BY <1>1 DEF Completed, Item
<1>3. GrantedFor(token, item.attempts, grantedAt, granted)
  BY DEF Owned, ItemSound
<1> QED BY <1>2, <1>3 DEF Completed, ItemSound

(* A heartbeat of an owned lease. *)
LEMMA HeartbeatenSound ==
  ASSUME TypeOK, ItemSound(item, grantedAt, granted), NEW token, Owned(token)
  PROVE  Heartbeaten(item) \in Item /\ ItemSound(Heartbeaten(item), grantedAt, granted)
<1> DEFINE i == Heartbeaten(item)
<1>1. /\ i \in ItemRecord /\ i.status = item.status /\ i.token = item.token
      /\ i.attempts = item.attempts /\ i.result = item.result
  BY DEF Heartbeaten, TypeOK, Item, ItemRecord
<1>2. i \in Item
  BY <1>1 DEF Owned, TypeOK, Item
<1> QED BY <1>1, <1>2 DEF ItemSound

(* A grant adds a token and leaves what was sound sound. *)
LEMMA GrantStep ==
  ASSUME TypeOK, ItemSound(item, grantedAt, granted), item.status = "queued", Grant(item)
  PROVE  /\ grantedAt' \in [Tokens -> Nat] /\ granted' \in 0..MaxGrants
         /\ granted + 1 \in Tokens
         /\ Leased(item) \in Item /\ ItemSound(Leased(item), grantedAt', granted')
         /\ \A i \in Item : ItemSound(i, grantedAt, granted) => ItemSound(i, grantedAt', granted')
<1>1. /\ granted \in Nat /\ granted' = granted + 1 /\ granted + 1 \in Tokens
      /\ granted' \in 0..MaxGrants
  BY DEF Grant, TypeOK, Tokens
<1>2. item.attempts \in Nat /\ item.attempts + 1 \in Nat /\ item.attempts + 1 <= MaxAttempts
  BY DEF TypeOK, Item, ItemRecord, ItemSound
<1>3. /\ grantedAt' \in [Tokens -> Nat]
      /\ grantedAt'[granted + 1] = item.attempts + 1
      /\ \A t \in Tokens : t # granted + 1 => grantedAt'[t] = grantedAt[t]
  BY <1>1, <1>2 DEF Grant, TypeOK
<1>4. Leased(item) \in ItemRecord
  BY <1>1, <1>2 DEF Leased, TypeOK, Item, ItemRecord, Status
<1>5. Leased(item) \in Item
  BY <1>1, <1>4, TokenNumbers DEF Leased, Item
<1>6. ItemSound(Leased(item), grantedAt', granted')
  BY <1>1, <1>2, <1>3 DEF Leased, ItemSound, GrantedFor
<1>7. \A t, a : GrantedFor(t, a, grantedAt, granted) => GrantedFor(t, a, grantedAt', granted')
  BY <1>1, <1>3, TokenNumbers DEF GrantedFor
<1>8. \A i \in Item : ItemSound(i, grantedAt, granted) => ItemSound(i, grantedAt', granted')
  BY <1>7 DEF ItemSound
<1> QED BY <1>1, <1>3, <1>5, <1>6, <1>8
-----------------------------------------------------------------------------
LEMMA CallersAre ==
  /\ \A w \in Workers : Main(w) \in Callers /\ Beat(w) \in Callers
  /\ \A c \in Clients : Api(c) \in Callers
BY DEF Callers, Main, Beat, Api

LEMMA NoSaveSound == NoSave \in Save /\ (\A at, n : SaveSound(NoSave, at, n)) /\ NewItem \in Item
<1>1. NewItem \in ItemRecord
  BY DEF NewItem, ItemRecord, Status
<1>2. NewItem \in Item
  BY <1>1 DEF NewItem, Item
<1> QED BY <1>2 DEF NoSave, Save, SaveSound

(* One caller's pending save is set to s, with the grants as they are. *)
LEMMA SavesUpdate ==
  ASSUME TypeOK, \A c \in Callers : SaveSound(saves[c], grantedAt, granted),
         NEW c \in Callers, NEW s \in Save, SaveSound(s, grantedAt, granted)
  PROVE  /\ [saves EXCEPT ![c] = s] \in [Callers -> Save]
         /\ \A d \in Callers : SaveSound([saves EXCEPT ![c] = s][d], grantedAt, granted)
BY DEF TypeOK

(* A caller will save a sound copy; the item and the grants stay. *)
LEMMA WillSaveStep ==
  ASSUME IInv, NEW c \in Callers, NEW copy \in Item, ItemSound(copy, grantedAt, granted),
         WillSave(c, copy), UNCHANGED <<item, grantedAt, granted>>,
         lane' \in [Workers -> Lanes], held' \in [Workers -> {0} \cup Tokens],
         aborted' \in [Workers -> BOOLEAN], faults' \in Nat
  PROVE  IInv'
<1> DEFINE s == [pending |-> TRUE, copy |-> copy]
<1>1. s \in Save /\ SaveSound(s, grantedAt, granted)
  BY DEF Save, SaveSound
<1>2. saves' = [saves EXCEPT ![c] = s]
  BY DEF WillSave
<1> HIDE DEF s
<1>3. saves' \in [Callers -> Save] /\ \A d \in Callers : SaveSound(saves'[d], grantedAt, granted)
  BY <1>1, <1>2, SavesUpdate DEF IInv
<1> QED BY <1>3 DEF IInv, TypeOK

(* The item is replaced by a sound one, and a caller's save forgotten. *)
LEMMA ItemStep ==
  ASSUME IInv, item' \in Item, ItemSound(item', grantedAt, granted),
         saves' = saves \/ (\E c \in Callers : saves' = [saves EXCEPT ![c] = NoSave]),
         UNCHANGED <<grantedAt, granted>>,
         lane' \in [Workers -> Lanes], held' \in [Workers -> {0} \cup Tokens],
         aborted' \in [Workers -> BOOLEAN], faults' \in Nat
  PROVE  IInv'
<1>1. saves' \in [Callers -> Save] /\ \A d \in Callers : SaveSound(saves'[d], grantedAt, granted)
  <2>1. CASE saves' = saves
    BY <2>1 DEF IInv, TypeOK
  <2>2. ASSUME NEW c \in Callers, saves' = [saves EXCEPT ![c] = NoSave]
        PROVE  /\ saves' \in [Callers -> Save]
               /\ \A d \in Callers : SaveSound(saves'[d], grantedAt, granted)
    BY <2>2, NoSaveSound, SavesUpdate DEF IInv
  <2> QED BY <2>1, <2>2
<1> QED BY <1>1 DEF IInv, TypeOK

(* Only lanes, tokens in hand, aborts and faults change. *)
LEMMA QuietStep ==
  ASSUME IInv, UNCHANGED <<item, saves, grantedAt, granted>>,
         lane' \in [Workers -> Lanes], held' \in [Workers -> {0} \cup Tokens],
         aborted' \in [Workers -> BOOLEAN], faults' \in Nat
  PROVE  IInv'
BY DEF IInv, TypeOK

(* The types of what the main lane of a worker sets. *)
LEMMA LaneTypes ==
  ASSUME TypeOK, NEW w \in Workers
  PROVE  /\ \A place \in Lanes : Goto(w, place) => lane' \in [Workers -> Lanes]
         /\ Forget(w) => /\ held' \in [Workers -> {0} \cup Tokens]
                         /\ aborted' \in [Workers -> BOOLEAN]
         /\ UNCHANGED <<held, aborted>> => /\ held' \in [Workers -> {0} \cup Tokens]
                                           /\ aborted' \in [Workers -> BOOLEAN]
         /\ AfterSave(lane[w]) \in Lanes /\ AfterError(lane[w]) \in Lanes
BY DEF TypeOK, Goto, Forget, AfterSave, AfterError, Lanes

LEMMA ContinueTypes ==
  ASSUME TypeOK, NEW w \in Workers, NEW place \in Lanes, Continue(w, place)
  PROVE  /\ lane' \in [Workers -> Lanes] /\ held' \in [Workers -> {0} \cup Tokens]
         /\ aborted' \in [Workers -> BOOLEAN]
BY LaneTypes DEF Continue
-----------------------------------------------------------------------------
(* The steps of the main lane. *)

LEMMA StartStep == ASSUME IInv, NEW w \in Workers, Start(w) PROVE IInv'
<1>1. UNCHANGED <<item, grantedAt, granted, faults, held, aborted>> /\ faults \in Nat
  BY DEF Start, MoveOn, IInv, TypeOK
<1>2. lane' \in [Workers -> Lanes]
  <2>1. "starting" \in Lanes /\ "idle" \in Lanes
    BY DEF Lanes
  <2> QED BY <2>1, LaneTypes DEF Start, MoveOn, IInv
<1>3. CASE Expired(item)
  <2>1. WillSave(Main(w), Recovered(item))
    BY <1>3 DEF Start
  <2>2. Recovered(item) \in Item /\ ItemSound(Recovered(item), grantedAt, granted)
    BY <1>3, RecoveredSound DEF Expired, IInv, TypeOK
  <2> QED BY <1>1, <1>2, <2>1, <2>2, CallersAre, LaneTypes, WillSaveStep DEF IInv
<1>4. CASE ~Expired(item)
  <2>1. saves' = saves
    BY <1>4 DEF Start, MoveOn
  <2> QED BY <1>1, <1>2, <2>1, LaneTypes, QuietStep DEF IInv
<1> QED BY <1>3, <1>4

LEMMA ClaimTransactionStep ==
  ASSUME IInv, NEW w \in Workers, ClaimTransaction(w) PROVE IInv'
<1>1. item.status = "queued" /\ Grant(item) /\ item' = Leased(item)
      /\ UNCHANGED <<saves, aborted, faults>>
  BY DEF ClaimTransaction
<1>2. /\ grantedAt' \in [Tokens -> Nat] /\ granted' \in 0..MaxGrants /\ granted + 1 \in Tokens
      /\ item' \in Item /\ ItemSound(item', grantedAt', granted')
      /\ \A i \in Item : ItemSound(i, grantedAt, granted) => ItemSound(i, grantedAt', granted')
  BY <1>1, GrantStep DEF IInv
<1>3. \A c \in Callers : SaveSound(saves[c], grantedAt', granted')
  BY <1>2 DEF IInv, TypeOK, SaveSound, Save
<1>4. lane' \in [Workers -> Lanes] /\ held' \in [Workers -> {0} \cup Tokens]
  <2>1. "executing" \in Lanes
    BY DEF Lanes
  <2> QED BY <1>2, <2>1, LaneTypes DEF ClaimTransaction, IInv, TypeOK
<1> QED BY <1>1, <1>2, <1>3, <1>4 DEF IInv, TypeOK

LEMMA ClaimRecoversStep ==
  ASSUME IInv, NEW w \in Workers, ClaimRecovers(w) PROVE IInv'
<1>1. UNCHANGED <<item, grantedAt, granted, faults, held, aborted>> /\ faults \in Nat
  BY DEF ClaimRecovers, MoveOn, IInv, TypeOK
<1>2. lane' \in [Workers -> Lanes]
  <2>1. "recovering" \in Lanes /\ "listing" \in Lanes
    BY DEF Lanes
  <2> QED BY <2>1, LaneTypes DEF ClaimRecovers, MoveOn, IInv
<1>3. CASE Expired(item)
  <2>1. WillSave(Main(w), Recovered(item))
    BY <1>3 DEF ClaimRecovers
  <2>2. Recovered(item) \in Item /\ ItemSound(Recovered(item), grantedAt, granted)
    BY <1>3, RecoveredSound DEF Expired, IInv, TypeOK
  <2> QED BY <1>1, <1>2, <2>1, <2>2, CallersAre, LaneTypes, WillSaveStep DEF IInv
<1>4. CASE ~Expired(item)
  <2>1. saves' = saves
    BY <1>4 DEF ClaimRecovers, MoveOn
  <2> QED BY <1>1, <1>2, <2>1, LaneTypes, QuietStep DEF IInv
<1> QED BY <1>3, <1>4

(* Leasing a listed item: the copy and its grant go together. *)
LEMMA ClaimListedStep ==
  ASSUME IInv, NEW w \in Workers, ClaimListed(w) PROVE IInv'
<1>0. "claiming" \in Lanes /\ "idle" \in Lanes
  BY DEF Lanes
<1>1. CASE item.status = "queued" /\ granted < MaxGrants
  <2> DEFINE s == [pending |-> TRUE, copy |-> Leased(item)]
  <2>1. Grant(item) /\ Goto(w, "claiming") /\ UNCHANGED <<item, faults, aborted>>
        /\ saves' = [saves EXCEPT ![Main(w)] = s] /\ held' = [held EXCEPT ![w] = granted + 1]
    BY <1>1 DEF ClaimListed, WillSave
  <2>2. /\ grantedAt' \in [Tokens -> Nat] /\ granted' \in 0..MaxGrants /\ granted + 1 \in Tokens
        /\ Leased(item) \in Item /\ ItemSound(Leased(item), grantedAt', granted')
        /\ \A i \in Item : ItemSound(i, grantedAt, granted) => ItemSound(i, grantedAt', granted')
    BY <1>1, <2>1, GrantStep DEF IInv
  <2>3. s \in Save /\ SaveSound(s, grantedAt', granted')
    BY <2>2 DEF Save, SaveSound
  <2> HIDE DEF s
  <2>4. \A c \in Callers : SaveSound(saves[c], grantedAt', granted')
    BY <2>2 DEF IInv, TypeOK, SaveSound, Save
  <2>5. saves' \in [Callers -> Save] /\ \A c \in Callers : SaveSound(saves'[c], grantedAt', granted')
    BY <2>1, <2>3, <2>4, CallersAre DEF IInv, TypeOK
  <2>6. lane' \in [Workers -> Lanes] /\ held' \in [Workers -> {0} \cup Tokens]
    BY <1>0, <2>1, <2>2, LaneTypes DEF IInv, TypeOK
  <2> QED BY <2>1, <2>2, <2>5, <2>6 DEF IInv, TypeOK
<1>2. CASE ~(item.status = "queued" /\ granted < MaxGrants)
  <2>1. Goto(w, "idle") /\ UNCHANGED <<item, saves, grantedAt, granted, faults, held, aborted>>
    BY <1>2 DEF ClaimListed, MoveOn
  <2> QED BY <1>0, <2>1, LaneTypes, QuietStep DEF IInv, TypeOK
<1> QED BY <1>1, <1>2

LEMMA CompleteStep == ASSUME IInv, NEW w \in Workers, Complete(w) PROVE IInv'
<1>1. UNCHANGED <<item, grantedAt, granted, faults, held, aborted>> /\ faults \in Nat
  BY DEF Complete, MoveOn, IInv, TypeOK
<1>2. lane' \in [Workers -> Lanes]
  <2>1. "completing" \in Lanes /\ "failing" \in Lanes
    BY DEF Lanes
  <2> QED BY <2>1, LaneTypes DEF Complete, MoveOn, IInv
<1>3. CASE Owned(held[w])
  <2>1. WillSave(Main(w), Completed(item, held[w]))
    BY <1>3 DEF Complete
  <2>2. /\ Completed(item, held[w]) \in Item
        /\ ItemSound(Completed(item, held[w]), grantedAt, granted)
    BY <1>3, CompletedSound DEF IInv, TypeOK
  <2> QED BY <1>1, <1>2, <2>1, <2>2, CallersAre, LaneTypes, WillSaveStep DEF IInv
<1>4. CASE ~Owned(held[w])
  <2>1. saves' = saves
    BY <1>4 DEF Complete, MoveOn
  <2> QED BY <1>1, <1>2, <2>1, LaneTypes, QuietStep DEF IInv
<1> QED BY <1>3, <1>4

LEMMA FailStep == ASSUME IInv, NEW w \in Workers, Fail(w) PROVE IInv'
<1>0. "settling" \in Lanes /\ "idle" \in Lanes
  BY DEF Lanes
<1>1. CASE Owned(held[w])
  <2>1. WillSave(Main(w), FailedItem(item)) /\ Goto(w, "settling")
        /\ UNCHANGED <<item, held, aborted, grantedAt, granted, faults>>
    BY <1>1 DEF Fail
  <2>2. FailedItem(item) \in Item /\ ItemSound(FailedItem(item), grantedAt, granted)
    BY <1>1, FailedSound DEF Owned, IInv, TypeOK
  <2>3. lane' \in [Workers -> Lanes] /\ faults' \in Nat
    BY <1>0, <2>1, LaneTypes DEF IInv, TypeOK
  <2> QED BY <2>1, <2>2, <2>3, CallersAre, LaneTypes, WillSaveStep DEF IInv
<1>2. CASE ~Owned(held[w])
  <2>1. Goto(w, "idle") /\ Forget(w) /\ UNCHANGED <<item, saves, grantedAt, granted, faults>>
    BY <1>2 DEF Fail, MoveOn
  <2> QED BY <1>0, <2>1, LaneTypes, QuietStep DEF IInv, TypeOK
<1> QED BY <1>1, <1>2

LEMMA HandlerReturnsStep == ASSUME IInv, NEW w \in Workers, HandlerReturns(w) PROVE IInv'
<1>1. "reporting" \in Lanes
  BY DEF Lanes
<1> QED BY <1>1, LaneTypes, QuietStep DEF HandlerReturns, MoveOn, IInv, TypeOK

LEMMA HandlerThrowsStep == ASSUME IInv, NEW w \in Workers, HandlerThrows(w) PROVE IInv'
<1>1. "failing" \in Lanes
  BY DEF Lanes
<1> QED BY <1>1, LaneTypes, QuietStep DEF HandlerThrows, MoveOn, IInv, TypeOK

(* A save stores its copy. *)
LEMMA SaveMainStep == ASSUME IInv, NEW w \in Workers, SaveMain(w) PROVE IInv'
<1>1. item' \in Item /\ ItemSound(item', grantedAt, granted)
  BY CallersAre DEF SaveMain, Saved, IInv, TypeOK, SaveSound, Save
<1>2. \E c \in Callers : saves' = [saves EXCEPT ![c] = NoSave]
  BY CallersAre DEF SaveMain, Saved
<1>3. /\ lane' \in [Workers -> Lanes] /\ held' \in [Workers -> {0} \cup Tokens]
      /\ aborted' \in [Workers -> BOOLEAN]
  BY LaneTypes, ContinueTypes DEF SaveMain, IInv
<1> QED BY <1>1, <1>2, <1>3, ItemStep DEF SaveMain, NoGrant, IInv, TypeOK

LEMMA MainLaneStep == ASSUME IInv, NEW w \in Workers, MainLane(w) PROVE IInv'
BY StartStep, ClaimTransactionStep, ClaimRecoversStep, ClaimListedStep,
   HandlerReturnsStep, CompleteStep, HandlerThrowsStep, FailStep, SaveMainStep DEF MainLane
-----------------------------------------------------------------------------
(* The other callers, faults, the clock. *)

LEMMA HeartbeatStep == ASSUME IInv, NEW w \in Workers, Heartbeat(w) PROVE IInv'
<1>1. UNCHANGED <<item, lane, held, grantedAt, granted, faults>>
  BY DEF Heartbeat
<1>2. CASE Owned(held[w])
  <2>1. WillSave(Beat(w), Heartbeaten(item)) /\ aborted' = aborted
    BY <1>2 DEF Heartbeat
  <2>2. Heartbeaten(item) \in Item /\ ItemSound(Heartbeaten(item), grantedAt, granted)
    BY <1>2, HeartbeatenSound DEF IInv
  <2> QED BY <1>1, <2>1, <2>2, CallersAre, WillSaveStep DEF IInv, TypeOK
<1>3. CASE ~Owned(held[w])
  BY <1>1, <1>3, QuietStep DEF Heartbeat, IInv, TypeOK
<1> QED BY <1>2, <1>3

LEMMA ApiStep ==
  ASSUME IInv, NEW c \in Clients, ApiRecover(c) \/ ApiCancel(c) PROVE IInv'
<1>1. UNCHANGED <<item, lane, held, aborted, grantedAt, granted, faults>>
  BY DEF ApiRecover, ApiCancel
<1>2. CASE ApiRecover(c)
  <2>1. Recovered(item) \in Item /\ ItemSound(Recovered(item), grantedAt, granted)
    BY <1>2, RecoveredSound DEF ApiRecover, Expired, IInv, TypeOK
  <2> QED BY <1>1, <1>2, <2>1, CallersAre, WillSaveStep DEF ApiRecover, IInv, TypeOK
<1>3. CASE ApiCancel(c)
  <2>1. Unleased(item, "cancelled") \in Item
        /\ ItemSound(Unleased(item, "cancelled"), grantedAt, granted)
    BY <1>3, UnleasedSound DEF ApiCancel, IInv, TypeOK, Status
  <2> QED BY <1>1, <1>3, <2>1, CallersAre, WillSaveStep DEF ApiCancel, IInv, TypeOK
<1> QED BY <1>2, <1>3

LEMMA SaveOtherStep == ASSUME IInv, NEW c \in Callers, SaveOther(c) PROVE IInv'
<1>1. item' \in Item /\ ItemSound(item', grantedAt, granted)
  BY DEF SaveOther, Saved, IInv, TypeOK, SaveSound, Save
<1>2. \E d \in Callers : saves' = [saves EXCEPT ![d] = NoSave]
  BY DEF SaveOther, Saved
<1> QED BY <1>1, <1>2, ItemStep DEF SaveOther, NoGrant, IInv, TypeOK

(* A failed save stores its copy or nothing. *)
LEMMA FaultStep ==
  ASSUME IInv, NEW c \in Callers, Faulted(c), NoGrant,
         lane' \in [Workers -> Lanes], held' \in [Workers -> {0} \cup Tokens],
         aborted' \in [Workers -> BOOLEAN]
  PROVE  IInv'
<1>1. item' \in Item /\ ItemSound(item', grantedAt, granted)
  BY DEF Faulted, IInv, TypeOK, SaveSound, Save
<1>2. faults' \in Nat
  BY DEF Faulted, IInv, TypeOK
<1> QED BY <1>1, <1>2, ItemStep DEF Faulted, NoGrant

LEMMA SaveFailsStep ==
  ASSUME IInv PROVE (\/ \E w \in Workers : MainSaveFails(w) \/ BeatSaveFails(w)
                     \/ \E c \in Clients : ApiSaveFails(c)) => IInv'
<1>1. ASSUME NEW w \in Workers, MainSaveFails(w)
      PROVE  IInv'
  <2>1. /\ lane' \in [Workers -> Lanes] /\ held' \in [Workers -> {0} \cup Tokens]
        /\ aborted' \in [Workers -> BOOLEAN]
    BY <1>1, LaneTypes, ContinueTypes DEF MainSaveFails, IInv
  <2> QED BY <1>1, <2>1, CallersAre, FaultStep DEF MainSaveFails
<1>2. ASSUME NEW w \in Workers, BeatSaveFails(w)
      PROVE  IInv'
  <2>1. (aborted[w] \/ saves[Beat(w)].copy.token = held[w]) \in BOOLEAN
    BY DEF IInv, TypeOK
  <2>2. aborted' \in [Workers -> BOOLEAN]
    BY <1>2, <2>1 DEF BeatSaveFails, IInv, TypeOK
  <2> QED BY <1>2, <2>2, CallersAre, FaultStep DEF BeatSaveFails, IInv, TypeOK
<1>3. ASSUME NEW c \in Clients, ApiSaveFails(c)
      PROVE  IInv'
  BY <1>3, CallersAre, FaultStep DEF ApiSaveFails, IInv, TypeOK
<1> QED BY <1>1, <1>2, <1>3

LEMMA CrashStep == ASSUME IInv, NEW w \in Workers, Crash(w) PROVE IInv'
<1>1. /\ lane' \in [Workers -> Lanes] /\ held' \in [Workers -> {0} \cup Tokens]
      /\ aborted' \in [Workers -> BOOLEAN] /\ faults' \in Nat
  <2>1. "stopped" \in Lanes
    BY DEF Lanes
  <2> QED BY <2>1, LaneTypes DEF Crash, IInv, TypeOK
<1> DEFINE once == [saves EXCEPT ![Main(w)] = NoSave]
<1>2. saves' = [once EXCEPT ![Beat(w)] = NoSave]
  BY DEF Crash
<1>3. once \in [Callers -> Save] /\ \A d \in Callers : SaveSound(once[d], grantedAt, granted)
  BY CallersAre, NoSaveSound, SavesUpdate DEF IInv
<1> HIDE DEF once
<1>4. saves' \in [Callers -> Save] /\ \A d \in Callers : SaveSound(saves'[d], grantedAt, granted)
  BY <1>2, <1>3, CallersAre, NoSaveSound
<1> QED BY <1>1, <1>4 DEF Crash, NoGrant, IInv, TypeOK

LEMMA ClockStep == ASSUME IInv, Enqueue \/ LeaseExpires PROVE IInv'
<1>1. CASE Enqueue
  <2> DEFINE i == [NewItem EXCEPT !.status = "queued"]
  <2>1. i.status = "queued" /\ i.attempts = 0 /\ i \in ItemRecord /\ i.token = 0 /\ ~i.live
        /\ i.result = 0
    BY DEF NewItem, ItemRecord, Status
  <2>2. i \in Item /\ ItemSound(i, grantedAt, granted)
    <3> HIDE DEF i
    <3> QED BY <2>1 DEF Item, ItemSound
  <2>3. item' = i
    BY <1>1 DEF Enqueue
  <2> HIDE DEF i
  <2> QED BY <1>1, <2>2, <2>3, ItemStep DEF Enqueue, IInv, TypeOK
<1>2. CASE LeaseExpires
  <2> DEFINE i == [item EXCEPT !.live = FALSE]
  <2>1. /\ i \in ItemRecord /\ i.status = item.status /\ i.token = item.token
        /\ i.attempts = item.attempts /\ i.result = item.result /\ ~i.live
    BY DEF IInv, TypeOK, Item, ItemRecord
  <2>2. i \in Item /\ ItemSound(i, grantedAt, granted)
    BY <2>1 DEF IInv, TypeOK, Item, ItemSound
  <2>3. item' = i
    BY <1>2 DEF LeaseExpires
  <2> HIDE DEF i
  <2> QED BY <1>2, <2>2, <2>3, ItemStep DEF LeaseExpires, IInv, TypeOK
<1> QED BY <1>1, <1>2
-----------------------------------------------------------------------------
(* A new queue satisfies the invariant. *)
LEMMA InitInvariant == Init => IInv
<1> SUFFICES ASSUME Init PROVE IInv
  OBVIOUS
<1>1. TypeOK
  BY NoSaveSound DEF Init, TypeOK, Lanes
<1>2. ItemSound(item, grantedAt, granted)
  BY DEF Init, NewItem, ItemSound
<1>3. \A c \in Callers : SaveSound(saves[c], grantedAt, granted)
  BY NoSaveSound DEF Init
<1> QED BY <1>1, <1>2, <1>3 DEF IInv

(* Every step of every caller keeps the invariant. *)
LEMMA NextInvariant == IInv /\ [Next]_vars => IInv'
<1> SUFFICES ASSUME IInv, [Next]_vars PROVE IInv'
  OBVIOUS
<1>1. CASE Enqueue \/ LeaseExpires
  BY <1>1, ClockStep
<1>2. CASE \E w \in Workers : MainLane(w) \/ Heartbeat(w) \/ SaveOther(Beat(w))
  BY <1>2, MainLaneStep, HeartbeatStep, SaveOtherStep, CallersAre
<1>3. CASE \E w \in Workers : MainSaveFails(w) \/ BeatSaveFails(w) \/ Crash(w)
  BY <1>3, SaveFailsStep, CrashStep
<1>4. CASE \E c \in Clients : ApiRecover(c) \/ ApiCancel(c) \/ SaveOther(Api(c)) \/ ApiSaveFails(c)
  BY <1>4, ApiStep, SaveOtherStep, SaveFailsStep, CallersAre
<1>5. CASE UNCHANGED vars
  BY <1>5 DEF vars, IInv, TypeOK
<1> QED BY <1>1, <1>2, <1>3, <1>4, <1>5 DEF Next

(* The invariant holds in every state of every queue. *)
THEOREM QueueInvariant == Spec => []IInv
BY InitInvariant, NextInvariant, PTL DEF Spec

(* The item, the copies, the lanes and the histories keep their types, and *)
(* only a leased item has a lease.                                         *)
THEOREM QueueTypes == Spec => []TypeOK
BY QueueInvariant, PTL DEF IInv

(* Whichever stale copy is saved last, a queued item has an attempt left.  *)
THEOREM AttemptsStayBounded == Spec => []BoundedAttempts
<1>1. IInv => BoundedAttempts
  BY DEF IInv, ItemSound, BoundedAttempts
<1> QED BY <1>1, QueueInvariant, PTL

(* A stored lease and a stored result belong to the attempt stored with    *)
(* them, whatever late workers and stale saves do.                         *)
THEOREM ResultsBelong == Spec => []ResultOfItsAttempt
<1>1. IInv => ResultOfItsAttempt
  BY DEF IInv, ItemSound, GrantedFor, ResultOfItsAttempt
<1> QED BY <1>1, QueueInvariant, PTL
-----------------------------------------------------------------------------
(***************************************************************************)
(* Beside the queue, the missions keep what is proved of them alone.       *)
(***************************************************************************)

LEMMA MissionsBesideQueue == StoresSpec => []M!IInv
<1>1. StoresInit => M!IInv
  BY QueueAssumption, MissionsAssumption, M!InitInvariant DEF StoresInit, M!InitInvariant
<1>2. M!IInv /\ [StoresNext]_<<part, vars, missions>> => M!IInv'
  <2> SUFFICES ASSUME M!IInv, [StoresNext]_<<part, vars, missions>> PROVE M!IInv'
    OBVIOUS
  <2>1. [M!Next]_(M!vars)
    BY DEF StoresNext, missions, M!vars, M!histories
  <2> QED BY <2>1, QueueAssumption, MissionsAssumption, M!NextInvariant DEF M!NextInvariant
<1> QED BY <1>1, <1>2, PTL DEF StoresSpec

(* Also in the database that holds the queue, an approval-marked step runs *)
(* only after an approval, and comes to run no more often than it was      *)
(* approved and overtaken copies were saved, whatever overlapping calls    *)
(* read torn and save.                                                     *)
THEOREM StoredApprovalsRespected == StoresSpec => []ApprovedBeforeRunning
<1>1. M!IInv => ApprovedBeforeRunning
  BY QueueAssumption, MissionsAssumption, M!ApprovalsHold DEF M!ApprovalsHold, ApprovedBeforeRunning
<1> QED BY <1>1, MissionsBesideQueue, PTL

(* Also there, the attempts of a step on record keep to the limit and its  *)
(* reopenings, and it runs no more often than that after each save of an   *)
(* overtaken copy.                                                         *)
THEOREM StoredAttemptsBounded == StoresSpec => []AttemptBudget
<1>1. M!IInv => AttemptBudget
  BY QueueAssumption, MissionsAssumption, M!BudgetHolds DEF M!BudgetHolds, AttemptBudget
<1> QED BY <1>1, MissionsBesideQueue, PTL

=============================================================================
