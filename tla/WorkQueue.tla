----------------------------- MODULE WorkQueue -----------------------------
(***************************************************************************)
(* The durable work queue (src/src/workers.ts, PgStateStore) and the       *)
(* executors that work it off (src/src/executor.ts): one work item, the    *)
(* executor processes and the clients of the worker API.                   *)
(*                                                                         *)
(* Every operation but the database's claim gets the item, changes its     *)
(* copy and saves the whole copy.  An executor has two lanes that overlap: *)
(* the main one claims, executes and reports, a timer heartbeats the lease *)
(* meanwhile.  So two processes and one client already make five callers   *)
(* whose saves arrive in any order.                                        *)
(*                                                                         *)
(* A lease token is the number of its grant.  Time is the item's `live':   *)
(* the lease has not yet expired.  A leased copy about to be saved always  *)
(* carries a fresh expiry; that it passes before the save is the same as   *)
(* that it passes just after.                                              *)
(***************************************************************************)
EXTENDS Integers

CONSTANTS
  Workers,      \* executor processes
  Clients,      \* API callers that recover and cancel
  Database,     \* databaseEnabled(): claim is one transaction, without recover
  MaxAttempts,  \* maxAttempts of the item
  MaxGrants,    \* bound: leases granted
  MaxFaults     \* bound: crashes and failed saves

ASSUME QueueAssumption ==
  /\ Database \in BOOLEAN
  /\ MaxAttempts \in Nat \ {0}
  /\ MaxGrants \in Nat /\ MaxFaults \in Nat

VARIABLES
  item,       \* what is stored
  saves,      \* the copy each caller is about to save
  lane,       \* where the main lane of a worker is
  held,       \* the token a worker executes under, 0 for none
  aborted,    \* a worker's AbortController has fired
  grantedAt,  \* history: the attempts stored with each grant
  granted,    \* history: the number of grants
  faults      \* history: crashes and failed saves

vars == <<item, saves, lane, held, aborted, grantedAt, granted, faults>>

Tokens == 1..MaxGrants
Status == {"absent", "queued", "leased", "completed", "failed", "cancelled"}

(* An item: exactly a leased one has a lease.                              *)
(* result: the token under which the stored result was produced.           *)
ItemRecord == [status: Status, attempts: Nat, token: {0} \cup Tokens, live: BOOLEAN,
               result: {0} \cup Tokens]
Item == {i \in ItemRecord : (i.status = "leased" <=> i.token # 0) /\ (i.live => i.token # 0)}

Callers == (Workers \X {"main", "beat"}) \cup (Clients \X {"api"})
Save == [pending: BOOLEAN, copy: Item]

(* "starting" to "settling" are the places where a save is awaited, or the *)
(* handler.                                                                *)
Lanes == {"stopped", "starting", "idle", "recovering", "listing", "claiming",
          "executing", "reporting", "completing", "failing", "settling"}

NewItem == [status |-> "absent", attempts |-> 0, token |-> 0, live |-> FALSE, result |-> 0]
NoSave == [pending |-> FALSE, copy |-> NewItem]

TypeOK ==
  /\ item \in Item
  /\ saves \in [Callers -> Save]
  /\ lane \in [Workers -> Lanes]
  /\ held \in [Workers -> {0} \cup Tokens]
  /\ aborted \in [Workers -> BOOLEAN]
  /\ grantedAt \in [Tokens -> Nat]
  /\ granted \in 0..MaxGrants
  /\ faults \in Nat

Init ==
  /\ item = NewItem
  /\ saves = [c \in Callers |-> NoSave]
  /\ lane = [w \in Workers |-> "stopped"]
  /\ held = [w \in Workers |-> 0]
  /\ aborted = [w \in Workers |-> FALSE]
  /\ grantedAt = [t \in Tokens |-> 0]
  /\ granted = 0
  /\ faults = 0
-----------------------------------------------------------------------------
(* What the operations make of the item i.                                 *)

Bug_LeaseLeft(i, status) ==
  [status |-> status, attempts |-> i.attempts, token |-> i.token, live |-> FALSE,
   result |-> i.result]

Unleased(i, status) ==
  [status |-> status, attempts |-> i.attempts, token |-> 0, live |-> FALSE, result |-> i.result]

Expired(i) == i.status = "leased" /\ ~i.live

(* recover, of an expired item. *)
Recovered(i) == Unleased(i, IF i.attempts >= MaxAttempts THEN "failed" ELSE "queued")

(* claim, of a queued item: the next token. *)
Leased(i) ==
  [status |-> "leased", attempts |-> i.attempts + 1, token |-> granted + 1, live |-> TRUE,
   result |-> i.result]

Bug_AnyLease(token) == item.status = "leased" /\ item.live

(* owned: the stored lease is this one and has not expired. *)
Owned(token) == item.status = "leased" /\ item.token = token /\ item.live

Heartbeaten(i) == [i EXCEPT !.live = TRUE]

(* complete and fail, under the worker's own token. *)
Completed(i, token) ==
  [status |-> "completed", attempts |-> i.attempts, token |-> 0, live |-> FALSE,
   result |-> token]

Bug_OneRetryMore(i) == Unleased(i, IF i.attempts <= MaxAttempts THEN "queued" ELSE "failed")

FailedItem(i) == Unleased(i, IF i.attempts < MaxAttempts THEN "queued" ELSE "failed")
-----------------------------------------------------------------------------
Main(w) == <<w, "main">>
Beat(w) == <<w, "beat">>
Api(c) == <<c, "api">>

(* Caller c will save copy. *)
WillSave(c, copy) == saves' = [saves EXCEPT ![c] = [pending |-> TRUE, copy |-> copy]]

Goto(w, place) == lane' = [lane EXCEPT ![w] = place]

(* A grant is recorded when its lease is drawn. *)
Grant(i) ==
  /\ granted < MaxGrants
  /\ granted' = granted + 1
  /\ grantedAt' = [grantedAt EXCEPT ![granted + 1] = i.attempts + 1]

NoGrant == UNCHANGED <<grantedAt, granted>>

Enqueue ==
  /\ item.status = "absent"
  /\ item' = [NewItem EXCEPT !.status = "queued"]
  /\ UNCHANGED <<saves, lane, held, aborted, grantedAt, granted, faults>>

LeaseExpires ==
  /\ item.status = "leased" /\ item.live
  /\ item' = [item EXCEPT !.live = FALSE]
  /\ UNCHANGED <<saves, lane, held, aborted, grantedAt, granted, faults>>

(* A main-lane step that saves nothing and only moves on. *)
MoveOn(w, place) == Goto(w, place) /\ UNCHANGED <<item, saves, grantedAt, granted, faults>>

(* PersistentExecutor.start recovers the queue once. *)
Start(w) ==
  /\ lane[w] = "stopped"
  /\ IF Expired(item)
       THEN /\ WillSave(Main(w), Recovered(item)) /\ Goto(w, "starting")
            /\ UNCHANGED <<item, grantedAt, granted, faults>>
       ELSE MoveOn(w, "idle")
  /\ UNCHANGED <<held, aborted>>

(* tick: claim, with a database. *)
ClaimTransaction(w) ==
  /\ Database
  /\ lane[w] = "idle" /\ item.status = "queued"
  /\ item' = Leased(item) /\ Grant(item)
  /\ held' = [held EXCEPT ![w] = granted + 1]
  /\ Goto(w, "executing")
  /\ UNCHANGED <<saves, aborted, faults>>

Bug_ClaimOnlyLists(w) ==
  ~Database /\ lane[w] = "idle" /\ MoveOn(w, "listing") /\ UNCHANGED <<held, aborted>>

(* tick: claim without one first recovers ... *)
ClaimRecovers(w) ==
  /\ ~Database
  /\ lane[w] = "idle"
  /\ IF Expired(item)
       THEN /\ WillSave(Main(w), Recovered(item)) /\ Goto(w, "recovering")
            /\ UNCHANGED <<item, grantedAt, granted, faults>>
       ELSE MoveOn(w, "listing")
  /\ UNCHANGED <<held, aborted>>

(* ... and then lists the queue and leases what is queued. *)
ClaimListed(w) ==
  /\ lane[w] = "listing"
  /\ IF item.status = "queued" /\ granted < MaxGrants
       THEN /\ WillSave(Main(w), Leased(item)) /\ Grant(item)
            /\ held' = [held EXCEPT ![w] = granted + 1]
            /\ Goto(w, "claiming")
            /\ UNCHANGED <<item, faults>>
       ELSE MoveOn(w, "idle") /\ UNCHANGED held
  /\ UNCHANGED aborted

(* The handler returns and its lease was not aborted; its evidence and the *)
(* accounting are written ...                                              *)
HandlerReturns(w) ==
  lane[w] = "executing" /\ ~aborted[w] /\ MoveOn(w, "reporting") /\ UNCHANGED <<held, aborted>>

(* ... and then complete, if owned.                                        *)
Complete(w) ==
  /\ lane[w] = "reporting"
  /\ IF Owned(held[w])
       THEN /\ WillSave(Main(w), Completed(item, held[w])) /\ Goto(w, "completing")
            /\ UNCHANGED <<item, grantedAt, granted, faults>>
       ELSE MoveOn(w, "failing")
  /\ UNCHANGED <<held, aborted>>

(* The handler throws, or returns after its lease was aborted, or what it  *)
(* reports cannot be written.                                              *)
HandlerThrows(w) ==
  /\ lane[w] \in {"executing", "reporting"}
  /\ MoveOn(w, "failing") /\ UNCHANGED <<held, aborted>>

(* A main lane is done with its item. *)
Forget(w) ==
  /\ held' = [held EXCEPT ![w] = 0]
  /\ aborted' = [aborted EXCEPT ![w] = FALSE]

(* execute's catch: fail, if owned; its own exception is swallowed. *)
Fail(w) ==
  /\ lane[w] = "failing"
  /\ IF Owned(held[w])
       THEN /\ WillSave(Main(w), FailedItem(item)) /\ Goto(w, "settling")
            /\ UNCHANGED <<item, held, aborted, grantedAt, granted, faults>>
       ELSE MoveOn(w, "idle") /\ Forget(w)

(* The heartbeat timer, until execute's finally; a save of it may outlast  *)
(* the execution (bound: one such save per worker).                        *)
Heartbeat(w) ==
  /\ lane[w] \in {"executing", "reporting", "completing", "failing", "settling"}
  /\ ~saves[Beat(w)].pending
  /\ IF Owned(held[w])
       THEN WillSave(Beat(w), Heartbeaten(item)) /\ UNCHANGED aborted
       ELSE aborted' = [aborted EXCEPT ![w] = TRUE] /\ UNCHANGED saves
  /\ UNCHANGED <<item, lane, held, grantedAt, granted, faults>>

ApiRecover(c) ==
  /\ ~saves[Api(c)].pending
  /\ Expired(item)
  /\ WillSave(Api(c), Recovered(item))
  /\ UNCHANGED <<item, lane, held, aborted, grantedAt, granted, faults>>

ApiCancel(c) ==
  /\ ~saves[Api(c)].pending
  /\ item.status \notin {"absent", "completed"}
  /\ WillSave(Api(c), Unleased(item, "cancelled"))
  /\ UNCHANGED <<item, lane, held, aborted, grantedAt, granted, faults>>

(* Where a main lane goes when its save is done, and when it fails. *)
AfterSave(place) ==
  CASE place = "recovering" -> "listing" [] place = "claiming" -> "executing" [] OTHER -> "idle"
AfterError(place) ==
  CASE place = "starting" -> "stopped" [] place = "completing" -> "failing" [] OTHER -> "idle"

(* The worker w moves to place; what it held ends with the execution. *)
Continue(w, place) ==
  Goto(w, place) /\ IF place \in {"idle", "stopped"} THEN Forget(w) ELSE UNCHANGED <<held, aborted>>

(* save of caller c, whose copy replaces what is stored. *)
Saved(c) ==
  /\ saves[c].pending
  /\ item' = saves[c].copy
  /\ saves' = [saves EXCEPT ![c] = NoSave]

SaveMain(w) ==
  Saved(Main(w)) /\ Continue(w, AfterSave(lane[w])) /\ NoGrant /\ UNCHANGED faults

SaveOther(c) == Saved(c) /\ NoGrant /\ UNCHANGED <<lane, held, aborted, faults>>

(* A save fails, and may have been applied all the same. *)
Faulted(c) ==
  /\ faults < MaxFaults /\ faults' = faults + 1
  /\ saves[c].pending
  /\ item' \in {item, saves[c].copy}
  /\ saves' = [saves EXCEPT ![c] = NoSave]

MainSaveFails(w) == Faulted(Main(w)) /\ Continue(w, AfterError(lane[w])) /\ NoGrant

BeatSaveFails(w) ==
  /\ Faulted(Beat(w)) /\ NoGrant
  /\ aborted' = [aborted EXCEPT ![w] = @ \/ saves[Beat(w)].copy.token = held[w]]
  /\ UNCHANGED <<lane, held>>

ApiSaveFails(c) == Faulted(Api(c)) /\ NoGrant /\ UNCHANGED <<lane, held, aborted>>

(* The process of w dies (or exits on a signal) with its saves unsent. *)
Crash(w) ==
  /\ lane[w] # "stopped"
  /\ faults < MaxFaults /\ faults' = faults + 1
  /\ saves' = [saves EXCEPT ![Main(w)] = NoSave, ![Beat(w)] = NoSave]
  /\ Goto(w, "stopped") /\ Forget(w) /\ NoGrant
  /\ UNCHANGED item

(* What a running executor does by itself. *)
MainLane(w) ==
  \/ Start(w) \/ ClaimTransaction(w) \/ ClaimRecovers(w) \/ ClaimListed(w)
  \/ HandlerReturns(w) \/ Complete(w) \/ HandlerThrows(w) \/ Fail(w) \/ SaveMain(w)

Next ==
  \/ Enqueue \/ LeaseExpires
  \/ \E w \in Workers : MainLane(w) \/ Heartbeat(w) \/ SaveOther(Beat(w))
  \/ \E w \in Workers : MainSaveFails(w) \/ BeatSaveFails(w) \/ Crash(w)
  \/ \E c \in Clients : ApiRecover(c) \/ ApiCancel(c) \/ SaveOther(Api(c)) \/ ApiSaveFails(c)

Spec == Init /\ [][Next]_vars

(* Processes are restarted, timers fire and queries and handlers end. *)
FairSpec ==
  /\ Spec
  /\ \A w \in Workers : WF_vars(MainLane(w)) /\ WF_vars(SaveOther(Beat(w)))
-----------------------------------------------------------------------------
(* Properties.                                                             *)

(* An item is never handed out beyond its attempt budget, as far as the    *)
(* stored count goes: queued means an attempt is left, whichever stale     *)
(* copy was saved last (claim, fail, recover).                             *)
BoundedAttempts ==
  /\ item.attempts <= MaxAttempts
  /\ item.status = "queued" => item.attempts < MaxAttempts

(* A result and the attempt count stored with it belong to one lease, and  *)
(* so does a stored lease: neither a late worker nor a stale save mixes    *)
(* two attempts ("expired leases ... must never imply successful           *)
(* execution").  And an item that has its result is completed: the worker  *)
(* whose save was applied and yet failed does not put it back in the queue *)
(* (owned, complete, fail, heartbeat, claim).                              *)
ResultOfItsAttempt ==
  /\ item.result # 0 => item.status = "completed"
  /\ item.status = "completed" =>
       item.result \in Tokens /\ grantedAt[item.result] = item.attempts
  /\ item.status = "leased" => item.token \in Tokens /\ grantedAt[item.token] = item.attempts

(* An expired lease does not stay: some executor takes the item back.      *)
ExpiredLeaseRecovered == Expired(item) ~> ~Expired(item)
=============================================================================
