------------------------------- MODULE Browsers -------------------------------
(***************************************************************************)
(* The browser sessions of a runtime: the BrowserManager of                *)
(* src/src/browser.ts behind browserStart ... browserClose of the          *)
(* operations, called over HTTP by clients whose calls interleave at every *)
(* await of a manager that has no lock.                                    *)
(*                                                                         *)
(* A client that authenticates with the shared secret, and every MCP       *)
(* client, is served by the operations of the runtime; each request of an  *)
(* OAuth client by operations, and a manager, of its own (scopedOps).      *)
(*                                                                         *)
(* External: the browsers (playwright), which may fail to start, to open a *)
(* page, to do what is asked, or to close, and which end with the runtime. *)
(***************************************************************************)
EXTENDS Naturals, FiniteSets, FiniteSetsExt

CONSTANTS
  Clients, OAuth,  \* clients, and those of them that use OAuth
  NoBrowser,
  Max_Sessions,    \* MAX_BROWSER_SESSIONS
  MaxStarts,       \* bound: browsers that are launched
  MaxRestarts      \* bound: restarts of the runtime

VARIABLES
  sessions,  \* the shared manager: by ID
  nextId,
  running,   \* browsers that run
  call,      \* the call a client waits for
  told,      \* the sessions a client was told of, and its browser in each
  launched, restarts,  \* bounds
  orphans    \* history: browsers whose page failed, or of a request's own manager

vars == <<sessions, nextId, running, call, told, launched, restarts, orphans>>

Ids == 1..MaxStarts
Launched == 1..MaxStarts
Session == [browser: Launched, idle: BOOLEAN]

NoCall == [pc |-> "none", id |-> 0, browser |-> NoBrowser]

TypeOK ==
  /\ DOMAIN sessions \subseteq Ids /\ \A i \in DOMAIN sessions : sessions[i] \in Session
  /\ nextId \in 1..MaxStarts + 1 /\ running \subseteq Launched /\ orphans \subseteq Launched
  /\ call \in [Clients -> [pc: {"none", "evict", "evicting", "launch", "page", "use", "close"},
                           id: 0..MaxStarts, browser: Launched \cup {NoBrowser}]]
  /\ told \in [Clients -> SUBSET (Ids \X Launched)]
  /\ launched \in 0..MaxStarts /\ restarts \in 0..MaxRestarts

Init ==
  /\ sessions = <<>> /\ nextId = 1 /\ running = {} /\ orphans = {}
  /\ call = [c \in Clients |-> NoCall] /\ told = [c \in Clients |-> {}]
  /\ launched = 0 /\ restarts = 0

Goes(c, pc) == call' = [call EXCEPT ![c].pc = pc]
Ends(c) == call' = [call EXCEPT ![c] = NoCall]
Known(c) == {p[1] : p \in told[c]}

(* The sessions that the manager of this client's requests holds. *)
Held(c) == IF c \in OAuth THEN {} ELSE DOMAIN sessions

Without(i) == [j \in DOMAIN sessions \ {i} |-> sessions[j]]
-----------------------------------------------------------------------------
(* start                                                                   *)

Begin(c) ==
  /\ call[c].pc = "none" /\ launched < MaxStarts /\ Goes(c, "evict")
  /\ UNCHANGED <<sessions, nextId, running, told, launched, restarts, orphans>>

(* The loop over the map goes on where it was: after the ID it closed. *)
IdleAhead(c) == {i \in Held(c) : i > call[c].id /\ sessions[i].idle}

HasRoom(c) == Cardinality(Held(c)) < Max_Sessions

Evict(c) ==
  /\ call[c].pc = "evict"
  /\ \/ \E i \in IdleAhead(c) :
          /\ \A j \in IdleAhead(c) : i <= j
          /\ call' = [call EXCEPT ![c].pc = "evicting", ![c].id = i]
     \/ IdleAhead(c) = {} /\ HasRoom(c) /\ Goes(c, "launch")
     \/ IdleAhead(c) = {} /\ ~HasRoom(c) /\ Ends(c)
  /\ UNCHANGED <<sessions, nextId, running, told, launched, restarts, orphans>>

(* The close of an idle session; its failure is swallowed, and the session *)
(* stays.                                                                  *)
Evicted(c) ==
  /\ call[c].pc = "evicting" /\ Goes(c, "evict")
  /\ \/ UNCHANGED <<sessions, running>>
     \/ /\ sessions' = Without(call[c].id)
        /\ running' = IF call[c].id \in DOMAIN sessions THEN running \ {sessions[call[c].id].browser} ELSE running
  /\ UNCHANGED <<nextId, told, launched, restarts, orphans>>

Launch(c) ==
  /\ call[c].pc = "launch"
  /\ \/ Ends(c) /\ UNCHANGED <<running, launched>>
     \/ /\ launched < MaxStarts /\ launched' = launched + 1 /\ running' = running \cup {launched + 1}
        /\ call' = [call EXCEPT ![c] = [pc |-> "page", id |-> 0, browser |-> launched + 1]]
  /\ UNCHANGED <<sessions, nextId, told, restarts, orphans>>

Bug_SmallestFree == Min(Ids \ DOMAIN sessions)

NewId == nextId

(* The page opens and the session is entered, or the browser is left alone. *)
OpenPage(c) ==
  LET b == call[c].browser IN
  /\ call[c].pc = "page" /\ Ends(c)
  /\ \/ orphans' = orphans \cup {b} /\ UNCHANGED <<sessions, nextId, told>>
     \/ /\ c \notin OAuth /\ nextId' = nextId + 1 /\ UNCHANGED orphans
        /\ sessions' = [i \in DOMAIN sessions \cup {NewId} |->
                          IF i = NewId THEN [browser |-> b, idle |-> FALSE] ELSE sessions[i]]
        /\ told' = [told EXCEPT ![c] = @ \cup {<<NewId, b>>}]
     \/ /\ c \in OAuth /\ orphans' = orphans \cup {b} /\ UNCHANGED <<sessions, nextId>>
        /\ told' = [told EXCEPT ![c] = @ \cup {<<1, b>>}]
  /\ UNCHANGED <<running, launched, restarts>>
-----------------------------------------------------------------------------
(* navigate, the calls that use a page, close                              *)

(* get(id): an ID that the manager does not hold ends the call. *)
Use(c) ==
  /\ call[c].pc = "none"
  /\ \E i \in Known(c) \cap Held(c), pc \in {"use", "close"} :
       call' = [call EXCEPT ![c] = [NoCall EXCEPT !.pc = pc, !.id = i, !.browser = sessions[i].browser]]
  /\ UNCHANGED <<sessions, nextId, running, told, launched, restarts, orphans>>

(* Only navigate makes a session active. *)
Navigate(c) ==
  /\ call[c].pc = "none"
  /\ \E i \in Known(c) \cap Held(c) :
       /\ sessions' = [sessions EXCEPT ![i].idle = FALSE]
       /\ call' = [call EXCEPT ![c] = [NoCall EXCEPT !.pc = "use", !.id = i, !.browser = sessions[i].browser]]
  /\ UNCHANGED <<nextId, running, told, launched, restarts, orphans>>

(* The page answers, or fails, or was closed by another call. *)
Used(c) ==
  /\ call[c].pc = "use" /\ Ends(c)
  /\ UNCHANGED <<sessions, nextId, running, told, launched, restarts, orphans>>

Closed(b) == running \ {b}

Close(c) ==
  /\ call[c].pc = "close" /\ Ends(c)
  /\ \/ UNCHANGED <<sessions, running>>
     \/ sessions' = Without(call[c].id) /\ running' = Closed(call[c].browser)
  /\ UNCHANGED <<nextId, told, launched, restarts, orphans>>
-----------------------------------------------------------------------------
(* Half an hour passes without a navigation. *)
Idle ==
  /\ \E i \in DOMAIN sessions : ~sessions[i].idle /\ sessions' = [sessions EXCEPT ![i].idle = TRUE]
  /\ UNCHANGED <<nextId, running, call, told, launched, restarts, orphans>>

(* A new runtime counts its sessions from 1; a client drops the old ones. *)
Restart ==
  /\ restarts < MaxRestarts /\ restarts' = restarts + 1
  /\ sessions' = <<>> /\ nextId' = 1 /\ running' = {}
  /\ call' = [c \in Clients |-> NoCall] /\ told' = [c \in Clients |-> {}]
  /\ UNCHANGED <<launched, orphans>>

Next ==
  \/ \E c \in Clients :
       \/ Begin(c) \/ Evict(c) \/ Evicted(c) \/ Launch(c) \/ OpenPage(c)
       \/ Use(c) \/ Navigate(c) \/ Used(c) \/ Close(c)
  \/ Idle \/ Restart
-----------------------------------------------------------------------------
(* Properties.                                                             *)

(* As long as the runtime lives, a session ID that a client was told never *)
(* comes to stand for another browser: a session that was closed or        *)
(* evicted, by a call of any client, leaves an ID that is unknown (start,  *)
(* get and close of BrowserManager).                                       *)
SessionsAreOwn ==
  \A c \in Clients \ OAuth : \A p \in told[c] : p[1] \in DOMAIN sessions => sessions[p[1]].browser = p[2]

Opening == {c \in Clients \ OAuth : call[c].pc \in {"launch", "page"}}

(* A browser that runs is in a session or is being opened, but for those   *)
(* whose page failed to open or that a request's own manager started; and  *)
(* the limit is only exceeded by starts that looked at it together.        *)
BrowsersBounded ==
  /\ running \subseteq orphans \cup {call[c].browser : c \in Clients}
                       \cup {sessions[i].browser : i \in DOMAIN sessions}
  /\ Cardinality(DOMAIN sessions) + Cardinality(Opening) < Max_Sessions + Cardinality(Clients \ OAuth)
=============================================================================
