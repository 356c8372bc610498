-------------------------------- MODULE Runtime --------------------------------
(***************************************************************************)
(* The start and the stop of runtimes of one directory and port            *)
(* (src/src/index.ts): the configuration, the ownership record             *)
(* runtime/runtime-ownership.json (src/src/runtime-ownership.ts), the      *)
(* migrations, the listening socket, and the handlers of SIGINT and        *)
(* SIGTERM, which may run while the start does.                            *)
(*                                                                         *)
(* Abstracted: a process runs once, and its number is its pid.  A record   *)
(* is the pid in it.  The record that was there before only goes into the  *)
(* text of an error.                                                       *)
(***************************************************************************)
EXTENDS Naturals, FiniteSets, Sequences

CONSTANTS Pids, Nobody, Torn, MaxCrashes  \* bound: processes that are killed

VARIABLES
  start,      \* how far the start of a process is
  stop,       \* how far its stop, or the release after a failed start, is
  port,       \* who holds the port
  lease,      \* the ownership record
  crashes,    \* bound
  overlapped  \* history: two processes started or stopped at a time

vars == <<start, stop, port, lease, crashes, overlapped>>

TypeOK ==
  /\ start \in [Pids -> {"new", "probe", "bound", "open", "write", "migrate", "listen", "serving", "failed", "exited"}]
  /\ stop \in [Pids -> {"no", "close", "read", "unlink"}]
  /\ port \in Pids \cup {Nobody} /\ lease \in Pids \cup {Nobody, Torn}
  /\ crashes \in 0..MaxCrashes /\ overlapped \in BOOLEAN

Init ==
  /\ start = [p \in Pids |-> "new"] /\ stop = [p \in Pids |-> "no"]
  /\ port = Nobody /\ lease = Nobody /\ crashes = 0 /\ overlapped = FALSE

Starting == {p \in Pids : start[p] \in {"bound", "open", "write", "migrate", "listen"}}
Busy == Starting \cup {p \in Pids : stop[p] # "no" /\ start[p] # "exited"}

Overlaps(p) == overlapped' = (overlapped \/ Busy \ {p} # {})

Moves(p, to) == start' = [start EXCEPT ![p] = to]

(* The end of a process closes its sockets. *)
Exits(p) == Moves(p, "exited") /\ port' = IF port = p THEN Nobody ELSE port
-----------------------------------------------------------------------------
(* Configuration.                                                          *)

Secrets == {"", "short", "secret", "other"}

(* What a file and the environment may say; "" stands for nothing. *)
Configs == [endpoint: Secrets, actions: Secrets, roots: {<<>>, <<"a", "b">>, <<"a", "a">>, <<" ">>}]
Env == [endpoint: {"", "secret"}, actions: {"", "secret"}]

Merged(file, env) ==
  [file EXCEPT !.endpoint = IF env.endpoint = "" THEN @ ELSE env.endpoint,
               !.actions = IF env.actions = "" THEN @ ELSE env.actions]

ValidConfig(c) ==
  /\ c.endpoint \notin {"", "short"} /\ c.actions \notin {"", "short"} /\ c.actions # c.endpoint
  /\ \A i \in DOMAIN c.roots : c.roots[i] # " " /\ \A j \in 1..i - 1 : c.roots[j] # c.roots[i]

Bug_NoProbe == "open"

(* acquireRuntimeOwnership looks at the port before it writes. *)
FirstStep == "probe"

LoadConfig(p) ==
  /\ start[p] = "new"
  /\ \E file \in Configs, env \in Env :
       Moves(p, IF ValidConfig(Merged(file, env)) THEN FirstStep ELSE "exited")
  /\ UNCHANGED <<stop, port, lease, crashes, overlapped>>
-----------------------------------------------------------------------------
(* acquireRuntimeOwnership                                                 *)

(* assertPortFree listens on the port, and *)
BindPort(p) ==
  /\ start[p] = "probe"
  /\ IF port = Nobody THEN port' = p /\ Moves(p, "bound") /\ Overlaps(p)
     ELSE Exits(p) /\ UNCHANGED overlapped
  /\ UNCHANGED <<stop, lease, crashes>>

(* lets it go. *)
UnbindPort(p) ==
  /\ start[p] = "bound" /\ Moves(p, "open") /\ port' = Nobody
  /\ UNCHANGED <<stop, lease, crashes, overlapped>>

OpenRecord(p) ==
  /\ start[p] = "open" /\ Moves(p, "write") /\ lease' = Torn
  /\ UNCHANGED <<stop, port, crashes, overlapped>>

WriteRecord(p) ==
  /\ start[p] = "write" /\ Moves(p, "migrate") /\ lease' = p
  /\ UNCHANGED <<stop, port, crashes, overlapped>>
-----------------------------------------------------------------------------
(* The rest of the start; a failure releases the ownership, unless a       *)
(* signal has begun to.                                                    *)

Failing(p) ==
  IF stop[p] \in {"no", "close"} THEN Moves(p, "failed") /\ stop' = [stop EXCEPT ![p] = "read"] /\ UNCHANGED port
  ELSE Exits(p) /\ UNCHANGED stop

Migrate(p) ==
  /\ start[p] = "migrate"
  /\ (Moves(p, "listen") /\ UNCHANGED <<stop, port>>) \/ Failing(p)
  /\ UNCHANGED <<lease, crashes, overlapped>>

Listen(p) ==
  /\ start[p] = "listen"
  /\ IF port = Nobody /\ stop[p] = "no" THEN Moves(p, "serving") /\ port' = p /\ UNCHANGED stop ELSE Failing(p)
  /\ UNCHANGED <<lease, crashes, overlapped>>
-----------------------------------------------------------------------------
(* Signals.  Before the ownership is acquired the process just ends.       *)

Signal(p) ==
  /\ start[p] \in {"probe", "bound", "open", "write", "migrate", "listen", "serving"} /\ stop[p] = "no"
  /\ IF start[p] \in {"probe", "bound", "open", "write"} THEN Exits(p) /\ UNCHANGED <<stop, overlapped>>
     ELSE /\ stop' = [stop EXCEPT ![p] = IF start[p] = "migrate" THEN "read" ELSE "close"]
          /\ Overlaps(p) /\ UNCHANGED <<start, port>>
  /\ UNCHANGED <<lease, crashes>>

CloseApp(p) ==
  /\ stop[p] = "close" /\ start[p] # "exited" /\ stop' = [stop EXCEPT ![p] = "read"]
  /\ port' = IF port = p THEN Nobody ELSE port
  /\ UNCHANGED <<start, lease, crashes, overlapped>>

(* The record is still that of this process. *)
IsMine(p) == lease = p

(* release: the record is read, and *)
ReadRecord(p) ==
  /\ stop[p] = "read" /\ start[p] # "exited"
  /\ IF IsMine(p) THEN stop' = [stop EXCEPT ![p] = "unlink"] /\ UNCHANGED <<start, port>>
     ELSE Exits(p) /\ UNCHANGED stop
  /\ UNCHANGED <<lease, crashes, overlapped>>

(* removed. *)
Unlink(p) ==
  /\ stop[p] = "unlink" /\ start[p] # "exited" /\ lease' = Nobody /\ Exits(p)
  /\ UNCHANGED <<stop, crashes, overlapped>>

(* A second signal, or the other of a failed start and a stop: release     *)
(* returns at once, and the process ends.                                  *)
SecondSignal(p) ==
  /\ stop[p] \in {"read", "unlink"} /\ start[p] # "exited" /\ Exits(p)
  /\ UNCHANGED <<stop, lease, crashes, overlapped>>

Crash(p) ==
  /\ crashes < MaxCrashes /\ crashes' = crashes + 1 /\ start[p] \notin {"new", "exited"} /\ Exits(p)
  /\ UNCHANGED <<stop, lease, overlapped>>

Next ==
  \E p \in Pids :
    \/ LoadConfig(p) \/ BindPort(p) \/ UnbindPort(p) \/ OpenRecord(p) \/ WriteRecord(p) \/ Migrate(p) \/ Listen(p)
    \/ Signal(p) \/ CloseApp(p) \/ ReadRecord(p) \/ Unlink(p) \/ SecondSignal(p) \/ Crash(p)
-----------------------------------------------------------------------------
(* While processes do not start or stop at the same time, the ownership    *)
(* record names the runtime that serves, whoever was refused the port or   *)
(* was killed before (acquireRuntimeOwnership and release).                *)
LeaseNamesRuntime ==
  ~overlapped => \A p \in Pids : start[p] = "serving" /\ stop[p] = "no" => lease = p
=============================================================================
