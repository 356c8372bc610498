------------------------------ MODULE Diagnostics ------------------------------
(***************************************************************************)
(* The diagnosis of a deployment, src/src/diagnostics.ts: the server, the  *)
(* tunnel's connector, the public address, and the API and authentication  *)
(* behind it are probed one after the other while they come and go.        *)
(*                                                                         *)
(* External: the links themselves.  hosted is what the diagnosis takes for *)
(* a hosted deployment: RAILWAY_ENVIRONMENT, or FS_REMOTE_HOSTED = "true". *)
(***************************************************************************)
EXTENDS Naturals, FiniteSets

CONSTANTS MaxChanges  \* bound: changes of a link during a diagnosis

Links == {"server", "connector", "external", "openapi", "auth"}
Parts == {"server", "tunnel", "external", "openapi", "auth"}

VARIABLES
  up,       \* links that work
  hosted,
  step,     \* the probe that is next
  report,   \* the answer
  changes,  \* bound
  wasUp, wasDown  \* history: links that worked, or did not, during the diagnosis

vars == <<up, hosted, step, report, changes, wasUp, wasDown>>

Unknown == [x \in Parts |-> "unknown"]
Verdicts == {"unknown", "good", "bad"}

TypeOK ==
  /\ up \subseteq Links /\ hosted \in BOOLEAN /\ step \in {"server", "connector", "external", "api", "done"}
  /\ report \in [Parts -> Verdicts] /\ changes \in 0..MaxChanges
  /\ wasUp \subseteq Links /\ wasDown \subseteq Links

Init ==
  /\ up \in SUBSET Links /\ hosted \in BOOLEAN /\ step = "server" /\ report = Unknown /\ changes = 0
  /\ wasUp = up /\ wasDown = Links \ up

Keeps == UNCHANGED <<up, hosted, changes, wasUp, wasDown>>

(* Parts that are bad, the parts after them as in rest; the diagnosis ends. *)
Ends(bad, good, rest) ==
  /\ step' = "done"
  /\ report' = [x \in Parts |-> IF x \in bad THEN "bad" ELSE IF x \in good THEN "good" ELSE rest]

ProbeServer ==
  /\ step = "server" /\ Keeps
  /\ IF "server" \in up THEN step' = "connector" /\ UNCHANGED report ELSE Ends({"server"}, {}, "unknown")

Bug_NoHosted == "connector" \in up

(* A hosted deployment has no connector of its own. *)
ConnectorRuns == hosted \/ "connector" \in up

ProbeConnector ==
  /\ step = "connector" /\ Keeps
  /\ IF ConnectorRuns THEN step' = "external" /\ UNCHANGED report ELSE Ends({"tunnel"}, {"server"}, "bad")

ProbeExternal ==
  /\ step = "external" /\ Keeps
  /\ IF "external" \in up THEN step' = "api" /\ UNCHANGED report
     ELSE Ends({"tunnel", "external"}, {"server"}, "unknown")

ProbeApi ==
  /\ step = "api" /\ Keeps
  /\ Ends({"openapi", "auth"} \ up, {"server", "tunnel", "external"} \cup (up \cap {"openapi", "auth"}), "unknown")

Change ==
  /\ changes < MaxChanges /\ changes' = changes + 1 /\ step # "done"
  /\ \E x \in Links :
       IF x \in up THEN up' = up \ {x} /\ wasDown' = wasDown \cup {x} /\ UNCHANGED wasUp
       ELSE up' = up \cup {x} /\ wasUp' = wasUp \cup {x} /\ UNCHANGED wasDown
  /\ UNCHANGED <<hosted, step, report>>

Next == ProbeServer \/ ProbeConnector \/ ProbeExternal \/ ProbeApi \/ Change
-----------------------------------------------------------------------------
(* The links a part of the report rests on. *)
Chain(part) ==
  {"server"} \cup (IF part # "server" /\ ~hosted THEN {"connector"} ELSE {})
             \cup (IF part # "server" THEN {"external"} ELSE {}) \cup ({part} \cap {"openapi", "auth"})

(* What a diagnosis calls good rests on links that all worked at some time *)
(* during it, and what it calls bad on one that did not: it blames no part *)
(* that was fine all along, and clears none that was down all along        *)
(* (RuntimeDiagnostics.diagnose).                                          *)
DiagnosisIsRight ==
  \A x \in Parts :
    /\ report[x] = "good" => Chain(x) \subseteq wasUp
    /\ report[x] = "bad" => Chain(x) \cap wasDown # {}
=============================================================================
