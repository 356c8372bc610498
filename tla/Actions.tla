-------------------------------- MODULE Actions --------------------------------
(***************************************************************************)
(* The HTTP surface of a runtime: who a request of src/src/actions.ts acts *)
(* for, with the hook and the MCP route of src/src/http.ts before it, and  *)
(* the codes and tokens of src/src/oauth-http.ts that a connector obtains  *)
(* for its user.                                                           *)
(*                                                                         *)
(* Abstracted: a user has one workspace and one code, which the connector  *)
(* may post more than once.  Of the scopes, the two that a route asks      *)
(* for.  The operations are those of the other modules.                    *)
(***************************************************************************)
EXTENDS Naturals, FiniteSets

CONSTANTS
  Users,
  Posts,       \* requests that may be under way at a time
  Runtime,     \* whom the operations of the runtime act for
  MaxRequests  \* bound

VARIABLES
  account,  \* user -> role, or "disabled"
  code,     \* user -> its authorization code
  tokens,   \* the access tokens that were issued, with their user and scopes
  request,  \* post -> the request
  acted,    \* history: the routes that acted, whom for, and for which caller
  requests  \* bound

vars == <<account, code, tokens, request, acted, requests>>

Scopes == {"fs.read", "fs.write"}
Roles == {"engineer", "viewer"}

(* scopesFor, of the two scopes. *)
ScopesFor(role) == IF role = "engineer" THEN Scopes ELSE {"fs.read"}

(* The granular routes; fs, process, git, memory and engineering, which    *)
(* ask for no scope; and the other compact ones.                           *)
Granular == "granular"
Compact == {"compact", "skills", "browser"}
Routes == {Granular} \cup Compact \cup {"mcp", "open", "token"}

(* A secret in the header or the path, a user's token or code, or a page.  *)
Credentials == {"none", "secret", "path", "origin"} \cup Users

Nothing == [route |-> "open", credential |-> "none", pc |-> "none", owner |-> Runtime, scopes |-> {}]

Token == [user : Users, scopes : SUBSET Scopes, valid : BOOLEAN]

TypeOK ==
  /\ account \in [Users -> Roles \cup {"disabled"}]
  /\ code \in [Users -> [state : {"none", "live", "spent", "expired"}, scopes : SUBSET Scopes, lock : Posts \cup {Runtime}]]
  /\ \A t \in DOMAIN tokens : tokens[t] \in Token
  /\ \A p \in Posts :
       /\ request[p].route \in Routes /\ request[p].credential \in Credentials
       /\ request[p].pc \in {"none", "hook", "auth", "handle", "act", "exchange", "commit"}
       /\ request[p].owner \in Users \cup {Runtime} /\ request[p].scopes \subseteq Scopes
  /\ requests \in 0..MaxRequests

Init ==
  /\ account \in [Users -> Roles]
  /\ code = [u \in Users |-> [state |-> "none", scopes |-> {}, lock |-> Runtime]]
  /\ tokens = <<>> /\ request = [p \in Posts |-> Nothing] /\ acted = {} /\ requests = 0

Replies(p) == request' = [request EXCEPT ![p] = Nothing]
Goes(p, pc) == request' = [request EXCEPT ![p].pc = pc]
-----------------------------------------------------------------------------
(* Authorization: the user signs in, and grants what its role allows.      *)

Authorize(u) ==
  /\ account[u] # "disabled" /\ code[u].state = "none"
  /\ \E asked \in SUBSET Scopes :
       LET granted == asked \cap ScopesFor(account[u]) IN
       code' = [code EXCEPT ![u].state = "live", ![u].scopes = IF granted = {} THEN {"fs.read"} ELSE granted]
  /\ UNCHANGED <<account, tokens, request, acted, requests>>

(* Five minutes, an hour, or an administrator. *)
Expire ==
  /\ \/ /\ \E u \in Users : code[u].state = "live" /\ code[u].lock = Runtime
                            /\ code' = [code EXCEPT ![u].state = "expired"]
        /\ UNCHANGED <<account, tokens>>
     \/ /\ \E t \in DOMAIN tokens : tokens[t].valid /\ tokens' = [tokens EXCEPT ![t].valid = FALSE]
        /\ UNCHANGED <<account, code>>
     \/ /\ \E u \in Users : account[u] # "disabled" /\ account' = [account EXCEPT ![u] = "disabled"]
        /\ UNCHANGED <<code, tokens>>
  /\ UNCHANGED <<request, acted, requests>>
-----------------------------------------------------------------------------
(* A request, up to its handler.                                           *)

Post(p) ==
  /\ request[p].pc = "none" /\ requests < MaxRequests /\ requests' = requests + 1
  /\ \E route \in Routes, credential \in Credentials :
       /\ route = "token" => credential \in Users
       /\ request' = [request EXCEPT ![p] = [Nothing EXCEPT !.route = route, !.credential = credential, !.pc = "hook"]]
  /\ UNCHANGED <<account, code, tokens, acted>>

(* The onRequest hook (403), and the routes that ask for no header (200, 404). *)
Hook(p) ==
  /\ request[p].pc = "hook"
  /\ CASE request[p].credential = "origin" \/ request[p].route = "open" -> Replies(p)
       [] request[p].route = "token" -> Goes(p, "exchange")
       [] request[p].route = "mcp" -> IF request[p].credential = "path" THEN Goes(p, "handle") ELSE Replies(p)
       [] OTHER -> Goes(p, "auth")
  /\ UNCHANGED <<account, code, tokens, acted, requests>>

(* A token that resolves: neither revoked nor past its hour, of an active  *)
(* user.                                                                   *)
Resolves(t) == tokens[t].valid /\ account[tokens[t].user] # "disabled"

(* requireLegacyAuth and requireAuth; a lookup that fails authenticates    *)
(* nobody (401).                                                           *)
Authenticate(p) ==
  LET r == request[p] IN
  /\ r.pc = "auth"
  /\ \/ /\ r.credential = "secret"
        /\ request' = [request EXCEPT ![p].pc = "handle", ![p].scopes = Scopes]
     \/ /\ r.route \in Compact
        /\ \E t \in DOMAIN tokens :
             /\ tokens[t].user = r.credential /\ Resolves(t)
             /\ request' = [request EXCEPT ![p].pc = "handle", ![p].owner = r.credential, ![p].scopes = tokens[t].scopes]
     \/ r.credential # "secret" /\ Replies(p)
  /\ UNCHANGED <<account, code, tokens, acted, requests>>
-----------------------------------------------------------------------------
(* The handlers.                                                           *)

(* The scope that a route asks for. *)
Required(route) == CASE route = "skills" -> {"fs.read"} [] route = "browser" -> {"fs.write"} [] OTHER -> {}

(* The body is parsed, and has what the operation asks for, or not (400). *)
Handle(p) ==
  LET r == request[p] IN
  /\ r.pc = "handle"
  /\ \/ (r.route = "mcp" \/ Required(r.route) \subseteq r.scopes) /\ Goes(p, "act")
     \/ Replies(p)
  /\ UNCHANGED <<account, code, tokens, acted, requests>>

(* scopedOps: whom the operations that are called act for. *)
ActsFor(p) == request[p].owner

(* The operation acts, and returns (200) or throws (400). *)
Act(p) ==
  /\ request[p].pc = "act"
  /\ acted' = acted \cup {[route |-> request[p].route, caller |-> request[p].credential, by |-> ActsFor(p)]}
  /\ Replies(p)
  /\ UNCHANGED <<account, code, tokens, requests>>
-----------------------------------------------------------------------------
(* POST /oauth/token: the code is locked and read, then spent.             *)

Bug_NoLock(u) == TRUE

Unlocked(u) == code[u].lock = Runtime

Exchange(p) ==
  LET u == request[p].credential IN
  /\ request[p].pc = "exchange" /\ Unlocked(u)
  /\ IF code[u].state = "live" THEN code' = [code EXCEPT ![u].lock = p] /\ Goes(p, "commit")
     ELSE Replies(p) /\ UNCHANGED code
  /\ UNCHANGED <<account, tokens, acted, requests>>

(* COMMIT, or the ROLLBACK of a transaction that failed. *)
Commit(p) ==
  LET u == request[p].credential IN
  /\ request[p].pc = "commit"
  /\ \/ /\ code' = [code EXCEPT ![u].state = "spent", ![u].lock = Runtime] /\ Replies(p)
        /\ tokens' = [t \in 1..Cardinality(DOMAIN tokens) + 1 |->
                        IF t \in DOMAIN tokens THEN tokens[t]
                        ELSE [user |-> u, scopes |-> code[u].scopes, valid |-> TRUE]]
     \/ code' = [code EXCEPT ![u].lock = Runtime] /\ Replies(p) /\ UNCHANGED tokens
  /\ UNCHANGED <<account, acted, requests>>

Next ==
  \/ Expire \/ \E u \in Users : Authorize(u)
  \/ \E p \in Posts : Post(p) \/ Hook(p) \/ Authenticate(p) \/ Handle(p) \/ Act(p) \/ Exchange(p) \/ Commit(p)
-----------------------------------------------------------------------------
(* A code is exchanged for one token, however often it is posted.  What    *)
(* its holder calls is done in the workspace of the user who authorized    *)
(* it; and the routes that ask for a scope, skills and browser, act only   *)
(* where the user granted that scope, and its role has it.  The other      *)
(* compact routes ask for none, and act whatever was granted (requireAuth, *)
(* scope, scopedOps, POST /oauth/token).                                   *)
CallsAreOwned ==
  /\ \A t, v \in DOMAIN tokens : tokens[t].user = tokens[v].user => t = v
  /\ \A a \in acted : a.by = IF a.caller \in Users THEN a.caller ELSE Runtime
  /\ \A a \in acted : a.caller \in Users =>
       /\ Required(a.route) \subseteq code[a.caller].scopes
       /\ account[a.caller] # "disabled" => Required(a.route) \subseteq ScopesFor(account[a.caller])
=============================================================================
