----------------------------- MODULE OAuthBroker -----------------------------
(***************************************************************************)
(* The authorization server in front of the remote MCP endpoint             *)
(* (mcp/transports/oauth.py): clients register themselves, the owner logs   *)
(* in at Google, the callback issues a code, and the code buys a pair of an *)
(* access and a refresh token, which is replaced by the next one on every   *)
(* refresh.  All pairs that descend from one code are a family.             *)
(*                                                                          *)
(* Clients, codes and tokens are rows of a SQLite file; every method of     *)
(* OAuthStore is one transaction.  Logins live in memory.  A request to the *)
(* token endpoint is two transactions, load and exchange, and others come   *)
(* between.  A restart may bring another authorization policy.              *)
(*                                                                          *)
(* Abstractions: ids are given out in order, so that the oldest client has  *)
(* the smallest one; whatever has a time to live may be found expired       *)
(* whenever it is looked at; scopes, PKCE and redirects are fixed and       *)
(* checked by the SDK; a refused request that changes nothing is left out.  *)
(***************************************************************************)
EXTENDS Naturals, FiniteSets

CONSTANTS
  Policy, Down,             \* authorization_policy_fingerprint
  Request,                  \* requests to the token endpoint in flight
  PendingCap, DurableCap,
  MaxClient, MaxLogin, MaxPair  \* bounds on registrations, logins, pairs

ASSUME OAuthAssumption ==
  /\ Down \notin Policy
  /\ PendingCap \in Nat \ {0} /\ DurableCap \in Nat
  /\ MaxClient \in Nat /\ MaxLogin \in Nat /\ MaxPair \in Nat

ClientId == 1..MaxClient
LoginId == 1..MaxLogin
PairId == 1..MaxPair

VARIABLES
  server,             \* the policy of the running server, or Down
  registered,         \* clients registered so far
  pending, owners,    \* oauth_clients by state
  started, logins,    \* _transactions, and callbacks under way
  codes,              \* oauth_codes, named by the login
  issued, pairs,      \* oauth_access_tokens and oauth_refresh_tokens
  request             \* what a request has loaded

vars == <<server, registered, pending, owners, started, logins, codes, issued, pairs, request>>
clients == <<registered, pending, owners>>
grants == <<codes, issued, pairs>>

-----------------------------------------------------------------------------
NoLogin == [at |-> "none", client |-> 0]
Login == [at : {"none", "open", "google", "issue"}, client : ClientId \cup {0}]

NoCode == [client |-> 0, policy |-> Down, consumed |-> FALSE]
Code == [client : ClientId \cup {0}, policy : Policy \cup {Down}, consumed : BOOLEAN]

(* What a pair was bought with: a code, or the refresh token of a pair.     *)
ByCode(l) == [code |-> l, pair |-> 0]
ByRefresh(t) == [code |-> 0, pair |-> t]
Parent == [code : LoginId \cup {0}, pair : PairId \cup {0}]

NoPair == [parent |-> ByCode(0), family |-> 0, client |-> 0, policy |-> Down,
           consumed |-> FALSE, revoked |-> FALSE, accessRevoked |-> FALSE]
Pair == [parent : Parent, family : PairId \cup {0}, client : ClientId \cup {0}, policy : Policy \cup {Down},
         consumed : BOOLEAN, revoked : BOOLEAN, accessRevoked : BOOLEAN]

Idle == [at |-> "idle", id |-> 0]

Init ==
  /\ server = Down
  /\ registered = 0 /\ pending = {} /\ owners = {}
  /\ started = 0 /\ logins = [l \in LoginId |-> NoLogin]
  /\ codes = [l \in LoginId |-> NoCode]
  /\ issued = 0 /\ pairs = [t \in PairId |-> NoPair]
  /\ request = [r \in Request |-> Idle]

Up == server # Down

-----------------------------------------------------------------------------
(* Start and end of the process                                             *)

(* activate_policy(): grants of any other policy end for good.              *)
(* Faulty forms of a definition X are named X_...; nothing uses them.       *)
Retired_ForNow(p) == pairs
Retired(p) ==
  [t \in PairId |-> IF pairs[t].policy \notin {p, Down}
     THEN [pairs[t] EXCEPT !.revoked = TRUE, !.accessRevoked = TRUE] ELSE pairs[t]]

Start(p) ==
  /\ ~Up /\ server' = p
  /\ codes' = [l \in LoginId |-> IF codes[l].policy \notin {p, Down} THEN [codes[l] EXCEPT !.consumed = TRUE] ELSE codes[l]]
  /\ pairs' = Retired(p)
  /\ UNCHANGED <<clients, started, logins, issued, request>>

Crash ==
  /\ Up /\ server' = Down
  /\ logins' = [l \in LoginId |-> NoLogin]
  /\ request' = [r \in Request |-> Idle]
  /\ UNCHANGED <<clients, started, grants>>

-----------------------------------------------------------------------------
(* Clients                                                                  *)

(* _prune_pending(): the pending clients up to n are too old.               *)
Young(n) == {c \in pending : c > n}

(* get_client(), with which the SDK begins every request of a client.       *)
GetClient ==
  /\ Up /\ \E n \in 0..registered : pending' = Young(n)
  /\ UNCHANGED <<server, registered, owners, started, logins, grants, request>>

(* register_client(): a full table loses its oldest pending client.         *)
Oldest(S) == {c \in S : \A d \in S : c <= d}
Kept(S) == IF Cardinality(S) < PendingCap THEN {S} ELSE {S \ {c} : c \in Oldest(S)}

Register ==
  /\ Up /\ registered < MaxClient
  /\ registered' = registered + 1
  /\ \E n \in 0..registered : \E kept \in Kept(Young(n)) : pending' = kept \cup {registered + 1}
  /\ UNCHANGED <<server, owners, started, logins, grants, request>>

-----------------------------------------------------------------------------
(* The owner's login at Google                                              *)

(* authorize(), after the SDK has looked the client up.                     *)
Authorize(c) ==
  /\ Up /\ started < MaxLogin
  /\ \E n \in 0..registered :
       /\ c \in Young(n) \cup owners
       /\ pending' = Young(n)
  /\ started' = started + 1
  /\ logins' = [logins EXCEPT ![started + 1] = [at |-> "open", client |-> c]]
  /\ UNCHANGED <<server, registered, owners, grants, request>>

(* handle_google_callback() takes the login out of memory, whatever follows.*)
Callback(l) ==
  /\ logins[l].at = "open"
  /\ \/ logins' = [logins EXCEPT ![l].at = "google"]
     \/ logins' = [logins EXCEPT ![l] = NoLogin]
  /\ UNCHANGED <<server, clients, started, grants, request>>

(* Google says it is not the owner, or it or the database fails.            *)
LoginFails(l) ==
  /\ logins[l].at \in {"google", "issue"}
  /\ logins' = [logins EXCEPT ![l] = NoLogin]
  /\ UNCHANGED <<server, clients, started, grants, request>>

(* promote_client(): the client may be gone or expired, or the clients too *)
(* many already; or the database fails.                                     *)
Known_Forgotten(c) == TRUE
Known(c) == c \in pending \cup owners
MayPromote(c) == Known(c) /\ Cardinality(owners) < DurableCap

Promote(l) ==
  LET c == logins[l].client IN
  /\ logins[l].at = "google"
  /\ \/ /\ c \in owners
        /\ logins' = [logins EXCEPT ![l].at = "issue"]
        /\ UNCHANGED <<pending, owners>>
     \/ /\ c \notin owners /\ MayPromote(c)
        /\ pending' = pending \ {c} /\ owners' = owners \cup (pending \cap {c})
        /\ logins' = [logins EXCEPT ![l].at = "issue"]
     \/ /\ c \notin owners
        /\ pending' \in {pending, pending \ {c}}
        /\ logins' = [logins EXCEPT ![l] = NoLogin]
        /\ UNCHANGED owners
  /\ UNCHANGED <<server, registered, started, grants, request>>

IssueCode(l) ==
  /\ logins[l].at = "issue"
  /\ codes' = [codes EXCEPT ![l] = [client |-> logins[l].client, policy |-> server, consumed |-> FALSE]]
  /\ logins' = [logins EXCEPT ![l] = NoLogin]
  /\ UNCHANGED <<server, clients, started, issued, pairs, request>>

-----------------------------------------------------------------------------
(* The token endpoint                                                       *)

Loaded(r, kind, i) == request' = [request EXCEPT ![r] = [at |-> kind, id |-> i]]
Answered(r) == request' = [request EXCEPT ![r] = Idle]

CodeIsGood(l) == codes[l].policy = server /\ ~codes[l].consumed

LoadCode(r, l) ==
  /\ Up /\ request[r] = Idle /\ CodeIsGood(l)
  /\ Loaded(r, "code", l)
  /\ UNCHANGED <<server, clients, started, logins, grants>>

NewPair(parent, family, client) ==
  [parent |-> parent, family |-> family, client |-> client, policy |-> server,
   consumed |-> FALSE, revoked |-> FALSE, accessRevoked |-> FALSE]

(* exchange_authorization_code(): everything is checked again.              *)
MayBuyWithCode(l) == CodeIsGood(l)

ExchangeCode(r) ==
  LET l == request[r].id IN
  /\ request[r].at = "code" /\ issued < MaxPair
  /\ MayBuyWithCode(l)
  /\ codes' = [codes EXCEPT ![l].consumed = TRUE]
  /\ issued' = issued + 1
  /\ pairs' = [pairs EXCEPT ![issued + 1] = NewPair(ByCode(l), issued + 1, codes[l].client)]
  /\ Answered(r)
  /\ UNCHANGED <<server, clients, started, logins>>

RefreshIsGood(t) == pairs[t].policy = server /\ ~pairs[t].consumed /\ ~pairs[t].revoked

FamilyRevoked(f) ==
  [t \in PairId |-> IF pairs[t].family = f THEN [pairs[t] EXCEPT !.revoked = TRUE, !.accessRevoked = TRUE] ELSE pairs[t]]

LoadRefresh(r, t) ==
  /\ Up /\ request[r] = Idle /\ RefreshIsGood(t)
  /\ Loaded(r, "refresh", t)
  /\ UNCHANGED <<server, clients, started, logins, grants>>

(* load_refresh_token() of a consumed, revoked or expired token, and        *)
(* revoke_token() of any, which may have been loaded before.                *)
EndFamily(t) ==
  /\ Up /\ t <= issued
  /\ pairs' = FamilyRevoked(pairs[t].family)
  /\ UNCHANGED <<server, clients, started, logins, codes, issued, request>>

(* exchange_refresh_token().                                                *)
MayBuyWithRefresh_NotRevoked(t) == ~pairs[t].consumed /\ pairs[t].policy = server
MayBuyWithRefresh(t) == RefreshIsGood(t)

ExchangeRefresh(r) ==
  LET t == request[r].id IN
  /\ request[r].at = "refresh" /\ issued < MaxPair
  /\ MayBuyWithRefresh(t)
  /\ issued' = issued + 1
  /\ pairs' = [pairs EXCEPT ![t].consumed = TRUE,
                            ![issued + 1] = NewPair(ByRefresh(t), pairs[t].family, pairs[t].client)]
  /\ Answered(r)
  /\ UNCHANGED <<server, clients, started, logins, codes>>

(* The checks of an exchange fail and raise.  For a refresh token the       *)
(* family is revoked first, but the exception leaves the "with" block of    *)
(* the connection, which rolls that back.                                   *)
ExchangeRefused(r) ==
  /\ request[r] # Idle
  /\ Answered(r)
  /\ UNCHANGED <<server, clients, started, logins, grants>>

-----------------------------------------------------------------------------
Next ==
  \/ \E p \in Policy : Start(p)
  \/ Crash \/ GetClient \/ Register
  \/ \E c \in ClientId : Authorize(c)
  \/ \E l \in LoginId : Callback(l) \/ LoginFails(l) \/ Promote(l) \/ IssueCode(l)
  \/ \E r \in Request :
       \/ \E l \in LoginId : LoadCode(r, l)
       \/ \E t \in PairId : LoadRefresh(r, t)
       \/ ExchangeCode(r) \/ ExchangeRefresh(r) \/ ExchangeRefused(r)
  \/ \E t \in PairId : EndFamily(t)

Spec == Init /\ [][Next]_vars

=============================================================================
