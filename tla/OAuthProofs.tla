----------------------------- MODULE OAuthProofs -----------------------------
(* Proofs about what an MCP client may do: about the authorization server,  *)
(* whose invariant IndInv is inductive and gives the safety properties for  *)
(* every number of policies, clients, logins, pairs and requests; and, in   *)
(* the second half, about the capabilities of the contexts that are read,   *)
(* with the invariant RightsInv, for every number of threads.               *)
EXTENDS OAuthProperties, Capabilities, FiniteSetTheorems, TLAPS

USE DEF ClientId, LoginId, PairId

(* The conjuncts of the invariant by the variables that they speak of: an   *)
(* action disturbs only some.                                               *)
GrantFacts == GrantsTyped /\ Unissued /\ Parents /\ OneHeir /\ RevokedTogether /\ GrantPolicies
ClientFacts == ClientsTyped /\ ClientsBounded
LoginFacts == LoginsTyped /\ Promoted
ServerTyped == server \in Policy \cup {Down}

LEMMA Split ==
  IndInv <=> /\ ServerTyped /\ ClientFacts /\ GrantFacts /\ GrantsNeedOwner /\ PolicyIsCurrent
             /\ LoginFacts /\ NoCodeYet /\ RequestsTyped /\ DownIsIdle
  BY DEF IndInv, TypeOK, GrantFacts, ClientFacts, LoginFacts, ServerTyped

LEMMA Joined ==
  ASSUME ServerTyped', ClientFacts', GrantFacts', GrantsNeedOwner', PolicyIsCurrent',
         LoginFacts', NoCodeYet', RequestsTyped', DownIsIdle'
  PROVE  IndInv'
  BY DEF IndInv, TypeOK, GrantFacts, ClientFacts, LoginFacts, ServerTyped

LEMMA Initial == Init => IndInv
<1> SUFFICES ASSUME Init PROVE IndInv
  OBVIOUS
<1> USE OAuthAssumption DEF Init
<1>1. ServerTyped /\ ClientsTyped
  BY DEF ServerTyped, ClientsTyped
<1>2. ClientsBounded
  BY FS_EmptySet DEF ClientsBounded
<1>3. GrantsTyped
  BY DEF GrantsTyped, NoCode, Code, NoPair, Pair, ByCode, Parent
<1>4. Unissued /\ Parents /\ OneHeir /\ RevokedTogether /\ GrantPolicies /\ GrantsNeedOwner
  BY DEF Unissued, Parents, OneHeir, RevokedTogether, GrantPolicies, GrantsNeedOwner, Issued
<1>5. PolicyIsCurrent
  BY DEF PolicyIsCurrent, Up
<1>6. LoginFacts /\ NoCodeYet /\ DownIsIdle
  BY DEF LoginFacts, LoginsTyped, Promoted, NoCodeYet, DownIsIdle, NoLogin, Login
<1>7. RequestsTyped
  BY DEF RequestsTyped, Idle
<1> QED
  BY <1>1, <1>2, <1>3, <1>4, <1>5, <1>6, <1>7, Split DEF GrantFacts, ClientFacts

-----------------------------------------------------------------------------
(* Facts about finite sets and bounded tables                               *)

LEMMA FiniteTables == ASSUME ClientsTyped PROVE IsFiniteSet(pending) /\ IsFiniteSet(owners)
<1>1. IsFiniteSet(1..registered)
  BY FS_Interval DEF ClientsTyped
<1> QED
  BY <1>1, FS_Subset DEF ClientsTyped

LEMMA Smaller ==
  ASSUME ClientFacts, NEW S \in SUBSET pending
  PROVE  IsFiniteSet(S) /\ Cardinality(S) \in Nat /\ Cardinality(S) <= PendingCap
<1>1. IsFiniteSet(pending)
  BY FiniteTables DEF ClientFacts
<1>2. IsFiniteSet(S) /\ Cardinality(S) <= Cardinality(pending)
  BY <1>1, FS_Subset
<1>3. Cardinality(pending) \in Nat /\ Cardinality(S) \in Nat
  BY <1>1, <1>2, FS_CardinalityType
<1> QED
  BY <1>2, <1>3, OAuthAssumption DEF ClientFacts, ClientsBounded

(* A full table makes room by losing one client.                            *)
LEMMA KeptHasRoom ==
  ASSUME NEW S, IsFiniteSet(S), Cardinality(S) <= PendingCap, NEW kept \in Kept(S)
  PROVE  kept \subseteq S /\ IsFiniteSet(kept) /\ Cardinality(kept) \in Nat /\ Cardinality(kept) < PendingCap
<1>1. Cardinality(S) \in Nat
  BY FS_CardinalityType
<1>2. CASE Cardinality(S) < PendingCap
  BY <1>1, <1>2, OAuthAssumption DEF Kept
<1>3. CASE ~(Cardinality(S) < PendingCap)
  <2>1. PICK c \in S : kept = S \ {c}
    BY <1>3 DEF Kept, Oldest
  <2>2. IsFiniteSet(kept) /\ Cardinality(kept) = Cardinality(S) - 1
    BY <2>1, FS_RemoveElement
  <2> QED
    BY <1>1, <1>3, <2>1, <2>2, OAuthAssumption
<1> QED
  BY <1>2, <1>3

LEMMA OneMore ==
  ASSUME NEW S, IsFiniteSet(S), NEW c, NEW N \in Nat, Cardinality(S) < N
  PROVE  Cardinality(S \cup {c}) <= N
<1>1. Cardinality(S) \in Nat
  BY FS_CardinalityType
<1>2. CASE c \in S
  <2>1. S \cup {c} = S
    BY <1>2
  <2> QED
    BY <1>1, <2>1
<1>3. CASE c \notin S
  <2>1. Cardinality(S \cup {c}) = Cardinality(S) + 1
    BY <1>3, FS_AddElement
  <2> QED
    BY <1>1, <2>1
<1> QED
  BY <1>2, <1>3

-----------------------------------------------------------------------------
(* What a step leaves alone stays true                                      *)

LEMMA GrantsKept ==
  ASSUME GrantFacts, UNCHANGED grants PROVE GrantFacts'
  BY DEF GrantFacts, grants, GrantsTyped, Issued, Unissued, Parents, OneHeir, RevokedTogether, GrantPolicies

LEMMA OwnersKept ==
  ASSUME GrantsNeedOwner, UNCHANGED grants, owners \subseteq owners' PROVE GrantsNeedOwner'
  BY DEF GrantsNeedOwner, grants, Issued

LEMMA PolicyKept ==
  ASSUME PolicyIsCurrent, UNCHANGED grants, server' = server \/ server' = Down PROVE PolicyIsCurrent'
  BY DEF PolicyIsCurrent, grants, Issued, Up

LEMMA ClientsKept ==
  ASSUME ClientFacts, UNCHANGED clients PROVE ClientFacts'
  BY DEF ClientFacts, ClientsTyped, ClientsBounded, clients

LEMMA LoginsKept ==
  ASSUME LoginFacts, UNCHANGED <<started, logins>>, owners \subseteq owners' PROVE LoginFacts'
  BY DEF LoginFacts, LoginsTyped, Promoted

LEMMA RequestsKept ==
  ASSUME RequestsTyped, GrantsTyped, UNCHANGED request, issued' \in Nat, issued <= issued' PROVE RequestsTyped'
  BY DEF RequestsTyped, GrantsTyped

LEMMA CodesKept ==
  ASSUME NoCodeYet, UNCHANGED <<started, codes>>,
         \A l \in LoginId : logins'[l].at # "none" => logins[l].at # "none"
  PROVE  NoCodeYet'
  BY DEF NoCodeYet

(* One login changes.                                                       *)
LEMMA LoginSet ==
  ASSUME LoginFacts, NEW l \in LoginId, NEW v \in Login, logins' = [logins EXCEPT ![l] = v],
         v.at = "issue" => v.client \in owners', owners \subseteq owners', started' \in 0..MaxLogin
  PROVE  LoginFacts'
  BY DEF LoginFacts, LoginsTyped, Promoted

LEMMA LoginEnds ==
  ASSUME LoginFacts, NEW l \in LoginId, logins' = [logins EXCEPT ![l] = NoLogin],
         owners \subseteq owners', UNCHANGED started
  PROVE  LoginFacts'
<1>1. NoLogin \in Login /\ NoLogin.at # "issue"
  BY DEF NoLogin, Login
<1> QED
  BY <1>1, LoginSet DEF LoginFacts, LoginsTyped

LEMMA LoginMoves ==
  ASSUME LoginFacts, NEW l \in LoginId, NEW a \in {"google", "issue"}, logins' = [logins EXCEPT ![l].at = a],
         a = "issue" => logins[l].client \in owners', owners \subseteq owners', UNCHANGED started
  PROVE  LoginFacts'
<1> DEFINE v == [logins[l] EXCEPT !.at = a]
<1>1. logins[l] \in Login
  BY DEF LoginFacts, LoginsTyped
<1>2. v \in Login /\ v.at = a /\ v.client = logins[l].client
  BY <1>1 DEF Login
<1>3. logins' = [logins EXCEPT ![l] = v]
  OBVIOUS
<1> HIDE DEF v
<1> QED
  BY <1>2, <1>3, LoginSet DEF LoginFacts, LoginsTyped

-----------------------------------------------------------------------------
(* Start and end of the process, logins, and requests that change no row    *)

LEMMA CallbackStep == ASSUME IndInv, NEW l \in LoginId, Callback(l) PROVE IndInv'
<1> USE DEF Callback, clients, grants
<1>1. LoginFacts'
  BY Split, LoginMoves, LoginEnds
<1>2. ServerTyped' /\ ClientFacts' /\ GrantFacts' /\ GrantsNeedOwner' /\ PolicyIsCurrent'
  BY Split, ClientsKept, GrantsKept, OwnersKept, PolicyKept DEF ServerTyped
<1>3. RequestsTyped' /\ DownIsIdle'
  BY Split DEF RequestsTyped, DownIsIdle, Up, NoLogin
<1>4. NoCodeYet'
  BY Split, CodesKept DEF LoginFacts, LoginsTyped, NoLogin
<1> QED
  BY <1>1, <1>2, <1>3, <1>4, Joined

LEMMA LoginFailsStep == ASSUME IndInv, NEW l \in LoginId, LoginFails(l) PROVE IndInv'
<1> USE DEF LoginFails, clients, grants
<1>1. LoginFacts'
  BY Split, LoginEnds
<1>2. ServerTyped' /\ ClientFacts' /\ GrantFacts' /\ GrantsNeedOwner' /\ PolicyIsCurrent'
  BY Split, ClientsKept, GrantsKept, OwnersKept, PolicyKept DEF ServerTyped
<1>3. RequestsTyped' /\ DownIsIdle'
  BY Split DEF RequestsTyped, DownIsIdle, Up, NoLogin
<1>4. NoCodeYet'
  BY Split, CodesKept DEF LoginFacts, LoginsTyped, NoLogin
<1> QED
  BY <1>1, <1>2, <1>3, <1>4, Joined

(* Only what a request has loaded changes, while the server is up.          *)
LEMMA RequestStep ==
  ASSUME IndInv, Up, UNCHANGED <<server, clients, started, logins, grants>>, RequestsTyped' PROVE IndInv'
<1> USE DEF clients, grants
<1>1. ServerTyped' /\ ClientFacts' /\ GrantFacts' /\ GrantsNeedOwner' /\ PolicyIsCurrent'
  BY Split, ClientsKept, GrantsKept, OwnersKept, PolicyKept DEF ServerTyped
<1>2. LoginFacts' /\ NoCodeYet' /\ DownIsIdle'
  BY Split, LoginsKept, CodesKept DEF DownIsIdle, Up
<1> QED
  BY <1>1, <1>2, Joined

LEMMA LoadCodeStep == ASSUME IndInv, NEW r \in Request, NEW l \in LoginId, LoadCode(r, l) PROVE IndInv'
<1>1. RequestsTyped'
  BY Split, OAuthAssumption DEF LoadCode, Loaded, grants, RequestsTyped
<1> QED
  BY <1>1, RequestStep DEF LoadCode

LEMMA LoadRefreshStep == ASSUME IndInv, NEW r \in Request, NEW t \in PairId, LoadRefresh(r, t) PROVE IndInv'
<1> USE DEF LoadRefresh
<1>1. t \in 1..issued
  BY Split, OAuthAssumption DEF RefreshIsGood, Up, GrantFacts, GrantsTyped, Unissued, NoPair
<1>2. RequestsTyped'
  BY <1>1, Split, OAuthAssumption DEF Loaded, grants, RequestsTyped
<1> QED
  BY <1>2, RequestStep

LEMMA RefusedStep == ASSUME IndInv, NEW r \in Request, ExchangeRefused(r) PROVE IndInv'
<1> USE DEF ExchangeRefused
<1>1. RequestsTyped'
  BY Split DEF Answered, grants, RequestsTyped, Idle
<1>2. Up
  BY Split DEF DownIsIdle
<1> QED
  BY <1>1, <1>2, RequestStep

LEMMA CrashStep == ASSUME IndInv, Crash PROVE IndInv'
<1> USE DEF Crash, clients, grants
<1>1. LoginFacts'
  BY Split DEF LoginFacts, LoginsTyped, Promoted, NoLogin, Login
<1>2. ServerTyped' /\ ClientFacts' /\ GrantFacts' /\ GrantsNeedOwner' /\ PolicyIsCurrent'
  BY Split, ClientsKept, GrantsKept, OwnersKept, PolicyKept DEF ServerTyped
<1>3. RequestsTyped' /\ DownIsIdle'
  BY DEF RequestsTyped, DownIsIdle, Idle
<1>4. NoCodeYet'
  BY Split, CodesKept DEF NoLogin
<1> QED
  BY <1>1, <1>2, <1>3, <1>4, Joined

-----------------------------------------------------------------------------
(* Steps that change the clients                                            *)

LEMMA GetClientStep == ASSUME IndInv, GetClient PROVE IndInv'
<1> USE DEF GetClient, clients, grants
<1>1. pending' \in SUBSET pending
  BY DEF Young
<1>2. Cardinality(pending') <= PendingCap
  BY <1>1, Split, Smaller
<1>3. ClientFacts'
  BY <1>1, <1>2, Split DEF ClientFacts, ClientsTyped, ClientsBounded
<1>4. ServerTyped' /\ GrantFacts' /\ GrantsNeedOwner' /\ PolicyIsCurrent'
  BY Split, GrantsKept, OwnersKept, PolicyKept DEF ServerTyped
<1>5. LoginFacts' /\ NoCodeYet' /\ RequestsTyped' /\ DownIsIdle'
  BY Split, LoginsKept, CodesKept DEF RequestsTyped, DownIsIdle, Up
<1> QED
  BY <1>3, <1>4, <1>5, Joined

LEMMA RegisterStep == ASSUME IndInv, Register PROVE IndInv'
<1> USE DEF Register, clients, grants
<1>1. PICK n \in 0..registered : \E kept \in Kept(Young(n)) : pending' = kept \cup {registered + 1}
  OBVIOUS
<1>2. PICK kept \in Kept(Young(n)) : pending' = kept \cup {registered + 1}
  BY <1>1
<1>3. Young(n) \subseteq pending
  BY DEF Young
<1>4. IsFiniteSet(Young(n)) /\ Cardinality(Young(n)) <= PendingCap
  BY <1>3, Split, Smaller
<1>5. kept \subseteq pending /\ IsFiniteSet(kept) /\ Cardinality(kept) < PendingCap
  BY <1>3, <1>4, KeptHasRoom
<1>6. Cardinality(pending') <= PendingCap
  BY <1>2, <1>5, OneMore, OAuthAssumption
<1>7. ClientsTyped'
  BY <1>2, <1>5, Split, OAuthAssumption DEF ClientFacts, ClientsTyped
<1>8. pending' \cap owners' = {}
  BY <1>2, <1>5, Split, OAuthAssumption DEF ClientFacts, ClientsTyped, ClientsBounded
<1>9. ClientFacts'
  BY <1>6, <1>7, <1>8, Split DEF ClientFacts, ClientsBounded
<1>10. ServerTyped' /\ GrantFacts' /\ GrantsNeedOwner' /\ PolicyIsCurrent'
  BY Split, GrantsKept, OwnersKept, PolicyKept DEF ServerTyped
<1>11. LoginFacts' /\ NoCodeYet' /\ RequestsTyped' /\ DownIsIdle'
  BY Split, LoginsKept, CodesKept DEF RequestsTyped, DownIsIdle, Up
<1> QED
  BY <1>9, <1>10, <1>11, Joined

LEMMA AuthorizeStep == ASSUME IndInv, NEW c \in ClientId, Authorize(c) PROVE IndInv'
<1> USE DEF Authorize, clients, grants
<1>1. pending' \in SUBSET pending
  BY DEF Young
<1>2. Cardinality(pending') <= PendingCap
  BY <1>1, Split, Smaller
<1>3. ClientFacts'
  BY <1>1, <1>2, Split DEF ClientFacts, ClientsTyped, ClientsBounded
<1>4. started + 1 \in LoginId /\ started' \in 0..MaxLogin
  BY Split, OAuthAssumption DEF LoginFacts, LoginsTyped
<1>5. [at |-> "open", client |-> c] \in Login
  BY DEF Login
<1>6. LoginFacts'
  BY <1>4, <1>5, Split, LoginSet
<1>7. ServerTyped' /\ GrantFacts' /\ GrantsNeedOwner' /\ PolicyIsCurrent'
  BY Split, GrantsKept, OwnersKept, PolicyKept DEF ServerTyped
<1>8. RequestsTyped' /\ DownIsIdle'
  BY Split DEF RequestsTyped, DownIsIdle, Up
<1>9. NoCodeYet'
  BY <1>4, Split, OAuthAssumption DEF NoCodeYet, LoginFacts, LoginsTyped
<1> QED
  BY <1>3, <1>6, <1>7, <1>8, <1>9, Joined

LEMMA PromoteStep == ASSUME IndInv, NEW l \in LoginId, Promote(l) PROVE IndInv'
<1> DEFINE c == logins[l].client
<1> USE DEF Promote, clients, grants
<1>1. /\ owners \subseteq owners' /\ pending' \in SUBSET pending
      /\ owners' \subseteq owners \cup pending /\ owners' \cap pending' = {}
  BY Split DEF ClientFacts, ClientsBounded
<1>2. Cardinality(pending') <= PendingCap
  BY <1>1, Split, Smaller
<1>3. Cardinality(owners') <= DurableCap
  <2>1. CASE owners' = owners
    BY <2>1, Split DEF ClientFacts, ClientsBounded
  <2>2. CASE owners' # owners
    <3>1. owners' = owners \cup {c} /\ Cardinality(owners) < DurableCap
      BY <2>2 DEF MayPromote
    <3> QED
      BY <3>1, Split, FiniteTables, OneMore, OAuthAssumption DEF ClientFacts
  <2> QED
    BY <2>1, <2>2
<1>4. ClientFacts'
  BY <1>1, <1>2, <1>3, Split DEF ClientFacts, ClientsTyped, ClientsBounded
<1>5. LoginFacts'
  <2>1. CASE logins' = [logins EXCEPT ![l].at = "issue"] /\ c \in owners'
    BY <1>1, <2>1, Split, LoginMoves
  <2>2. CASE logins' = [logins EXCEPT ![l] = NoLogin]
    BY <1>1, <2>2, Split, LoginEnds
  <2> QED
    BY <2>1, <2>2 DEF MayPromote, Known
<1>6. ServerTyped' /\ GrantFacts' /\ GrantsNeedOwner' /\ PolicyIsCurrent'
  BY <1>1, Split, GrantsKept, OwnersKept, PolicyKept DEF ServerTyped
<1>7. RequestsTyped' /\ DownIsIdle'
  BY Split DEF RequestsTyped, DownIsIdle, Up, NoLogin
<1>8. NoCodeYet'
  BY Split, CodesKept DEF LoginFacts, LoginsTyped, NoLogin
<1> QED
  BY <1>4, <1>5, <1>6, <1>7, <1>8, Joined

-----------------------------------------------------------------------------
(* Steps that change the grants                                             *)

LEMMA IssueCodeStep == ASSUME IndInv, NEW l \in LoginId, IssueCode(l) PROVE IndInv'
<1> USE DEF IssueCode, clients
<1> DEFINE code == [client |-> logins[l].client, policy |-> server, consumed |-> FALSE]
<1>1. Up /\ logins[l].client \in owners /\ logins[l].client \in ClientId
  BY Split, OAuthAssumption DEF DownIsIdle, NoLogin, LoginFacts, Promoted, ClientFacts, ClientsTyped
<1>2. code \in Code /\ code.client = logins[l].client /\ code.policy = server
  BY <1>1, Split DEF Code, ServerTyped
<1> HIDE DEF code
<1>3. codes' = [codes EXCEPT ![l] = code] /\ UNCHANGED <<issued, pairs>>
  BY DEF code
<1>4. codes \in [LoginId -> Code]
  BY Split DEF GrantFacts, GrantsTyped
<1>5. codes'[l] = code /\ \A m \in LoginId : m # l => codes'[m] = codes[m]
  BY <1>3, <1>4
<1>6. codes[l] = NoCode /\ l <= started
  BY Split DEF NoCodeYet
<1>7. GrantsTyped' /\ Unissued' /\ OneHeir' /\ RevokedTogether'
  <2>1. GrantsTyped'
    BY <1>2, <1>3, Split DEF GrantFacts, GrantsTyped
  <2>2. Unissued' /\ OneHeir' /\ RevokedTogether'
    BY <1>3, Split DEF GrantFacts, Unissued, OneHeir, RevokedTogether, Issued
  <2> QED
    BY <2>1, <2>2
<1>8. Parents'
  BY <1>3, <1>5, <1>6, Split DEF GrantFacts, Parents, Issued, NoCode
<1>9. GrantPolicies' /\ PolicyIsCurrent'
  BY <1>1, <1>2, <1>3, <1>5, Split DEF GrantFacts, GrantPolicies, PolicyIsCurrent, Issued, Up
<1>10. GrantsNeedOwner'
  BY <1>1, <1>2, <1>3, <1>5, Split DEF GrantsNeedOwner, Issued
<1>11. LoginFacts'
  BY Split, LoginEnds
<1>12. NoCodeYet'
  BY <1>5, <1>6, Split DEF NoCodeYet, LoginFacts, LoginsTyped, NoLogin
<1>13. ServerTyped' /\ ClientFacts' /\ RequestsTyped' /\ DownIsIdle'
  BY <1>1, Split, ClientsKept DEF ServerTyped, RequestsTyped, DownIsIdle, Up
<1> QED
  BY <1>7, <1>8, <1>9, <1>10, <1>11, <1>12, <1>13, Joined DEF GrantFacts

(* Pairs and codes that only lose their worth.                              *)
LEMMA Downgraded ==
  ASSUME IndInv, GrantsTyped', UNCHANGED <<clients, started, logins, request, issued>>,
         \A t \in PairId : /\ pairs'[t].parent = pairs[t].parent /\ pairs'[t].family = pairs[t].family
                           /\ pairs'[t].client = pairs[t].client /\ pairs'[t].policy = pairs[t].policy
                           /\ pairs'[t].consumed = pairs[t].consumed
                           /\ t > issued => pairs'[t] = pairs[t],
         \A l \in LoginId : /\ codes'[l].client = codes[l].client /\ codes'[l].policy = codes[l].policy
                            /\ codes[l].consumed => codes'[l].consumed
                            /\ codes[l] = NoCode => codes'[l] = NoCode,
         ServerTyped', RevokedTogether', PolicyIsCurrent', DownIsIdle'
  PROVE  IndInv'
<1> USE DEF clients
<1>1. Issued \subseteq PairId /\ Issued' = Issued
  BY Split, OAuthAssumption DEF GrantFacts, GrantsTyped, Issued
<1>2. Unissued' /\ OneHeir'
  <2>1. Unissued /\ OneHeir
    BY Split DEF GrantFacts
  <2>2. Unissued'
    BY <2>1 DEF Unissued
  <2>3. OneHeir'
    BY <1>1, <2>1 DEF OneHeir
  <2> QED
    BY <2>2, <2>3
<1>3. Parents'
  <2>1. Parents
    BY Split DEF GrantFacts
  <2> SUFFICES ASSUME NEW t \in Issued
               PROVE  LET by == pairs'[t].parent IN
                      /\ pairs'[t].family \in Issued
                      /\ \/ by.pair = 0 /\ by.code \in LoginId /\ codes'[by.code].consumed
                         \/ by.code = 0 /\ by.pair \in Issued /\ pairs'[by.pair].consumed
    BY <1>1 DEF Parents
  <2>2. pairs'[t].parent = pairs[t].parent /\ pairs'[t].family = pairs[t].family
    BY <1>1
  <2> DEFINE by == pairs[t].parent
  <2>3. pairs[t].family \in Issued
    BY <2>1 DEF Parents
  <2>4. CASE by.pair = 0 /\ by.code \in LoginId /\ codes[by.code].consumed
    <3>1. codes'[by.code].consumed
      BY <2>4
    <3> QED
      BY <2>2, <2>3, <2>4, <3>1
  <2>5. CASE by.code = 0 /\ by.pair \in Issued /\ pairs[by.pair].consumed
    <3>1. pairs'[by.pair].consumed
      BY <1>1, <2>5
    <3> QED
      BY <2>2, <2>3, <2>5, <3>1
  <2> QED
    BY <2>1, <2>4, <2>5 DEF Parents
<1>4. GrantPolicies'
  <2>1. GrantPolicies
    BY Split DEF GrantFacts
  <2>2. \A l \in LoginId : codes'[l] # NoCode => codes'[l].policy # Down
    BY <2>1 DEF GrantPolicies
  <2>3. \A t \in Issued : pairs'[t].policy = pairs[t].policy /\ pairs'[t].family = pairs[t].family
    BY <1>1
  <2> QED
    BY <1>1, <2>1, <2>2, <2>3 DEF GrantPolicies
<1>5. GrantsNeedOwner'
  BY <1>1, Split DEF GrantsNeedOwner
<1>6. NoCodeYet'
  BY Split DEF NoCodeYet
<1>7. ClientFacts' /\ LoginFacts' /\ RequestsTyped'
  BY Split, ClientsKept, LoginsKept DEF RequestsTyped
<1> QED
  BY <1>2, <1>3, <1>4, <1>5, <1>6, <1>7, Joined DEF GrantFacts

LEMMA StartStep == ASSUME IndInv, NEW p \in Policy, Start(p) PROVE IndInv'
<1> USE DEF Start, clients
<1>1. GrantsTyped /\ p # Down
  BY Split, OAuthAssumption DEF GrantFacts
<1>2. \A t \in PairId :
        IF pairs[t].policy \notin {p, Down}
        THEN pairs'[t] = [pairs[t] EXCEPT !.revoked = TRUE, !.accessRevoked = TRUE] ELSE pairs'[t] = pairs[t]
  BY DEF Retired
<1>3. \A t \in PairId :
        /\ pairs'[t] \in Pair
        /\ pairs'[t].parent = pairs[t].parent /\ pairs'[t].family = pairs[t].family
        /\ pairs'[t].client = pairs[t].client /\ pairs'[t].policy = pairs[t].policy
        /\ pairs'[t].consumed = pairs[t].consumed
        /\ pairs[t].policy \notin {p, Down} => pairs'[t].revoked = TRUE /\ pairs'[t].accessRevoked = TRUE
        /\ pairs[t].policy \in {p, Down} => pairs'[t] = pairs[t]
  BY ZenonT(40), <1>1, <1>2 DEF GrantsTyped, Pair
<1>4. \A l \in LoginId :
        /\ codes'[l] \in Code
        /\ codes'[l].client = codes[l].client /\ codes'[l].policy = codes[l].policy
        /\ codes[l].policy \notin {p, Down} => codes'[l].consumed
        /\ codes[l].policy \in {p, Down} => codes'[l] = codes[l]
  BY <1>1 DEF GrantsTyped, Code
<1>5. GrantsTyped'
  <2>1. pairs' \in [PairId -> Pair]
    BY <1>3 DEF Retired
  <2>2. codes' \in [LoginId -> Code]
    BY <1>4
  <2> QED
    BY <1>1, <2>1, <2>2 DEF GrantsTyped
<1>6. Issued \subseteq PairId /\ Issued' = Issued
  BY <1>1, OAuthAssumption DEF GrantsTyped, Issued
<1>7. RevokedTogether'
  <2> SUFFICES ASSUME NEW t \in Issued, NEW u \in Issued, pairs'[t].family = pairs'[u].family
               PROVE  pairs'[t].revoked = pairs'[u].revoked /\ pairs'[t].revoked = pairs'[u].accessRevoked
    BY <1>6 DEF RevokedTogether
  <2>1. pairs[t].family = pairs[u].family
    BY <1>3, <1>6
  <2>2. pairs[t].policy = pairs[u].policy
    BY <2>1, Split DEF GrantFacts, GrantPolicies
  <2>3. pairs[t].revoked = pairs[u].revoked /\ pairs[t].revoked = pairs[u].accessRevoked
    BY <2>1, Split DEF GrantFacts, RevokedTogether
  <2> QED
    BY <1>3, <1>6, <2>2, <2>3
<1>8. PolicyIsCurrent'
  <2>1. \A t \in Issued : ~pairs'[t].revoked => pairs'[t].policy = p
    BY <1>3, <1>6, Split DEF GrantFacts, GrantPolicies
  <2>2. \A l \in LoginId : codes'[l] # NoCode /\ ~codes'[l].consumed => codes'[l].policy = p
    BY <1>4, Split DEF GrantFacts, GrantPolicies
  <2> QED
    BY <1>6, <2>1, <2>2 DEF PolicyIsCurrent
<1>9. ServerTyped' /\ DownIsIdle'
  BY <1>1, Split DEF ServerTyped, DownIsIdle, Up
<1>10. \A l \in LoginId : /\ codes[l].consumed => codes'[l].consumed
                          /\ codes[l] = NoCode => codes'[l] = NoCode
  BY <1>4 DEF NoCode
<1>11. \A t \in PairId : t > issued => pairs'[t] = pairs[t]
  BY <1>3, Split DEF GrantFacts, Unissued, NoPair
<1> QED
  BY <1>3, <1>4, <1>5, <1>7, <1>8, <1>9, <1>10, <1>11, Downgraded

LEMMA EndFamilyStep == ASSUME IndInv, NEW t \in PairId, EndFamily(t) PROVE IndInv'
<1> DEFINE f == pairs[t].family
<1>0. Up /\ UNCHANGED <<server, registered, pending, owners, started, logins, codes, issued, request>>
  BY DEF EndFamily, clients
<1>1. GrantsTyped /\ t \in Issued /\ Issued \subseteq PairId /\ Issued' = Issued
  BY <1>0, Split, OAuthAssumption DEF EndFamily, GrantFacts, GrantsTyped, Issued
<1>2. f \in Issued
  BY <1>1, Split DEF GrantFacts, Parents
<1>3. \A u \in PairId :
        /\ pairs[u].family = f => pairs'[u] = [pairs[u] EXCEPT !.revoked = TRUE, !.accessRevoked = TRUE]
        /\ pairs[u].family # f => pairs'[u] = pairs[u]
  BY DEF EndFamily, FamilyRevoked
<1>4. \A u \in PairId :
        /\ pairs'[u] \in Pair
        /\ pairs'[u].parent = pairs[u].parent /\ pairs'[u].family = pairs[u].family
        /\ pairs'[u].client = pairs[u].client /\ pairs'[u].policy = pairs[u].policy
        /\ pairs'[u].consumed = pairs[u].consumed
        /\ pairs[u].family = f => pairs'[u].revoked = TRUE /\ pairs'[u].accessRevoked = TRUE
        /\ pairs[u].family # f => pairs'[u] = pairs[u]
  <2> TAKE u \in PairId
  <2>1. pairs[u] \in Pair
    BY <1>1 DEF GrantsTyped
  <2> HIDE DEF f
  <2>2. CASE pairs[u].family = f
    BY <1>3, <2>1, <2>2 DEF Pair
  <2>3. CASE pairs[u].family # f
    BY <1>3, <2>1, <2>3
  <2> QED
    BY <2>2, <2>3
<1>5. GrantsTyped'
  <2>1. pairs' \in [PairId -> Pair]
    BY <1>4 DEF EndFamily, FamilyRevoked
  <2> QED
    BY <1>0, <1>1, <2>1 DEF GrantsTyped
<1>6. RevokedTogether'
  <2> SUFFICES ASSUME NEW u \in Issued, NEW v \in Issued, pairs'[u].family = pairs'[v].family
               PROVE  pairs'[u].revoked = pairs'[v].revoked /\ pairs'[u].revoked = pairs'[v].accessRevoked
    BY <1>1 DEF RevokedTogether
  <2>1. pairs[u].family = pairs[v].family
    BY <1>1, <1>4
  <2>2. pairs[u].revoked = pairs[v].revoked /\ pairs[u].revoked = pairs[v].accessRevoked
    BY <2>1, Split DEF GrantFacts, RevokedTogether
  <2>3. CASE pairs[u].family = f
    <3>1. /\ pairs'[u].revoked = TRUE /\ pairs'[v].revoked = TRUE /\ pairs'[v].accessRevoked = TRUE
      BY <1>1, <1>4, <2>1, <2>3
    <3> QED
      BY <3>1
  <2>4. CASE pairs[u].family # f
    <3>1. pairs'[u] = pairs[u] /\ pairs'[v] = pairs[v]
      BY <1>1, <1>4, <2>1, <2>4
    <3> QED
      BY <2>2, <3>1
  <2> QED
    BY <2>3, <2>4
<1>7. PolicyIsCurrent'
  BY <1>0, <1>1, <1>4, Split DEF PolicyIsCurrent, Up
<1>8. \A u \in PairId : u > issued => pairs'[u] = pairs[u]
  <2>1. \A u \in PairId : u > issued => pairs[u].family = 0
    BY Split DEF GrantFacts, Unissued, NoPair
  <2> QED
    BY <1>2, <1>4, <2>1 DEF Issued
<1>9. ServerTyped' /\ DownIsIdle'
  BY <1>0, Split DEF ServerTyped, DownIsIdle, Up
<1> QED
  BY <1>0, <1>4, <1>5, <1>6, <1>7, <1>8, <1>9, Downgraded DEF clients

(* A pair more: its parent had no heir, and it joins a family that is good. *)
LEMMA OnePairMore ==
  ASSUME IndInv, Up, UNCHANGED <<server, clients, started, logins>>, GrantsTyped', RequestsTyped',
         issued' = issued + 1, issued' \in PairId,
         \A u \in Issued : /\ pairs'[u].parent = pairs[u].parent /\ pairs'[u].family = pairs[u].family
                           /\ pairs'[u].client = pairs[u].client /\ pairs'[u].policy = pairs[u].policy
                           /\ pairs'[u].revoked = pairs[u].revoked
                           /\ pairs'[u].accessRevoked = pairs[u].accessRevoked
                           /\ pairs[u].consumed => pairs'[u].consumed,
         \A u \in PairId : u > issued' => pairs'[u] = NoPair,
         \A l \in LoginId : /\ codes'[l].client = codes[l].client /\ codes'[l].policy = codes[l].policy
                            /\ codes[l].consumed => codes'[l].consumed
                            /\ codes[l] = NoCode => codes'[l] = NoCode,
         LET new == pairs'[issued'] IN
           /\ new.policy = server /\ new.revoked = FALSE /\ new.accessRevoked = FALSE
           /\ new.client \in owners
           /\ \A u \in Issued : pairs[u].parent # new.parent
           /\ \/ new.parent.pair = 0 /\ new.parent.code \in LoginId /\ codes'[new.parent.code].consumed
              \/ new.parent.code = 0 /\ new.parent.pair \in Issued /\ pairs'[new.parent.pair].consumed
           /\ \/ new.family = issued'
              \/ \E t \in Issued : new.family = pairs[t].family /\ ~pairs[t].revoked /\ pairs[t].policy = server
  PROVE  IndInv'
<1> DEFINE n == issued'
           f == pairs'[n].family
<1>1. Issued' = Issued \cup {n} /\ n \notin Issued
  BY Split, OAuthAssumption DEF GrantFacts, GrantsTyped, Issued
<1>2. \A u \in Issued : pairs[u].family \in Issued
  BY Split DEF GrantFacts, Parents
<1>3. Unissued'
  BY DEF Unissued
<1>4. OneHeir'
  <2>1. OneHeir
    BY Split DEF GrantFacts
  <2> QED
    BY <1>1, <2>1 DEF OneHeir
<1>5. \A u \in Issued : f = pairs[u].family =>
        /\ pairs[u].revoked = FALSE /\ pairs[u].accessRevoked = FALSE /\ pairs[u].policy = server
  <2> TAKE u \in Issued
  <2> HAVE f = pairs[u].family
  <2>1. f # n
    BY <1>1, <1>2
  <2>2. PICK t \in Issued : f = pairs[t].family /\ ~pairs[t].revoked /\ pairs[t].policy = server
    BY <2>1
  <2>3. pairs[t].revoked = FALSE
    BY <2>2, Split, OAuthAssumption DEF GrantFacts, GrantsTyped, Pair, Issued
  <2>4. RevokedTogether /\ GrantPolicies /\ pairs[t].family = pairs[u].family
    BY <2>2, Split DEF GrantFacts
  <2>5. pairs[t].revoked = pairs[u].revoked /\ pairs[t].revoked = pairs[u].accessRevoked
    BY <2>4 DEF RevokedTogether
  <2>6. pairs[t].policy = pairs[u].policy
    BY <2>4 DEF GrantPolicies
  <2> QED
    BY <2>2, <2>3, <2>5, <2>6
<1>6. RevokedTogether'
  <2> SUFFICES ASSUME NEW t \in Issued \cup {n}, NEW u \in Issued \cup {n}, pairs'[t].family = pairs'[u].family
               PROVE  pairs'[t].revoked = pairs'[u].revoked /\ pairs'[t].revoked = pairs'[u].accessRevoked
    BY <1>1 DEF RevokedTogether
  <2>1. CASE t \in Issued /\ u \in Issued
    BY <2>1, Split DEF GrantFacts, RevokedTogether
  <2>2. CASE t = n /\ u = n
    BY <2>2
  <2>3. CASE t = n /\ u \in Issued
    <3>1. f = pairs[u].family
      BY <2>3
    <3>2. pairs'[u].revoked = FALSE /\ pairs'[u].accessRevoked = FALSE
      BY <1>5, <2>3, <3>1
    <3> QED
      BY <2>3, <3>2
  <2>4. CASE u = n /\ t \in Issued
    <3>1. f = pairs[t].family
      BY <2>4
    <3> QED
      BY ZenonT(40), <1>5, <2>4, <3>1
  <2> QED
    BY <2>1, <2>2, <2>3, <2>4
<1>7. GrantPolicies'
  <2>1. GrantPolicies
    BY Split DEF GrantFacts
  <2>2. \A l \in LoginId : codes'[l] # NoCode => codes'[l].policy # Down
    BY <2>1 DEF GrantPolicies
  <2>3. \A t \in Issued \cup {n} : pairs'[t].policy # Down
    BY <2>1 DEF GrantPolicies, Up
  <2>4. \A t, u \in Issued \cup {n} : pairs'[t].family = pairs'[u].family => pairs'[t].policy = pairs'[u].policy
    BY <1>5, <2>1 DEF GrantPolicies
  <2> QED
    BY <1>1, <2>2, <2>3, <2>4 DEF GrantPolicies
<1>8. Parents'
  <2> SUFFICES ASSUME NEW t \in Issued \cup {n}
               PROVE  LET by == pairs'[t].parent IN
                      /\ pairs'[t].family \in Issued \cup {n}
                      /\ \/ by.pair = 0 /\ by.code \in LoginId /\ codes'[by.code].consumed
                         \/ by.code = 0 /\ by.pair \in Issued \cup {n} /\ pairs'[by.pair].consumed
    BY <1>1 DEF Parents
  <2>1. CASE t = n
    BY <1>2, <2>1
  <2>2. CASE t \in Issued
    <3> DEFINE by == pairs[t].parent
    <3>1. pairs'[t].parent = by /\ pairs'[t].family \in Issued
      BY <1>2, <2>2
    <3>2. CASE by.pair = 0 /\ by.code \in LoginId /\ codes[by.code].consumed
      <4>1. codes'[by.code].consumed
        BY <3>2
      <4> QED
        BY <3>1, <3>2, <4>1
    <3>3. CASE by.code = 0 /\ by.pair \in Issued /\ pairs[by.pair].consumed
      <4>1. pairs'[by.pair].consumed
        BY <3>3
      <4> QED
        BY <3>1, <3>3, <4>1
    <3> QED
      BY <2>2, <3>2, <3>3, Split DEF GrantFacts, Parents
  <2> QED
    BY <2>1, <2>2
<1>9. PolicyIsCurrent'
  BY <1>1, Split DEF PolicyIsCurrent, Up
<1>10. GrantsNeedOwner'
  BY <1>1, Split DEF GrantsNeedOwner, clients
<1>11. NoCodeYet'
  BY Split DEF NoCodeYet
<1>12. ServerTyped' /\ ClientFacts' /\ LoginFacts' /\ DownIsIdle'
  BY Split, ClientsKept, LoginsKept DEF ServerTyped, DownIsIdle, Up, clients
<1> QED
  BY <1>3, <1>4, <1>6, <1>7, <1>8, <1>9, <1>10, <1>11, <1>12, Joined DEF GrantFacts

LEMMA ExchangeCodeStep == ASSUME IndInv, NEW r \in Request, ExchangeCode(r) PROVE IndInv'
<1> DEFINE l == request[r].id
           n == issued + 1
           new == NewPair(ByCode(l), n, codes[l].client)
<1>0. /\ issued < MaxPair /\ issued' = n /\ Answered(r) /\ UNCHANGED <<server, clients, started, logins>>
      /\ codes' = [codes EXCEPT ![l].consumed = TRUE] /\ pairs' = [pairs EXCEPT ![n] = new]
      /\ CodeIsGood(l) /\ request[r].at = "code"
  BY DEF ExchangeCode, MayBuyWithCode
<1>1. GrantsTyped /\ l \in LoginId /\ n \in PairId /\ n \notin Issued /\ Issued \subseteq PairId
  BY <1>0, Split, OAuthAssumption DEF GrantFacts, GrantsTyped, RequestsTyped, Issued
<1>2. Up
  BY <1>0, Split DEF DownIsIdle, Idle
<1>3. codes[l].policy = server /\ codes[l].consumed = FALSE /\ codes[l] # NoCode
  BY <1>0, <1>1, <1>2 DEF CodeIsGood, GrantsTyped, Code, NoCode, Up
<1>4. codes[l].client \in owners /\ codes[l].client \in ClientId
  BY <1>1, <1>3, Split, OAuthAssumption DEF GrantsNeedOwner, ClientFacts, ClientsTyped
<1>5. /\ new \in Pair /\ new.parent = ByCode(l) /\ new.family = n /\ new.client = codes[l].client
      /\ new.policy = server /\ new.revoked = FALSE /\ new.accessRevoked = FALSE
  BY <1>1, <1>4, Split DEF NewPair, Pair, Parent, ByCode, ServerTyped
<1> HIDE DEF new
<1>6. pairs'[n] = new /\ \A u \in PairId : u # n => pairs'[u] = pairs[u]
  BY <1>0, <1>1 DEF GrantsTyped
<1>7. \A m \in LoginId :
        /\ codes'[m] \in Code
        /\ codes'[m].client = codes[m].client /\ codes'[m].policy = codes[m].policy
        /\ codes[m].consumed => codes'[m].consumed
        /\ codes[m] = NoCode => codes'[m] = NoCode
  BY <1>0, <1>1, <1>3 DEF GrantsTyped, Code
<1>8. codes'[l].consumed
  BY <1>0, <1>1 DEF GrantsTyped, Code
<1>9. GrantsTyped'
  <2>1. codes' \in [LoginId -> Code]
    BY <1>0, <1>1, <1>7 DEF GrantsTyped
  <2>2. pairs' \in [PairId -> Pair]
    BY <1>0, <1>1, <1>5 DEF GrantsTyped
  <2>3. issued' \in 0..MaxPair
    BY <1>0, <1>1, OAuthAssumption DEF GrantsTyped
  <2> QED
    BY <2>1, <2>2, <2>3 DEF GrantsTyped
<1>10. RequestsTyped'
  BY <1>0, <1>1, Split, OAuthAssumption DEF Answered, Idle, RequestsTyped, GrantsTyped
<1>11. \A u \in Issued : pairs[u].parent # ByCode(l)
  <2> TAKE u \in Issued
  <2> SUFFICES ASSUME pairs[u].parent = ByCode(l) PROVE FALSE
    OBVIOUS
  <2>1. pairs[u].parent.code = l /\ l # 0
    BY <1>1, OAuthAssumption DEF ByCode
  <2> QED
    BY <1>3, <2>1, Split DEF GrantFacts, Parents
<1>12. \A u \in PairId : u > n => pairs'[u] = NoPair
  BY <1>1, <1>6, Split, OAuthAssumption DEF GrantFacts, GrantsTyped, Unissued
<1>13. ByCode(l).pair = 0 /\ ByCode(l).code = l
  BY DEF ByCode
<1>14. \A u \in Issued : pairs'[u] = pairs[u]
  BY <1>1, <1>6
<1>15. /\ pairs'[n].policy = server /\ pairs'[n].revoked = FALSE /\ pairs'[n].accessRevoked = FALSE
       /\ pairs'[n].client \in owners /\ pairs'[n].parent = ByCode(l) /\ pairs'[n].family = n
  BY <1>4, <1>5, <1>6
<1>16. LET p == pairs'[issued'] IN
         /\ p.policy = server /\ p.revoked = FALSE /\ p.accessRevoked = FALSE /\ p.client \in owners
         /\ \A u \in Issued : pairs[u].parent # p.parent
         /\ \/ p.parent.pair = 0 /\ p.parent.code \in LoginId /\ codes'[p.parent.code].consumed
            \/ p.parent.code = 0 /\ p.parent.pair \in Issued /\ pairs'[p.parent.pair].consumed
         /\ \/ p.family = issued'
            \/ \E t \in Issued : p.family = pairs[t].family /\ ~pairs[t].revoked /\ pairs[t].policy = server
  BY <1>0, <1>1, <1>8, <1>11, <1>13, <1>15
<1>17. \A u \in Issued : /\ pairs'[u].parent = pairs[u].parent /\ pairs'[u].family = pairs[u].family
                         /\ pairs'[u].client = pairs[u].client /\ pairs'[u].policy = pairs[u].policy
                         /\ pairs'[u].revoked = pairs[u].revoked
                         /\ pairs'[u].accessRevoked = pairs[u].accessRevoked
                         /\ pairs[u].consumed => pairs'[u].consumed
  BY <1>14
<1>18. issued' = issued + 1 /\ issued' \in PairId /\ \A u \in PairId : u > issued' => pairs'[u] = NoPair
  BY <1>0, <1>1, <1>12
<1> QED
  BY <1>0, <1>2, <1>7, <1>9, <1>10, <1>16, <1>17, <1>18, OnePairMore

LEMMA ExchangeRefreshStep == ASSUME IndInv, NEW r \in Request, ExchangeRefresh(r) PROVE IndInv'
<1> DEFINE t == request[r].id
           n == issued + 1
           new == NewPair(ByRefresh(t), pairs[t].family, pairs[t].client)
           old == [pairs[t] EXCEPT !.consumed = TRUE]
<1>0. /\ issued < MaxPair /\ issued' = n /\ Answered(r) /\ UNCHANGED <<server, clients, started, logins, codes>>
      /\ pairs' = [pairs EXCEPT ![t].consumed = TRUE, ![n] = new]
      /\ RefreshIsGood(t) /\ request[r].at = "refresh"
  BY DEF ExchangeRefresh, MayBuyWithRefresh
<1>1. GrantsTyped /\ n \in PairId /\ n \notin Issued /\ Issued \subseteq PairId /\ t \in Issued /\ t # n
  BY <1>0, Split, OAuthAssumption DEF GrantFacts, GrantsTyped, RequestsTyped, Issued
<1>2. Up
  BY <1>0, Split DEF DownIsIdle, Idle
<1>3. /\ pairs[t] \in Pair /\ pairs[t].policy = server /\ ~pairs[t].revoked
      /\ pairs[t].consumed = FALSE
  BY <1>0, <1>1 DEF RefreshIsGood, GrantsTyped, Pair
<1>4. pairs[t].client \in owners
  BY <1>1, Split DEF GrantsNeedOwner
<1>5. /\ new \in Pair /\ new.parent = ByRefresh(t) /\ new.family = pairs[t].family /\ new.client = pairs[t].client
      /\ new.policy = server /\ new.revoked = FALSE /\ new.accessRevoked = FALSE
  BY <1>1, <1>3, Split DEF NewPair, Pair, Parent, ByRefresh, ServerTyped
<1>6. /\ old \in Pair /\ old.consumed /\ old.parent = pairs[t].parent /\ old.family = pairs[t].family
      /\ old.client = pairs[t].client /\ old.policy = pairs[t].policy
      /\ old.revoked = pairs[t].revoked /\ old.accessRevoked = pairs[t].accessRevoked
  BY <1>3 DEF Pair
<1>7. pairs' = [pairs EXCEPT ![t] = old, ![n] = new]
  BY <1>0
<1> HIDE DEF new, old
<1>8. pairs'[n] = new /\ pairs'[t] = old /\ \A u \in PairId : u # n /\ u # t => pairs'[u] = pairs[u]
  BY <1>1, <1>7 DEF GrantsTyped
<1>9. GrantsTyped'
  <2>1. pairs' \in [PairId -> Pair]
    BY <1>1, <1>5, <1>6, <1>7 DEF GrantsTyped
  <2>2. issued' \in 0..MaxPair
    BY <1>0, <1>1, OAuthAssumption DEF GrantsTyped
  <2> QED
    BY <1>0, <1>1, <2>1, <2>2 DEF GrantsTyped
<1>10. RequestsTyped'
  BY <1>0, <1>1, Split, OAuthAssumption DEF Answered, Idle, RequestsTyped, GrantsTyped
<1>11. \A u \in Issued : pairs[u].parent # ByRefresh(t)
  <2> TAKE u \in Issued
  <2> SUFFICES ASSUME pairs[u].parent = ByRefresh(t) PROVE FALSE
    OBVIOUS
  <2>1. pairs[u].parent.pair = t /\ t # 0
    BY <1>1, OAuthAssumption DEF ByRefresh, Issued
  <2> QED
    BY <1>3, <2>1, Split DEF GrantFacts, Parents
<1>12. ByRefresh(t).code = 0 /\ ByRefresh(t).pair = t
  BY DEF ByRefresh
<1>13. \A u \in PairId : u > n => pairs'[u] = NoPair
  <2>1. \A u \in PairId : u > n => u # n /\ u # t /\ u > issued
    BY <1>1, OAuthAssumption DEF GrantsTyped, Issued
  <2> QED
    BY <1>8, <2>1, Split DEF GrantFacts, Unissued
<1>14. \A u \in Issued : /\ pairs'[u].parent = pairs[u].parent /\ pairs'[u].family = pairs[u].family
                         /\ pairs'[u].client = pairs[u].client /\ pairs'[u].policy = pairs[u].policy
                         /\ pairs'[u].revoked = pairs[u].revoked
                         /\ pairs'[u].accessRevoked = pairs[u].accessRevoked
                         /\ pairs[u].consumed => pairs'[u].consumed
  <2> TAKE u \in Issued
  <2>1. CASE u = t
    BY <1>6, <1>8, <2>1
  <2>2. CASE u # t
    <3>1. pairs'[u] = pairs[u]
      BY <1>1, <1>8, <2>2
    <3> QED
      BY <3>1
  <2> QED
    BY <2>1, <2>2
<1>15. /\ pairs'[n].policy = server /\ pairs'[n].revoked = FALSE /\ pairs'[n].accessRevoked = FALSE
       /\ pairs'[n].client \in owners /\ pairs'[n].parent = ByRefresh(t) /\ pairs'[n].family = pairs[t].family
  BY <1>4, <1>5, <1>8
<1>16. pairs'[t].consumed
  BY <1>6, <1>8
<1>17. LET p == pairs'[issued'] IN
         /\ p.policy = server /\ p.revoked = FALSE /\ p.accessRevoked = FALSE /\ p.client \in owners
         /\ \A u \in Issued : pairs[u].parent # p.parent
         /\ \/ p.parent.pair = 0 /\ p.parent.code \in LoginId /\ codes'[p.parent.code].consumed
            \/ p.parent.code = 0 /\ p.parent.pair \in Issued /\ pairs'[p.parent.pair].consumed
         /\ \/ p.family = issued'
            \/ \E u \in Issued : p.family = pairs[u].family /\ ~pairs[u].revoked /\ pairs[u].policy = server
  BY <1>0, <1>1, <1>3, <1>11, <1>12, <1>15, <1>16
<1>18. issued' = issued + 1 /\ issued' \in PairId /\ \A u \in PairId : u > issued' => pairs'[u] = NoPair
  BY <1>0, <1>1, <1>13
<1>19. \A l \in LoginId : /\ codes'[l].client = codes[l].client /\ codes'[l].policy = codes[l].policy
                          /\ codes[l].consumed => codes'[l].consumed
                          /\ codes[l] = NoCode => codes'[l] = NoCode
  BY <1>0
<1>20. UNCHANGED <<server, clients, started, logins>>
  BY <1>0
<1> QED
  BY <1>2, <1>9, <1>10, <1>14, <1>17, <1>18, <1>19, <1>20, OnePairMore

-----------------------------------------------------------------------------
(* Every step keeps the invariant.                                          *)
LEMMA Inductive == IndInv /\ [Next]_vars => IndInv'
<1> SUFFICES ASSUME IndInv, [Next]_vars PROVE IndInv'
  OBVIOUS
<1>1. CASE UNCHANGED vars
  <2>1. UNCHANGED <<server, clients, grants, started, logins, request>>
    BY <1>1 DEF vars, clients, grants
  <2>2. ServerTyped' /\ ClientFacts' /\ GrantFacts' /\ GrantsNeedOwner' /\ PolicyIsCurrent'
    BY <2>1, Split, ClientsKept, GrantsKept, OwnersKept, PolicyKept DEF ServerTyped, clients
  <2>3. LoginFacts' /\ NoCodeYet' /\ RequestsTyped' /\ DownIsIdle'
    BY <2>1, Split, LoginsKept, CodesKept DEF clients, grants, RequestsTyped, DownIsIdle, Up
  <2> QED
    BY <2>2, <2>3, Joined
<1>2. ASSUME NEW p \in Policy, Start(p) PROVE IndInv'
  BY <1>2, StartStep
<1>3. CASE Crash \/ GetClient \/ Register
  BY <1>3, CrashStep, GetClientStep, RegisterStep
<1>4. ASSUME NEW c \in ClientId, Authorize(c) PROVE IndInv'
  BY <1>4, AuthorizeStep
<1>5. ASSUME NEW l \in LoginId, Callback(l) \/ LoginFails(l) \/ Promote(l) \/ IssueCode(l) PROVE IndInv'
  BY <1>5, CallbackStep, LoginFailsStep, PromoteStep, IssueCodeStep
<1>6. ASSUME NEW r \in Request,
             \/ \E l \in LoginId : LoadCode(r, l)
             \/ \E t \in PairId : LoadRefresh(r, t)
             \/ ExchangeCode(r) \/ ExchangeRefresh(r) \/ ExchangeRefused(r)
      PROVE  IndInv'
  BY <1>6, LoadCodeStep, LoadRefreshStep, ExchangeCodeStep, ExchangeRefreshStep, RefusedStep
<1>7. ASSUME NEW t \in PairId, EndFamily(t) PROVE IndInv'
  BY <1>7, EndFamilyStep
<1> QED
  BY <1>1, <1>2, <1>3, <1>4, <1>5, <1>6, <1>7 DEF Next

(* The invariant holds in every reachable state of the server, with any     *)
(* number of requests in flight.                                            *)
THEOREM Invariance == Spec => []IndInv
  BY Initial, Inductive, PTL DEF Spec

(* Two requests that have loaded the same code or refresh token never both  *)
(* buy a pair with it.                                                      *)
THEOREM OneHeirAlways == Spec => []OneHeir
<1>1. IndInv => OneHeir
  BY DEF IndInv
<1> QED
  BY <1>1, Invariance, PTL

(* No pair outlives its family, and none joins a family after its end.      *)
THEOREM RevokedTogetherAlways == Spec => []RevokedTogether
<1>1. IndInv => RevokedTogether
  BY DEF IndInv
<1> QED
  BY <1>1, Invariance, PTL

(* No grant survives a change of the authorization policy, there and back, *)
(* and only clients that the owner has authorized hold codes and tokens.    *)
THEOREM GrantsHoldAlways == Spec => []GrantsHold
<1>1. IndInv => GrantsHold
  BY DEF IndInv, GrantsHold
<1> QED
  BY <1>1, Invariance, PTL

(* A family is a chain whose grants end together: both conjuncts are        *)
(* invariants for every number of clients, logins and pairs.                *)
THEOREM FamilyIsAChainAlways == Spec => []FamilyIsAChain
<1>1. IndInv => FamilyIsAChain
  BY DEF IndInv, FamilyIsAChain
<1> QED
  BY <1>1, Invariance, PTL

-----------------------------------------------------------------------------
(* The capabilities of contexts.                                           *)

(* What the store keeps of a context, and what a thread may be doing.      *)
Issue == [scope : CallerScope, bindings : SUBSET Binding]

AtRests == [at : {"idle"}]
Creating == [at : {"create"}, scope : CallerScope, bindings : SUBSET Binding]
Enlisting == [at : {"register"}, context : Nat]
Looking == [at : {"look"}, context : Nat, scope : CallerScope]
Validating == [at : {"validate"}, context : Nat, scope : CallerScope, matches : SUBSET Binding, left : SUBSET Binding,
               valid : SUBSET Binding, seen : SUBSET Binding, kept : SUBSET Binding]
Decided == [at : {"count", "allowed"}, context : Nat, scope : CallerScope, matches : SUBSET Binding,
            seen : SUBSET Binding, kept : SUBSET Binding, binding : Binding]
Doing == AtRests \cup Creating \cup Enlisting \cup Looking \cup Validating \cup Decided

CapabilityTypeOK ==
  /\ holds \in SUBSET Binding /\ flips \in Nat
  /\ granted \in Seq(Issue) /\ alive \in SUBSET (DOMAIN granted) /\ known \in SUBSET (DOMAIN granted)
  /\ DOMAIN followups \in SUBSET (DOMAIN granted) /\ followups \in [DOMAIN followups -> Nat]
  /\ reserved \in Nat /\ issueCount \in Nat
  /\ doing \in [RightsThread -> Doing]
  /\ served \in Seq(Nat) /\ Len(served) = Len(granted)

(* A thread that is in a context is in one that was created.               *)
InContext(t) == doing[t].at \in {"register", "look"} \cup Underway
ContextsExist == \A t \in RightsThread : InContext(t) => doing[t].context \in DOMAIN granted

Enlists(c) == \E t \in RightsThread : doing[t].at = "register" /\ doing[t].context = c
(* A context is enlisted by the thread that created it, before anybody     *)
(* uses it: its count starts at nothing.                                   *)
EnlistedOnce ==
  \A t \in RightsThread : doing[t].at = "register" =>
    /\ doing[t].context \notin known /\ doing[t].context \notin DOMAIN followups /\ served[doing[t].context] = 0
    /\ \A u \in RightsThread : doing[u].at \in Underway \cup {"register"} /\ doing[u].context = doing[t].context => u = t

(* A slot is held from the reservation to the enlisting; what the manager  *)
(* knows and what is held fits; and what is alive is known or about to be. *)
Holders == {t \in RightsThread : doing[t].at \in {"create", "register"}}
SlotsAreHeld ==
  /\ reserved = Cardinality(Holders)
  /\ Cardinality(known) + reserved <= MaxActive
  /\ \A c \in alive : c \in known \/ Enlists(c)

(* While a known context lives its count is not purged, and counts all.    *)
CountsAreTrue == \A c \in alive \cap known : c \in DOMAIN followups /\ followups[c] = served[c]
(* A context that is gone gets no new request at its count: those that are *)
(* there are used up one by one.                                           *)
Counting(c) == {t \in RightsThread : doing[t].at = "count" /\ doing[t].context = c}
UsesAreBounded ==
  \A c \in DOMAIN granted :
    IF c \in alive THEN served[c] <= MaxFollowup
    ELSE served[c] + Cardinality(Counting(c)) <= MaxFollowup + Cardinality(RightsThread)

(* Of a request: what it kept holds now, what holds now was seen, and what *)
(* was kept and is no longer to be validated was found valid.              *)
CandidateHolds(t) ==
  /\ doing[t].matches \subseteq granted[doing[t].context].bindings
  /\ doing[t].kept \subseteq doing[t].matches \cap holds
  /\ doing[t].matches \cap holds \subseteq doing[t].seen
  /\ doing[t].at = "validate" =>
       /\ doing[t].left \subseteq doing[t].matches
       /\ doing[t].valid \subseteq doing[t].matches \cap doing[t].seen
       /\ doing[t].kept \subseteq doing[t].left \cup doing[t].valid
  /\ doing[t].at \in {"count", "allowed"} =>
       /\ doing[t].binding \in doing[t].matches \cap doing[t].seen
       /\ MayUse(doing[t].context, doing[t].scope)
       /\ \A d \in doing[t].kept : {doing[t].binding, d} \notin Rival
CandidatesHold == \A t \in RightsThread : doing[t].at \in Underway => CandidateHolds(t)

RightsInv ==
  /\ CapabilityTypeOK /\ ContextsExist /\ EnlistedOnce /\ SlotsAreHeld
  /\ CountsAreTrue /\ UsesAreBounded /\ CandidatesHold

-----------------------------------------------------------------------------
LEMMA KindOfDoing ==
  ASSUME NEW d \in Doing
  PROVE  /\ d.at = "idle" => d \in AtRests
         /\ d.at = "create" => d \in Creating
         /\ d.at = "register" => d \in Enlisting
         /\ d.at = "look" => d \in Looking
         /\ d.at = "validate" => d \in Validating
         /\ d.at \in {"count", "allowed"} => d \in Decided
  BY DEF Doing, AtRests, Creating, Enlisting, Looking, Validating, Decided

LEMMA AtRestIsIdle == AtRest \in Doing /\ AtRest.at = "idle"
  BY DEF AtRest, Doing, AtRests

(* Sets that may be counted. *)
LEMMA HoldersAreFinite ==
  ASSUME CapabilityTypeOK
  PROVE  /\ IsFiniteSet(Holders) /\ Cardinality(Holders) \in Nat
         /\ \A c : IsFiniteSet(Counting(c)) /\ Cardinality(Counting(c)) \in Nat /\ Cardinality(Counting(c)) <= Cardinality(RightsThread)
         /\ Cardinality(RightsThread) \in Nat
  <1>1. IsFiniteSet(RightsThread) /\ Cardinality(RightsThread) \in Nat
    BY CapabilityAssumption, FS_CardinalityType
  <1>2. Holders \in SUBSET RightsThread
    BY DEF Holders
  <1>3. \A c : Counting(c) \in SUBSET RightsThread
    BY DEF Counting
  <1>4. IsFiniteSet(Holders) /\ Cardinality(Holders) \in Nat
    BY <1>1, <1>2, FS_Subset, FS_CardinalityType
  <1>5. ASSUME NEW c PROVE IsFiniteSet(Counting(c)) /\ Cardinality(Counting(c)) \in Nat /\ Cardinality(Counting(c)) <= Cardinality(RightsThread)
    <2>1. Counting(c) \in SUBSET RightsThread
      BY <1>3
    <2>2. IsFiniteSet(Counting(c)) /\ Cardinality(Counting(c)) <= Cardinality(RightsThread)
      BY <1>1, <2>1, FS_Subset
    <2> QED BY <2>2, FS_CardinalityType
  <1> QED BY <1>1, <1>4, <1>5

LEMMA BooksAreFinite ==
  ASSUME CapabilityTypeOK
  PROVE  /\ IsFiniteSet(DOMAIN granted)
         /\ IsFiniteSet(known) /\ Cardinality(known) \in Nat
         /\ IsFiniteSet(Living(known)) /\ Cardinality(Living(known)) \in Nat /\ Cardinality(Living(known)) <= Cardinality(known)
  <1>1. DOMAIN granted = 1..Len(granted) /\ Len(granted) \in Nat
    BY DEF CapabilityTypeOK
  <1>2. IsFiniteSet(DOMAIN granted)
    BY <1>1, FS_Interval
  <1>3. IsFiniteSet(known) /\ Cardinality(known) \in Nat
    BY <1>2, FS_Subset, FS_CardinalityType DEF CapabilityTypeOK
  <1>4. Living(known) \in SUBSET known
    BY DEF Living
  <1>5. IsFiniteSet(Living(known)) /\ Cardinality(Living(known)) <= Cardinality(known)
    BY <1>3, <1>4, FS_Subset
  <1> QED BY <1>2, <1>3, <1>5, FS_CardinalityType

-----------------------------------------------------------------------------
(* The invariant gives the limits. *)

(* The threads about to enlist stand for the contexts they enlist.         *)
Enlisted == {t \in RightsThread : doing[t].at = "register"}
LEMMA AliveAreCounted ==
  ASSUME RightsInv
  PROVE  Cardinality(alive) <= MaxActive
  <1> DEFINE F == [t \in Enlisted |-> doing[t].context]
             Im == {doing[t].context : t \in Enlisted}
  <1>1. IsFiniteSet(Holders) /\ Cardinality(Holders) \in Nat /\ IsFiniteSet(known) /\ Cardinality(known) \in Nat
    BY HoldersAreFinite, BooksAreFinite DEF RightsInv
  <1>2. IsFiniteSet(Enlisted) /\ Cardinality(Enlisted) \in Nat /\ Cardinality(Enlisted) <= Cardinality(Holders)
    <2>1. Enlisted \in SUBSET Holders
      BY DEF Enlisted, Holders
    <2> QED BY <1>1, <2>1, FS_Subset, FS_CardinalityType
  <1>3. F \in Surjection(Enlisted, Im)
    BY DEF Surjection
  <1>4. IsFiniteSet(Im) /\ Cardinality(Im) <= Cardinality(Enlisted) /\ Cardinality(Im) \in Nat
    BY <1>2, <1>3, FS_Surjection, FS_CardinalityType
  <1>5. alive \in SUBSET (known \cup Im)
    BY DEF RightsInv, SlotsAreHeld, Enlists, Enlisted
  <1>6. /\ IsFiniteSet(known \cup Im)
        /\ Cardinality(known \cup Im) = Cardinality(known) + Cardinality(Im) - Cardinality(known \cap Im)
    BY <1>1, <1>4, FS_Union
  <1>7. Cardinality(known \cap Im) \in Nat
    <2>1. (known \cap Im) \in SUBSET known
      OBVIOUS
    <2>2. IsFiniteSet(known \cap Im)
      BY <1>1, <2>1, FS_Subset
    <2> QED BY <2>2, FS_CardinalityType
  <1>8. Cardinality(alive) \in Nat /\ Cardinality(alive) <= Cardinality(known \cup Im)
    <2>1. IsFiniteSet(alive) /\ Cardinality(alive) <= Cardinality(known \cup Im)
      BY <1>5, <1>6, FS_Subset
    <2> QED BY <2>1, FS_CardinalityType
  <1>9. Cardinality(known) + Cardinality(Holders) <= MaxActive
    BY DEF RightsInv, SlotsAreHeld
  <1> HIDE DEF Im, F
  <1> QED BY <1>1, <1>2, <1>4, <1>6, <1>7, <1>8, <1>9, CapabilityAssumption

LEMMA InvGivesRights ==
  ASSUME RightsInv
  PROVE  RightsHold
  <1>1. Cardinality(Living(DOMAIN granted)) <= MaxActive
    <2>1. Living(DOMAIN granted) = alive
      BY DEF Living, RightsInv, CapabilityTypeOK
    <2> QED BY <2>1, AliveAreCounted
  <1>2. reserved = Cardinality({t \in RightsThread : doing[t].at \in {"create", "register"}})
    BY DEF RightsInv, SlotsAreHeld, Holders
  <1>3. ASSUME NEW c \in DOMAIN granted
        PROVE  served[c] <= MaxFollowup + (IF c \in alive THEN 0 ELSE Cardinality(RightsThread))
    <2>1. served[c] \in Nat /\ MaxFollowup \in Nat
      BY CapabilityAssumption DEF RightsInv, CapabilityTypeOK
    <2>2. Cardinality(Counting(c)) \in Nat /\ Cardinality(RightsThread) \in Nat
      BY HoldersAreFinite DEF RightsInv
    <2>3. IF c \in alive THEN served[c] <= MaxFollowup
          ELSE served[c] + Cardinality(Counting(c)) <= MaxFollowup + Cardinality(RightsThread)
      BY DEF RightsInv, UsesAreBounded
    <2> QED BY <2>1, <2>2, <2>3
  <1>4. CapacityHolds
    BY <1>1, <1>2, <1>3 DEF CapacityHolds
  <1>5. AllowedWasValid
    <2> SUFFICES ASSUME NEW t \in RightsThread, doing[t].at = "allowed"
                 PROVE  /\ doing[t].binding \in granted[doing[t].context].bindings
                        /\ granted[doing[t].context].scope # NoScope => granted[doing[t].context].scope = doing[t].scope
                        /\ doing[t].binding \in doing[t].seen
                        /\ \A d \in doing[t].kept : {doing[t].binding, d} \notin Rival
      BY DEF AllowedWasValid
    <2> QED BY DEF RightsInv, CandidatesHold, CandidateHolds, MayUse, Underway
  <1> QED BY <1>4, <1>5 DEF RightsHold

-----------------------------------------------------------------------------
LEMMA RightsStart ==
  ASSUME CapabilityInit
  PROVE  RightsInv
  <1>0. \A t \in RightsThread : doing[t] = AtRest
    BY DEF CapabilityInit
  <1>1. granted = <<>> /\ alive = {} /\ known = {} /\ followups = <<>> /\ served = <<>> /\ holds = Binding /\ flips = 0 /\ reserved = 0 /\ issueCount = 0
    BY DEF CapabilityInit
  <1>2. CapabilityTypeOK
    <2>1. doing \in [RightsThread -> Doing]
      BY AtRestIsIdle DEF CapabilityInit
    <2> QED BY <1>1, <2>1 DEF CapabilityTypeOK
  <1>3. Holders = {}
    BY <1>0, AtRestIsIdle DEF Holders
  <1>4. Cardinality({}) = 0
    BY FS_EmptySet
  <1>5. SlotsAreHeld
    BY <1>1, <1>3, <1>4, CapabilityAssumption DEF SlotsAreHeld
  <1>6. ContextsExist /\ EnlistedOnce /\ CandidatesHold
    BY <1>0, AtRestIsIdle DEF ContextsExist, InContext, EnlistedOnce, CandidatesHold, Underway
  <1>7. CountsAreTrue /\ UsesAreBounded
    BY <1>1 DEF CountsAreTrue, UsesAreBounded
  <1> QED BY <1>2, <1>5, <1>6, <1>7 DEF RightsInv

-----------------------------------------------------------------------------
(* A step of one thread that moves on within a request, and touches no     *)
(* books and no store.                                                     *)
LEMMA OneMoves ==
  ASSUME doing \in [RightsThread -> Doing], NEW t \in RightsThread, NEW r \in Doing, doing' = [doing EXCEPT ![t] = r]
  PROVE  /\ doing' \in [RightsThread -> Doing] /\ doing'[t] = r
         /\ \A u \in RightsThread : u # t => doing'[u] = doing[u]
  OBVIOUS

LEMMA MoveKeepsRights ==
  ASSUME RightsInv, NEW t \in RightsThread, NEW r \in Doing, doing' = [doing EXCEPT ![t] = r],
         UNCHANGED <<truth, contexts, known, followups, reserved, issueCount, served>>,
         doing[t].at \notin {"create", "register"}, r.at \notin {"create", "register"},
         r.at \in Underway \cup {"look"} => r.context \in DOMAIN granted,
         r.at \in Underway => r.context \in known \/ (doing[t].at \in Underway /\ doing[t].context = r.context),
         r.at = "count" => r.context \in alive,
         r.at \in Underway => CandidateHolds(t)'
  PROVE  RightsInv'
  <1>1. /\ doing' \in [RightsThread -> Doing] /\ doing'[t] = r
        /\ \A u \in RightsThread : u # t => doing'[u] = doing[u]
    BY OneMoves DEF RightsInv, CapabilityTypeOK
  <1>2. /\ holds' = holds /\ flips' = flips /\ granted' = granted /\ alive' = alive /\ known' = known /\ followups' = followups
        /\ reserved' = reserved /\ issueCount' = issueCount /\ served' = served
    BY DEF truth, contexts
  <1>3. CapabilityTypeOK'
    BY <1>1, <1>2 DEF RightsInv, CapabilityTypeOK
  <1>4. ContextsExist'
    BY <1>1, <1>2 DEF RightsInv, ContextsExist, InContext
  <1>5. EnlistedOnce'
    <2> SUFFICES ASSUME NEW e \in RightsThread, doing'[e].at = "register"
                 PROVE  /\ doing'[e].context \notin known /\ doing'[e].context \notin DOMAIN followups /\ served[doing'[e].context] = 0
                        /\ \A u \in RightsThread : doing'[u].at \in Underway \cup {"register"} /\ doing'[u].context = doing'[e].context => u = e
      BY <1>2 DEF EnlistedOnce
    <2>1. e # t /\ doing'[e] = doing[e]
      BY <1>1
    <2>2. /\ doing[e].context \notin known /\ doing[e].context \notin DOMAIN followups /\ served[doing[e].context] = 0
          /\ \A u \in RightsThread : doing[u].at \in Underway \cup {"register"} /\ doing[u].context = doing[e].context => u = e
      BY <2>1 DEF RightsInv, EnlistedOnce
    <2>3. ASSUME NEW u \in RightsThread, doing'[u].at \in Underway \cup {"register"}, doing'[u].context = doing'[e].context
          PROVE  u = e
      <3>1. CASE u = t
        BY <1>1, <2>1, <2>2, <2>3, <3>1 DEF Underway
      <3>2. CASE u # t
        BY <1>1, <2>1, <2>2, <2>3, <3>2
      <3> QED BY <3>1, <3>2
    <2> QED BY <2>1, <2>2, <2>3
  <1>6. SlotsAreHeld'
    <2>1. Holders' = Holders
      BY <1>1 DEF Holders
    <2>2. \A c : Enlists(c) => Enlists(c)'
      BY <1>1 DEF Enlists
    <2> QED BY <1>2, <2>1, <2>2 DEF RightsInv, SlotsAreHeld
  <1>7. CountsAreTrue'
    BY <1>2 DEF RightsInv, CountsAreTrue
  <1>8. UsesAreBounded'
    <2> SUFFICES ASSUME NEW c \in DOMAIN granted
                 PROVE  IF c \in alive THEN served[c] <= MaxFollowup
                        ELSE served[c] + Cardinality(Counting(c)') <= MaxFollowup + Cardinality(RightsThread)
      BY <1>2 DEF UsesAreBounded
    <2>1. CASE c \in alive
      BY <2>1 DEF RightsInv, UsesAreBounded
    <2>2. CASE c \notin alive
      <3>1. Counting(c)' \in SUBSET Counting(c)
        BY <1>1, <2>2 DEF Counting
      <3>2. IsFiniteSet(Counting(c)) /\ Cardinality(Counting(c)) \in Nat /\ Cardinality(RightsThread) \in Nat
        BY HoldersAreFinite DEF RightsInv
      <3>3. Cardinality(Counting(c)') <= Cardinality(Counting(c)) /\ Cardinality(Counting(c)') \in Nat
        BY <3>1, <3>2, FS_Subset, FS_CardinalityType
      <3>4. served[c] \in Nat /\ MaxFollowup \in Nat
        BY CapabilityAssumption DEF RightsInv, CapabilityTypeOK
      <3>5. served[c] + Cardinality(Counting(c)) <= MaxFollowup + Cardinality(RightsThread)
        BY <2>2 DEF RightsInv, UsesAreBounded
      <3> QED BY <2>2, <3>2, <3>3, <3>4, <3>5
    <2> QED BY <2>1, <2>2
  <1>9. CandidatesHold'
    <2> SUFFICES ASSUME NEW u \in RightsThread, doing'[u].at \in Underway
                 PROVE  CandidateHolds(u)'
      BY DEF CandidatesHold
    <2>1. CASE u = t
      BY <1>1, <2>1
    <2>2. CASE u # t
      <3>1. doing'[u] = doing[u]
        BY <1>1, <2>2
      <3>2. CandidateHolds(u)
        BY <3>1 DEF RightsInv, CandidatesHold
      <3> QED BY <1>2, <3>1, <3>2 DEF CandidateHolds, MayUse
    <2> QED BY <2>1, <2>2
  <1> QED BY <1>3, <1>4, <1>5, <1>6, <1>7, <1>8, <1>9 DEF RightsInv

LEMMA GoesToRest ==
  ASSUME RightsInv, NEW t \in RightsThread, doing' = [doing EXCEPT ![t] = AtRest], doing[t].at \notin {"create", "register"},
         UNCHANGED <<truth, contexts, known, followups, reserved, issueCount, served>>
  PROVE  RightsInv'
  <1>1. AtRest \in Doing /\ AtRest.at = "idle"
    BY AtRestIsIdle
  <1>2. AtRest.at \notin Underway \cup {"look"} /\ AtRest.at \notin {"create", "register"} /\ AtRest.at # "count" /\ AtRest.at \notin Underway
    BY <1>1 DEF Underway
  <1> QED BY <1>1, <1>2, MoveKeepsRights

LEMMA BeginUseKeepsRights ==
  ASSUME RightsInv, NEW t \in RightsThread, NEW c \in DOMAIN granted, NEW s \in CallerScope, BeginUse(t, c, s)
  PROVE  RightsInv'
  <1> DEFINE r == [at |-> "look", context |-> c, scope |-> s]
  <1>1. doing' = [doing EXCEPT ![t] = r] /\ doing[t].at = "idle"
    BY AtRestIsIdle DEF BeginUse
  <1>2. UNCHANGED <<truth, contexts, known, followups, reserved, issueCount, served>>
    BY DEF BeginUse
  <1>3. c \in Nat
    BY DEF RightsInv, CapabilityTypeOK
  <1>4. r \in Looking /\ r.at = "look" /\ r.context = c
    BY <1>3 DEF Looking
  <1>5. r \in Doing
    BY <1>4 DEF Doing
  <1> HIDE DEF r
  <1>6. r.at \notin Underway /\ r.at # "count" /\ r.at \notin {"create", "register"}
    BY <1>4 DEF Underway
  <1> QED BY <1>1, <1>2, <1>4, <1>5, <1>6, MoveKeepsRights

LEMMA LookKeepsRights ==
  ASSUME RightsInv, NEW t \in RightsThread, NEW matches \in SUBSET Binding, Look(t, matches)
  PROVE  RightsInv'
  <1> DEFINE c == doing[t].context
             r == [at |-> "validate", context |-> c, scope |-> doing[t].scope,
                   matches |-> matches, left |-> matches, valid |-> {}, seen |-> matches \cap holds, kept |-> matches \cap holds]
  <1>1. doing[t].at = "look" /\ UNCHANGED <<truth, contexts, known, followups, reserved, issueCount, served>>
    BY DEF Look
  <1>2. doing[t] \in Looking
    BY <1>1, KindOfDoing DEF RightsInv, CapabilityTypeOK
  <1>3. CASE c \notin known \/ matches = {}
    <2>1. doing' = [doing EXCEPT ![t] = AtRest]
      BY <1>3 DEF Look
    <2> QED BY <1>1, <2>1, GoesToRest
  <1>4. CASE c \in known
    <2>0. matches # {} => doing' = [doing EXCEPT ![t] = r]
      BY <1>4 DEF Look
    <2>1. c \in Nat /\ doing[t].scope \in CallerScope
      BY <1>2 DEF Looking
    <2>2. holds \in SUBSET Binding /\ c \in DOMAIN granted
      BY <1>4 DEF RightsInv, CapabilityTypeOK
    <2>3. r \in Validating
      BY <2>1, <2>2 DEF Validating
    <2>4. /\ r.at = "validate" /\ r.context = c /\ r.matches = matches /\ r.left = matches /\ r.valid = {}
          /\ r.seen = matches \cap holds /\ r.kept = matches \cap holds
      OBVIOUS
    <2>5. r \in Doing
      BY <2>3 DEF Doing
    <2>6. matches \subseteq granted[c].bindings /\ granted' = granted /\ holds' = holds
      BY <1>1 DEF Look, truth, contexts
    <2> HIDE DEF r
    <2>7. CASE matches # {}
      <3>1. doing'[t] = r
        BY <2>0, <2>5, <2>7, OneMoves DEF RightsInv, CapabilityTypeOK
      <3>2. CandidateHolds(t)'
        BY <2>4, <2>6, <3>1 DEF CandidateHolds
      <3>3. r.at \notin {"create", "register"} /\ doing[t].at \notin {"create", "register"} /\ r.at # "count"
        BY <1>1, <2>4
      <3> HIDE DEF c
      <3> QED BY <1>1, <1>4, <2>0, <2>2, <2>4, <2>5, <2>7, <3>2, <3>3, MoveKeepsRights
    <2> QED BY <1>3, <2>7
  <1> QED BY <1>3, <1>4

LEMMA ValidateKeepsRights ==
  ASSUME RightsInv, NEW t \in RightsThread, NEW b \in Binding, Validate(t, b)
  PROVE  RightsInv'
  <1>1. doing[t].at = "validate" /\ b \in doing[t].left /\ UNCHANGED <<truth, contexts, known, followups, reserved, issueCount, served>>
    BY DEF Validate
  <1>2. doing[t] \in Validating
    BY <1>1, KindOfDoing DEF RightsInv, CapabilityTypeOK
  <1>3. PICK r : r = [doing[t] EXCEPT !.left = @ \ {b}, !.valid = IF b \in holds THEN @ \cup {b} ELSE @]
    OBVIOUS
  <1>4. doing' = [doing EXCEPT ![t] = r]
    BY <1>2, <1>3 DEF Validate, RightsInv, CapabilityTypeOK
  <1>5. r \in Validating
    BY <1>2, <1>3 DEF Validating
  <1>6. /\ r.at = "validate" /\ r.context = doing[t].context /\ r.matches = doing[t].matches
        /\ r.seen = doing[t].seen /\ r.kept = doing[t].kept
        /\ r.left = doing[t].left \ {b} /\ r.valid = IF b \in holds THEN doing[t].valid \cup {b} ELSE doing[t].valid
    BY <1>1, <1>2, <1>3 DEF Validating
  <1>7. r \in Doing
    BY <1>5 DEF Doing
  <1>8. doing'[t] = r /\ granted' = granted /\ holds' = holds
    BY <1>1, <1>4, <1>7, OneMoves DEF RightsInv, CapabilityTypeOK, truth, contexts
  <1>9. CandidateHolds(t) /\ doing[t].context \in DOMAIN granted
    BY <1>1 DEF RightsInv, CandidatesHold, ContextsExist, InContext, Underway
  <1>10. CandidateHolds(t)'
    BY <1>1, <1>6, <1>8, <1>9 DEF CandidateHolds
  <1>11. doing[t].at \in Underway /\ r.at \notin {"create", "register"} /\ doing[t].at \notin {"create", "register"} /\ r.at # "count"
    BY <1>1, <1>6 DEF Underway
  <1> QED BY <1>1, <1>4, <1>6, <1>7, <1>9, <1>10, <1>11, MoveKeepsRights

LEMMA DecideKeepsRights ==
  ASSUME RightsInv, NEW t \in RightsThread, Decide(t)
  PROVE  RightsInv'
  <1> DEFINE c == doing[t].context
             sound == Unambiguous(doing[t].valid)
  <1>1. doing[t].at = "validate" /\ doing[t].left = {} /\ UNCHANGED <<truth, contexts, known, followups, reserved, issueCount, served>>
    BY DEF Decide
  <1>2. doing[t] \in Validating
    BY <1>1, KindOfDoing DEF RightsInv, CapabilityTypeOK
  <1>3. CASE sound = {} \/ c \notin alive \/ ~MayUse(c, doing[t].scope)
    <2>1. doing' = [doing EXCEPT ![t] = AtRest]
      BY <1>3 DEF Decide
    <2> QED BY <1>1, <2>1, GoesToRest
  <1>4. CASE ~(sound = {} \/ c \notin alive \/ ~MayUse(c, doing[t].scope))
    <2>1. PICK b \in sound : doing' = [doing EXCEPT ![t] =
                    [at |-> "count", context |-> c, scope |-> doing[t].scope, matches |-> doing[t].matches,
                     seen |-> doing[t].seen, kept |-> doing[t].kept, binding |-> b]]
      BY <1>4 DEF Decide
    <2>2. PICK r : r = [at |-> "count", context |-> c, scope |-> doing[t].scope, matches |-> doing[t].matches,
                        seen |-> doing[t].seen, kept |-> doing[t].kept, binding |-> b]
      OBVIOUS
    <2>3. b \in doing[t].valid /\ \A d \in doing[t].valid : {b, d} \notin Rival
      BY DEF Unambiguous
    <2>4. b \in Binding
      BY <1>2, <2>3 DEF Validating
    <2>5. r \in Decided
      BY <1>2, <2>2, <2>4 DEF Validating, Decided
    <2>6. /\ r.at = "count" /\ r.context = c /\ r.scope = doing[t].scope /\ r.matches = doing[t].matches
          /\ r.seen = doing[t].seen /\ r.kept = doing[t].kept /\ r.binding = b
      BY <2>2
    <2>7. r \in Doing
      BY <2>5 DEF Doing
    <2>8. doing' = [doing EXCEPT ![t] = r]
      BY <2>1, <2>2
    <2>9. doing'[t] = r /\ granted' = granted /\ holds' = holds
      BY <1>1, <2>7, <2>8, OneMoves DEF RightsInv, CapabilityTypeOK, truth, contexts
    <2>10. CandidateHolds(t) /\ c \in DOMAIN granted
      BY <1>1 DEF RightsInv, CandidatesHold, ContextsExist, InContext, Underway
    <2>11. MayUse(c, doing[t].scope) /\ c \in alive
      BY <1>4
    <2>12. CandidateHolds(t)'
      BY <1>1, <2>3, <2>6, <2>9, <2>10, <2>11 DEF CandidateHolds, MayUse
    <2>13. doing[t].at \in Underway /\ r.at \notin {"create", "register"} /\ doing[t].at \notin {"create", "register"}
      BY <1>1, <2>6 DEF Underway
    <2> QED BY <1>1, <2>6, <2>7, <2>8, <2>10, <2>11, <2>12, <2>13, MoveKeepsRights
  <1> QED BY <1>3, <1>4

LEMMA RepliesKeepsRights ==
  ASSUME RightsInv, NEW t \in RightsThread, Replies(t)
  PROVE  RightsInv'
  BY GoesToRest DEF Replies

-----------------------------------------------------------------------------
(* The books lose nothing of what is alive.                                *)
BooksPurged ==
  /\ known' \in SUBSET known /\ known \cap alive \in SUBSET known'
  /\ DOMAIN followups' \in SUBSET DOMAIN followups /\ DOMAIN followups \cap alive \in SUBSET DOMAIN followups'
  /\ followups' = [k \in DOMAIN followups' |-> followups[k]]

LEMMA PurgedBooks ==
  ASSUME known' \in {known, Living(known)}, followups' \in {followups, KeptCounts(followups)},
         followups \in [DOMAIN followups -> Nat]
  PROVE  BooksPurged
  <1>1. known' \in SUBSET known /\ known \cap alive \in SUBSET known'
    BY DEF Living
  <1>2. /\ DOMAIN followups' \in SUBSET DOMAIN followups /\ DOMAIN followups \cap alive \in SUBSET DOMAIN followups'
        /\ followups' = [k \in DOMAIN followups' |-> followups[k]]
    <2>1. CASE followups' = followups
      BY <2>1
    <2>2. CASE followups' = KeptCounts(followups)
      BY <2>2 DEF KeptCounts, Living
    <2> QED BY <2>1, <2>2
  <1> QED BY <1>1, <1>2 DEF BooksPurged

(* What the purge leaves of the invariant, whoever does it; the threads    *)
(* may move as long as none enters or leaves a context.                    *)
LEMMA PurgeKeepsBooks ==
  ASSUME RightsInv, BooksPurged, UNCHANGED <<truth, contexts, served>>
  PROVE  /\ known' \in SUBSET (DOMAIN granted) /\ DOMAIN followups' \in SUBSET (DOMAIN granted) /\ followups' \in [DOMAIN followups' -> Nat]
         /\ IsFiniteSet(known') /\ Cardinality(known') \in Nat /\ Cardinality(known') <= Cardinality(known)
         /\ CountsAreTrue'
         /\ \A c \in alive : c \in known => c \in known'
  <1>1. granted' = granted /\ alive' = alive /\ served' = served
    BY DEF contexts
  <1>2. known' \in SUBSET known /\ IsFiniteSet(known)
    BY BooksAreFinite DEF BooksPurged, RightsInv
  <1>3. IsFiniteSet(known') /\ Cardinality(known') \in Nat /\ Cardinality(known') <= Cardinality(known)
    BY <1>2, FS_Subset, FS_CardinalityType
  <1>4. DOMAIN followups' \in SUBSET (DOMAIN granted) /\ followups' \in [DOMAIN followups' -> Nat] /\ known' \in SUBSET (DOMAIN granted)
    BY DEF BooksPurged, RightsInv, CapabilityTypeOK
  <1>5. \A c \in alive : c \in known => c \in known'
    BY DEF BooksPurged
  <1>6. CountsAreTrue'
    <2> SUFFICES ASSUME NEW c \in alive, c \in known'
                 PROVE  c \in DOMAIN followups' /\ followups'[c] = served[c]
      BY <1>1 DEF CountsAreTrue
    <2>1. c \in DOMAIN followups /\ followups[c] = served[c]
      BY <1>2 DEF RightsInv, CountsAreTrue
    <2> QED BY <2>1 DEF BooksPurged
  <1> QED BY <1>3, <1>4, <1>5, <1>6

LEMMA PurgeAloneKeepsRights ==
  ASSUME RightsInv, BooksPurged, UNCHANGED <<truth, contexts, served, reserved, doing>>, issueCount' \in Nat
  PROVE  RightsInv'
  <1>1. /\ granted' = granted /\ alive' = alive /\ served' = served /\ reserved' = reserved /\ doing' = doing
        /\ holds' = holds /\ flips' = flips
    BY DEF contexts, truth
  <1>2. /\ known' \in SUBSET (DOMAIN granted) /\ DOMAIN followups' \in SUBSET (DOMAIN granted) /\ followups' \in [DOMAIN followups' -> Nat]
        /\ IsFiniteSet(known') /\ Cardinality(known') \in Nat /\ Cardinality(known') <= Cardinality(known)
        /\ CountsAreTrue'
        /\ \A c \in alive : c \in known => c \in known'
    BY PurgeKeepsBooks
  <1>3. CapabilityTypeOK'
    BY <1>1, <1>2 DEF RightsInv, CapabilityTypeOK
  <1>4. ContextsExist' /\ CandidatesHold' /\ UsesAreBounded'
    BY <1>1 DEF RightsInv, ContextsExist, InContext, CandidatesHold, CandidateHolds, MayUse, UsesAreBounded, Counting
  <1>5. EnlistedOnce'
    BY <1>1 DEF RightsInv, EnlistedOnce, BooksPurged
  <1>6. SlotsAreHeld'
    <2>1. Holders' = Holders /\ \A c : Enlists(c)' <=> Enlists(c)
      BY <1>1 DEF Holders, Enlists
    <2>2. reserved \in Nat /\ Cardinality(known) \in Nat /\ MaxActive \in Nat
      BY BooksAreFinite, CapabilityAssumption DEF RightsInv, CapabilityTypeOK
    <2> QED BY <1>1, <1>2, <2>1, <2>2 DEF RightsInv, SlotsAreHeld
  <1> QED BY <1>2, <1>3, <1>4, <1>5, <1>6 DEF RightsInv

LEMMA PurgeBooksKeepsRights ==
  ASSUME RightsInv, PurgeBooks
  PROVE  RightsInv'
  <1>1. BooksPurged
    BY PurgedBooks DEF PurgeBooks, RightsInv, CapabilityTypeOK
  <1> QED BY <1>1, PurgeAloneKeepsRights DEF PurgeBooks, RightsInv, CapabilityTypeOK

LEMMA MeetExpiredKeepsRights ==
  ASSUME RightsInv, NEW t \in RightsThread, NEW c \in DOMAIN granted, MeetExpired(t, c)
  PROVE  RightsInv'
  <1>1. BooksPurged
    BY DEF MeetExpired, Forgets, BooksPurged
  <1> QED BY <1>1, PurgeAloneKeepsRights DEF MeetExpired, RightsInv, CapabilityTypeOK

-----------------------------------------------------------------------------
(* The slot of an issue.                                                   *)

LEMMA ReserveKeepsRights ==
  ASSUME RightsInv, NEW t \in RightsThread, NEW s \in CallerScope, NEW bs \in Batch, Reserve(t, s, bs)
  PROVE  RightsInv'
  <1>1. UNCHANGED <<truth, contexts, served>> /\ doing[t].at = "idle" /\ issueCount' = (issueCount + 1) % PurgeEvery
    BY AtRestIsIdle DEF Reserve
  <1>2. issueCount' \in Nat
    BY <1>1, CapabilityAssumption DEF RightsInv, CapabilityTypeOK
  <1>3. known' \in {known, Living(known)} /\ followups' \in {followups, KeptCounts(followups)}
    BY DEF Reserve
  <1>4. BooksPurged
    BY <1>3, PurgedBooks DEF RightsInv, CapabilityTypeOK
  <1>5. CASE UNCHANGED <<reserved, doing>>
    BY <1>1, <1>2, <1>4, <1>5, PurgeAloneKeepsRights
  <1>6. CASE ~ UNCHANGED <<reserved, doing>>
    <2> DEFINE r == [at |-> "create", scope |-> s, bindings |-> bs]
    <2>1. reserved' = reserved + 1 /\ doing' = [doing EXCEPT ![t] = r] /\ Room(known')
      BY <1>6 DEF Reserve
    <2>2. r \in Creating /\ r.at = "create"
      BY CapabilityAssumption DEF Creating
    <2>3. r \in Doing
      BY <2>2 DEF Doing
    <2> HIDE DEF r
    <2>4. /\ doing' \in [RightsThread -> Doing] /\ doing'[t] = r
          /\ \A u \in RightsThread : u # t => doing'[u] = doing[u]
      BY <2>1, <2>3, OneMoves DEF RightsInv, CapabilityTypeOK
    <2>5. granted' = granted /\ alive' = alive /\ served' = served /\ holds' = holds /\ flips' = flips
      BY <1>1 DEF contexts, truth
    <2>6. /\ known' \in SUBSET (DOMAIN granted) /\ DOMAIN followups' \in SUBSET (DOMAIN granted) /\ followups' \in [DOMAIN followups' -> Nat]
          /\ IsFiniteSet(known') /\ Cardinality(known') \in Nat /\ Cardinality(known') <= Cardinality(known)
          /\ CountsAreTrue'
          /\ \A c \in alive : c \in known => c \in known'
      BY <1>1, <1>4, PurgeKeepsBooks
    <2>7. CapabilityTypeOK'
      <3>1. reserved' \in Nat
        BY <2>1 DEF RightsInv, CapabilityTypeOK
      <3> QED BY <1>2, <2>4, <2>5, <2>6, <3>1 DEF RightsInv, CapabilityTypeOK
    <2>8. ContextsExist'
      BY <2>2, <2>4, <2>5 DEF RightsInv, ContextsExist, InContext, Underway
    <2>9. EnlistedOnce'
      <3> SUFFICES ASSUME NEW e \in RightsThread, doing'[e].at = "register"
                   PROVE  /\ doing'[e].context \notin known' /\ doing'[e].context \notin DOMAIN followups' /\ served[doing'[e].context] = 0
                          /\ \A u \in RightsThread : doing'[u].at \in Underway \cup {"register"} /\ doing'[u].context = doing'[e].context => u = e
        BY <2>5 DEF EnlistedOnce
      <3>1. doing'[e] = doing[e]
        BY <2>2, <2>4
      <3>2. /\ doing[e].context \notin known /\ doing[e].context \notin DOMAIN followups /\ served[doing[e].context] = 0
            /\ \A u \in RightsThread : doing[u].at \in Underway \cup {"register"} /\ doing[u].context = doing[e].context => u = e
        BY <3>1 DEF RightsInv, EnlistedOnce
      <3>3. \A u \in RightsThread : doing'[u].at \in Underway \cup {"register"} => doing'[u] = doing[u]
        BY <2>2, <2>4 DEF Underway
      <3> QED BY <1>4, <3>1, <3>2, <3>3 DEF BooksPurged
    <2>10. SlotsAreHeld'
      <3>1. Holders' = Holders \cup {t} /\ t \notin Holders
        BY <1>1, <2>2, <2>4 DEF Holders
      <3>2. Cardinality(Holders') = Cardinality(Holders) + 1
        BY <3>1, HoldersAreFinite, FS_AddElement DEF RightsInv
      <3>3. \A c : Enlists(c) => Enlists(c)'
        BY <1>1, <2>4 DEF Enlists
      <3>4. Cardinality(known') + reserved < MaxActive
        BY <2>1 DEF Room
      <3>5. reserved \in Nat /\ MaxActive \in Nat
        BY CapabilityAssumption DEF RightsInv, CapabilityTypeOK
      <3>6. Cardinality(known') + reserved' <= MaxActive
        BY <2>1, <2>6, <3>4, <3>5
      <3>7. reserved' = Cardinality(Holders')
        BY <2>1, <3>2 DEF RightsInv, SlotsAreHeld
      <3>8. \A c \in alive : c \in known' \/ Enlists(c)'
        BY <2>6, <3>3 DEF RightsInv, SlotsAreHeld
      <3> QED BY <2>5, <3>6, <3>7, <3>8 DEF SlotsAreHeld
    <2>11. UsesAreBounded'
      <3>1. \A c : Counting(c)' = Counting(c)
        BY <1>1, <2>2, <2>4 DEF Counting
      <3> QED BY <2>5, <3>1 DEF RightsInv, UsesAreBounded
    <2>12. CandidatesHold'
      BY <2>2, <2>4, <2>5 DEF RightsInv, CandidatesHold, CandidateHolds, MayUse, Underway
    <2> QED BY <2>6, <2>7, <2>8, <2>9, <2>10, <2>11, <2>12 DEF RightsInv
  <1> QED BY <1>5, <1>6

LEMMA CreateFailsKeepsRights ==
  ASSUME RightsInv, NEW t \in RightsThread, CreateFails(t)
  PROVE  RightsInv'
  <1>1. /\ granted' = granted /\ alive' = alive /\ served' = served /\ holds' = holds /\ flips' = flips
        /\ known' = known /\ followups' = followups /\ issueCount' = issueCount
        /\ doing[t].at = "create" /\ reserved' = reserved - 1 /\ doing' = [doing EXCEPT ![t] = AtRest]
    BY DEF CreateFails, contexts, truth
  <1>2. AtRest \in Doing /\ AtRest.at = "idle"
    BY AtRestIsIdle
  <1>3. /\ doing' \in [RightsThread -> Doing] /\ doing'[t] = AtRest
        /\ \A u \in RightsThread : u # t => doing'[u] = doing[u]
    BY <1>1, <1>2, OneMoves DEF RightsInv, CapabilityTypeOK
  <1>4. Holders' = Holders \ {t} /\ t \in Holders
    BY <1>1, <1>2, <1>3 DEF Holders
  <1>5. Cardinality(Holders') = Cardinality(Holders) - 1 /\ Cardinality(Holders') \in Nat
    <2>1. IsFiniteSet(Holders) /\ Cardinality(Holders) \in Nat
      BY HoldersAreFinite DEF RightsInv
    <2>2. IsFiniteSet(Holders') /\ Cardinality(Holders') = Cardinality(Holders) - 1
      BY <1>4, <2>1, FS_RemoveElement
    <2> QED BY <2>2, FS_CardinalityType
  <1>6. reserved' = Cardinality(Holders') /\ reserved' \in Nat
    BY <1>1, <1>5 DEF RightsInv, SlotsAreHeld
  <1>7. SlotsAreHeld'
    <2>1. \A c : Enlists(c) => Enlists(c)'
      BY <1>1, <1>3 DEF Enlists
    <2>2. Cardinality(known) \in Nat /\ reserved \in Nat /\ MaxActive \in Nat
      BY BooksAreFinite, CapabilityAssumption DEF RightsInv, CapabilityTypeOK
    <2>3. Cardinality(known) + reserved' <= MaxActive
      BY <1>1, <2>2 DEF RightsInv, SlotsAreHeld
    <2> QED BY <1>1, <1>6, <2>1, <2>3 DEF RightsInv, SlotsAreHeld
  <1>8. CapabilityTypeOK'
    BY <1>1, <1>3, <1>6 DEF RightsInv, CapabilityTypeOK
  <1>9. ContextsExist' /\ CandidatesHold' /\ CountsAreTrue'
    BY <1>1, <1>2, <1>3 DEF RightsInv, ContextsExist, InContext, CandidatesHold, CandidateHolds, MayUse, CountsAreTrue, Underway
  <1>10. EnlistedOnce'
    BY <1>1, <1>2, <1>3 DEF RightsInv, EnlistedOnce, Underway
  <1>11. UsesAreBounded'
    <2>1. \A c : Counting(c)' = Counting(c)
      BY <1>1, <1>2, <1>3 DEF Counting
    <2> QED BY <1>1, <2>1 DEF RightsInv, UsesAreBounded
  <1> QED BY <1>7, <1>8, <1>9, <1>10, <1>11 DEF RightsInv

LEMMA EnlistKeepsRights ==
  ASSUME RightsInv, NEW t \in RightsThread, Enlist(t)
  PROVE  RightsInv'
  <1>0. PICK c : c = doing[t].context
    OBVIOUS
  <1>1. /\ granted' = granted /\ alive' = alive /\ served' = served /\ holds' = holds /\ flips' = flips
        /\ known' = known \cup {c} /\ followups' = [k \in DOMAIN followups \cup {c} |-> IF k = c THEN 0 ELSE followups[k]]
        /\ issueCount' = issueCount
        /\ doing[t].at = "register" /\ reserved' = reserved - 1 /\ doing' = [doing EXCEPT ![t] = AtRest]
    BY <1>0 DEF Enlist, contexts, truth
  <1>2. AtRest \in Doing /\ AtRest.at = "idle"
    BY AtRestIsIdle
  <1>3. /\ doing' \in [RightsThread -> Doing] /\ doing'[t] = AtRest
        /\ \A u \in RightsThread : u # t => doing'[u] = doing[u]
    BY <1>1, <1>2, OneMoves DEF RightsInv, CapabilityTypeOK
  <1>4. Holders' = Holders \ {t} /\ t \in Holders
    BY <1>1, <1>2, <1>3 DEF Holders
  <1>5. Cardinality(Holders') = Cardinality(Holders) - 1 /\ Cardinality(Holders') \in Nat
    <2>1. IsFiniteSet(Holders) /\ Cardinality(Holders) \in Nat
      BY HoldersAreFinite DEF RightsInv
    <2>2. IsFiniteSet(Holders') /\ Cardinality(Holders') = Cardinality(Holders) - 1
      BY <1>4, <2>1, FS_RemoveElement
    <2> QED BY <2>2, FS_CardinalityType
  <1>6. reserved' = Cardinality(Holders') /\ reserved' \in Nat
    BY <1>1, <1>5 DEF RightsInv, SlotsAreHeld
  <1>7. /\ c \in DOMAIN granted /\ c \notin known /\ c \notin DOMAIN followups /\ served[c] = 0
        /\ \A u \in RightsThread : doing[u].at \in Underway \cup {"register"} /\ doing[u].context = c => u = t
    BY <1>0, <1>1 DEF RightsInv, EnlistedOnce, ContextsExist, InContext
  <1>8. SlotsAreHeld'
    <2>1. \A d : d # c /\ Enlists(d) => Enlists(d)'
      BY <1>0, <1>3 DEF Enlists
    <2>2. Cardinality(known) \in Nat /\ reserved \in Nat /\ MaxActive \in Nat /\ IsFiniteSet(known)
      BY BooksAreFinite, CapabilityAssumption DEF RightsInv, CapabilityTypeOK
    <2>3. Cardinality(known \cup {c}) = Cardinality(known) + 1
      BY <1>7, <2>2, FS_AddElement
    <2>4. Cardinality(known') + reserved' <= MaxActive
      BY <1>1, <2>2, <2>3 DEF RightsInv, SlotsAreHeld
    <2>5. \A d \in alive : d \in known' \/ Enlists(d)'
      BY <1>1, <2>1 DEF RightsInv, SlotsAreHeld
    <2> QED BY <1>1, <1>6, <2>4, <2>5 DEF SlotsAreHeld
  <1>9. CapabilityTypeOK'
    <2>1. followups' \in [DOMAIN followups' -> Nat] /\ DOMAIN followups' = DOMAIN followups \cup {c}
      BY <1>1 DEF RightsInv, CapabilityTypeOK
    <2> QED BY <1>1, <1>3, <1>6, <1>7, <2>1 DEF RightsInv, CapabilityTypeOK
  <1>10. ContextsExist' /\ CandidatesHold'
    BY <1>1, <1>2, <1>3 DEF RightsInv, ContextsExist, InContext, CandidatesHold, CandidateHolds, MayUse, Underway
  <1>11. CountsAreTrue'
    <2> SUFFICES ASSUME NEW d \in alive, d \in known \cup {c}
                 PROVE  d \in DOMAIN followups' /\ followups'[d] = served[d]
      BY <1>1 DEF CountsAreTrue
    <2>1. CASE d = c
      BY <1>1, <1>7, <2>1
    <2>2. CASE d # c
      <3>1. d \in DOMAIN followups /\ followups[d] = served[d]
        BY <2>2 DEF RightsInv, CountsAreTrue
      <3> QED BY <1>1, <2>2, <3>1
    <2> QED BY <2>1, <2>2
  <1>12. EnlistedOnce'
    <2> SUFFICES ASSUME NEW e \in RightsThread, doing'[e].at = "register"
                 PROVE  /\ doing'[e].context \notin known' /\ doing'[e].context \notin DOMAIN followups' /\ served[doing'[e].context] = 0
                        /\ \A u \in RightsThread : doing'[u].at \in Underway \cup {"register"} /\ doing'[u].context = doing'[e].context => u = e
      BY <1>1 DEF EnlistedOnce
    <2>1. doing'[e] = doing[e] /\ e # t
      BY <1>2, <1>3
    <2>2. /\ doing[e].context \notin known /\ doing[e].context \notin DOMAIN followups /\ served[doing[e].context] = 0
          /\ \A u \in RightsThread : doing[u].at \in Underway \cup {"register"} /\ doing[u].context = doing[e].context => u = e
      BY <2>1 DEF RightsInv, EnlistedOnce
    <2>3. \A u \in RightsThread : doing'[u].at \in Underway \cup {"register"} => doing'[u] = doing[u]
      BY <1>2, <1>3 DEF Underway
    <2>4. doing[e].context # c
      BY <1>7, <2>1
    <2> QED BY <1>1, <2>1, <2>2, <2>3, <2>4
  <1>13. UsesAreBounded'
    <2>1. \A d : Counting(d)' = Counting(d)
      BY <1>1, <1>2, <1>3 DEF Counting
    <2> QED BY <1>1, <2>1 DEF RightsInv, UsesAreBounded
  <1> QED BY <1>8, <1>9, <1>10, <1>11, <1>12, <1>13 DEF RightsInv

LEMMA CreateContextKeepsRights ==
  ASSUME RightsInv, NEW t \in RightsThread, CreateContext(t)
  PROVE  RightsInv'
  <1>1. doing[t].at = "create" /\ doing[t] \in Creating
    BY KindOfDoing DEF CreateContext, RightsInv, CapabilityTypeOK
  <1>2. PICK e \in Issue : e = [scope |-> doing[t].scope, bindings |-> doing[t].bindings]
    BY <1>1 DEF Creating, Issue
  <1>3. PICK n \in Nat : n = Len(granted) + 1
    BY DEF RightsInv, CapabilityTypeOK
  <1>4. granted' = Append(granted, e) /\ granted \in Seq(Issue)
    BY <1>2 DEF CreateContext, RightsInv, CapabilityTypeOK
  <1>5. /\ granted' \in Seq(Issue) /\ Len(granted') = n /\ DOMAIN granted' = DOMAIN granted \cup {n} /\ n \notin DOMAIN granted
        /\ granted'[n] = e /\ \A c \in DOMAIN granted : granted'[c] = granted[c]
    BY <1>3, <1>4
  <1>6. served' = Append(served, 0) /\ served \in Seq(Nat) /\ Len(served) = Len(granted)
    BY DEF CreateContext, RightsInv, CapabilityTypeOK
  <1>7. /\ served' \in Seq(Nat) /\ Len(served') = n /\ served'[n] = 0
        /\ \A c \in DOMAIN granted : served'[c] = served[c]
    BY <1>3, <1>4, <1>6
  <1>8. /\ alive' = alive \cup {n} /\ known' = known /\ followups' = followups /\ reserved' = reserved /\ issueCount' = issueCount
        /\ holds' = holds /\ flips' = flips
    BY <1>5 DEF CreateContext, truth
  <1>9. PICK r : r = [at |-> "register", context |-> n]
    OBVIOUS
  <1>10. r \in Enlisting /\ r.at = "register" /\ r.context = n
    BY <1>9 DEF Enlisting
  <1>11. r \in Doing
    BY <1>10 DEF Doing
  <1>12. doing' = [doing EXCEPT ![t] = r]
    BY <1>5, <1>9 DEF CreateContext
  <1>13. /\ doing' \in [RightsThread -> Doing] /\ doing'[t] = r
         /\ \A u \in RightsThread : u # t => doing'[u] = doing[u]
    BY <1>11, <1>12, OneMoves DEF RightsInv, CapabilityTypeOK
  <1>14. CapabilityTypeOK'
    BY <1>3, <1>5, <1>7, <1>8, <1>13 DEF RightsInv, CapabilityTypeOK
  <1>15. \A u \in RightsThread : u # t /\ doing[u].at \in {"register", "look"} \cup Underway => doing[u].context \in DOMAIN granted
    BY DEF RightsInv, ContextsExist, InContext
  <1>16. ContextsExist'
    BY <1>5, <1>10, <1>13, <1>15 DEF ContextsExist, InContext
  <1>17. EnlistedOnce'
    <2> SUFFICES ASSUME NEW w \in RightsThread, doing'[w].at = "register"
                 PROVE  /\ doing'[w].context \notin known /\ doing'[w].context \notin DOMAIN followups /\ served'[doing'[w].context] = 0
                        /\ \A u \in RightsThread : doing'[u].at \in Underway \cup {"register"} /\ doing'[u].context = doing'[w].context => u = w
      BY <1>8 DEF EnlistedOnce
    <2>1. CASE w = t
      <3>1. n \notin known /\ n \notin DOMAIN followups
        BY <1>5 DEF RightsInv, CapabilityTypeOK
      <3>2. \A u \in RightsThread : doing'[u].at \in Underway \cup {"register"} /\ doing'[u].context = n => u = t
        BY <1>5, <1>13, <1>15
      <3> QED BY <1>7, <1>10, <1>13, <2>1, <3>1, <3>2
    <2>2. CASE w # t
      <3>1. doing'[w] = doing[w]
        BY <1>13, <2>2
      <3>2. /\ doing[w].context \notin known /\ doing[w].context \notin DOMAIN followups /\ served[doing[w].context] = 0
            /\ \A u \in RightsThread : doing[u].at \in Underway \cup {"register"} /\ doing[u].context = doing[w].context => u = w
        BY <3>1 DEF RightsInv, EnlistedOnce
      <3>3. doing[w].context \in DOMAIN granted
        BY <1>15, <2>2, <3>1
      <3>4. \A u \in RightsThread : doing'[u].at \in Underway \cup {"register"} /\ doing'[u].context = doing[w].context => u = w
        BY <1>5, <1>10, <1>13, <3>2, <3>3
      <3> QED BY <1>7, <3>1, <3>2, <3>3, <3>4
    <2> QED BY <2>1, <2>2
  <1>18. SlotsAreHeld'
    <2>1. Holders' = Holders
      BY <1>1, <1>10, <1>13 DEF Holders
    <2>2. \A c : Enlists(c) => Enlists(c)'
      BY <1>1, <1>13 DEF Enlists
    <2>3. Enlists(n)'
      BY <1>10, <1>13 DEF Enlists
    <2> QED BY <1>8, <2>1, <2>2, <2>3 DEF RightsInv, SlotsAreHeld
  <1>19. CountsAreTrue'
    <2>1. n \notin known
      BY <1>5 DEF RightsInv, CapabilityTypeOK
    <2>2. \A c \in alive \cap known : c \in DOMAIN granted
      BY DEF RightsInv, CapabilityTypeOK
    <2> QED BY <1>7, <1>8, <2>1, <2>2 DEF RightsInv, CountsAreTrue
  <1>20. UsesAreBounded'
    <2>1. \A c : Counting(c)' = Counting(c)
      BY <1>1, <1>10, <1>13 DEF Counting
    <2> SUFFICES ASSUME NEW c \in DOMAIN granted'
                 PROVE  IF c \in alive' THEN served'[c] <= MaxFollowup
                        ELSE served'[c] + Cardinality(Counting(c)') <= MaxFollowup + Cardinality(RightsThread)
      BY DEF UsesAreBounded
    <2>2. CASE c = n
      BY <1>7, <1>8, <2>2, CapabilityAssumption
    <2>3. CASE c # n
      <3>1. c \in DOMAIN granted /\ served'[c] = served[c] /\ (c \in alive' <=> c \in alive)
        BY <1>5, <1>7, <1>8, <2>3
      <3>2. IF c \in alive THEN served[c] <= MaxFollowup
            ELSE served[c] + Cardinality(Counting(c)) <= MaxFollowup + Cardinality(RightsThread)
        BY <3>1 DEF RightsInv, UsesAreBounded
      <3>3. Counting(c)' = Counting(c)
        BY <2>1
      <3> QED BY <3>1, <3>2, <3>3
    <2> QED BY <2>2, <2>3
  <1>21. CandidatesHold'
    <2> SUFFICES ASSUME NEW u \in RightsThread, doing'[u].at \in Underway
                 PROVE  CandidateHolds(u)'
      BY DEF CandidatesHold
    <2>1. u # t
      BY <1>10, <1>13 DEF Underway
    <2>2. doing'[u] = doing[u]
      BY <1>13, <2>1
    <2>3. CandidateHolds(u) /\ doing[u].context \in DOMAIN granted
      BY <1>15, <2>1, <2>2 DEF RightsInv, CandidatesHold
    <2>4. granted'[doing[u].context] = granted[doing[u].context]
      BY <1>5, <2>3
    <2> QED BY <1>8, <2>2, <2>3, <2>4 DEF CandidateHolds, MayUse
  <1> QED BY <1>14, <1>16, <1>17, <1>18, <1>19, <1>20, <1>21 DEF RightsInv

-----------------------------------------------------------------------------
(* A use is counted; a context expires; a binding changes.                 *)

LEMMA CountUseKeepsRights ==
  ASSUME RightsInv, NEW t \in RightsThread, CountUse(t)
  PROVE  RightsInv'
  <1>0. PICK c : c = doing[t].context
    OBVIOUS
  <1>1. doing[t].at = "count" /\ UNCHANGED <<truth, contexts, known, reserved, issueCount>>
    BY DEF CountUse
  <1>2. CASE UsesCounted(c) >= MaxFollowup
    <2>1. UNCHANGED <<followups, served>> /\ doing' = [doing EXCEPT ![t] = AtRest]
      BY <1>0, <1>2 DEF CountUse
    <2> QED BY <1>1, <2>1, GoesToRest
  <1>3. CASE ~(UsesCounted(c) >= MaxFollowup)
    <2>1. /\ followups' = [k \in DOMAIN followups \cup {c} |-> IF k = c THEN UsesCounted(c) + 1 ELSE followups[k]]
          /\ served' = [served EXCEPT ![c] = served[c] + 1]
          /\ doing' = [doing EXCEPT ![t].at = "allowed"]
      BY <1>0, <1>3 DEF CountUse
    <2>2. /\ granted' = granted /\ alive' = alive /\ holds' = holds /\ flips' = flips
          /\ known' = known /\ reserved' = reserved /\ issueCount' = issueCount
      BY <1>1 DEF truth, contexts
    <2>3. doing[t] \in Decided
      BY <1>1, KindOfDoing DEF RightsInv, CapabilityTypeOK
    <2>4. PICK r : r = [doing[t] EXCEPT !.at = "allowed"]
      OBVIOUS
    <2>5. r \in Decided
      BY <2>3, <2>4 DEF Decided
    <2>6. /\ r.at = "allowed" /\ r.context = c /\ r.scope = doing[t].scope /\ r.matches = doing[t].matches
          /\ r.seen = doing[t].seen /\ r.kept = doing[t].kept /\ r.binding = doing[t].binding
      BY <1>0, <2>3, <2>4 DEF Decided
    <2>7. r \in Doing
      BY <2>5 DEF Doing
    <2>8. doing' = [doing EXCEPT ![t] = r]
      BY <2>1, <2>4
    <2>9. /\ doing' \in [RightsThread -> Doing] /\ doing'[t] = r
          /\ \A u \in RightsThread : u # t => doing'[u] = doing[u]
      BY <2>7, <2>8, OneMoves DEF RightsInv, CapabilityTypeOK
    <2>10. c \in DOMAIN granted
      BY <1>0, <1>1 DEF RightsInv, ContextsExist, InContext, Underway
    <2>11. UsesCounted(c) \in Nat
      BY DEF UsesCounted, RightsInv, CapabilityTypeOK
    <2>12. /\ served \in Seq(Nat) /\ DOMAIN served = DOMAIN granted /\ served[c] \in Nat
           /\ served' \in Seq(Nat) /\ Len(served') = Len(served) /\ served'[c] = served[c] + 1
           /\ \A d \in DOMAIN granted : d # c => served'[d] = served[d]
      <3>1. served \in Seq(Nat) /\ Len(served) = Len(granted) /\ granted \in Seq(Issue)
        BY DEF RightsInv, CapabilityTypeOK
      <3>2. DOMAIN served = DOMAIN granted /\ c \in DOMAIN served /\ served[c] \in Nat
        BY <2>10, <3>1
      <3> QED BY <2>1, <3>1, <3>2
    <2>13. /\ DOMAIN followups' = DOMAIN followups \cup {c} /\ followups' \in [DOMAIN followups' -> Nat]
           /\ followups'[c] = UsesCounted(c) + 1 /\ \A d \in DOMAIN followups : d # c => followups'[d] = followups[d]
      BY <2>1, <2>11 DEF RightsInv, CapabilityTypeOK
    <2>14. CapabilityTypeOK'
      BY <2>2, <2>9, <2>10, <2>12, <2>13 DEF RightsInv, CapabilityTypeOK
    <2>15. ContextsExist'
      BY <2>2, <2>6, <2>9, <2>10 DEF RightsInv, ContextsExist, InContext
    <2>16. \A e \in RightsThread : doing[e].at = "register" => doing[e].context # c
      BY <1>0, <1>1 DEF RightsInv, EnlistedOnce, Underway
    <2>17. EnlistedOnce'
      <3> SUFFICES ASSUME NEW e \in RightsThread, doing'[e].at = "register"
                   PROVE  /\ doing'[e].context \notin known /\ doing'[e].context \notin DOMAIN followups' /\ served'[doing'[e].context] = 0
                          /\ \A u \in RightsThread : doing'[u].at \in Underway \cup {"register"} /\ doing'[u].context = doing'[e].context => u = e
        BY <2>2 DEF EnlistedOnce
      <3>1. doing'[e] = doing[e] /\ e # t
        BY <2>6, <2>9
      <3>2. /\ doing[e].context \notin known /\ doing[e].context \notin DOMAIN followups /\ served[doing[e].context] = 0
            /\ \A u \in RightsThread : doing[u].at \in Underway \cup {"register"} /\ doing[u].context = doing[e].context => u = e
        BY <3>1 DEF RightsInv, EnlistedOnce
      <3>3. doing[e].context # c /\ doing[e].context \in DOMAIN granted
        BY <2>16, <3>1 DEF RightsInv, ContextsExist, InContext
      <3>4. \A u \in RightsThread : doing'[u].at \in Underway \cup {"register"} /\ doing'[u].context = doing[e].context => u = e
        BY <2>6, <2>9, <3>2, <3>3
      <3> QED BY <2>12, <2>13, <3>1, <3>2, <3>3, <3>4
    <2>18. SlotsAreHeld'
      <3>1. Holders' = Holders
        BY <1>1, <2>6, <2>9 DEF Holders
      <3>2. \A d : Enlists(d) => Enlists(d)'
        BY <1>1, <2>9 DEF Enlists
      <3> QED BY <2>2, <3>1, <3>2 DEF RightsInv, SlotsAreHeld
    <2>19. c \in alive => c \in known /\ c \in DOMAIN followups /\ followups[c] = served[c] /\ UsesCounted(c) = served[c]
      <3>1. ~ Enlists(c)
        BY <2>16 DEF Enlists
      <3> QED BY <3>1 DEF RightsInv, SlotsAreHeld, CountsAreTrue, UsesCounted
    <2>20. CountsAreTrue'
      <3> SUFFICES ASSUME NEW d \in alive, d \in known
                   PROVE  d \in DOMAIN followups' /\ followups'[d] = served'[d]
        BY <2>2 DEF CountsAreTrue
      <3>1. CASE d = c
        BY <2>12, <2>13, <2>19, <3>1
      <3>2. CASE d # c
        <4>1. d \in DOMAIN followups /\ followups[d] = served[d] /\ d \in DOMAIN granted
          BY DEF RightsInv, CountsAreTrue, CapabilityTypeOK
        <4> QED BY <2>12, <2>13, <3>2, <4>1
      <3> QED BY <3>1, <3>2
    <2>21. UsesAreBounded'
      <3> SUFFICES ASSUME NEW d \in DOMAIN granted
                   PROVE  IF d \in alive THEN served'[d] <= MaxFollowup
                          ELSE served'[d] + Cardinality(Counting(d)') <= MaxFollowup + Cardinality(RightsThread)
        BY <2>2 DEF UsesAreBounded
      <3>0. IF d \in alive THEN served[d] <= MaxFollowup
            ELSE served[d] + Cardinality(Counting(d)) <= MaxFollowup + Cardinality(RightsThread)
        BY DEF RightsInv, UsesAreBounded
      <3>1. CASE d # c
        <4>1. Counting(d)' = Counting(d)
          BY <1>0, <1>1, <2>6, <2>9, <3>1 DEF Counting
        <4> QED BY <2>12, <3>0, <3>1, <4>1
      <3>2. CASE d = c /\ d \in alive
        <4>1. ~(served[c] >= MaxFollowup)
          BY <1>3, <2>19, <3>2
        <4> QED BY <2>12, <3>2, <4>1, CapabilityAssumption
      <3>3. CASE d = c /\ d \notin alive
        <4>1. Counting(c)' = Counting(c) \ {t} /\ t \in Counting(c)
          BY <1>0, <1>1, <2>6, <2>9 DEF Counting
        <4>2. IsFiniteSet(Counting(c)) /\ Cardinality(Counting(c)) \in Nat /\ Cardinality(RightsThread) \in Nat
          BY HoldersAreFinite DEF RightsInv
        <4>3. Cardinality(Counting(c)') = Cardinality(Counting(c)) - 1
          BY <4>1, <4>2, FS_RemoveElement
        <4> QED BY <2>12, <3>0, <3>3, <4>2, <4>3, CapabilityAssumption
      <3> QED BY <3>1, <3>2, <3>3
    <2>22. CandidatesHold'
      <3> SUFFICES ASSUME NEW u \in RightsThread, doing'[u].at \in Underway
                   PROVE  CandidateHolds(u)'
        BY DEF CandidatesHold
      <3>1. CASE u = t
        <4>1. CandidateHolds(t)
          BY <1>1 DEF RightsInv, CandidatesHold, Underway
        <4> QED BY <1>0, <1>1, <2>2, <2>6, <2>9, <3>1, <4>1 DEF CandidateHolds, MayUse
      <3>2. CASE u # t
        <4>1. doing'[u] = doing[u]
          BY <2>9, <3>2
        <4>2. CandidateHolds(u)
          BY <4>1 DEF RightsInv, CandidatesHold
        <4> QED BY <2>2, <4>1, <4>2 DEF CandidateHolds, MayUse
      <3> QED BY <3>1, <3>2
    <2> QED BY <2>14, <2>15, <2>17, <2>18, <2>20, <2>21, <2>22 DEF RightsInv
  <1> QED BY <1>2, <1>3

LEMMA ExpireContextKeepsRights ==
  ASSUME RightsInv, NEW c \in DOMAIN granted, ExpireContext(c)
  PROVE  RightsInv'
  <1>1. /\ c \in alive /\ alive' = alive \ {c} /\ granted' = granted /\ holds' = holds /\ flips' = flips
        /\ known' = known /\ followups' = followups /\ reserved' = reserved /\ issueCount' = issueCount
        /\ doing' = doing /\ served' = served
    BY DEF ExpireContext, truth
  <1>2. CapabilityTypeOK'
    BY <1>1 DEF RightsInv, CapabilityTypeOK
  <1>3. ContextsExist' /\ CandidatesHold' /\ EnlistedOnce' /\ CountsAreTrue'
    BY <1>1 DEF RightsInv, ContextsExist, InContext, CandidatesHold, CandidateHolds, MayUse, EnlistedOnce, CountsAreTrue
  <1>4. SlotsAreHeld'
    <2>1. Holders' = Holders /\ \A d : Enlists(d)' <=> Enlists(d)
      BY <1>1 DEF Holders, Enlists
    <2> QED BY <1>1, <2>1 DEF RightsInv, SlotsAreHeld
  <1>5. UsesAreBounded'
    <2> SUFFICES ASSUME NEW d \in DOMAIN granted
                 PROVE  IF d \in alive' THEN served[d] <= MaxFollowup
                        ELSE served[d] + Cardinality(Counting(d)) <= MaxFollowup + Cardinality(RightsThread)
      <3>1. \A d : Counting(d)' = Counting(d)
        BY <1>1 DEF Counting
      <3> QED BY <1>1, <3>1 DEF UsesAreBounded
    <2>1. IF d \in alive THEN served[d] <= MaxFollowup
          ELSE served[d] + Cardinality(Counting(d)) <= MaxFollowup + Cardinality(RightsThread)
      BY DEF RightsInv, UsesAreBounded
    <2>2. Cardinality(Counting(d)) \in Nat /\ Cardinality(Counting(d)) <= Cardinality(RightsThread) /\ Cardinality(RightsThread) \in Nat
      BY HoldersAreFinite DEF RightsInv
    <2>3. served[d] \in Nat /\ MaxFollowup \in Nat
      BY CapabilityAssumption DEF RightsInv, CapabilityTypeOK
    <2> QED BY <1>1, <2>1, <2>2, <2>3
  <1> QED BY <1>2, <1>3, <1>4, <1>5 DEF RightsInv

LEMMA FlipKeepsRights ==
  ASSUME RightsInv, NEW b \in Binding, Flip(b)
  PROVE  RightsInv'
  <1>1. /\ granted' = granted /\ alive' = alive /\ known' = known /\ followups' = followups /\ reserved' = reserved
        /\ issueCount' = issueCount /\ served' = served /\ flips' = flips + 1
        /\ holds' = IF b \in holds THEN holds \ {b} ELSE holds \cup {b}
    BY DEF Flip, contexts
  <1>2. \A t \in RightsThread : doing[t].at \notin Underway => doing'[t] = doing[t]
    BY DEF Flip
  <1>3. ASSUME NEW t \in RightsThread, doing[t].at \in Underway
        PROVE  /\ doing'[t] \in Doing /\ doing'[t].at = doing[t].at /\ doing'[t].context = doing[t].context
               /\ CandidateHolds(t)'
    <2>1. PICK r : r = [doing[t] EXCEPT !.seen = IF b \in doing[t].matches THEN @ \cup ({b} \cap holds') ELSE @, !.kept = @ \ {b}]
      OBVIOUS
    <2>2. doing'[t] = r
      BY <1>3, <2>1 DEF Flip
    <2>3. CandidateHolds(t)
      BY <1>3 DEF RightsInv, CandidatesHold
    <2>4. doing[t] \in Doing
      BY DEF RightsInv, CapabilityTypeOK
    <2>5. CASE doing[t].at = "validate"
      <3>1. doing[t] \in Validating
        BY <2>4, <2>5, KindOfDoing
      <3>2. r \in Validating
        BY <2>1, <3>1 DEF Validating
      <3>3. /\ r.at = doing[t].at /\ r.context = doing[t].context /\ r.scope = doing[t].scope /\ r.matches = doing[t].matches
            /\ r.left = doing[t].left /\ r.valid = doing[t].valid /\ r.kept = doing[t].kept \ {b}
            /\ r.seen = IF b \in doing[t].matches THEN doing[t].seen \cup ({b} \cap holds') ELSE doing[t].seen
        BY <2>1, <3>1 DEF Validating
      <3>4. CandidateHolds(t)'
        BY <1>1, <2>2, <2>3, <2>5, <3>3 DEF CandidateHolds
      <3> QED BY <2>2, <3>2, <3>3, <3>4 DEF Doing
    <2>6. CASE doing[t].at \in {"count", "allowed"}
      <3>1. doing[t] \in Decided
        BY <2>4, <2>6, KindOfDoing
      <3>2. r \in Decided
        BY <2>1, <3>1 DEF Decided
      <3>3. /\ r.at = doing[t].at /\ r.context = doing[t].context /\ r.scope = doing[t].scope /\ r.matches = doing[t].matches
            /\ r.binding = doing[t].binding /\ r.kept = doing[t].kept \ {b}
            /\ r.seen = IF b \in doing[t].matches THEN doing[t].seen \cup ({b} \cap holds') ELSE doing[t].seen
        BY <2>1, <3>1 DEF Decided
      <3>4. CandidateHolds(t)'
        BY <1>1, <2>2, <2>3, <2>6, <3>3 DEF CandidateHolds, MayUse
      <3> QED BY <2>2, <3>2, <3>3, <3>4 DEF Doing
    <2> QED BY <1>3, <2>5, <2>6 DEF Underway
  <1>4. \A t \in RightsThread : doing'[t].at = doing[t].at /\ doing'[t] \in Doing /\ (InContext(t) => doing'[t].context = doing[t].context)
    BY <1>2, <1>3 DEF InContext, RightsInv, CapabilityTypeOK
  <1>5. CapabilityTypeOK'
    <2>1. doing' \in [RightsThread -> Doing]
      <3>1. doing' = [t \in RightsThread |-> doing'[t]]
        BY DEF Flip
      <3> QED BY <1>4, <3>1
    <2> QED BY <1>1, <2>1 DEF RightsInv, CapabilityTypeOK
  <1>6. \A t \in RightsThread : doing[t].at = "register" => doing'[t] = doing[t]
    BY <1>2 DEF Underway
  <1>7. ContextsExist'
    BY <1>1, <1>4 DEF RightsInv, ContextsExist, InContext
  <1>8. EnlistedOnce'
    BY <1>1, <1>4, <1>6 DEF RightsInv, EnlistedOnce, InContext
  <1>9. SlotsAreHeld'
    <2>1. Holders' = Holders /\ \A c : Enlists(c) => Enlists(c)'
      BY <1>4, <1>6 DEF Holders, Enlists
    <2> QED BY <1>1, <2>1 DEF RightsInv, SlotsAreHeld
  <1>10. CountsAreTrue'
    BY <1>1 DEF RightsInv, CountsAreTrue
  <1>11. UsesAreBounded'
    <2>1. \A c : Counting(c)' = Counting(c)
      BY <1>4 DEF Counting, InContext, Underway
    <2> QED BY <1>1, <2>1 DEF RightsInv, UsesAreBounded
  <1>12. CandidatesHold'
    <2> SUFFICES ASSUME NEW u \in RightsThread, doing'[u].at \in Underway
                 PROVE  CandidateHolds(u)'
      BY DEF CandidatesHold
    <2>1. doing[u].at \in Underway
      BY <1>4
    <2>2. CandidateHolds(u)
      BY <2>1 DEF RightsInv, CandidatesHold
    <2> QED BY <1>3, <2>1, <2>2 DEF CandidateHolds
  <1> QED BY <1>5, <1>7, <1>8, <1>9, <1>10, <1>11, <1>12 DEF RightsInv

-----------------------------------------------------------------------------
LEMMA RightsStep ==
  ASSUME RightsInv, [CapabilityNext]_capabilityVars
  PROVE  RightsInv'
  <1>1. ASSUME NEW t \in RightsThread, NEW s \in CallerScope, NEW bs \in Batch, Reserve(t, s, bs) PROVE RightsInv'
    BY <1>1, ReserveKeepsRights
  <1>2. ASSUME NEW t \in RightsThread, CreateContext(t) \/ CreateFails(t) \/ Enlist(t) PROVE RightsInv'
    BY <1>2, CreateContextKeepsRights, CreateFailsKeepsRights, EnlistKeepsRights
  <1>3. ASSUME NEW t \in RightsThread, NEW c \in DOMAIN granted, MeetExpired(t, c) PROVE RightsInv'
    BY <1>3, MeetExpiredKeepsRights
  <1>4. ASSUME NEW t \in RightsThread, NEW c \in DOMAIN granted, NEW s \in CallerScope, BeginUse(t, c, s) PROVE RightsInv'
    BY <1>4, BeginUseKeepsRights
  <1>5. ASSUME NEW t \in RightsThread, NEW matches \in SUBSET Binding, Look(t, matches) PROVE RightsInv'
    BY <1>5, LookKeepsRights
  <1>6. ASSUME NEW t \in RightsThread, NEW b \in Binding, Validate(t, b) PROVE RightsInv'
    BY <1>6, ValidateKeepsRights
  <1>7. ASSUME NEW t \in RightsThread, Decide(t) \/ CountUse(t) \/ Replies(t) PROVE RightsInv'
    BY <1>7, DecideKeepsRights, CountUseKeepsRights, RepliesKeepsRights
  <1>8. CASE PurgeBooks
    BY <1>8, PurgeBooksKeepsRights
  <1>9. ASSUME NEW c \in DOMAIN granted, ExpireContext(c) PROVE RightsInv'
    BY <1>9, ExpireContextKeepsRights
  <1>10. ASSUME NEW b \in Binding, Flip(b) PROVE RightsInv'
    BY <1>10, FlipKeepsRights
  <1>11. CASE UNCHANGED capabilityVars
    <2>1. /\ granted' = granted /\ alive' = alive /\ known' = known /\ followups' = followups /\ reserved' = reserved
          /\ issueCount' = issueCount /\ served' = served /\ flips' = flips /\ holds' = holds /\ doing' = doing
      BY <1>11 DEF capabilityVars
    <2>2. CapabilityTypeOK'
      BY <2>1 DEF RightsInv, CapabilityTypeOK
    <2>3. ContextsExist' /\ EnlistedOnce' /\ CountsAreTrue' /\ CandidatesHold'
      BY <2>1 DEF RightsInv, ContextsExist, InContext, EnlistedOnce, CountsAreTrue, CandidatesHold, CandidateHolds, MayUse
    <2>4. SlotsAreHeld' /\ UsesAreBounded'
      BY <2>1 DEF RightsInv, SlotsAreHeld, Holders, Enlists, UsesAreBounded, Counting
    <2> QED BY <2>2, <2>3, <2>4 DEF RightsInv
  <1> QED BY <1>1, <1>2, <1>3, <1>4, <1>5, <1>6, <1>7, <1>8, <1>9, <1>10, <1>11 DEF CapabilityNext

(* However many threads issue and authorize at once, however many          *)
(* bindings there are and whenever contexts expire: no more contexts live  *)
(* than may, no slot is lost, no live context is used more often than its  *)
(* budget, and what is allowed was issued, was valid and had no rival.     *)
THEOREM RightsAlwaysHold == CapabilitySpec => []RightsHold
  <1>1. CapabilityInit => RightsInv
    BY RightsStart
  <1>2. RightsInv /\ [CapabilityNext]_capabilityVars => RightsInv'
    BY RightsStep
  <1>3. RightsInv => RightsHold
    BY InvGivesRights
  <1> QED BY <1>1, <1>2, <1>3, PTL DEF CapabilitySpec

=============================================================================
