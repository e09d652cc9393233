--------------------------- MODULE OAuthProperties ---------------------------
(* What the authorization server promises.                                  *)
EXTENDS OAuthBroker

(* Every variable has its type.                                             *)
ClientsTyped == registered \in 0..MaxClient /\ pending \subseteq 1..registered /\ owners \subseteq 1..registered
LoginsTyped == started \in 0..MaxLogin /\ logins \in [LoginId -> Login]
GrantsTyped == codes \in [LoginId -> Code] /\ issued \in 0..MaxPair /\ pairs \in [PairId -> Pair]
RequestsTyped ==
  /\ request \in [Request -> [at : {"idle", "code", "refresh"}, id : Nat]]
  /\ \A r \in Request :
       /\ request[r].at = "code" => request[r].id \in LoginId
       /\ request[r].at = "refresh" => request[r].id \in 1..issued
TypeOK ==
  server \in Policy \cup {Down} /\ ClientsTyped /\ LoginsTyped /\ GrantsTyped /\ RequestsTyped

Issued == 1..issued

(* A code buys one pair, and a refresh token the next one, whatever two     *)
(* requests that loaded it at the same time do: a family is a chain.        *)
OneHeir ==
  \A t, u \in Issued : pairs[t].parent = pairs[u].parent => t = u

(* A family ends as a whole: an access token never outlives the refresh     *)
(* token it came with, and no exchange that was under way when a family was *)
(* revoked adds a pair to it.                                               *)
RevokedTogether ==
  \A t, u \in Issued : pairs[t].family = pairs[u].family =>
    pairs[t].revoked = pairs[u].revoked /\ pairs[t].revoked = pairs[u].accessRevoked

(* Whatever is still good was granted under the policy in force: a grant of *)
(* an earlier one is not inherited, also when the policy comes back after   *)
(* another one ruled in between.                                            *)
PolicyIsCurrent ==
  Up => /\ \A t \in Issued : ~pairs[t].revoked => pairs[t].policy = server
        /\ \A l \in LoginId : codes[l] # NoCode /\ ~codes[l].consumed => codes[l].policy = server

(* Codes and tokens belong to clients the owner has authorized, and those   *)
(* stay: no registration that was evicted or has expired while its login    *)
(* was at Google gets a code.                                               *)
GrantsNeedOwner ==
  /\ \A l \in LoginId : codes[l] # NoCode => codes[l].client \in owners
  /\ \A t \in Issued : pairs[t].client \in owners

(* What is granted stands under the policy in force and with the owner's    *)
(* consent, over registrations, evictions and restarts.                     *)
GrantsHold == PolicyIsCurrent /\ GrantsNeedOwner

(* The tables of clients are bounded, and a client is in one of them.       *)
ClientsBounded ==
  /\ Cardinality(pending) <= PendingCap /\ Cardinality(owners) <= DurableCap
  /\ pending \cap owners = {}

(* Why: a parent with an heir is consumed and was issued before it, and a   *)
(* login that may issue a code has its client promoted; the pairs of a      *)
(* family were granted under one policy; a login issues one code.           *)
Parents ==
  \A t \in Issued :
    LET by == pairs[t].parent IN
    /\ pairs[t].family \in Issued
    /\ \/ by.pair = 0 /\ by.code \in LoginId /\ codes[by.code].consumed
       \/ by.code = 0 /\ by.pair \in Issued /\ pairs[by.pair].consumed
GrantPolicies ==
  /\ \A l \in LoginId : codes[l] # NoCode => codes[l].policy # Down
  /\ \A t \in Issued : pairs[t].policy # Down
  /\ \A t, u \in Issued : pairs[t].family = pairs[u].family => pairs[t].policy = pairs[u].policy
Promoted == \A l \in LoginId : logins[l].at = "issue" => logins[l].client \in owners
NoCodeYet ==
  \A l \in LoginId : /\ logins[l].at # "none" => l <= started
                     /\ logins[l].at # "none" \/ l > started => codes[l] = NoCode
DownIsIdle ==
  ~Up => /\ \A l \in LoginId : logins[l] = NoLogin
         /\ \A r \in Request : request[r] = Idle
Unissued == \A t \in PairId : t > issued => pairs[t] = NoPair

IndInv ==
  /\ TypeOK /\ Unissued /\ Parents /\ OneHeir /\ RevokedTogether /\ GrantPolicies
  /\ PolicyIsCurrent /\ Promoted /\ NoCodeYet /\ GrantsNeedOwner /\ ClientsBounded /\ DownIsIdle

-----------------------------------------------------------------------------
(* "Concurrent double-use is intentionally conservative: one request may    *)
(* commit a rotation, while the losing reuse revokes the family"            *)
(* (remote-mcp-google-oauth.md).                                            *)
LosingReuseRevokes ==
  [][\A r \in Request :
       LET t == request[r].id IN
       (request[r].at = "refresh" /\ pairs[t].consumed /\ request'[r] = Idle /\ Up') => pairs'[t].revoked]_vars

(* A family is one chain of grants, and ends as a whole.                    *)
FamilyIsAChain == OneHeir /\ RevokedTogether

=============================================================================
