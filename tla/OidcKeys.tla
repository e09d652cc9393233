------------------------------ MODULE OidcKeys ------------------------------
(***************************************************************************)
(* The signing keys of the OpenID provider (mcp/transports/oidc.py):       *)
(* JwksKeyManager keeps the keys it fetched last, and the verifier of a    *)
(* token asks it for one.  Requests are coroutines of one event loop: what *)
(* one does between two awaits is one step.  The fetch runs in a thread    *)
(* under the manager's lock, and stores the keys before their times.       *)
(*                                                                         *)
(* What is abstracted.  A key is its kid, a provider that publishes it     *)
(* again publishes the same key.  A token is its kid, whether its header   *)
(* (form, algorithm, kid) is admitted and whether its signature and claims *)
(* are the owner's.  Discovery is part of the fetch; its answer is kept    *)
(* for the life of the process, so the provider's address is taken as      *)
(* constant.  time.time() does not go back.                                *)
(***************************************************************************)
EXTENDS Naturals, FiniteSets

CONSTANTS
  Asker, NoAsker,     \* requests with a token
  Kid,
  Ttl,                \* the times a provider lets its answer be kept
  Cooldown,           \* REFRESH_COOLDOWN_SECONDS, below every one of them
  Latency,            \* how long a fetch lasts at most, with what the loop needs to go on
  MaxTime, MaxChange  \* bounds

ASSUME OidcAssumption ==
  /\ NoAsker \notin Asker
  /\ Cooldown \in Nat \ {0} /\ Latency \in Nat
  /\ Ttl \subseteq Nat /\ \E t \in Ttl : \A u \in Ttl : u <= t
  /\ \A t \in Ttl : Cooldown < t
  /\ MaxTime \in Nat /\ MaxChange \in Nat

VARIABLES
  now,
  jwks,        \* the provider: the kids it publishes,
  since,       \*   and when each was last published or withdrawn
  rotations,
  cached,      \* _cached_keys
  expires,     \* _cache_expires_at
  refreshed,   \* _last_refresh
  keysLock,    \* _lock: who holds it
  act          \* what each request does
oidcVars == <<now, jwks, since, rotations, cached, expires, refreshed, keysLock, act>>

provider == <<jwks, since, rotations>>
cache == <<cached, expires, refreshed>>

NotAsking == [at |-> "idle"]

OidcInit ==
  /\ now = 0
  /\ jwks \in (SUBSET Kid) \ {{}} /\ since = [k \in Kid |-> 0] /\ rotations = 0
  /\ cached = {} /\ expires = 0 /\ refreshed = 0
  /\ keysLock = NoAsker
  /\ act = [r \in Asker |-> NotAsking]

-----------------------------------------------------------------------------
(* The provider and time                                                   *)

Rotate(ks) ==
  /\ rotations < MaxChange /\ ks # jwks /\ ks # {}
  /\ rotations' = rotations + 1
  /\ jwks' = ks
  /\ since' = [k \in Kid |-> IF (k \in ks) = (k \in jwks) THEN since[k] ELSE now]
  /\ UNCHANGED <<now, cache, keysLock, act>>

Fetching == {r \in Asker : act[r].at \in {"fetch", "keys", "times", "back"}}

Tick ==
  /\ now < MaxTime
  /\ \A r \in Fetching : now - act[r].began < Latency
  /\ now' = now + 1
  /\ UNCHANGED <<provider, cache, keysLock, act>>

-----------------------------------------------------------------------------
(* get_signing_key and verify_token                                        *)

(* As faulty: a key is good for as long as it is cached.                   *)
Fresh_Cached(k) == k \in cached

Fresh(k) == now < expires /\ k \in cached

Cooling(k) == now - refreshed < Cooldown /\ cached # {}

(* A request ends with its verdict, kept beside what the provider          *)
(* publishes of the key at that moment.                                    *)
Said(token, verdict) ==
  [at |-> "done", verdict |-> verdict, owner |-> token.owner,
   live |-> token.kid \in jwks, age |-> now - since[token.kid]]

(* The token is decoded with the key in the step that gets it.             *)
Checked(token) == Said(token, IF token.owner THEN "accepted" ELSE "claims")

Ask(r, token) ==
  /\ act[r] = NotAsking
  /\ act' = [act EXCEPT ![r] =
       IF ~token.header THEN Said(token, "header")
       ELSE IF Fresh(token.kid) THEN Checked(token)
       ELSE [at |-> "wait", token |-> token]]
  /\ UNCHANGED <<now, provider, cache, keysLock>>

(* Whoever gets the lock looks again, and goes out only if the cache does  *)
(* not answer and has not just been filled.                                *)
Enter(r) ==
  /\ act[r].at = "wait" /\ keysLock = NoAsker
  /\ LET token == act[r].token
     IN IF Fresh(token.kid)
        THEN act' = [act EXCEPT ![r] = Checked(token)] /\ UNCHANGED keysLock
        ELSE IF Cooling(token.kid)
        THEN /\ act' = [act EXCEPT ![r] = IF token.kid \in cached THEN Checked(token) ELSE Said(token, "unknown")]
             /\ UNCHANGED keysLock
        ELSE /\ act' = [act EXCEPT ![r] = [at |-> "fetch", token |-> token, began |-> now]]
             /\ keysLock' = r
  /\ UNCHANGED <<now, provider, cache>>

(* _refresh_keys_sync: the provider answers with its keys, or the fetch    *)
(* fails: no answer, a redirect, no usable key.                            *)
Answer(r, ttl) ==
  /\ act[r].at = "fetch"
  /\ act' = [act EXCEPT ![r] = [at |-> "keys", token |-> act[r].token, began |-> act[r].began,
                                answer |-> jwks, ttl |-> ttl]]
  /\ UNCHANGED <<now, provider, cache, keysLock>>

(* A key that is known and not expired would be served here; Enter has     *)
(* served it already.                                                      *)
FetchFails(r) ==
  /\ act[r].at = "fetch"
  /\ LET token == act[r].token
     IN act' = [act EXCEPT ![r] = IF act[r].began < expires /\ token.kid \in cached
                                  THEN Checked(token) ELSE Said(token, "unable")]
  /\ keysLock' = NoAsker
  /\ UNCHANGED <<now, provider, cache>>

StoreKeys(r) ==
  /\ act[r].at = "keys"
  /\ cached' = act[r].answer
  /\ act' = [act EXCEPT ![r].at = "times"]
  /\ UNCHANGED <<now, provider, expires, refreshed, keysLock>>

StoreTimes(r) ==
  /\ act[r].at = "times"
  /\ expires' = now + act[r].ttl /\ refreshed' = now
  /\ act' = [act EXCEPT ![r].at = "back"]
  /\ UNCHANGED <<now, provider, cached, keysLock>>

Resume(r) ==
  /\ act[r].at = "back"
  /\ LET token == act[r].token
     IN act' = [act EXCEPT ![r] = IF token.kid \in cached THEN Checked(token) ELSE Said(token, "unknown")]
  /\ keysLock' = NoAsker
  /\ UNCHANGED <<now, provider, cache>>

(* The connection asks again.                                              *)
Leave(r) ==
  /\ act[r].at = "done"
  /\ act' = [act EXCEPT ![r] = NotAsking]
  /\ UNCHANGED <<now, provider, cache, keysLock>>

Token == [kid : Kid, header : BOOLEAN, owner : BOOLEAN]

OidcNext ==
  \/ \E ks \in SUBSET Kid : Rotate(ks)
  \/ Tick
  \/ \E r \in Asker :
       \/ \E token \in Token : Ask(r, token)
       \/ \E ttl \in Ttl : Answer(r, ttl)
       \/ Enter(r) \/ FetchFails(r) \/ StoreKeys(r) \/ StoreTimes(r) \/ Resume(r) \/ Leave(r)

OidcSpec == OidcInit /\ [][OidcNext]_oidcVars

-----------------------------------------------------------------------------
Longest == CHOOSE t \in Ttl : \A u \in Ttl : u <= t

(* A token is accepted only if its signature and claims are the owner's    *)
(* and its key is one the provider publishes, or withdrew no longer ago    *)
(* than an answer may be kept; and a key is called unknown only if it is   *)
(* not published, or was published no longer ago than the cooldown.        *)
VerdictsHold ==
  \A r \in Asker : act[r].at = "done" =>
    /\ act[r].verdict = "accepted" => act[r].owner
    /\ act[r].verdict \in {"accepted", "claims"} => act[r].live \/ act[r].age < Longest + Latency
    /\ act[r].verdict = "unknown" => ~act[r].live \/ act[r].age < Cooldown + Latency

(* However many requests miss the cache, one fetch is out at a time, and   *)
(* none while the keys of the last one are younger than the cooldown.      *)
FetchesAreRare ==
  /\ Cardinality(Fetching) <= 1
  /\ \A r \in Fetching : act[r].at \in {"fetch", "keys"} => cached = {} \/ now - refreshed >= Cooldown

(* The keys tokens are verified with, and how they are fetched             *)
(* (get_signing_key, verify_token).                                        *)
KeysAreTrusted == VerdictsHold /\ FetchesAreRare
=============================================================================
