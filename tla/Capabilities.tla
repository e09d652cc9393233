---------------------------- MODULE Capabilities ----------------------------
(***************************************************************************)
(* The bounded issue and use of context capabilities                       *)
(* (retrieval/capabilities.py, CapabilityManager) over the store that lets *)
(* them expire (ephemeral/memory.py).  Threads issue and authorize at the  *)
(* same time; _lock protects the manager's own books only, the store has   *)
(* its own lock, and the validators that ask whether a binding is still    *)
(* allowed run outside both.                                               *)
(*                                                                         *)
(* What is abstracted.  A binding is one value; which bindings contain the *)
(* requested locator is the choice of the request, and the checks of a     *)
(* binding's form before it is issued are left out: what is bound here is  *)
(* well formed.  The validators, role and fingerprint, are the set of the  *)
(* bindings that hold now.                                                 *)
(***************************************************************************)
EXTENDS Naturals, Sequences, FiniteSets

CONSTANTS
  RightsThread, Scope,
  NoScope,         \* a context issued to nobody in particular, or a caller who names no scope
  Batch,           \* the sets of bindings an issue may ask for
  Binding,         \* numbered in the order of _selection_key
  Rival,           \* pairs of bindings that may not both hold: two usages of one relation,
                   \* or one usage with two bases (_reject_ambiguous_bases)
  MaxActive,       \* max_active_contexts
  MaxFollowup,     \* max_followup_chunks
  PurgeEvery,      \* _PURGE_EVERY_N_ISSUES
  MaxGranted, MaxFlip  \* bounds

VARIABLES
  holds,      \* the bindings whose role, usage and fingerprint are valid now
  flips,
  granted,    \* the store: contexts in order of issue, with scope and bindings
  alive,      \* the store: the contexts that have not expired
  known,      \* _bindings: the contexts the manager knows
  followups,  \* _followups: uses counted, for the contexts that have a count
  reserved,   \* _pending_reservations
  issueCount, \* _issue_count, modulo PurgeEvery
  doing,      \* what each thread does; of a request also which candidates held at some
              \* moment of it (seen) and which all along (kept)
  served      \* requests that were authorized, by context
capabilityVars == <<holds, flips, granted, alive, known, followups, reserved, issueCount, doing, served>>

(* Bindings are ordered by number, threads can be counted, limits are      *)
(* numbers, and having no scope is not a scope.                            *)
ASSUME CapabilityAssumption ==
  /\ IsFiniteSet(RightsThread) /\ Binding \subseteq Nat /\ Batch \subseteq SUBSET Binding
  /\ NoScope \notin Scope
  /\ MaxActive \in Nat /\ MaxFollowup \in Nat /\ PurgeEvery \in Nat \ {0}

CallerScope == Scope \cup {NoScope}
AtRest == [at |-> "idle"]
Underway == {"validate", "count", "allowed"}

CapabilityInit ==
  /\ holds = Binding /\ flips = 0
  /\ granted = <<>> /\ alive = {} /\ known = {} /\ followups = <<>>
  /\ reserved = 0 /\ issueCount = 0
  /\ doing = [t \in RightsThread |-> AtRest]
  /\ served = <<>>

truth == <<holds, flips>>
contexts == <<granted, alive>>

-----------------------------------------------------------------------------
(* issue                                                                   *)

(* _purge_expired_locked: what is left of the books.                       *)
Living(cs) == cs \cap alive
KeptCounts(counts) == [c \in Living(DOMAIN counts) |-> counts[c]]

Room_Registered(books) == Cardinality(books) < MaxActive
Room(books) == Cardinality(books) + reserved < MaxActive

(* The slot is claimed where the room is checked.                          *)
Reserve(t, s, bs) ==
  /\ doing[t] = AtRest
  /\ issueCount' = (issueCount + 1) % PurgeEvery
  /\ LET due == issueCount' = 0
         books == IF due THEN Living(known) ELSE known
         purged == due \/ ~Room(books)
         left == IF purged THEN Living(known) ELSE known
     IN /\ known' = left
        /\ followups' = IF purged THEN KeptCounts(followups) ELSE followups
        /\ IF Room(left)
           THEN reserved' = reserved + 1 /\ doing' = [doing EXCEPT ![t] = [at |-> "create", scope |-> s, bindings |-> bs]]
           ELSE UNCHANGED <<reserved, doing>>
  /\ UNCHANGED <<truth, contexts, served>>

CreateContext(t) ==
  /\ doing[t].at = "create" /\ Len(granted) < MaxGranted
  /\ granted' = Append(granted, [scope |-> doing[t].scope, bindings |-> doing[t].bindings])
  /\ alive' = alive \cup {Len(granted')}
  /\ served' = Append(served, 0)
  /\ doing' = [doing EXCEPT ![t] = [at |-> "register", context |-> Len(granted')]]
  /\ UNCHANGED <<truth, known, followups, reserved, issueCount>>

(* The store refuses; the slot is given back.                              *)
CreateFails(t) ==
  /\ doing[t].at = "create"
  /\ reserved' = reserved - 1
  /\ doing' = [doing EXCEPT ![t] = AtRest]
  /\ UNCHANGED <<truth, contexts, known, followups, issueCount, served>>

Enlist(t) ==
  /\ doing[t].at = "register"
  /\ LET c == doing[t].context
     IN /\ known' = known \cup {c}
        /\ followups' = [k \in DOMAIN followups \cup {c} |-> IF k = c THEN 0 ELSE followups[k]]
  /\ reserved' = reserved - 1
  /\ doing' = [doing EXCEPT ![t] = AtRest]
  /\ UNCHANGED <<truth, contexts, issueCount, served>>

-----------------------------------------------------------------------------
(* authorize                                                               *)

Forgets(c) == known' = known \ {c} /\ followups' = [k \in DOMAIN followups \ {c} |-> followups[k]]

(* The context is gone: so are its books.                                  *)
MeetExpired(t, c) ==
  /\ doing[t] = AtRest /\ c \notin alive
  /\ Forgets(c)
  /\ UNCHANGED <<truth, contexts, reserved, issueCount, doing, served>>

BeginUse(t, c, s) ==
  /\ doing[t] = AtRest /\ c \in alive
  /\ doing' = [doing EXCEPT ![t] = [at |-> "look", context |-> c, scope |-> s]]
  /\ UNCHANGED <<truth, contexts, known, followups, reserved, issueCount, served>>

(* Which of the context's bindings contain the locator.                    *)
Look(t, matches) ==
  /\ doing[t].at = "look"
  /\ matches \subseteq granted[doing[t].context].bindings
  /\ doing' = [doing EXCEPT ![t] =
       IF doing[t].context \notin known \/ matches = {} THEN AtRest
       ELSE [at |-> "validate", context |-> doing[t].context, scope |-> doing[t].scope,
             matches |-> matches, left |-> matches, valid |-> {}, seen |-> matches \cap holds, kept |-> matches \cap holds]]
  /\ UNCHANGED <<truth, contexts, known, followups, reserved, issueCount, served>>

(* One candidate after another; a failing one vetoes no other.             *)
Validate(t, b) ==
  /\ doing[t].at = "validate" /\ b \in doing[t].left
  /\ doing' = [doing EXCEPT ![t].left = @ \ {b},
                        ![t].valid = IF b \in holds THEN @ \cup {b} ELSE @]
  /\ UNCHANGED <<truth, contexts, known, followups, reserved, issueCount, served>>

Unambiguous(valid) == {b \in valid : \A d \in valid : {b, d} \notin Rival}

(* The store compares the scopes only if the context was issued to one.    *)
(* As faulty: it never does.                                               *)
MayUse_Any(c, s) == TRUE
MayUse(c, s) == granted[c].scope \in {NoScope, s}

Decide(t) ==
  /\ doing[t].at = "validate" /\ doing[t].left = {}
  /\ LET c == doing[t].context
         sound == Unambiguous(doing[t].valid)
     IN IF sound = {} \/ c \notin alive \/ ~MayUse(c, doing[t].scope)
        THEN doing' = [doing EXCEPT ![t] = AtRest]
        ELSE \E b \in sound :
               /\ \A d \in sound : b <= d
               /\ doing' = [doing EXCEPT ![t] =
                    [at |-> "count", context |-> c, scope |-> doing[t].scope, matches |-> doing[t].matches,
                     seen |-> doing[t].seen, kept |-> doing[t].kept, binding |-> b]]
  /\ UNCHANGED <<truth, contexts, known, followups, reserved, issueCount, served>>

UsesCounted(c) == IF c \in DOMAIN followups THEN followups[c] ELSE 0

(* The budget of follow-ups; a count that was purged meanwhile starts again. *)
CountUse(t) ==
  /\ doing[t].at = "count"
  /\ LET c == doing[t].context
     IN IF UsesCounted(c) >= MaxFollowup THEN UNCHANGED <<followups, served>> /\ doing' = [doing EXCEPT ![t] = AtRest]
        ELSE /\ followups' = [k \in DOMAIN followups \cup {c} |-> IF k = c THEN UsesCounted(c) + 1 ELSE followups[k]]
             /\ served' = [served EXCEPT ![c] = @ + 1]
             /\ doing' = [doing EXCEPT ![t].at = "allowed"]
  /\ UNCHANGED <<truth, contexts, known, reserved, issueCount>>

Replies(t) ==
  /\ doing[t].at = "allowed"
  /\ doing' = [doing EXCEPT ![t] = AtRest]
  /\ UNCHANGED <<truth, contexts, known, followups, reserved, issueCount, served>>

-----------------------------------------------------------------------------
(* purge_expired, from whoever cares to call it.                           *)
PurgeBooks ==
  /\ known' = Living(known) /\ followups' = KeptCounts(followups)
  /\ UNCHANGED <<truth, contexts, reserved, issueCount, doing, served>>

ExpireContext(c) ==
  /\ c \in alive
  /\ alive' = alive \ {c}
  /\ UNCHANGED <<truth, granted, known, followups, reserved, issueCount, doing, served>>

(* The graph or the source of a binding changes, or changes back.          *)
Flip(b) ==
  /\ flips < MaxFlip /\ flips' = flips + 1
  /\ holds' = IF b \in holds THEN holds \ {b} ELSE holds \cup {b}
  /\ doing' = [t \in RightsThread |->
       IF doing[t].at \notin Underway THEN doing[t]
       ELSE [doing[t] EXCEPT !.seen = IF b \in doing[t].matches THEN @ \cup ({b} \cap holds') ELSE @, !.kept = @ \ {b}]]
  /\ UNCHANGED <<contexts, known, followups, reserved, issueCount, served>>

CapabilityNext ==
  \/ \E t \in RightsThread :
       \/ \E s \in CallerScope, bs \in Batch : Reserve(t, s, bs)
       \/ CreateContext(t) \/ CreateFails(t) \/ Enlist(t)
       \/ \E c \in DOMAIN granted : MeetExpired(t, c) \/ \E s \in CallerScope : BeginUse(t, c, s)
       \/ \E matches \in SUBSET Binding : Look(t, matches)
       \/ \E b \in Binding : Validate(t, b)
       \/ Decide(t) \/ CountUse(t) \/ Replies(t)
  \/ PurgeBooks
  \/ \E c \in DOMAIN granted : ExpireContext(c)
  \/ \E b \in Binding : Flip(b)

CapabilitySpec == CapabilityInit /\ [][CapabilityNext]_capabilityVars

-----------------------------------------------------------------------------
(* However many threads issue and authorize at once: no more than          *)
(* MaxActive contexts are alive, no slot is lost to an issue that failed, *)
(* and no live context is used more than MaxFollowup times.  A context     *)
(* that runs out may be used once more by each request that was already    *)
(* under way, because its count is purged with it.                         *)
CapacityHolds ==
  /\ Cardinality(Living(DOMAIN granted)) <= MaxActive
  /\ reserved = Cardinality({t \in RightsThread : doing[t].at \in {"create", "register"}})
  /\ \A c \in DOMAIN granted : served[c] <= MaxFollowup + (IF c \in alive THEN 0 ELSE Cardinality(RightsThread))

(* A request is allowed for a binding that was issued in this context,     *)
(* that held at some moment of the request, and none of whose rivals among *)
(* the candidates held all through it; and a context that was issued to a  *)
(* scope serves no other, while one issued without a scope serves any.     *)
AllowedWasValid ==
  \A t \in RightsThread : doing[t].at = "allowed" =>
    /\ doing[t].binding \in granted[doing[t].context].bindings
    /\ granted[doing[t].context].scope # NoScope => granted[doing[t].context].scope = doing[t].scope
    /\ doing[t].binding \in doing[t].seen
    /\ \A d \in doing[t].kept : {doing[t].binding, d} \notin Rival

(* The limits of the issued rights, and their meaning.                     *)
RightsHold == CapacityHolds /\ AllowedWasValid

=============================================================================
