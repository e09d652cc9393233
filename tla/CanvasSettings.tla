--------------------------- MODULE CanvasSettings ---------------------------
(***************************************************************************)
(* The Canvas page of the settings (settings/canvas_service.py): one       *)
(* profile with its token, the courses that were selected, a renewable     *)
(* lease for them, and the switch of the sync.  Every request names the    *)
(* generation of the configuration it was made from, which is a hash of    *)
(* the whole of it; requests overlap, and other pages of the settings, or  *)
(* the user's editor, write the same file, also while an operation of this *)
(* page is open.                                                           *)
(*                                                                         *)
(* What is abstracted.  A save or a forget of a credential, and a write of *)
(* the configuration, happen at once or stop at one of their moments and   *)
(* leave an operation that is open until recovery completes or undoes it,  *)
(* which it does only from a configuration the operation knows; the stores *)
(* of a credential, and the steps between, are in CredentialSaga.  The     *)
(* editor may change anything but the profile, the courses and the lease,  *)
(* which are this page's.  An account stands for the profile of its origin *)
(* and user, and for the role of its credential.  The names and codes of   *)
(* the courses are one title.  What Canvas answers to the owner of a token *)
(* is the state it is in, or a failure; the reads themselves are in        *)
(* CanvasDiscovery.                                                        *)
(***************************************************************************)
EXTENDS Naturals, FiniteSets

CONSTANTS
  Submission, Account, NoAccount, NoSubmission, CanvasToken, NoCanvasToken,
  OwnerOf(_),     \* the account a token is of
  Course,
  LeaseTime,      \* the 30 days of a lease
  MaxClock, MaxEdit, MaxWrite, MaxReview, MaxRevision  \* bounds

(* Every token is somebody's.                                              *)
ASSUME SelectionAssumption ==
  /\ NoAccount \notin Account /\ NoCanvasToken \notin CanvasToken /\ NoSubmission \notin Submission
  /\ \A t \in CanvasToken : OwnerOf(t) \in Account
  /\ {LeaseTime, MaxClock, MaxEdit, MaxWrite, MaxReview, MaxRevision} \subseteq Nat

VARIABLES
  config,    \* the configuration: profile with the revision of its credential, registry,
             \*   lease, sync and all the rest
  slot,      \* the stored token of every account
  offered,   \* Canvas: the courses an account sees,
  title,     \*   and what they are called
  edits,
  clock,
  admission, \* the admission and the role lock of an account's credential
  interrupted, \* the journal: operations that were cut and are still open
  writes,    \* writes of others
  reviewed,  \* the configurations that were shown for review
  renewed,   \* the leases that were given, each with when its account was verified
  asked      \* what each request does
selectionVars == <<config, slot, offered, title, edits, clock, admission, interrupted, writes, reviewed, renewed, asked>>

world == <<offered, title, edits, clock>>
ghosts == <<reviewed, renewed>>

NoRegistry == [courses |-> {}, title |-> 0]
NoLease == [account |-> NoAccount, courses |-> {}, issued |-> 0]
Detached(c) == [c EXCEPT !.account = NoAccount, !.registry = NoRegistry, !.lease = NoLease, !.sync = FALSE]
NothingOpen == {}
NotAsked == [at |-> "idle"]

SelectionInit ==
  /\ config \in {Detached([account |-> NoAccount, registry |-> NoRegistry, lease |-> NoLease, sync |-> FALSE, other |-> 0, revision |-> 0])}
  /\ slot = [a \in Account |-> NoCanvasToken]
  /\ offered \in [Account -> SUBSET Course] /\ title = 0 /\ edits = 0
  /\ clock = 0
  /\ admission = [a \in Account |-> NoSubmission]
  /\ interrupted = NothingOpen /\ writes = 0
  /\ reviewed = {} /\ renewed = {}
  /\ asked = [r \in Submission |-> NotAsked]

-----------------------------------------------------------------------------
(* Canvas, time, and the other writers of the configuration                *)

CanvasChanges(a, courses) ==
  /\ edits < MaxEdit /\ edits' = edits + 1
  /\ \/ courses # offered[a] /\ offered' = [offered EXCEPT ![a] = courses] /\ UNCHANGED title
     \/ title' = 1 - title /\ UNCHANGED offered
  /\ UNCHANGED <<config, slot, clock, admission, interrupted, writes, ghosts, asked>>

ClockTicks ==
  /\ clock < MaxClock /\ clock' = clock + 1
  /\ UNCHANGED <<config, slot, offered, title, edits, admission, interrupted, writes, ghosts, asked>>

(* A change of the configuration, or of a stored token with it, that was   *)
(* recorded: for whom, from what to what, and which token was and will be  *)
(* stored.  Once the change of the file has been read back, it is          *)
(* committed.  A write of the configuration alone is for no account.       *)
Operation(kind, a, before, after, token) ==
  [kind |-> kind, account |-> a, before |-> before, after |-> after, token |-> token,
   was |-> IF a = NoAccount THEN NoCanvasToken ELSE slot[a], committed |-> FALSE]
Writing(before, after) == Operation("write", NoAccount, before, after, NoCanvasToken)
OpenOn(a) == \E op \in interrupted : op.account = a
Stored(op) == IF op.account = NoAccount THEN slot ELSE [slot EXCEPT ![op.account] = op.token]

(* Where an operation may be cut, in the order of its effects: a token is  *)
(* replaced before the configuration is written, and stored or deleted     *)
(* after it.                                                               *)
Moments(op) ==
  LET At(c, tokens, committed) == [config |-> c, slot |-> tokens, committed |-> committed]
  IN {At(config, slot, FALSE), At(op.after, Stored(op), TRUE)} \cup
     IF op.kind = "replace" THEN {At(config, Stored(op), FALSE), At(op.after, Stored(op), FALSE)}
     ELSE {At(op.after, slot, FALSE), At(op.after, slot, TRUE)}

(* An operation takes effect, or is cut; what is recorded is not undone.   *)
Carry(op, others) ==
  \/ config' = op.after /\ slot' = Stored(op) /\ interrupted' = others
  \/ \E m \in Moments(op) :
       /\ op.committed => m.committed
       /\ config' = m.config /\ slot' = m.slot
       /\ interrupted' = others \cup {[op EXCEPT !.committed = m.committed]}

(* Another page, or the editor: the sync is switched, or something else is *)
(* changed, and perhaps changed back, whatever is open.  Only the page     *)
(* that switches the sync off leaves a record that this page looks at.     *)
OtherWrites ==
  /\ writes < MaxWrite /\ writes' = writes + 1
  /\ \/ config' \in {[config EXCEPT !.other = 1 - @], [config EXCEPT !.sync = ~@]} /\ UNCHANGED <<slot, interrupted>>
     \/ config.sync /\ Carry(Writing(config, [config EXCEPT !.sync = FALSE]), interrupted)
  /\ UNCHANGED <<world, admission, ghosts, asked>>

-----------------------------------------------------------------------------
(* A request begins: it was made from the configuration as it is, and no   *)
(* operation on Canvas is open (_load).                                    *)

Puts(r, next) == asked' = [asked EXCEPT ![r] = next]
(* Whatever it is answered, the request ends.                              *)
Leaves(r) == Puts(r, NotAsked)

Begins(r) == asked[r] = NotAsked /\ interrupted = NothingOpen
BeginSave(r) == Begins(r) /\ config.revision < MaxRevision
LoadedBy(op, at) == [op |-> op, at |-> at, from |-> config]
still == <<config, slot, world, admission, interrupted, writes, ghosts>>

BeginConnect(r, token) ==
  /\ BeginSave(r)
  /\ IF config.account = NoAccount
     THEN Puts(r, [op |-> "connect", at |-> "verify", from |-> config, token |-> token])
     ELSE Leaves(r)
  /\ UNCHANGED still

BeginReplace(r, token) ==
  /\ BeginSave(r) /\ config.account # NoAccount
  /\ Puts(r, [op |-> "replace", at |-> "verify", from |-> config, token |-> token])
  /\ UNCHANGED still

BeginForget(r) ==
  /\ BeginSave(r) /\ config.account # NoAccount
  /\ Puts(r, LoadedBy("forget", "save"))
  /\ UNCHANGED still

(* test and discover, which read only, and renew.                          *)
BeginLocked(r, op) ==
  /\ Begins(r) /\ config.account # NoAccount
  /\ op = "renew" => config.registry # NoRegistry
  /\ Puts(r, LoadedBy(op, "lock"))
  /\ UNCHANGED still

BeginReview(r, courses) ==
  /\ Begins(r) /\ config.account # NoAccount /\ Cardinality(reviewed) < MaxReview
  /\ Puts(r, [op |-> "review", at |-> "lock", from |-> config, courses |-> courses])
  /\ UNCHANGED still

(* What is applied is what was reviewed, by its hash, in any configuration.*)
BeginApply(r, candidate) ==
  /\ Begins(r) /\ config.account # NoAccount
  /\ Puts(r, [op |-> "apply", at |-> "lock", from |-> config, courses |-> candidate.registry.courses, hash |-> candidate])
  /\ UNCHANGED still

BeginDisable(r) ==
  /\ asked[r] = NotAsked
  /\ IF ~config.sync THEN Leaves(r)
     ELSE /\ interrupted = NothingOpen
          /\ Puts(r, [op |-> "disable", at |-> IF config.account = NoAccount THEN "write" ELSE "lock", from |-> config,
                    candidate |-> [config EXCEPT !.sync = FALSE]])
  /\ UNCHANGED still

-----------------------------------------------------------------------------
(* connect, replace and forget                                             *)

(* The token is verified before any lock is taken.                         *)
Verify(r) ==
  /\ asked[r].at = "verify"
  /\ LET owner == OwnerOf(asked[r].token)
     IN IF asked[r].op = "replace" /\ owner # asked[r].from.account THEN Leaves(r)
        ELSE Puts(r, [op |-> asked[r].op, at |-> "save", from |-> asked[r].from, token |-> asked[r].token, account |-> owner])
  /\ UNCHANGED still

VerifyFails(r) ==
  /\ asked[r].at \in {"verify", "check", "read"}
  /\ Leaves(r)
  /\ admission' = [a \in Account |-> IF admission[a] = r THEN NoSubmission ELSE admission[a]]
  /\ UNCHANGED <<config, slot, world, interrupted, writes, ghosts>>

Current(r) == config = asked[r].from

(* _patch: a save and a forget give the credential a revision of its own,  *)
(* which no configuration had before.                                      *)
Revised(c) == [c EXCEPT !.revision = @ + 1]

(* Another operation on the same account refuses it; so may the staged     *)
(* token's second verification, which leaves nothing behind.               *)
Save(r) ==
  /\ asked[r].at = "save"
  /\ LET a == IF asked[r].op = "forget" THEN asked[r].from.account ELSE asked[r].account
         op == CASE asked[r].op = "connect" ->
                      Operation("connect", a, config, Revised([Detached(config) EXCEPT !.account = a]), asked[r].token)
                 [] asked[r].op = "replace" -> Operation("replace", a, config, Revised(config), asked[r].token)
                 [] asked[r].op = "forget" -> Operation("forget", a, config, Revised(Detached(config)), NoCanvasToken)
         refused == OpenOn(a) \/ ~Current(r) \/ (asked[r].op = "replace" /\ slot[a] = NoCanvasToken)
     IN /\ admission[a] = NoSubmission
        /\ \/ (refused \/ asked[r].op # "forget") /\ UNCHANGED <<config, slot, interrupted>>
           \/ ~refused /\ Carry(op, interrupted)
  /\ Leaves(r)
  /\ UNCHANGED <<world, admission, writes, ghosts>>

(* Recovery of a credential's operation goes on only from the file as the  *)
(* operation found or made it; from any other the operation stays open,    *)
(* for a review by hand.  As faulty: it goes on from any.                  *)
Fits_Any(op) == TRUE
Fits(op) == config \in {op.before, op.after} /\ (op.committed => config = op.after)

(* abandon, restore: back to what was, as long as the file is as it was.   *)
Undone(op) == [op EXCEPT !.kind = "undo", !.after = op.before, !.token = op.was]

RecoverSave ==
  /\ \E op \in interrupted :
       /\ op.account # NoAccount /\ admission[op.account] = NoSubmission /\ Fits(op)
       /\ \/ Carry(op, interrupted \ {op})
          \/ op.kind \in {"connect", "replace"} /\ config = op.before /\ Carry(Undone(op), interrupted \ {op})
  /\ UNCHANGED <<world, admission, writes, ghosts, asked>>

(* Recovery of a write of the configuration only says how it ended.        *)
RecoverWrite ==
  /\ \E op \in interrupted :
       /\ op.account = NoAccount /\ (op.committed \/ config \in {op.before, op.after})
       /\ interrupted' = interrupted \ {op}
  /\ UNCHANGED <<config, slot, world, admission, writes, ghosts, asked>>

-----------------------------------------------------------------------------
(* _admit_profile: under the locks of the profile's credential, which the  *)
(* configuration must still name.                                          *)

Mine(r) == {a \in Account : admission[a] = r}
Unlocked(r) == [a \in Account |-> IF a \in Mine(r) THEN NoSubmission ELSE admission[a]]

Admit(r) ==
  /\ asked[r].at = "lock"
  /\ LET a == asked[r].from.account
     IN /\ admission[a] = NoSubmission
        /\ IF interrupted = NothingOpen /\ Current(r)
           THEN /\ admission' = [admission EXCEPT ![a] = r]
                /\ asked' = [asked EXCEPT ![r].at = IF asked[r].op = "disable" THEN "write" ELSE "check"]
           ELSE Leaves(r) /\ UNCHANGED admission
  /\ UNCHANGED <<config, slot, world, interrupted, writes, ghosts>>

(* The stored token is read and verified to be the profile's.              *)
CheckToken(r) ==
  /\ asked[r].at = "check"
  /\ LET a == asked[r].from.account
         good == slot[a] # NoCanvasToken /\ OwnerOf(slot[a]) = a
     IN IF ~good THEN Leaves(r) /\ admission' = Unlocked(r) /\ UNCHANGED renewed
        ELSE IF asked[r].op = "renew"
        THEN LET lease == [account |-> a, courses |-> asked[r].from.registry.courses, issued |-> clock]
             IN /\ Puts(r, [op |-> "renew", at |-> "write", from |-> asked[r].from,
                          candidate |-> [asked[r].from EXCEPT !.lease = lease]])
                /\ renewed' = renewed \cup {lease}
                /\ UNCHANGED admission
        ELSE asked' = [asked EXCEPT ![r].at = IF asked[r].op = "test" THEN "reload" ELSE "read"] /\ UNCHANGED <<admission, renewed>>
  /\ UNCHANGED <<config, slot, world, interrupted, writes, reviewed>>

(* _selection_candidate: the chosen courses are read again, and must all   *)
(* be there.                                                               *)
ReadCourses(r) ==
  /\ asked[r].at = "read"
  /\ IF asked[r].op = "discover" THEN asked' = [asked EXCEPT ![r].at = "reload"] /\ UNCHANGED admission
     ELSE IF asked[r].courses \subseteq offered[asked[r].from.account]
     THEN /\ Puts(r, [candidate |-> [asked[r].from EXCEPT !.registry = [courses |-> asked[r].courses, title |-> title]],
                    op |-> asked[r].op, at |-> "reload", from |-> asked[r].from,
                    hash |-> IF asked[r].op = "apply" THEN asked[r].hash ELSE NotAsked])
          /\ UNCHANGED admission
     ELSE Leaves(r) /\ admission' = Unlocked(r)
  /\ UNCHANGED <<config, slot, world, interrupted, writes, ghosts>>

(* The configuration is loaded once more before anything is answered.      *)
(* As faulty: what is applied is of the reviewed courses, not what was     *)
(* reviewed of them.                                                       *)
AsReviewed_Courses(r) == asked[r].candidate.registry.courses = asked[r].hash.registry.courses
AsReviewed(r) == asked[r].candidate = asked[r].hash

Reload(r) ==
  /\ asked[r].at = "reload"
  /\ IF interrupted # NothingOpen \/ ~Current(r)
     THEN Leaves(r) /\ admission' = Unlocked(r) /\ UNCHANGED reviewed
     ELSE IF asked[r].op \in {"test", "discover"}
     THEN Leaves(r) /\ admission' = Unlocked(r) /\ UNCHANGED reviewed
     ELSE IF asked[r].op = "review"
     THEN Leaves(r) /\ admission' = Unlocked(r) /\ reviewed' = reviewed \cup {asked[r].candidate}
     ELSE IF AsReviewed(r)
     THEN asked' = [asked EXCEPT ![r].at = "write"] /\ UNCHANGED <<admission, reviewed>>
     ELSE Leaves(r) /\ admission' = Unlocked(r) /\ UNCHANGED reviewed
  /\ UNCHANGED <<config, slot, world, interrupted, writes, renewed>>

(* _apply: nothing on Canvas may be open; then it is recorded what will be *)
(* written, and the whole file is compared and swapped.                    *)
GuardPending(r) ==
  /\ asked[r].at = "write"
  /\ IF interrupted = NothingOpen
     THEN asked' = [asked EXCEPT ![r].at = "swap"] /\ UNCHANGED admission
     ELSE Leaves(r) /\ admission' = Unlocked(r)
  /\ UNCHANGED <<config, slot, world, interrupted, writes, ghosts>>

WriteSelection(r) ==
  /\ asked[r].at = "swap"
  /\ LET op == Writing(asked[r].from, asked[r].candidate)
     IN IF Current(r) THEN Carry(op, interrupted)
        ELSE interrupted' \in {interrupted, interrupted \cup {op}} /\ UNCHANGED <<config, slot>>
  /\ Leaves(r) /\ admission' = Unlocked(r)
  /\ UNCHANGED <<world, writes, ghosts>>

SelectionNext ==
  \/ \E a \in Account, courses \in SUBSET Course : CanvasChanges(a, courses)
  \/ ClockTicks \/ OtherWrites \/ RecoverSave \/ RecoverWrite
  \/ \E r \in Submission :
       \/ \E token \in CanvasToken : BeginConnect(r, token) \/ BeginReplace(r, token)
       \/ \E op \in {"test", "discover", "renew"} : BeginLocked(r, op)
       \/ \E courses \in SUBSET Course \ {{}} : BeginReview(r, courses)
       \/ \E candidate \in reviewed : BeginApply(r, candidate)
       \/ BeginForget(r) \/ BeginDisable(r)
       \/ Verify(r) \/ VerifyFails(r) \/ Save(r) \/ Admit(r) \/ CheckToken(r) \/ ReadCourses(r) \/ Reload(r)
       \/ GuardPending(r) \/ WriteSelection(r)

SelectionSpec == SelectionInit /\ [][SelectionNext]_selectionVars

-----------------------------------------------------------------------------
(* _lease_state                                                            *)
Active(c) ==
  /\ c.lease # NoLease /\ c.lease.issued <= clock
  /\ c.lease.account = c.account /\ c.lease.courses = c.registry.courses
  /\ clock < c.lease.issued + LeaseTime

(* A lease that counts was given for this account and these courses, after *)
(* the stored token had been verified to be the account's.  A token is     *)
(* stored only for its owner; and whoever is connected has one, and nobody *)
(* else, except on an account on which an operation is open, which keeps   *)
(* Canvas settings from being changed.                                     *)
LeaseIsEarned ==
  /\ Active(config) =>
       [account |-> config.account, courses |-> config.registry.courses, issued |-> config.lease.issued] \in renewed
  /\ \A a \in Account : slot[a] # NoCanvasToken => OwnerOf(slot[a]) = a /\ (config.account = a \/ OpenOn(a))
  /\ config.account # NoAccount => slot[config.account] # NoCanvasToken \/ OpenOn(config.account)

(* The courses change only to what was shown for review, all of the file   *)
(* as it was shown, or with their account; and no write of one setting,    *)
(* and no recovery, takes back another one's.                              *)
TakesNothingBack ==
  /\ config'.registry \notin {config.registry, NoRegistry} =>
       config' \in reviewed /\ config' = [config EXCEPT !.registry = config'.registry]
  /\ config'.lease \notin {config.lease, NoLease} => config' = [config EXCEPT !.lease = config'.lease]
  /\ config'.account # config.account =>
       NoAccount \in {config.account, config'.account} /\ config' = Revised([Detached(config) EXCEPT !.account = config'.account])
  /\ config'.account = config.account /\ config'.sync # config.sync => config' = [config EXCEPT !.sync = config'.sync]
  /\ config'.other # config.other => config' = [config EXCEPT !.other = config'.other]
NothingIsTakenBack == [][TakesNothingBack]_selectionVars

(* The Canvas settings that overlapping requests leave behind.             *)
SelectionsHold == []LeaseIsEarned /\ NothingIsTakenBack
=============================================================================
