------------------------- MODULE CanvasCredentials -------------------------
(***************************************************************************)
(* The Canvas connection (canvas/credential.py, ui/canvas.py): which account*)
(* is connected is a row of the database, its token is in the keychain of   *)
(* the operating system, and the two cannot commit together.  A row in      *)
(* state PENDING says that the keychain may hold a token.                   *)
(*                                                                          *)
(* The routes run in threads; connect, forget and link_course hold a lock   *)
(* while they change something, reads hold none.  Keychain calls may fail,  *)
(* with or without effect; database calls may fail; the process may die.    *)
(*                                                                          *)
(* Abstractions: an account (profile_id) is an origin and a user; a request *)
(* that Canvas refuses changes nothing and is left out, as are file_hosts   *)
(* and what a course is called.                                             *)
(***************************************************************************)
EXTENDS FiniteSets

CONSTANTS
  Thread, NoThread,
  Account, NoAccount,  \* what profile_id() tells apart
  Origin, OriginOf,    \* the origin of each account
  Token, NoToken,
  OwnerOf,             \* the account Canvas verifies a token to be of
  CanvasCourse, Course

ASSUME CanvasAssumption ==
  /\ NoThread \notin Thread /\ NoAccount \notin Account /\ NoToken \notin Token
  /\ OriginOf \in [Account -> Origin] /\ OwnerOf \in [Token -> Account]

VARIABLES
  row,       \* canvas_profile: its account and token_state
  links,     \* canvas_courses, with the account whose token confirmed the course
  keychain,  \* the token stored for an account
  core,      \* whether the Core is down, in recover(), or serving
  lock,      \* the holder of CanvasCredentials._lock
  act        \* what each thread does and what it has read

vars == <<row, links, keychain, core, lock, act>>

-----------------------------------------------------------------------------
NoRow == [account |-> NoAccount, state |-> "NONE"]
Row == {NoRow} \cup [account : Account, state : {"PENDING", "SET"}]
Link == [canvas : CanvasCourse, course : Course, of : Account]

Locked == {"store", "set", "erase", "drop"}
Reading == {"origin", "row", "get", "send"}
Act == [pc : {"idle", "verified", "link"} \cup Locked \cup Reading,
        kind : {"none", "discover", "link"},
        account : Account \cup {NoAccount}, token : Token \cup {NoToken},
        origin : Origin \cup {"unknown"}]

Idle == [pc |-> "idle", kind |-> "none", account |-> NoAccount, token |-> NoToken, origin |-> "unknown"]

Init ==
  /\ row = NoRow /\ links = {}
  /\ keychain = [p \in Account |-> NoToken]
  /\ core = "down" /\ lock = NoThread
  /\ act = [t \in Thread |-> Idle]

Free(t) == core = "serving" /\ act[t].pc = "idle"
At(t, place) == act[t].pc = place
Goto(t, place) == act' = [act EXCEPT ![t].pc = place]
Done(t) == act' = [act EXCEPT ![t] = Idle]

(* The end of a method that held the lock; recover() lets the Core serve.   *)
Release(t) ==
  /\ lock' = NoThread /\ Done(t)
  /\ core' = IF core = "recovering" THEN "serving" ELSE core

-----------------------------------------------------------------------------
(* connect()                                                                *)

(* Another origin is refused before the token is sent; then Canvas verifies *)
(* the token, and nothing is locked meanwhile.                              *)
ConnectVerify(t, k) ==
  /\ Free(t)
  /\ (row # NoRow => OriginOf[row.account] = OriginOf[OwnerOf[k]])
  /\ act' = [act EXCEPT ![t] = [Idle EXCEPT !.pc = "verified", !.account = OwnerOf[k], !.token = k]]
  /\ UNCHANGED <<row, links, keychain, core, lock>>

(* Faulty forms of a definition X are named X_...; nothing uses them.       *)
ConnectPending_KeepsSet(t) ==
  row' = IF row = NoRow THEN [account |-> act[t].account, state |-> "PENDING"] ELSE row
ConnectPending(t) ==
  /\ (row # NoRow => row.account = act[t].account)
  /\ row' = [account |-> act[t].account, state |-> "PENDING"]

ConnectBegin(t) ==
  /\ At(t, "verified") /\ lock = NoThread
  /\ ConnectPending(t)
  /\ lock' = t /\ Goto(t, "store")
  /\ UNCHANGED <<links, keychain, core>>

ConnectRefused(t) ==
  /\ At(t, "verified") /\ lock = NoThread
  /\ row # NoRow /\ row.account # act[t].account
  /\ Done(t)
  /\ UNCHANGED <<row, links, keychain, core, lock>>

(* _store(): set and read back; the write may be made and not confirmed.    *)
AfterStore_NoErase(t, confirmed) == IF confirmed THEN Goto(t, "set") ELSE Goto(t, "drop")
AfterStore(t, confirmed) == IF confirmed THEN Goto(t, "set") ELSE Goto(t, "erase")

Store(t) ==
  /\ At(t, "store")
  /\ \E written, confirmed \in BOOLEAN :
       /\ confirmed => written
       /\ keychain' = IF written THEN [keychain EXCEPT ![act[t].account] = act[t].token] ELSE keychain
       /\ AfterStore(t, confirmed)
  /\ UNCHANGED <<row, links, core, lock>>

SetRow(t) ==
  /\ At(t, "set")
  /\ row' = [row EXCEPT !.state = "SET"]
  /\ Release(t)
  /\ UNCHANGED <<links, keychain>>

-----------------------------------------------------------------------------
(* forget() and recover()                                                   *)

(* Both commit PENDING (or find it) before they touch the keychain.         *)
Forget(t) ==
  /\ Free(t) /\ lock = NoThread /\ row # NoRow
  /\ row' = [row EXCEPT !.state = "PENDING"]
  /\ lock' = t
  /\ act' = [act EXCEPT ![t] = [Idle EXCEPT !.pc = "erase", !.account = row.account]]
  /\ UNCHANGED <<links, keychain, core>>

(* The Core starts; stdio.py calls recover() before it serves anybody.      *)
Start(t) ==
  /\ core = "down"
  /\ IF row.state = "PENDING"
       THEN /\ core' = "recovering" /\ lock' = t
            /\ act' = [act EXCEPT ![t] = [Idle EXCEPT !.pc = "erase", !.account = row.account]]
       ELSE core' = "serving" /\ UNCHANGED <<lock, act>>
  /\ UNCHANGED <<row, links, keychain>>

(* _erase(): the row stays when it is not certain that the entry is gone.   *)
Erase(t) ==
  /\ At(t, "erase")
  /\ \E erased, certain \in BOOLEAN :
       /\ certain => erased
       /\ keychain' = IF erased THEN [keychain EXCEPT ![act[t].account] = NoToken] ELSE keychain
       /\ IF certain THEN Goto(t, "drop") /\ UNCHANGED <<lock, core>> ELSE Release(t)
  /\ UNCHANGED <<row, links>>

(* _drop(): the course links and the row go in one transaction.             *)
Dropped_KeepsLinks == row' = NoRow /\ links' = links
Dropped == row' = NoRow /\ links' = {}

Drop(t) ==
  /\ At(t, "drop")
  /\ Dropped
  /\ Release(t)
  /\ UNCHANGED keychain

(* A statement on the database fails and the exception leaves the method;   *)
(* in recover() it ends the Core.                                           *)
DatabaseFails(t) ==
  /\ core = "serving"
  /\ At(t, "set") \/ At(t, "drop")
  /\ Release(t)
  /\ UNCHANGED <<row, links, keychain>>

-----------------------------------------------------------------------------
(* The routes that use the token: courses() and link()                      *)

(* link() reads the origin and then the token, courses() the token first.   *)
NextRead(kind, place) ==
  CASE place = "origin" -> IF kind = "link" THEN "row" ELSE "send"
    [] place = "get" -> IF kind = "link" THEN "send" ELSE "origin"

Use(t, kind) ==
  /\ Free(t) /\ row # NoRow
  /\ act' = [act EXCEPT ![t] = [Idle EXCEPT !.kind = kind, !.pc = IF kind = "link" THEN "origin" ELSE "row"]]
  /\ UNCHANGED <<row, links, keychain, core, lock>>

ReadOrigin(t) ==
  /\ At(t, "origin")
  /\ IF row = NoRow THEN Done(t)
     ELSE act' = [act EXCEPT ![t].origin = OriginOf[row.account], ![t].pc = NextRead(act[t].kind, "origin")]
  /\ UNCHANGED <<row, links, keychain, core, lock>>

ReadRow(t) ==
  /\ At(t, "row")
  /\ IF row.state # "SET" THEN Done(t)
     ELSE act' = [act EXCEPT ![t].account = row.account, ![t].pc = "get"]
  /\ UNCHANGED <<row, links, keychain, core, lock>>

GetToken(t) ==
  /\ At(t, "get")
  /\ \/ Done(t)
     \/ /\ keychain[act[t].account] # NoToken
        /\ act' = [act EXCEPT ![t].token = keychain[act[t].account], ![t].pc = NextRead(act[t].kind, "get")]
  /\ UNCHANGED <<row, links, keychain, core, lock>>

(* Canvas is asked; it may refuse.                                          *)
Send(t) ==
  /\ At(t, "send")
  /\ \/ Done(t)
     \/ act[t].kind = "link" /\ Goto(t, "link")
  /\ UNCHANGED <<row, links, keychain, core, lock>>

(* link_course(): one to one, and only while somebody is connected.         *)
MayLink(c, l) == row # NoRow /\ ~\E m \in links : m.course = c /\ m.canvas # l

LinkCourse(t, l, c) ==
  /\ At(t, "link") /\ lock = NoThread
  /\ IF MayLink(c, l)
       THEN links' = {m \in links : m.canvas # l} \cup {[canvas |-> l, course |-> c, of |-> OwnerOf[act[t].token]]}
       ELSE links' = links
  /\ Done(t)
  /\ UNCHANGED <<row, keychain, core, lock>>

UnlinkCourse(l) ==
  /\ core = "serving" /\ lock = NoThread /\ row # NoRow
  /\ links' = {m \in links : m.canvas # l}
  /\ UNCHANGED <<row, keychain, core, lock, act>>

-----------------------------------------------------------------------------
Crash ==
  /\ core # "down"
  /\ core' = "down" /\ lock' = NoThread
  /\ act' = [t \in Thread |-> Idle]
  /\ UNCHANGED <<row, links, keychain>>

Change(t) ==
  \/ \E k \in Token : ConnectVerify(t, k)
  \/ ConnectBegin(t) \/ ConnectRefused(t) \/ Store(t) \/ SetRow(t)
  \/ Forget(t) \/ Start(t) \/ Erase(t) \/ Drop(t) \/ DatabaseFails(t)

Read(t) ==
  \/ \E kind \in {"discover", "link"} : Use(t, kind)
  \/ ReadOrigin(t) \/ ReadRow(t) \/ GetToken(t) \/ Send(t)
  \/ \E l \in CanvasCourse, c \in Course : LinkCourse(t, l, c)

Next ==
  \/ \E t \in Thread : Change(t) \/ Read(t)
  \/ \E l \in CanvasCourse : UnlinkCourse(l)
  \/ Crash

Spec == Init /\ [][Next]_vars

-----------------------------------------------------------------------------
(* What the Canvas connection promises.                                     *)

(* Every variable has its type.                                             *)
TypeOK ==
  /\ row \in Row /\ links \subseteq Link
  /\ keychain \in [Account -> Token \cup {NoToken}]
  /\ core \in {"down", "recovering", "serving"}
  /\ lock \in Thread \cup {NoThread}
  /\ act \in [Thread -> Act]

(* The keychain cannot be enumerated: a token in it is always one a row     *)
(* remembers, at every moment of a connect, a forget or a recovery that a   *)
(* crash, a failed database call or a failed keychain call may end.         *)
EntryIsRemembered ==
  \A p \in Account : keychain[p] # NoToken => row # NoRow /\ row.account = p

(* A row that says SET has its token in the keychain, and Canvas verified   *)
(* that token to be of that account.                                        *)
SetIsStored ==
  row.state = "SET" =>
    keychain[row.account] # NoToken /\ OwnerOf[keychain[row.account]] = row.account

(* The row and the keychain, which no transaction spans, agree.             *)
KeychainFollowsRow == EntryIsRemembered /\ SetIsStored

(* Whoever is connected stays connected with that token until the database  *)
(* has said otherwise: neither a second connect that was verified before    *)
(* the first one committed nor a replacement swaps account or token.        *)
Connection == IF row.state = "SET" THEN <<row.account, keychain[row.account]>> ELSE <<>>
ConnectionIsNotSwapped ==
  [][Connection # <<>> => Connection' \in {Connection, <<>>}]_vars

(* Course links end with the account they belong to, and a link that was    *)
(* asked for before the account was forgotten is not made after.            *)
LinksNeedAccount == links # {} => row # NoRow

(* A course of Canvas and a local course are linked one to one, also when   *)
(* two requests verified their courses at the same time: a link that is     *)
(* refused leaves the old one.                                              *)
LinksAreOneToOne ==
  \A m, n \in links : m.canvas = n.canvas \/ m.course = n.course => m = n

(* Why: whoever holds the lock has a PENDING row, and has the keychain in   *)
(* the state the place it is at says.                                       *)
LockedWork ==
  \A t \in Thread : act[t].pc \in Locked =>
    /\ lock = t /\ row = [account |-> act[t].account, state |-> "PENDING"]
    /\ act[t].pc = "set" => keychain[row.account] = act[t].token
    /\ act[t].pc \in {"store", "set"} => act[t].token \in Token /\ OwnerOf[act[t].token] = row.account
    /\ act[t].pc = "drop" => keychain[row.account] = NoToken

Verified ==
  \A t \in Thread : act[t].pc = "verified" => act[t].token \in Token /\ OwnerOf[act[t].token] = act[t].account

UserOfLock ==
  /\ lock # NoThread => act[lock].pc \in Locked
  /\ core = "down" => \A t \in Thread : act[t] = Idle
  /\ core = "recovering" => \A t \in Thread : act[t].pc \in {"idle", "erase", "drop"}

Readers ==
  \A t \in Thread :
    /\ act[t].pc = "get" => act[t].account \in Account
    /\ act[t].pc \in {"send", "link"} => act[t].token \in Token
    /\ act[t].kind = "discover" /\ act[t].pc = "origin" => act[t].token \in Token

LinksHold == LinksNeedAccount /\ LinksAreOneToOne

IndInv ==
  TypeOK /\ EntryIsRemembered /\ SetIsStored /\ LockedWork /\ Verified /\ UserOfLock /\ LinksNeedAccount /\ LinksAreOneToOne /\ Readers

-----------------------------------------------------------------------------
(* A stored token is sent to the origin of its account only (r3-plan.md     *)
(* lists "no token sent outside the origin" among the contracts).           *)
TokenGoesHome ==
  \A t \in Thread : act[t].pc = "send" => OriginOf[OwnerOf[act[t].token]] = act[t].origin

=============================================================================
