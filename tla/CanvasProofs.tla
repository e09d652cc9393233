---------------------------- MODULE CanvasProofs ----------------------------
(***************************************************************************)
(* For any number of threads, accounts, tokens and courses: the keychain    *)
(* holds no token a row does not remember, and SET tells the truth.  For    *)
(* any number of processes of the LMS scripts: the reservation protects     *)
(* what a token is sent for.  For any assignments, announcements and edits: *)
(* the driver takes nothing away that it was shown.  For any courses, lists *)
(* and pages, and for anything a browser says: what counts as complete is.  *)
(*                                                                          *)
(* The argument: IndInv is inductive.  Only the holder of the lock touches  *)
(* the keychain, it does so under a PENDING row of the same account, and    *)
(* what it has done to the keychain is told by the place it is at           *)
(* (LockedWork).  A crash forgets the place and keeps the PENDING row.      *)
(*                                                                          *)
(* The second half is about the reservation (ReservationInv): a collection  *)
(* works for the run of a keeper, and a keeper enrolls nothing, so as long  *)
(* as the record names that run, manifest and keychain stay as they are.    *)
(*                                                                          *)
(* The third part is about the projection into Notion (ProjectionInv): the  *)
(* driver alone gives a key to a row, it does one thing for each key, and   *)
(* as long as a row or the page is as the readback showed it, what the plan *)
(* was made for is still so (StillDue).                                     *)
(*                                                                          *)
(* The last part is about collecting.  Every entry that stayed in a list    *)
(* was read or is ahead of the reader (CollectorInv); the queue has the     *)
(* lines of a stream that are read and not yet taken, in their order, and   *)
(* a stream's end comes last (AsideInv).                                    *)
(***************************************************************************)
EXTENDS CanvasCredentials, LmsReservation, LmsProjection, LmsAside, FiniteSetTheorems, SequenceTheorems, TLAPS

(* Init establishes the invariant.                                          *)
LEMMA Initial == Init => IndInv
  BY CanvasAssumption DEF Init, IndInv, TypeOK, EntryIsRemembered, SetIsStored, LockedWork, Verified, UserOfLock,
     LinksNeedAccount, LinksAreOneToOne, Readers, NoRow, Row, Idle, Act, Locked, Reading, Link

(* Every step preserves it.                                                 *)
LEMMA Inductive == IndInv /\ [Next]_vars => IndInv'
<1> SUFFICES ASSUME IndInv, [Next]_vars PROVE IndInv'
  OBVIOUS
<1> USE CanvasAssumption DEF IndInv, At, Goto, Done, Free, Release, NoRow, Row, Idle, Act, Locked, Reading
<1>1. ASSUME NEW t \in Thread, NEW k \in Token, ConnectVerify(t, k) PROVE IndInv'
  <2> USE <1>1 DEF ConnectVerify
  <2>1. TypeOK'
    BY DEF TypeOK, LockedWork, Readers, Verified
  <2>2. EntryIsRemembered' /\ SetIsStored'
    BY DEF TypeOK, EntryIsRemembered, SetIsStored, LockedWork, UserOfLock
  <2>3. LockedWork'
    BY DEF TypeOK, EntryIsRemembered, LockedWork, Verified, UserOfLock
  <2>4. Verified' /\ Readers'
    BY DEF TypeOK, Verified, Readers, SetIsStored
  <2>5. UserOfLock'
    BY DEF TypeOK, UserOfLock, LockedWork
  <2>6. LinksNeedAccount' /\ LinksAreOneToOne'
    BY DEF TypeOK, LinksNeedAccount, LinksAreOneToOne, LockedWork
  <2> QED BY <2>1, <2>2, <2>3, <2>4, <2>5, <2>6
<1>2. ASSUME NEW t \in Thread, ConnectBegin(t) PROVE IndInv'
  <2> USE <1>2 DEF ConnectBegin, ConnectPending
  <2>0. act[t].account \in Account
    BY DEF TypeOK, Verified
  <2>1. TypeOK'
    <3>1. row' \in Row
      BY <2>0
    <3> QED BY <3>1 DEF TypeOK
  <2>2. EntryIsRemembered' /\ SetIsStored'
    BY DEF TypeOK, EntryIsRemembered, SetIsStored, LockedWork, UserOfLock
  <2>3. LockedWork'
    BY DEF TypeOK, EntryIsRemembered, LockedWork, Verified, UserOfLock
  <2>4. Verified' /\ Readers'
    BY DEF TypeOK, Verified, Readers, SetIsStored
  <2>5. UserOfLock'
    BY DEF TypeOK, UserOfLock, LockedWork
  <2>6. LinksNeedAccount' /\ LinksAreOneToOne'
    BY DEF TypeOK, LinksNeedAccount, LinksAreOneToOne, LockedWork
  <2> QED BY <2>1, <2>2, <2>3, <2>4, <2>5, <2>6
<1>3. ASSUME NEW t \in Thread, ConnectRefused(t) PROVE IndInv'
  <2> USE <1>3 DEF ConnectRefused
  <2>1. TypeOK'
    BY DEF TypeOK, LockedWork, Readers, Verified
  <2>2. EntryIsRemembered' /\ SetIsStored'
    BY DEF TypeOK, EntryIsRemembered, SetIsStored, LockedWork, UserOfLock
  <2>3. LockedWork'
    BY DEF TypeOK, EntryIsRemembered, LockedWork, Verified, UserOfLock
  <2>4. Verified' /\ Readers'
    BY DEF TypeOK, Verified, Readers, SetIsStored
  <2>5. UserOfLock'
    BY DEF TypeOK, UserOfLock, LockedWork
  <2>6. LinksNeedAccount' /\ LinksAreOneToOne'
    BY DEF TypeOK, LinksNeedAccount, LinksAreOneToOne, LockedWork
  <2> QED BY <2>1, <2>2, <2>3, <2>4, <2>5, <2>6
<1>4. ASSUME NEW t \in Thread, Store(t) PROVE IndInv'
  <2> USE <1>4 DEF Store, AfterStore
  <2>1. TypeOK'
    BY DEF TypeOK, LockedWork, Readers, Verified
  <2>2. EntryIsRemembered' /\ SetIsStored'
    BY DEF TypeOK, EntryIsRemembered, SetIsStored, LockedWork, UserOfLock
  <2>3. LockedWork'
    BY DEF TypeOK, EntryIsRemembered, LockedWork, Verified, UserOfLock
  <2>4. Verified' /\ Readers'
    BY DEF TypeOK, Verified, Readers, SetIsStored
  <2>5. UserOfLock'
    BY DEF TypeOK, UserOfLock, LockedWork
  <2>6. LinksNeedAccount' /\ LinksAreOneToOne'
    BY DEF TypeOK, LinksNeedAccount, LinksAreOneToOne, LockedWork
  <2> QED BY <2>1, <2>2, <2>3, <2>4, <2>5, <2>6
<1>5. ASSUME NEW t \in Thread, SetRow(t) PROVE IndInv'
  <2> USE <1>5 DEF SetRow
  <2>1. TypeOK'
    BY DEF TypeOK, LockedWork, Readers, Verified
  <2>2. EntryIsRemembered' /\ SetIsStored'
    BY DEF TypeOK, EntryIsRemembered, SetIsStored, LockedWork, UserOfLock
  <2>3. LockedWork'
    BY DEF TypeOK, EntryIsRemembered, LockedWork, Verified, UserOfLock
  <2>4. Verified' /\ Readers'
    BY DEF TypeOK, Verified, Readers, SetIsStored
  <2>5. UserOfLock'
    BY DEF TypeOK, UserOfLock, LockedWork
  <2>6. LinksNeedAccount' /\ LinksAreOneToOne'
    BY DEF TypeOK, LinksNeedAccount, LinksAreOneToOne, LockedWork
  <2> QED BY <2>1, <2>2, <2>3, <2>4, <2>5, <2>6
<1>6. ASSUME NEW t \in Thread, Forget(t) PROVE IndInv'
  <2> USE <1>6 DEF Forget
  <2>1. TypeOK'
    BY DEF TypeOK, LockedWork, Readers, Verified
  <2>2. EntryIsRemembered' /\ SetIsStored'
    BY DEF TypeOK, EntryIsRemembered, SetIsStored, LockedWork, UserOfLock
  <2>3. LockedWork'
    BY DEF TypeOK, EntryIsRemembered, LockedWork, Verified, UserOfLock
  <2>4. Verified' /\ Readers'
    BY DEF TypeOK, Verified, Readers, SetIsStored
  <2>5. UserOfLock'
    BY DEF TypeOK, UserOfLock, LockedWork
  <2>6. LinksNeedAccount' /\ LinksAreOneToOne'
    BY DEF TypeOK, LinksNeedAccount, LinksAreOneToOne, LockedWork
  <2> QED BY <2>1, <2>2, <2>3, <2>4, <2>5, <2>6
<1>7. ASSUME NEW t \in Thread, Start(t) PROVE IndInv'
  <2>0. /\ core = "down" /\ (\A u \in Thread : act[u] = Idle) /\ lock = NoThread
        /\ UNCHANGED <<row, links, keychain>>
    BY <1>7 DEF Start, TypeOK, UserOfLock
  <2>1. CASE row.state = "PENDING"
    <3>1. /\ row.account \in Account /\ row = [account |-> row.account, state |-> "PENDING"]
          /\ core' = "recovering" /\ lock' = t
      BY <1>7, <2>0, <2>1 DEF Start, TypeOK
    <3>2. /\ act' \in [Thread -> Act] /\ act'[t].pc = "erase" /\ act'[t].account = row.account /\ act'[t].kind = "none"
          /\ \A u \in Thread : u # t => act'[u] = Idle
      <4> DEFINE a == [Idle EXCEPT !.pc = "erase", !.account = row.account]
      <4>1. a \in Act /\ a.pc = "erase" /\ a.account = row.account /\ a.kind = "none"
        BY <3>1
      <4>2. act' = [act EXCEPT ![t] = a]
        BY <1>7, <2>1 DEF Start
      <4> HIDE DEF a
      <4> QED BY <2>0, <4>1, <4>2 DEF TypeOK
    <3>3. TypeOK'
      BY <2>0, <3>1, <3>2 DEF TypeOK
    <3>4. LockedWork' /\ UserOfLock' /\ Verified' /\ Readers'
      BY <2>0, <3>1, <3>2 DEF LockedWork, UserOfLock, Verified, Readers
    <3> QED BY <2>0, <3>3, <3>4 DEF EntryIsRemembered, SetIsStored, LinksNeedAccount, LinksAreOneToOne
  <2>2. CASE row.state # "PENDING"
    <3>1. core' = "serving" /\ UNCHANGED <<lock, act>>
      BY <1>7, <2>2 DEF Start
    <3> QED
      BY <2>0, <3>1 DEF TypeOK, EntryIsRemembered, SetIsStored, LockedWork, Verified, UserOfLock, LinksNeedAccount,
         LinksAreOneToOne, Readers
  <2> QED BY <2>1, <2>2
<1>8. ASSUME NEW t \in Thread, Erase(t) PROVE IndInv'
  <2> USE <1>8 DEF Erase
  <2>1. TypeOK'
    <3>1. keychain' \in [Account -> Token \cup {NoToken}] /\ UNCHANGED <<row, links>>
      BY DEF TypeOK
    <3>2. CASE Goto(t, "drop") /\ UNCHANGED <<lock, core>>
      <4>1. [act[t] EXCEPT !.pc = "drop"] \in Act
        BY DEF TypeOK
      <4>2. act' \in [Thread -> Act]
        BY <3>2, <4>1 DEF TypeOK
      <4> QED BY <3>1, <3>2, <4>2 DEF TypeOK
    <3>3. CASE Release(t)
      <4>1. lock' = NoThread /\ core' \in {core, "serving"} /\ act' \in [Thread -> Act]
        BY <3>3 DEF TypeOK
      <4> QED BY <3>1, <4>1 DEF TypeOK
    <3> QED BY <3>2, <3>3
  <2>2. EntryIsRemembered' /\ SetIsStored'
    BY DEF TypeOK, EntryIsRemembered, SetIsStored, LockedWork, UserOfLock
  <2>3. LockedWork'
    BY DEF TypeOK, EntryIsRemembered, LockedWork, Verified, UserOfLock
  <2>4. Verified' /\ Readers'
    BY DEF TypeOK, Verified, Readers, SetIsStored
  <2>5. UserOfLock'
    BY DEF TypeOK, UserOfLock, LockedWork
  <2>6. LinksNeedAccount' /\ LinksAreOneToOne'
    BY DEF TypeOK, LinksNeedAccount, LinksAreOneToOne, LockedWork
  <2> QED BY <2>1, <2>2, <2>3, <2>4, <2>5, <2>6
<1>9. ASSUME NEW t \in Thread, Drop(t) PROVE IndInv'
  <2> USE <1>9 DEF Drop, Dropped
  <2>1. TypeOK'
    BY DEF TypeOK, LockedWork, Readers, Verified
  <2>2. EntryIsRemembered' /\ SetIsStored'
    BY DEF TypeOK, EntryIsRemembered, SetIsStored, LockedWork, UserOfLock
  <2>3. LockedWork'
    BY DEF TypeOK, EntryIsRemembered, LockedWork, Verified, UserOfLock
  <2>4. Verified' /\ Readers'
    BY DEF TypeOK, Verified, Readers, SetIsStored
  <2>5. UserOfLock'
    BY DEF TypeOK, UserOfLock, LockedWork
  <2>6. LinksNeedAccount' /\ LinksAreOneToOne'
    BY DEF TypeOK, LinksNeedAccount, LinksAreOneToOne, LockedWork
  <2> QED BY <2>1, <2>2, <2>3, <2>4, <2>5, <2>6
<1>10. ASSUME NEW t \in Thread, DatabaseFails(t) PROVE IndInv'
  <2> USE <1>10 DEF DatabaseFails
  <2>1. TypeOK'
    BY DEF TypeOK, LockedWork, Readers, Verified
  <2>2. EntryIsRemembered' /\ SetIsStored'
    BY DEF TypeOK, EntryIsRemembered, SetIsStored, LockedWork, UserOfLock
  <2>3. LockedWork'
    BY DEF TypeOK, EntryIsRemembered, LockedWork, Verified, UserOfLock
  <2>4. Verified' /\ Readers'
    BY DEF TypeOK, Verified, Readers, SetIsStored
  <2>5. UserOfLock'
    BY DEF TypeOK, UserOfLock, LockedWork
  <2>6. LinksNeedAccount' /\ LinksAreOneToOne'
    BY DEF TypeOK, LinksNeedAccount, LinksAreOneToOne, LockedWork
  <2> QED BY <2>1, <2>2, <2>3, <2>4, <2>5, <2>6
<1>11. ASSUME NEW t \in Thread, NEW kind \in {"discover", "link"}, Use(t, kind) PROVE IndInv'
  <2> USE <1>11 DEF Use
  <2>1. TypeOK'
    BY DEF TypeOK, LockedWork, Readers, Verified
  <2>2. EntryIsRemembered' /\ SetIsStored'
    BY DEF TypeOK, EntryIsRemembered, SetIsStored, LockedWork, UserOfLock
  <2>3. LockedWork'
    BY DEF TypeOK, EntryIsRemembered, LockedWork, Verified, UserOfLock
  <2>4. Verified' /\ Readers'
    BY DEF TypeOK, Verified, Readers, SetIsStored
  <2>5. UserOfLock'
    BY DEF TypeOK, UserOfLock, LockedWork
  <2>6. LinksNeedAccount' /\ LinksAreOneToOne'
    BY DEF TypeOK, LinksNeedAccount, LinksAreOneToOne, LockedWork
  <2> QED BY <2>1, <2>2, <2>3, <2>4, <2>5, <2>6
<1>12. ASSUME NEW t \in Thread, ReadOrigin(t) PROVE IndInv'
  <2> USE <1>12 DEF ReadOrigin, NextRead
  <2>1. TypeOK'
    BY DEF TypeOK, LockedWork, Readers, Verified
  <2>2. EntryIsRemembered' /\ SetIsStored'
    BY DEF TypeOK, EntryIsRemembered, SetIsStored, LockedWork, UserOfLock
  <2>3. LockedWork'
    BY DEF TypeOK, EntryIsRemembered, LockedWork, Verified, UserOfLock
  <2>4. Verified' /\ Readers'
    BY DEF TypeOK, Verified, Readers, SetIsStored
  <2>5. UserOfLock'
    BY DEF TypeOK, UserOfLock, LockedWork
  <2>6. LinksNeedAccount' /\ LinksAreOneToOne'
    BY DEF TypeOK, LinksNeedAccount, LinksAreOneToOne, LockedWork
  <2> QED BY <2>1, <2>2, <2>3, <2>4, <2>5, <2>6
<1>13. ASSUME NEW t \in Thread, ReadRow(t) PROVE IndInv'
  <2> USE <1>13 DEF ReadRow
  <2>1. TypeOK'
    BY DEF TypeOK, LockedWork, Readers, Verified
  <2>2. EntryIsRemembered' /\ SetIsStored'
    BY DEF TypeOK, EntryIsRemembered, SetIsStored, LockedWork, UserOfLock
  <2>3. LockedWork'
    BY DEF TypeOK, EntryIsRemembered, LockedWork, Verified, UserOfLock
  <2>4. Verified' /\ Readers'
    BY DEF TypeOK, Verified, Readers, SetIsStored
  <2>5. UserOfLock'
    BY DEF TypeOK, UserOfLock, LockedWork
  <2>6. LinksNeedAccount' /\ LinksAreOneToOne'
    BY DEF TypeOK, LinksNeedAccount, LinksAreOneToOne, LockedWork
  <2> QED BY <2>1, <2>2, <2>3, <2>4, <2>5, <2>6
<1>14. ASSUME NEW t \in Thread, GetToken(t) PROVE IndInv'
  <2> USE <1>14 DEF GetToken, NextRead
  <2>1. TypeOK'
    BY DEF TypeOK, LockedWork, Readers, Verified
  <2>2. EntryIsRemembered' /\ SetIsStored'
    BY DEF TypeOK, EntryIsRemembered, SetIsStored, LockedWork, UserOfLock
  <2>3. LockedWork'
    BY DEF TypeOK, EntryIsRemembered, LockedWork, Verified, UserOfLock
  <2>4. Verified' /\ Readers'
    BY DEF TypeOK, Verified, Readers, SetIsStored
  <2>5. UserOfLock'
    BY DEF TypeOK, UserOfLock, LockedWork
  <2>6. LinksNeedAccount' /\ LinksAreOneToOne'
    BY DEF TypeOK, LinksNeedAccount, LinksAreOneToOne, LockedWork
  <2> QED BY <2>1, <2>2, <2>3, <2>4, <2>5, <2>6
<1>15. ASSUME NEW t \in Thread, Send(t) PROVE IndInv'
  <2> USE <1>15 DEF Send
  <2>1. TypeOK'
    BY DEF TypeOK, LockedWork, Readers, Verified
  <2>2. EntryIsRemembered' /\ SetIsStored'
    BY DEF TypeOK, EntryIsRemembered, SetIsStored, LockedWork, UserOfLock
  <2>3. LockedWork'
    BY DEF TypeOK, EntryIsRemembered, LockedWork, Verified, UserOfLock
  <2>4. Verified' /\ Readers'
    BY DEF TypeOK, Verified, Readers, SetIsStored
  <2>5. UserOfLock'
    BY DEF TypeOK, UserOfLock, LockedWork
  <2>6. LinksNeedAccount' /\ LinksAreOneToOne'
    BY DEF TypeOK, LinksNeedAccount, LinksAreOneToOne, LockedWork
  <2> QED BY <2>1, <2>2, <2>3, <2>4, <2>5, <2>6
<1>16. ASSUME NEW t \in Thread, NEW l \in CanvasCourse, NEW c \in Course, LinkCourse(t, l, c) PROVE IndInv'
  <2> USE <1>16 DEF LinkCourse, MayLink
  <2>1. TypeOK'
    BY DEF TypeOK, LockedWork, Readers, Verified, Link
  <2>2. EntryIsRemembered' /\ SetIsStored'
    BY DEF TypeOK, EntryIsRemembered, SetIsStored, LockedWork, UserOfLock
  <2>3. LockedWork'
    BY DEF TypeOK, EntryIsRemembered, LockedWork, Verified, UserOfLock
  <2>4. Verified' /\ Readers'
    BY DEF TypeOK, Verified, Readers, SetIsStored
  <2>5. UserOfLock'
    BY DEF TypeOK, UserOfLock, LockedWork
  <2>6. LinksNeedAccount' /\ LinksAreOneToOne'
    BY DEF TypeOK, LinksNeedAccount, LinksAreOneToOne, LockedWork, Link
  <2> QED BY <2>1, <2>2, <2>3, <2>4, <2>5, <2>6
<1>17. ASSUME NEW l \in CanvasCourse, UnlinkCourse(l) PROVE IndInv'
  BY <1>17 DEF UnlinkCourse, TypeOK, EntryIsRemembered, SetIsStored, LockedWork, Verified, UserOfLock, LinksNeedAccount, LinksAreOneToOne, Readers
<1>18. CASE Crash
  BY <1>18 DEF Crash, TypeOK, EntryIsRemembered, SetIsStored, LockedWork, Verified, UserOfLock, LinksNeedAccount, LinksAreOneToOne, Readers
<1>19. CASE UNCHANGED vars
  BY <1>19 DEF vars, Connection, TypeOK, EntryIsRemembered, SetIsStored, LockedWork, Verified, UserOfLock, LinksNeedAccount, LinksAreOneToOne, Readers
<1> QED
  BY <1>1, <1>2, <1>3, <1>4, <1>5, <1>6, <1>7, <1>8, <1>9, <1>10, <1>11, <1>12, <1>13, <1>14, <1>15, <1>16, <1>17, <1>18, <1>19 DEF Next, Change, Read

-----------------------------------------------------------------------------
(* The invariant holds of every reachable state.                            *)
THEOREM Invariance == Spec => []IndInv
  BY Initial, Inductive, PTL DEF Spec

(* A token in the keychain is always one the row remembers, and a connected *)
(* account has a token, which is that account's.                            *)
THEOREM NoTokenIsLost == Spec => []KeychainFollowsRow
<1>1. IndInv => KeychainFollowsRow
  BY DEF IndInv, KeychainFollowsRow
<1> QED BY <1>1, Invariance, PTL

(* Courses are linked one to one, and only while an account is remembered,  *)
(* although link_course() verifies its course before it takes the lock.      *)
THEOREM LinksAlwaysHold == Spec => []LinksHold
<1>1. IndInv => LinksHold
  BY DEF IndInv, LinksHold
<1> QED BY <1>1, Invariance, PTL

(* A step leaves the connection alone, ends it, or makes one where there    *)
(* was none.                                                                *)
LEMMA SwapStep == IndInv /\ [Next]_vars => (Connection # <<>> => Connection' \in {Connection, <<>>})
<1> SUFFICES ASSUME IndInv, [Next]_vars PROVE Connection # <<>> => Connection' \in {Connection, <<>>}
  OBVIOUS
<1>1. UNCHANGED <<row, keychain>> => Connection' = Connection
  BY DEF Connection
<1>2. row.state # "SET" => Connection = <<>>
  BY DEF Connection
<1>3. row'.state # "SET" => Connection' = <<>>
  BY DEF Connection
<1>4. ASSUME NEW t \in Thread, act[t].pc \in Locked PROVE row.state # "SET"
  BY <1>4 DEF IndInv, LockedWork
<1>5. ASSUME NEW t \in Thread, Change(t) PROVE UNCHANGED <<row, keychain>> \/ row.state # "SET" \/ row'.state # "SET"
  <2>1. CASE \E k \in Token : ConnectVerify(t, k)
    BY <2>1 DEF ConnectVerify
  <2>2. CASE ConnectBegin(t)
    BY <2>2 DEF ConnectBegin, ConnectPending
  <2>3. CASE ConnectRefused(t) \/ DatabaseFails(t) \/ Start(t)
    BY <2>3 DEF ConnectRefused, DatabaseFails, Start
  <2>4. CASE Store(t) \/ SetRow(t) \/ Erase(t) \/ Drop(t)
    BY <1>4, <2>4 DEF Store, SetRow, Erase, Drop, At, Locked
  <2>5. CASE Forget(t)
    BY <2>5 DEF Forget, IndInv, TypeOK, Row, NoRow
  <2> QED BY <1>5, <2>1, <2>2, <2>3, <2>4, <2>5 DEF Change
<1>6. ASSUME NEW t \in Thread, Read(t) PROVE UNCHANGED <<row, keychain>>
  BY <1>6 DEF Read, Use, ReadOrigin, ReadRow, GetToken, Send, LinkCourse
<1>7. ASSUME NEW l \in CanvasCourse, UnlinkCourse(l) PROVE UNCHANGED <<row, keychain>>
  BY <1>7 DEF UnlinkCourse
<1>8. CASE Crash
  BY <1>1, <1>8 DEF Crash
<1>9. CASE UNCHANGED vars
  BY <1>1, <1>9 DEF vars
<1> QED BY <1>1, <1>2, <1>3, <1>5, <1>6, <1>7, <1>8, <1>9 DEF Next

(* Nobody who is connected finds another account or token in its place.     *)
THEOREM NoSwap == Spec => ConnectionIsNotSwapped
  BY Invariance, SwapStep, PTL DEF Spec, ConnectionIsNotSwapped

-----------------------------------------------------------------------------
(* The reservation of the LMS scripts.                                      *)
Enrolling == {"reserved", "pending", "stored", "enrolled"}
Collecting == {"collect", "manifest", "token", "send", "accepted"}
Errand ==
  [at : Locking \cup Collecting \cup {"idle", "loaded"}, owner : Nat, doc : Doc \cup {None}, token : Doc \cup {None}]

(* Every variable of the argument has its type, and no run is numbered     *)
(* beyond the last.                                                        *)
ReservationTyped ==
  /\ flock \in Proc \cup {None} /\ runs \in Nat
  /\ record \in [state : {"none", "active", "completed"}, owner : 0..runs, scope : Doc \cup {None}]
  /\ config \in Doc /\ manifest \in [state : {"none", "pending", "enrolled"}, doc : Doc \cup {None}]
  /\ entry \in Doc \cup {None}
  /\ doing \in [Proc -> Errand]
  /\ \A p \in Proc : doing[p].owner <= runs

(* Who works under the lock has it.                                        *)
LockIsTheirs == \A p \in Proc : doing[p].at \in Locking => flock = p

(* Between keychain and manifest the manifest says so.                     *)
EnrollmentTells ==
  \A p \in Proc :
    /\ doing[p].at \in {"pending", "stored"} => manifest = Pending(p)
    /\ doing[p].at = "stored" => entry = doing[p].doc

(* A collection works for the run of a keeper, which enrolls nothing; so   *)
(* as long as the record names that run, nothing is enrolled at all.       *)
KeeperIsFollowed ==
  \A p, q \in Proc :
    doing[p].at \in Collecting /\ doing[q].at \in Holding /\ doing[q].owner = doing[p].owner => doing[q].at = "held"
ReadsAgree ==
  \A p \in Proc : IsParticipant(p) =>
    /\ doing[p].at = "manifest" => manifest = [state |-> "enrolled", doc |-> doing[p].doc]
    /\ doing[p].at = "token" => doing[p].token = doing[p].doc

ReservationInv ==
  ReservationTyped /\ LockIsTheirs /\ EnrollmentTells /\ KeeperIsFollowed /\ ReadsAgree /\ ReservationProtects

-----------------------------------------------------------------------------
LEMMA ReservationStarts == ReservationInit => ReservationInv
<1> SUFFICES ASSUME ReservationInit PROVE ReservationInv
  OBVIOUS
<1> USE ReservationAssumption
<1>1. NotWorking \in Errand /\ NotWorking.at = "idle" /\ NotWorking.owner = 0
  BY DEF NotWorking, Errand
<1>2. ReservationTyped
  BY <1>1 DEF ReservationInit, ReservationTyped, NoRecord, NoManifest
<1>3. \A p \in Proc : doing[p].at = "idle"
  BY <1>1 DEF ReservationInit
<1>4. LockIsTheirs /\ EnrollmentTells /\ KeeperIsFollowed /\ ReadsAgree
  BY <1>3 DEF LockIsTheirs, EnrollmentTells, KeeperIsFollowed, ReadsAgree, Locking, Holding, Collecting
<1>5. ReservationProtects
  BY <1>3 DEF ReservationInit, ReservationProtects, HolderIsRecorded, TokenIsOfManifest, SentTokenIsBound, Holding, NoManifest
<1> QED
  BY <1>2, <1>4, <1>5 DEF ReservationInv

(* A process goes on, and leaves the record and what is enrolled alone.    *)
LEMMA ProcessMoves ==
  ASSUME ReservationInv, NEW p \in Proc, NEW e \in Errand, doing' = [doing EXCEPT ![p] = e],
         UNCHANGED <<record, runs, manifest, entry>>, config' \in Doc, e.owner <= runs,
         \/ flock' = flock
         \/ flock = p /\ flock' = None
         \/ flock = None /\ flock' = p,
         e.at \in Locking => flock' = p,
         e.at \in Holding => record = [state |-> "active", owner |-> e.owner, scope |-> e.doc],
         e.at \notin {"pending", "stored"},
         e.at \in Holding => e.at = "held" \/ \A q \in Proc : doing[q].at \in Collecting => doing[q].owner # e.owner,
         e.at \in Collecting =>
           \A q \in Proc : doing[q].at \in Holding /\ doing[q].owner = e.owner => doing[q].at = "held",
         e.at = "manifest" => manifest = [state |-> "enrolled", doc |-> e.doc],
         e.at = "token" /\ record = [state |-> "active", owner |-> e.owner, scope |-> e.doc] => e.token = e.doc,
         e.at \in {"send", "accepted"} => e.token = e.doc
  PROVE  ReservationInv'
<1> USE ReservationAssumption
<1>1. ReservationTyped /\ doing \in [Proc -> Errand]
  BY DEF ReservationInv, ReservationTyped
<1>2. doing' \in [Proc -> Errand] /\ \A q \in Proc : doing'[q] = IF q = p THEN e ELSE doing[q]
  BY <1>1
<1>3. ReservationTyped'
  BY <1>1, <1>2 DEF ReservationTyped
<1>4. LockIsTheirs'
  BY <1>2 DEF ReservationInv, LockIsTheirs
<1>5. EnrollmentTells'
  BY <1>2 DEF ReservationInv, EnrollmentTells, Pending
<1>6. KeeperIsFollowed'
  <2>1. "held" \notin Collecting /\ Holding \cap Collecting = {}
    BY DEF Holding, Collecting
  <2> QED
    BY <1>2, <2>1 DEF ReservationInv, KeeperIsFollowed
<1>7. ReadsAgree'
  BY <1>2 DEF ReservationInv, ReadsAgree, IsParticipant
<1>8. ReservationProtects'
  <2>1. HolderIsRecorded'
    <3>1. Holding \subseteq Locking
      BY DEF Locking
    <3> QED
      BY <1>2, <1>4, <3>1 DEF ReservationInv, ReservationProtects, HolderIsRecorded, IsParticipant, LockIsTheirs
  <2>2. TokenIsOfManifest' /\ SentTokenIsBound'
    BY <1>2 DEF ReservationInv, ReservationProtects, TokenIsOfManifest, SentTokenIsBound
  <2> QED
    BY <2>1, <2>2 DEF ReservationProtects
<1> QED
  BY <1>3, <1>4, <1>5, <1>6, <1>7, <1>8 DEF ReservationInv

(* What a process does, with another place.                                *)
LEMMA PlaceIs ==
  ASSUME ReservationInv, NEW p \in Proc, NEW place \in Locking \cup Collecting \cup {"idle", "loaded"}, Moves(p, place)
  PROVE  \E e \in Errand : /\ doing' = [doing EXCEPT ![p] = e]
                           /\ e.at = place /\ e.owner = doing[p].owner /\ e.doc = doing[p].doc /\ e.token = doing[p].token
                           /\ e.owner <= runs
<1>1. doing[p] \in Errand /\ doing \in [Proc -> Errand] /\ doing[p].owner <= runs
  BY DEF ReservationInv, ReservationTyped
<1>2. PICK e \in Errand : e = [doing[p] EXCEPT !.at = place]
  BY <1>1 DEF Errand
<1>3. e.at = place /\ e.owner = doing[p].owner /\ e.doc = doing[p].doc /\ e.token = doing[p].token
  BY <1>1, <1>2 DEF Errand
<1>4. doing' = [doing EXCEPT ![p] = e]
  BY <1>1, <1>2 DEF Moves
<1> QED
  BY <1>1, <1>3, <1>4

LEMMA NotWorkingIs == NotWorking \in Errand /\ NotWorking.at = "idle" /\ NotWorking.owner = 0
BY DEF NotWorking, Errand

(* A process stops where it is, with or without the lock.                  *)
LEMMA StopsKeep ==
  ASSUME ReservationInv, NEW p \in Proc, doing' = [doing EXCEPT ![p] = NotWorking],
         UNCHANGED <<record, runs, manifest, entry>>, config' \in Doc,
         flock' = flock \/ (flock = p /\ flock' = None)
  PROVE  ReservationInv'
<1>1. 0 <= runs
  BY DEF ReservationInv, ReservationTyped
<1> QED
  BY <1>1, NotWorkingIs, ProcessMoves DEF Locking, Holding, Collecting

(* Nobody moves, though the configuration or the evidence may change.      *)
LEMMA RestKeeps ==
  ASSUME ReservationInv, UNCHANGED <<flock, record, runs, manifest, entry, doing>>, config' = config \/ config' \in Doc
  PROVE  ReservationInv'
BY DEF ReservationInv, ReservationTyped, LockIsTheirs, EnrollmentTells, Pending, KeeperIsFollowed, ReadsAgree, IsParticipant,
   ReservationProtects, HolderIsRecorded, TokenIsOfManifest, SentTokenIsBound

-----------------------------------------------------------------------------
(* A run begins: its number is new, and nobody else has the lock.          *)
LEMMA BeginKeeps ==
  ASSUME ReservationInv, NEW p \in Proc, NEW doc \in Doc \cup {None}, NEW place \in {"held", "reserved"}, Begin(p, doc, place)
  PROVE  ReservationInv'
<1> USE ReservationAssumption
<1> DEFINE new == runs + 1
<1>1. /\ runs \in Nat /\ new \in Nat /\ doing \in [Proc -> Errand] /\ flock = None
      /\ \A q \in Proc : doing[q].owner \in Nat /\ doing[q].owner <= runs
  BY DEF Begin, MayBegin, ReservationInv, ReservationTyped, Errand
<1>2. PICK e \in Errand : e = [at |-> place, owner |-> new, doc |-> doc, token |-> None]
  BY <1>1 DEF Errand, Locking, Holding
<1>3. e.at = place /\ e.owner = new /\ e.doc = doc
  BY <1>2
<1>4. /\ doing' = [doing EXCEPT ![p] = e] /\ runs' = new /\ flock' = p
      /\ record' = [state |-> "active", owner |-> new, scope |-> doc] /\ UNCHANGED <<manifest, entry, config>>
  BY <1>2 DEF Begin, files
<1> HIDE DEF new
<1>5. doing' \in [Proc -> Errand] /\ \A q \in Proc : doing'[q] = IF q = p THEN e ELSE doing[q]
  BY <1>1, <1>4
<1>6. runs < new
  BY <1>1 DEF new
<1>7. \A q \in Proc : doing[q].at \notin Locking
  BY <1>1 DEF ReservationInv, LockIsTheirs
<1>8. ReservationTyped'
  <2>1. record' \in [state : {"none", "active", "completed"}, owner : 0..new, scope : Doc \cup {None}]
    BY <1>1, <1>4
  <2>2. \A q \in Proc : doing'[q].owner <= new
    BY <1>1, <1>3, <1>5, <1>6
  <2> QED
    BY <1>1, <1>4, <1>5, <2>1, <2>2 DEF ReservationInv, ReservationTyped
<1>9. LockIsTheirs'
  BY <1>4, <1>5, <1>7 DEF LockIsTheirs
<1>10. EnrollmentTells'
  BY <1>3, <1>4, <1>5 DEF ReservationInv, EnrollmentTells, Pending
<1>11. KeeperIsFollowed'
  <2>1. place \notin Collecting /\ Holding \subseteq Locking
    BY DEF Collecting, Locking
  <2>2. ASSUME NEW q \in Proc PROVE doing[q].owner # new
    <3>1. doing[q].owner \in Nat /\ doing[q].owner <= runs
      BY <1>1
    <3> QED
      BY <1>1, <1>6, <3>1
  <2> QED
    BY <1>3, <1>5, <1>7, <2>1, <2>2 DEF KeeperIsFollowed
<1>12. ReadsAgree'
  <2>1. \A q \in Proc : IsParticipant(q)' => q = p
    BY <1>1, <1>4, <1>5, <1>6 DEF IsParticipant
  <2> QED
    BY <1>3, <1>5, <2>1 DEF ReadsAgree
<1>13. ReservationProtects'
  <2>1. HolderIsRecorded'
    <3>1. Holding \subseteq Locking
      BY DEF Locking
    <3> QED
      BY <1>3, <1>4, <1>5, <1>7, <3>1 DEF HolderIsRecorded, IsParticipant
  <2>2. TokenIsOfManifest' /\ SentTokenIsBound'
    BY <1>3, <1>4, <1>5 DEF ReservationInv, ReservationProtects, TokenIsOfManifest, SentTokenIsBound
  <2> QED
    BY <2>1, <2>2 DEF ReservationProtects
<1> QED
  BY <1>8, <1>9, <1>10, <1>11, <1>12, <1>13 DEF ReservationInv

(* A run is completed, by its own process or by the operator.              *)
LEMMA CompleteKeeps ==
  ASSUME ReservationInv, NEW p \in Proc, doing[p].at \in Locking, Complete(p)
  PROVE  ReservationInv'
<1> USE ReservationAssumption
<1>1. flock = p /\ \A q \in Proc : doing[q].at \in Locking => q = p
  BY DEF ReservationInv, LockIsTheirs
<1>2. PICK e \in Errand : /\ doing' = [doing EXCEPT ![p] = e]
                          /\ e.at = "closing" /\ e.owner <= runs
  BY PlaceIs DEF Complete, Locking
<1>3. UNCHANGED <<flock, runs, manifest, entry, config>>
  BY DEF Complete, files
<1>4. CASE record' = record
  BY <1>1, <1>2, <1>3, <1>4, ProcessMoves DEF Locking, Holding, Collecting, ReservationInv, ReservationTyped
<1>5. CASE record' = [record EXCEPT !.state = "completed"]
  <2>1. doing' \in [Proc -> Errand] /\ \A q \in Proc : doing'[q] = IF q = p THEN e ELSE doing[q]
    BY <1>2 DEF ReservationInv, ReservationTyped
  <2>2. record' \in [state : {"none", "active", "completed"}, owner : 0..runs, scope : Doc \cup {None}] /\ record'.state = "completed"
    BY <1>5 DEF ReservationInv, ReservationTyped
  <2>3. \A q \in Proc : ~IsParticipant(q)'
    BY <2>2 DEF IsParticipant
  <2>4. \A q \in Proc : doing'[q].at \notin Holding
    BY <1>1, <1>2, <2>1 DEF Holding, Locking
  <2>5. ReservationTyped'
    BY <1>2, <1>3, <2>1, <2>2 DEF ReservationInv, ReservationTyped
  <2>6. LockIsTheirs'
    BY <1>1, <1>3, <2>1 DEF ReservationInv, LockIsTheirs
  <2>7. EnrollmentTells'
    BY <1>2, <1>3, <2>1 DEF ReservationInv, EnrollmentTells, Pending
  <2>8. KeeperIsFollowed' /\ ReadsAgree'
    BY <2>3, <2>4 DEF KeeperIsFollowed, ReadsAgree
  <2>9. ReservationProtects'
    BY <1>2, <1>3, <2>1, <2>4 DEF ReservationInv, ReservationProtects, HolderIsRecorded, TokenIsOfManifest, SentTokenIsBound
  <2> QED
    BY <2>5, <2>6, <2>7, <2>8, <2>9 DEF ReservationInv
<1> QED
  BY <1>4, <1>5 DEF Complete

-----------------------------------------------------------------------------
(* An enrollment changes what collections read, while none of them works   *)
(* for the run that is recorded.                                           *)
LEMMA EnrollMoves ==
  ASSUME ReservationInv, NEW p \in Proc, NEW place \in {"pending", "stored", "enrolled"},
         doing[p].at \in {"reserved", "pending", "stored"}, Moves(p, place),
         UNCHANGED <<flock, record, runs, config>>,
         manifest' \in [state : {"none", "pending", "enrolled"}, doc : Doc \cup {None}], entry' \in Doc \cup {None},
         manifest'.state = "enrolled" => entry' = manifest'.doc,
         place \in {"pending", "stored"} => manifest' = Pending(p),
         place = "stored" => entry' = doing[p].doc
  PROVE  ReservationInv'
<1> USE ReservationAssumption
<1>1. PICK e \in Errand : /\ doing' = [doing EXCEPT ![p] = e]
                          /\ e.at = place /\ e.owner = doing[p].owner /\ e.doc = doing[p].doc /\ e.owner <= runs
  BY PlaceIs DEF Locking, Holding
<1>2. doing' \in [Proc -> Errand] /\ \A q \in Proc : doing'[q] = IF q = p THEN e ELSE doing[q]
  BY <1>1 DEF ReservationInv, ReservationTyped
<1>3. /\ doing[p].at \in Holding /\ place \in Holding /\ place \notin Collecting /\ Holding \subseteq Locking
      /\ doing[p].at # "held"
  BY DEF Holding, Locking, Collecting
<1>4. flock = p /\ IsParticipant(p) /\ \A q \in Proc : doing[q].at \in Locking => q = p
  BY <1>3 DEF ReservationInv, ReservationProtects, HolderIsRecorded, LockIsTheirs
<1>5. \A q \in Proc : doing[q].at \in Collecting => doing[q].owner # doing[p].owner
  BY <1>3 DEF ReservationInv, KeeperIsFollowed
<1>6. ReservationTyped'
  BY <1>1, <1>2 DEF ReservationInv, ReservationTyped
<1>7. LockIsTheirs'
  BY <1>2, <1>4 DEF LockIsTheirs
<1>8. EnrollmentTells'
  <2>1. \A q \in Proc : q # p => doing[q].at \notin {"pending", "stored"}
    BY <1>4 DEF Locking, Holding
  <2> QED
    BY <1>1, <1>2, <2>1 DEF EnrollmentTells, Pending
<1>9. KeeperIsFollowed'
  BY <1>1, <1>2, <1>3, <1>4, <1>5 DEF KeeperIsFollowed
<1>10. ReadsAgree'
  <2>1. ASSUME NEW q \in Proc, IsParticipant(q)' PROVE doing'[q].at \notin Collecting
    <3>1. CASE q = p
      BY <1>1, <1>2, <1>3, <3>1
    <3>2. CASE q # p
      <4>1. record = [state |-> "active", owner |-> doing[q].owner, scope |-> doing[q].doc]
        BY <1>2, <2>1, <3>2 DEF IsParticipant
      <4>2. record = [state |-> "active", owner |-> doing[p].owner, scope |-> doing[p].doc]
        BY <1>4 DEF IsParticipant
      <4>3. doing[q].owner = doing[p].owner
        BY <4>1, <4>2
      <4> QED
        BY <1>2, <1>5, <3>2, <4>3
    <3> QED
      BY <3>1, <3>2
  <2> QED
    BY <2>1 DEF ReadsAgree, Collecting
<1>11. ReservationProtects'
  <2>1. HolderIsRecorded'
    BY <1>1, <1>2, <1>3, <1>4 DEF HolderIsRecorded, IsParticipant
  <2>2. TokenIsOfManifest'
    BY DEF TokenIsOfManifest
  <2>3. SentTokenIsBound'
    BY <1>1, <1>2 DEF ReservationInv, ReservationProtects, SentTokenIsBound
  <2> QED
    BY <2>1, <2>2, <2>3 DEF ReservationProtects
<1> QED
  BY <1>6, <1>7, <1>8, <1>9, <1>10, <1>11 DEF ReservationInv

LEMMA EnrollKeeps == ASSUME ReservationInv, NEW p \in Proc, Enroll(p) PROVE ReservationInv'
<1> USE ReservationAssumption
<1>1. /\ doing[p] \in Errand /\ doing[p].owner <= runs /\ config \in Doc /\ entry \in Doc \cup {None} /\ runs \in Nat
      /\ doing[p].doc \in Doc \cup {None}
      /\ manifest \in [state : {"none", "pending", "enrolled"}, doc : Doc \cup {None}]
  BY DEF ReservationInv, ReservationTyped, Errand
<1>2. CASE EnrollLoad(p)
  <2>1. PICK e \in Errand : e = [NotWorking EXCEPT !.at = "loaded", !.doc = config]
    BY <1>1, NotWorkingIs DEF Errand
  <2>2. e.at = "loaded" /\ e.owner = 0
    BY <2>1, NotWorkingIs DEF Errand, NotWorking
  <2>3. doing' = [doing EXCEPT ![p] = e] /\ UNCHANGED <<flock, record, runs, manifest, entry, config>>
    BY <1>2, <2>1 DEF EnrollLoad, files
  <2>4. 0 <= runs
    BY <1>1
  <2> QED
    BY <1>1, <2>2, <2>3, <2>4, ProcessMoves DEF Locking, Holding, Collecting
<1>3. CASE EnrollReserve(p)
  BY <1>1, <1>3, BeginKeeps DEF EnrollReserve
<1>4. CASE EnrollPending(p)
  <2>1. manifest' = Pending(p) /\ UNCHANGED <<flock, record, runs, config, entry>>
    BY <1>4 DEF EnrollPending
  <2>2. Pending(p) \in [state : {"none", "pending", "enrolled"}, doc : Doc \cup {None}] /\ Pending(p).state = "pending"
    BY <1>1 DEF Pending
  <2> QED
    BY <1>1, <1>4, <2>1, <2>2, EnrollMoves DEF EnrollPending, Stands
<1>5. CASE EnrollStore(p)
  <2>1. manifest = Pending(p) /\ manifest.state = "pending"
    BY <1>5 DEF EnrollStore, Stands, ReservationInv, EnrollmentTells, Pending
  <2> QED
    BY <1>1, <1>5, <2>1, EnrollMoves DEF EnrollStore, Stands
<1>6. CASE EnrollManifest(p)
  <2>1. entry = doing[p].doc
    BY <1>6 DEF EnrollManifest, Stands, ReservationInv, EnrollmentTells
  <2>2. manifest' = [state |-> "enrolled", doc |-> doing[p].doc] /\ UNCHANGED <<flock, record, runs, config, entry>>
    BY <1>6 DEF EnrollManifest
  <2>3. manifest' \in [state : {"none", "pending", "enrolled"}, doc : Doc \cup {None}] /\ manifest'.doc = doing[p].doc
    BY <1>1, <2>2
  <2> QED
    BY <1>1, <1>6, <2>1, <2>2, <2>3, EnrollMoves DEF EnrollManifest, Stands
<1>7. CASE EnrollComplete(p)
  BY <1>7, CompleteKeeps DEF EnrollComplete, Stands, Locking, Holding
<1> QED
  BY <1>2, <1>3, <1>4, <1>5, <1>6, <1>7 DEF Enroll

-----------------------------------------------------------------------------
LEMMA KeepKeeps == ASSUME ReservationInv, NEW p \in Proc, Keep(p) PROVE ReservationInv'
<1> USE ReservationAssumption
<1>1. /\ doing[p] \in Errand /\ config \in Doc /\ flock \in Proc \cup {None}
  BY DEF ReservationInv, ReservationTyped
<1>2. CASE KeeperRelease(p)
  BY <1>2, CompleteKeeps DEF KeeperRelease, Stands, Locking, Holding
<1>3. ASSUME NEW doc \in Doc, KeeperBegin(p, doc) PROVE ReservationInv'
  BY <1>3, BeginKeeps DEF KeeperBegin
<1>4. CASE GiveUp(p)
  <2>1. doing[p].at \in Locking /\ flock = p
    BY <1>4 DEF GiveUp, Locking, ReservationInv, LockIsTheirs
  <2>2. PICK e \in Errand : doing' = [doing EXCEPT ![p] = e] /\ e.at = "closing" /\ e.owner <= runs
    BY <1>4, PlaceIs DEF GiveUp, Locking
  <2>3. UNCHANGED <<flock, record, runs, manifest, entry, config>>
    BY <1>4 DEF GiveUp, files
  <2> QED
    BY <1>1, <2>1, <2>2, <2>3, ProcessMoves DEF Locking, Holding, Collecting
<1>5. CASE Close(p)
  <2>1. flock = p
    BY <1>5 DEF Close, Stands, Locking, ReservationInv, LockIsTheirs
  <2> QED
    BY <1>1, <1>5, <2>1, StopsKeep DEF Close, files
<1>6. CASE Dies(p)
  BY <1>1, <1>6, StopsKeep DEF Dies, files
<1> QED
  BY <1>2, <1>3, <1>4, <1>5, <1>6 DEF Keep

LEMMA CollectKeeps == ASSUME ReservationInv, NEW p \in Proc, Collect(p) PROVE ReservationInv'
<1> USE ReservationAssumption
<1>1. /\ doing[p] \in Errand /\ config \in Doc /\ flock \in Proc \cup {None} /\ doing \in [Proc -> Errand]
      /\ entry \in Doc \cup {None}
  BY DEF ReservationInv, ReservationTyped
<1>2. ASSUME NEW q \in Proc, CollectBegin(p, q) PROVE ReservationInv'
  <2>1. doing[q].at = "held" /\ doing[q].owner \in Nat /\ doing[q].owner <= runs /\ flock = q
    BY <1>1, <1>2 DEF CollectBegin, Stands, Locking, Holding, ReservationInv, ReservationTyped, LockIsTheirs, Errand
  <2>2. PICK e \in Errand : e = [at |-> "collect", owner |-> doing[q].owner, doc |-> config, token |-> None]
    BY <1>1, <2>1 DEF Errand, Collecting
  <2>3. e.at = "collect" /\ e.owner = doing[q].owner
    BY <2>2
  <2>4. doing' = [doing EXCEPT ![p] = e] /\ UNCHANGED <<flock, record, runs, manifest, entry, config>>
    BY <1>2, <2>2 DEF CollectBegin, files
  <2>5. \A r \in Proc : doing[r].at \in Holding => r = q
    BY <2>1 DEF ReservationInv, LockIsTheirs, Locking
  <2> QED
    BY <1>1, <2>1, <2>3, <2>4, <2>5, ProcessMoves DEF Locking, Holding
<1>3. ASSUME doing[p].at \in Collecting, NEW place \in Collecting, NEW e \in Errand, doing' = [doing EXCEPT ![p] = e],
             UNCHANGED <<flock, record, runs, manifest, entry, config>>,
             e.at = place /\ e.owner = doing[p].owner /\ e.doc = doing[p].doc,
             place = "manifest" => manifest = [state |-> "enrolled", doc |-> doing[p].doc],
             place = "token" /\ IsParticipant(p) => e.token = doing[p].doc,
             place \in {"send", "accepted"} => e.token = doing[p].doc
      PROVE  ReservationInv'
  <2>1. place \notin Locking /\ place \notin Holding
    BY DEF Locking, Holding, Collecting
  <2>2. \A r \in Proc : doing[r].at \in Holding /\ doing[r].owner = e.owner => doing[r].at = "held"
    BY <1>3 DEF ReservationInv, KeeperIsFollowed
  <2>3. e.owner <= runs
    BY <1>3 DEF ReservationInv, ReservationTyped
  <2>4. e.at \notin {"pending", "stored"}
    BY <1>3 DEF Collecting
  <2> QED
    BY <1>1, <1>3, <2>1, <2>2, <2>3, <2>4, ProcessMoves DEF IsParticipant
<1>4. CASE CollectManifest(p)
  <2>1. PICK e \in Errand : /\ doing' = [doing EXCEPT ![p] = e]
                            /\ e.at = "manifest" /\ e.owner = doing[p].owner /\ e.doc = doing[p].doc
    BY <1>4, PlaceIs DEF CollectManifest, Collecting
  <2>2. /\ doing[p].at = "collect" /\ UNCHANGED <<flock, record, runs, manifest, entry, config>>
        /\ manifest = [state |-> "enrolled", doc |-> doing[p].doc]
    BY <1>4 DEF CollectManifest, Stands, files
  <2> QED
    BY <1>3, <2>1, <2>2 DEF Collecting
<1>5. CASE CollectToken(p)
  <2>1. doing[p].at = "manifest" /\ UNCHANGED <<flock, record, runs, manifest, entry, config>>
    BY <1>5 DEF CollectToken, Stands, files
  <2>2. PICK a \in Errand : a = [doing[p] EXCEPT !.at = "token"]
    BY <1>1 DEF Errand, Collecting
  <2>3. PICK e \in Errand : e = [a EXCEPT !.token = entry]
    BY <1>1 DEF Errand
  <2>4. a.at = "token" /\ a.owner = doing[p].owner /\ a.doc = doing[p].doc
    BY <1>1, <2>2 DEF Errand
  <2>5. e.at = "token" /\ e.owner = doing[p].owner /\ e.doc = doing[p].doc /\ e.token = entry
    BY <2>3, <2>4 DEF Errand
  <2>6. doing' = [doing EXCEPT ![p] = e]
    <3>1. PICK r \in [Proc -> Errand] : r = [doing EXCEPT ![p] = a]
      BY <1>1
    <3>2. r = [doing EXCEPT ![p].at = "token"] /\ r[p] = a
      BY <1>1, <2>2, <3>1
    <3>3. doing' = [r EXCEPT ![p].token = entry]
      BY <1>5, <3>2, Zenon DEF CollectToken
    <3> QED
      BY <1>1, <2>3, <3>1, <3>2, <3>3
  <2>7. IsParticipant(p) => entry = doing[p].doc
    <3>1. IsParticipant(p) => manifest = [state |-> "enrolled", doc |-> doing[p].doc]
      BY <2>1 DEF ReservationInv, ReadsAgree
    <3>2. IsParticipant(p) => manifest.state = "enrolled" /\ manifest.doc = doing[p].doc
      BY <3>1
    <3> QED
      BY <3>2 DEF ReservationInv, ReservationProtects, TokenIsOfManifest
  <2> QED
    BY <1>3, <2>1, <2>5, <2>6, <2>7 DEF Collecting
<1>6. CASE CollectSend(p)
  <2>1. PICK e \in Errand : /\ doing' = [doing EXCEPT ![p] = e] /\ e.token = doing[p].token
                            /\ e.at = "send" /\ e.owner = doing[p].owner /\ e.doc = doing[p].doc
    BY <1>6, PlaceIs DEF CollectSend, Collecting
  <2>2. /\ doing[p].at = "token" /\ UNCHANGED <<flock, record, runs, manifest, entry, config>>
        /\ doing[p].token = doing[p].doc
    BY <1>6 DEF CollectSend, Confirmed, Stands, files, ReservationInv, ReadsAgree
  <2> QED
    BY <1>3, <2>1, <2>2 DEF Collecting
<1>7. CASE CollectEnd(p)
  <2>1. UNCHANGED <<flock, record, runs, manifest, entry, config>>
    BY <1>7 DEF CollectEnd, files
  <2>2. CASE doing' = [doing EXCEPT ![p] = NotWorking]
    BY <1>1, <2>1, <2>2, StopsKeep
  <2>3. CASE doing[p].at = "send" /\ doing' = [doing EXCEPT ![p] = [doing[p] EXCEPT !.at = "accepted"]]
    <3>1. PICK e \in Errand : e = [doing[p] EXCEPT !.at = "accepted"]
      BY <1>1 DEF Errand, Collecting
    <3>2. e.at = "accepted" /\ e.owner = doing[p].owner /\ e.doc = doing[p].doc /\ e.token = doing[p].token
      BY <1>1, <3>1 DEF Errand
    <3>3. doing[p].token = doing[p].doc
      BY <2>3 DEF ReservationInv, ReservationProtects, SentTokenIsBound
    <3>4. doing' = [doing EXCEPT ![p] = e]
      BY <2>3, <3>1
    <3> QED
      BY <1>3, <2>1, <2>3, <3>2, <3>3, <3>4 DEF Collecting
  <2> QED
    BY <1>7, <2>2, <2>3 DEF CollectEnd, Stands
<1>8. CASE DriverWrites(p)
  BY <1>8, RestKeeps DEF DriverWrites, files
<1> QED
  BY <1>2, <1>4, <1>5, <1>6, <1>7, <1>8 DEF Collect

LEMMA OperateKeeps == ASSUME ReservationInv, NEW p \in Proc, Operate(p) PROVE ReservationInv'
<1> USE ReservationAssumption
<1>1. /\ doing[p] \in Errand /\ config \in Doc /\ flock \in Proc \cup {None} /\ doing \in [Proc -> Errand]
      /\ record.owner \in Nat /\ record.owner <= runs /\ record.scope \in Doc \cup {None}
  BY DEF ReservationInv, ReservationTyped
<1>2. CASE OperatorApply(p)
  <2>1. PICK e \in Errand : e = [at |-> "reconcile", owner |-> record.owner, doc |-> record.scope, token |-> None]
    BY <1>1 DEF Errand, Locking
  <2>2. e.at = "reconcile" /\ e.owner = record.owner
    BY <2>1
  <2>3. doing' = [doing EXCEPT ![p] = e] /\ flock = None /\ flock' = p /\ UNCHANGED <<record, runs, manifest, entry, config>>
    BY <1>2, <2>1 DEF OperatorApply, files
  <2> QED
    BY <1>1, <2>2, <2>3, ProcessMoves DEF Locking, Holding, Collecting
<1>3. CASE OperatorConfirm(p)
  <2>1. doing[p].at = "reconcile" /\ flock = p
    BY <1>3 DEF OperatorConfirm, Stands, Locking, ReservationInv, LockIsTheirs
  <2>2. PICK e \in Errand : doing' = [doing EXCEPT ![p] = e] /\ e.at = "confirmed" /\ e.owner <= runs
    BY <1>3, PlaceIs DEF OperatorConfirm, Locking
  <2>3. UNCHANGED <<flock, record, runs, manifest, entry, config>>
    BY <1>3 DEF OperatorConfirm, files
  <2> QED
    BY <1>1, <2>1, <2>2, <2>3, ProcessMoves DEF Locking, Holding, Collecting
<1>4. CASE OperatorComplete(p)
  BY <1>4, CompleteKeeps DEF OperatorComplete, Stands, Locking
<1> QED
  BY <1>2, <1>3, <1>4 DEF Operate

LEMMA ReservationStep == ReservationInv /\ [ReservationNext]_reservationVars => ReservationInv'
<1> SUFFICES ASSUME ReservationInv, [ReservationNext]_reservationVars PROVE ReservationInv'
  OBVIOUS
<1>1. ASSUME NEW p \in Proc, Keep(p) \/ Enroll(p) \/ Collect(p) \/ Operate(p) PROVE ReservationInv'
  BY <1>1, KeepKeeps, EnrollKeeps, CollectKeeps, OperateKeeps
<1>2. CASE OperatorCheck
  BY <1>2, RestKeeps DEF OperatorCheck, files
<1>3. ASSUME NEW doc \in Doc, Prepare(doc) PROVE ReservationInv'
  BY <1>3, RestKeeps DEF Prepare
<1>4. CASE UNCHANGED reservationVars
  BY <1>4, RestKeeps DEF reservationVars, files
<1> QED
  BY <1>1, <1>2, <1>3, <1>4 DEF ReservationNext

(* Who works under a reservation has the lock and is in the record, a      *)
(* token that can be read was entered for the document that lets it be     *)
(* read, and a collection sends a token only if it was entered for its own *)
(* document; for any number of processes, documents and runs, wherever     *)
(* processes die and whatever an operator reconciles.                      *)
THEOREM ReservationAlwaysProtects == ReservationSpec => []ReservationProtects
<1>1. ReservationInv => ReservationProtects
  BY DEF ReservationInv
<1> QED
  BY <1>1, ReservationStarts, ReservationStep, PTL DEF ReservationSpec

-----------------------------------------------------------------------------
(* What is made of a course in Notion (LmsProjection)                       *)

LEMMA ProjectionStarts == ProjectionInit => ProjectionInv
<1> SUFFICES ASSUME ProjectionInit PROVE ProjectionInv
  OBVIOUS
<1> USE ProjectionAssumption
<1>1. rows = << >> /\ DOMAIN rows = {} /\ accepted.rows = << >> /\ DOMAIN accepted.rows = {}
  BY DEF ProjectionInit
<1>2. NoRegion \in Regions /\ ~NoRegion.edited /\ NoRegion.notices = {}
  BY DEF NoRegion, Regions
<1>3. NoRun \in Rounds /\ NoRun.at = "idle" /\ NoRun.todo = {} /\ NoRun.doing = {} /\ NoRun.made = {}
  BY DEF NoRun, Rounds
<1>4. NotionTypeOK
  BY <1>1, <1>2 DEF ProjectionInit, NotionTypeOK
<1>5. ProjectionTypeOK
  BY <1>3, <1>4 DEF ProjectionInit, ProjectionTypeOK, Snapshots
<1>6. KeysOnce /\ RegionsOK
  BY <1>1, <1>2 DEF ProjectionInit, KeysOnce, RegionsOK
<1>7. OneEach /\ StillDue /\ PageSaysAll
  BY <1>3 DEF ProjectionInit, OneEach, StillDue, PageSaysAll, Left
<1> QED
  BY <1>5, <1>6, <1>7 DEF ProjectionInit, ProjectionInv

\* Nothing of what the invariant speaks of changes.
LEMMA ProjectionRests ==
  ASSUME ProjectionInv, UNCHANGED <<rows, page, accepted, round, lost>>, registry' \in {0, 1}, lms' \in Snapshots
  PROVE  ProjectionInv'
<1>1. ProjectionTypeOK'
  BY DEF ProjectionInv, ProjectionTypeOK, NotionTypeOK
<1>2. KeysOnce' /\ RegionsOK' /\ OneEach' /\ PageSaysAll'
  BY DEF ProjectionInv, KeysOnce, RegionsOK, OneEach, PageSaysAll, Left, Announcements
<1>3. ASSUME NEW o \in Left
      PROVE  CreateDue(o)' = CreateDue(o) /\ UpdateDue(o)' = UpdateDue(o) /\ PageDue(o)' = PageDue(o)
  BY DEF CreateDue, UpdateDue, PageDue, AsAccepted, Exact, Bound
<1>4. StillDue'
  BY <1>3 DEF ProjectionInv, StillDue, Left
<1> QED
  BY <1>1, <1>2, <1>4 DEF ProjectionInv

\* A round ends: only what is in Notion, and what was accepted of it, is left.
LEMMA RoundEnds ==
  ASSUME round' = NoRun, registry' \in {0, 1}, lms' \in Snapshots, ~lost', lost' \in BOOLEAN,
         NotionTypeOK', KeysOnce', RegionsOK'
  PROVE  ProjectionInv'
<1>1. NoRun \in Rounds /\ NoRun.at = "idle" /\ NoRun.todo = {} /\ NoRun.doing = {} /\ NoRun.made = {}
  BY DEF NoRun, Rounds
<1>2. ProjectionTypeOK'
  BY <1>1 DEF ProjectionTypeOK
<1>3. OneEach' /\ StillDue' /\ PageSaysAll'
  BY <1>1 DEF OneEach, StillDue, PageSaysAll, Left
<1> QED
  BY <1>2, <1>3 DEF ProjectionInv

-----------------------------------------------------------------------------
(* What an effect does to the rows and the page                             *)

LEMMA CreateMakes ==
  ASSUME ProjectionInv, NEW o \in Left, o.op = "create", Effect(o)
  PROVE  /\ page' = page
         /\ \E id \in Nat : /\ id \notin DOMAIN rows
                            /\ id \notin DOMAIN accepted.rows
                            /\ DOMAIN rows' = DOMAIN rows \cup {id}
                            /\ rows' \in [DOMAIN rows' -> PageRows]
                            /\ rows'[id].key = o.key
                            /\ \A i \in DOMAIN rows : rows'[i] = rows[i]
<1> USE ProjectionAssumption
<1>1. o.key \in Key /\ o.value \in Value
  BY DEF ProjectionInv, StillDue, RowOps
<1>2. rows \in [DOMAIN rows -> PageRows]
  BY DEF ProjectionInv, ProjectionTypeOK, NotionTypeOK
<1> DEFINE new == [key |-> o.key, title |-> o.key, titled |-> TRUE, value |-> o.value, wrote |-> o.value]
           id == CHOOSE i \in Fresh : TRUE
<1>3. Fresh # {} /\ page' = page /\ rows' = [i \in DOMAIN rows \cup {id} |-> IF i = id THEN new ELSE rows[i]]
  BY DEF Effect, PageOps
<1>4. id \in Fresh
  BY <1>3
<1>5. id \in Nat /\ id \notin DOMAIN rows /\ id \notin DOMAIN accepted.rows
  BY <1>4 DEF Fresh
<1>6. new \in PageRows /\ new.key = o.key
  BY <1>1 DEF PageRows
<1> HIDE DEF new, id
<1>7. DOMAIN rows' = DOMAIN rows \cup {id} /\ rows'[id] = new /\ \A i \in DOMAIN rows : rows'[i] = rows[i]
  BY <1>3, <1>5
<1>8. rows' \in [DOMAIN rows' -> PageRows]
  BY <1>2, <1>3, <1>5, <1>6
<1> QED
  BY <1>3, <1>5, <1>6, <1>7, <1>8

LEMMA UpdateMakes ==
  ASSUME ProjectionInv, NEW o \in Left, o.op = "update", Effect(o)
  PROVE  /\ page' = page /\ o.id \in DOMAIN rows
         /\ DOMAIN rows' = DOMAIN rows
         /\ rows' \in [DOMAIN rows' -> PageRows]
         /\ rows'[o.id].key = o.key
         /\ \A i \in DOMAIN rows \ {o.id} : rows'[i] = rows[i]
<1>1. o.key \in Key /\ o.value \in Value
  BY DEF ProjectionInv, StillDue, RowOps
<1>2. rows \in [DOMAIN rows -> PageRows]
  BY DEF ProjectionInv, ProjectionTypeOK, NotionTypeOK
<1>3. /\ o.id \in DOMAIN rows /\ page' = page
      /\ rows' = [rows EXCEPT ![o.id] = [key |-> o.key, title |-> @.title, titled |-> TRUE, value |-> o.value, wrote |-> o.value]]
  BY DEF Effect, PageOps
<1>4. rows[o.id] \in PageRows
  BY <1>2, <1>3
<1> DEFINE new == [key |-> o.key, title |-> rows[o.id].title, titled |-> TRUE, value |-> o.value, wrote |-> o.value]
<1>5. new \in PageRows /\ new.key = o.key
  BY <1>1, <1>4 DEF PageRows
<1>6. rows' = [rows EXCEPT ![o.id] = new]
  BY <1>3
<1> HIDE DEF new
<1> QED
  BY <1>2, <1>3, <1>5, <1>6

LEMMA PageMade ==
  ASSUME ProjectionInv, NEW o \in Left, o.op \in PageOps, Effect(o)
  PROVE  /\ rows' = rows
         /\ page' \in [region : Regions, body : Nat, comments : BOOLEAN]
         /\ page'.region = o.region /\ o.region.there
<1>1. rows' = rows /\ page' = [page EXCEPT !.region = o.region]
  BY DEF Effect, PageOps
<1>2. o \in Ops
  BY DEF ProjectionInv, ProjectionTypeOK, Rounds, Left
<1>3. o.region \in Regions /\ page \in [region : Regions, body : Nat, comments : BOOLEAN]
  BY <1>2 DEF Ops, ProjectionInv, ProjectionTypeOK, NotionTypeOK
<1>4. o.region.there
  BY DEF ProjectionInv, PageSaysAll, Region
<1> QED
  BY <1>1, <1>3, <1>4

\* What an effect leaves behind, wherever the driver goes from there.
LEMMA EffectIsHarmless ==
  ASSUME ProjectionInv, NEW o \in Left, Effect(o), lost' = (lost \/ TakesAway(o)), UNCHANGED accepted
  PROVE  ~lost' /\ lost' \in BOOLEAN /\ NotionTypeOK' /\ KeysOnce' /\ RegionsOK'
<1> USE ProjectionAssumption
<1>1. o.op \in {"create", "update", "replace", "append"}
  BY DEF Effect
<1>2. NotionTypeOK /\ KeysOnce /\ RegionsOK /\ ~lost
  BY DEF ProjectionInv, ProjectionTypeOK
<1>3. CASE o.op = "create"
  <2>1. PICK id \in Nat : /\ id \notin DOMAIN rows
                          /\ DOMAIN rows' = DOMAIN rows \cup {id}
                          /\ rows' \in [DOMAIN rows' -> PageRows]
                          /\ rows'[id].key = o.key
                          /\ \A i \in DOMAIN rows : rows'[i] = rows[i]
    BY <1>3, CreateMakes
  <2>2. page' = page
    BY <1>3, CreateMakes
  <2>3. o.key \notin Bound /\ \A i \in DOMAIN rows : rows[i].key # o.key
    BY <1>3 DEF ProjectionInv, StillDue, CreateDue, Exact
  <2>4. ~TakesAway(o)
    BY <1>3, <2>3 DEF TakesAway
  <2>5. NotionTypeOK'
    BY <1>2, <2>1, <2>2 DEF NotionTypeOK
  <2>6. KeysOnce'
    BY <1>2, <2>1, <2>3 DEF KeysOnce
  <2>7. RegionsOK'
    BY <1>2, <2>2 DEF RegionsOK
  <2> QED
    BY <1>2, <2>4, <2>5, <2>6, <2>7
<1>4. CASE o.op = "update"
  <2>1. /\ page' = page /\ o.id \in DOMAIN rows
        /\ DOMAIN rows' = DOMAIN rows
        /\ rows' \in [DOMAIN rows' -> PageRows]
        /\ rows'[o.id].key = o.key
        /\ \A i \in DOMAIN rows \ {o.id} : rows'[i] = rows[i]
    BY <1>4, UpdateMakes
  <2>2. UpdateDue(o) /\ o.key \in Key
    BY <1>4 DEF ProjectionInv, StillDue, RowOps
  <2>3. \A i \in DOMAIN rows : rows[i].key = o.key => i = o.id
    BY <2>2 DEF UpdateDue, Exact
  <2>4. o.id \in round.seen => ~IsTheirs(o.id)
    BY <2>2 DEF UpdateDue, AsAccepted, IsTheirs
  <2>5. ~TakesAway(o)
    BY <1>4, <2>4 DEF TakesAway
  <2>6. NotionTypeOK'
    BY <1>2, <2>1 DEF NotionTypeOK
  <2>7. KeysOnce'
    BY <1>2, <2>1, <2>3 DEF KeysOnce
  <2>8. RegionsOK'
    BY <1>2, <2>1 DEF RegionsOK
  <2> QED
    BY <1>2, <2>5, <2>6, <2>7, <2>8
<1>5. CASE o.op \in PageOps
  <2>1. /\ rows' = rows
        /\ page' \in [region : Regions, body : Nat, comments : BOOLEAN]
        /\ page'.region = o.region /\ o.region.there
    BY <1>5, PageMade
  <2>2. PageDue(o)
    BY <1>5 DEF ProjectionInv, StillDue
  <2>3. ~TakesAway(o)
    BY <1>5, <2>2 DEF TakesAway, PageDue, PageOps
  <2>4. NotionTypeOK' /\ KeysOnce'
    BY <1>2, <2>1 DEF NotionTypeOK, KeysOnce
  <2>5. RegionsOK'
    BY <1>2, <2>1 DEF RegionsOK
  <2> QED
    BY <1>2, <2>3, <2>4, <2>5
<1> QED
  BY <1>1, <1>3, <1>4, <1>5 DEF PageOps

\* What else is left to do is as due as before.
LEMMA OthersStayDue ==
  ASSUME ProjectionInv, NEW o \in round.doing, NEW p \in round.todo, Effect(o), UNCHANGED accepted,
         round'.seen = round.seen
  PROVE  /\ p.op \in PageOps => PageDue(p)'
         /\ p.op = "create" => CreateDue(p)'
         /\ p.op = "update" => UpdateDue(p)'
<1> USE ProjectionAssumption
<1>1. o.op \in {"create", "update", "replace", "append"} /\ o \in Left /\ p \in Left
  BY DEF Effect, Left
<1>2. p.key # o.key
  BY <1>1 DEF ProjectionInv, OneEach
<1>3. /\ p.op \in PageOps => p.key = Absent /\ PageDue(p)
      /\ p.op = "create" => CreateDue(p) /\ p.key \in Key
      /\ p.op = "update" => UpdateDue(p) /\ p.key \in Key
  BY <1>1 DEF ProjectionInv, StillDue, RowOps
<1>4. CASE o.op = "create"
  <2>1. PICK id \in Nat : /\ id \notin DOMAIN rows
                          /\ DOMAIN rows' = DOMAIN rows \cup {id}
                          /\ rows'[id].key = o.key
                          /\ \A i \in DOMAIN rows : rows'[i] = rows[i]
    BY <1>1, <1>4, CreateMakes
  <2>2. page' = page
    BY <1>1, <1>4, CreateMakes
  <2> QED
    BY <1>2, <1>3, <2>1, <2>2 DEF PageDue, CreateDue, UpdateDue, AsAccepted, Exact, Bound
<1>5. CASE o.op = "update"
  <2>1. /\ page' = page /\ o.id \in DOMAIN rows
        /\ DOMAIN rows' = DOMAIN rows
        /\ rows'[o.id].key = o.key
        /\ \A i \in DOMAIN rows \ {o.id} : rows'[i] = rows[i]
    BY <1>1, <1>5, UpdateMakes
  <2>2. UpdateDue(o)
    BY <1>1, <1>5 DEF ProjectionInv, StillDue
  <2>3. CASE p.op = "create" \/ p.op \in PageOps
    BY <1>2, <1>3, <2>1, <2>3 DEF PageDue, CreateDue, Exact, Bound, PageOps
  <2>4. CASE p.op = "update"
    <3>1. p.id \in round.seen => p.id # o.id
      BY <1>2, <1>3, <2>2, <2>4 DEF UpdateDue
    <3>2. Exact(p.key)' \subseteq {p.id}
      BY <1>2, <1>3, <2>1, <2>4 DEF UpdateDue, Exact
    <3>3. p.id \in round.seen => AsAccepted(p.id)' /\ rows'[p.id].key = p.key
      BY <1>3, <2>1, <2>4, <3>1 DEF UpdateDue, AsAccepted
    <3> QED
      BY <2>4, <3>2, <3>3 DEF UpdateDue, PageOps
  <2> QED
    BY <2>3, <2>4
<1>6. CASE o.op \in PageOps
  <2>1. rows' = rows /\ o.key = Absent
    BY <1>1, <1>6, PageMade DEF ProjectionInv, StillDue
  <2>2. p.op \notin PageOps
    BY <1>2, <1>3, <2>1
  <2> QED
    BY <1>3, <2>1, <2>2 DEF CreateDue, UpdateDue, AsAccepted, Exact, Bound
<1> QED
  BY <1>1, <1>4, <1>5, <1>6 DEF PageOps

-----------------------------------------------------------------------------
(* The actions                                                              *)

LEMMA DispatchKeeps == ASSUME ProjectionInv, Dispatch PROVE ProjectionInv'
<1>1. PICK o \in round.doing : /\ Effect(o) /\ lost' = (lost \/ TakesAway(o))
                               /\ round' = [round EXCEPT !.doing = {}, !.made = @ \cup {o}]
  BY DEF Dispatch
<1>2. round.at = "apply" /\ UNCHANGED <<registry, lms, accepted>> /\ o \in Left
  BY DEF Dispatch, Left
<1>3. round \in Rounds /\ o \in Ops /\ round.snapshot \in Snapshots
  BY <1>2 DEF ProjectionInv, ProjectionTypeOK, Rounds
<1>4. /\ round' \in Rounds /\ round'.at = "apply" /\ round'.snapshot = round.snapshot
      /\ round'.todo = round.todo /\ round'.doing = {} /\ round'.made = round.made \cup {o}
      /\ round'.seen = round.seen
  BY <1>1, <1>2, <1>3 DEF Rounds
<1>5. ~lost' /\ lost' \in BOOLEAN /\ NotionTypeOK' /\ KeysOnce' /\ RegionsOK'
  BY <1>1, <1>2, EffectIsHarmless
<1>6. ProjectionTypeOK'
  BY <1>2, <1>3, <1>4, <1>5 DEF ProjectionInv, ProjectionTypeOK
<1>7. OneEach'
  BY <1>4 DEF ProjectionInv, OneEach, Left
<1>8. StillDue'
  <2> SUFFICES ASSUME NEW p \in round.todo
               PROVE  /\ p.op \in RowOps => p.key \in Key /\ p.value \in Value
                      /\ p.op \in PageOps => p.key = Absent /\ PageDue(p)'
                      /\ p.op = "create" => CreateDue(p)'
                      /\ p.op = "update" => UpdateDue(p)'
    BY <1>4 DEF StillDue, Left
  <2> QED
    BY <1>1, <1>2, <1>4, OthersStayDue DEF ProjectionInv, StillDue, Left
<1>9. PageSaysAll'
  BY <1>2, <1>4 DEF ProjectionInv, PageSaysAll, Left, Announcements
<1> QED
  BY <1>5, <1>6, <1>7, <1>8, <1>9 DEF ProjectionInv

LEMMA UncertainKeeps == ASSUME ProjectionInv, Uncertain PROVE ProjectionInv'
<1>1. PICK o \in round.doing : Lose(o)
  BY DEF Uncertain
<1>2. UNCHANGED <<registry, lms, accepted>> /\ round' = NoRun /\ o \in Left
  BY <1>1 DEF Uncertain, Lose, Left
<1>3. ~lost' /\ lost' \in BOOLEAN /\ NotionTypeOK' /\ KeysOnce' /\ RegionsOK'
  <2>1. CASE Effect(o) /\ lost' = (lost \/ TakesAway(o))
    BY <1>2, <2>1, EffectIsHarmless
  <2>2. CASE UNCHANGED <<rows, page, lost>>
    BY <1>2, <2>2 DEF ProjectionInv, ProjectionTypeOK, NotionTypeOK, KeysOnce, RegionsOK
  <2> QED
    BY <1>1, <2>1, <2>2 DEF Lose
<1> QED
  BY <1>2, <1>3, RoundEnds DEF ProjectionInv, ProjectionTypeOK

\* Refuse, a driver that dies, a plan with a conflict.
LEMMA StopKeeps ==
  ASSUME ProjectionInv, round' = NoRun, UNCHANGED <<registry, lms, rows, page, accepted, lost>> PROVE ProjectionInv'
<1>1. ~lost' /\ lost' \in BOOLEAN /\ NotionTypeOK' /\ KeysOnce' /\ RegionsOK'
  BY DEF ProjectionInv, ProjectionTypeOK, NotionTypeOK, KeysOnce, RegionsOK
<1> QED
  BY <1>1, RoundEnds DEF ProjectionInv, ProjectionTypeOK

LEMMA CollectCourseKeeps == ASSUME ProjectionInv, CollectCourse PROVE ProjectionInv'
<1>1. UNCHANGED <<registry, lms, rows, page, accepted, lost>>
  BY DEF CollectCourse
<1>2. registry \in {0, 1} /\ lms \in Snapshots
  BY DEF ProjectionInv, ProjectionTypeOK
<1>3. /\ round' \in Rounds /\ round'.at = "collected" /\ round'.snapshot = lms
      /\ round'.todo = {} /\ round'.doing = {} /\ round'.made = {}
  BY <1>2 DEF CollectCourse, NoRun, Rounds
<1>4. ProjectionTypeOK' /\ KeysOnce' /\ RegionsOK'
  BY <1>1, <1>2, <1>3 DEF ProjectionInv, ProjectionTypeOK, NotionTypeOK, KeysOnce, RegionsOK
<1>5. OneEach' /\ StillDue' /\ PageSaysAll'
  BY <1>3 DEF OneEach, StillDue, PageSaysAll, Left
<1> QED
  BY <1>1, <1>4, <1>5 DEF ProjectionInv

LEMMA IntendKeeps == ASSUME ProjectionInv, NEW o \in round.todo, Intend(o) PROVE ProjectionInv'
<1>1. /\ round.at = "apply" /\ round.doing = {} /\ round' = [round EXCEPT !.doing = {o}, !.todo = @ \ {o}]
      /\ UNCHANGED <<registry, lms, rows, page, accepted, lost>>
  BY DEF Intend
<1>2. round \in Rounds /\ o \in Ops /\ round.snapshot \in Snapshots
  BY <1>1 DEF ProjectionInv, ProjectionTypeOK, Rounds
<1>3. /\ round' \in Rounds /\ round'.at = "apply" /\ round'.snapshot = round.snapshot
      /\ round'.todo = round.todo \ {o} /\ round'.doing = {o} /\ round'.made = round.made
      /\ round'.seen = round.seen
  BY <1>1, <1>2 DEF Rounds
<1>4. Left' = Left
  BY <1>1, <1>3 DEF Left
<1>5. ProjectionTypeOK' /\ KeysOnce' /\ RegionsOK'
  BY <1>1, <1>2, <1>3 DEF ProjectionInv, ProjectionTypeOK, NotionTypeOK, KeysOnce, RegionsOK
<1>6. OneEach' /\ PageSaysAll'
  BY <1>1, <1>3, <1>4 DEF ProjectionInv, OneEach, PageSaysAll, Announcements
<1>7. ASSUME NEW p \in Left
      PROVE  CreateDue(p)' = CreateDue(p) /\ UpdateDue(p)' = UpdateDue(p) /\ PageDue(p)' = PageDue(p)
  BY <1>1, <1>3 DEF CreateDue, UpdateDue, PageDue, AsAccepted, Exact, Bound
<1>8. StillDue'
  BY <1>4, <1>7 DEF ProjectionInv, StillDue
<1> QED
  BY <1>1, <1>5, <1>6, <1>8 DEF ProjectionInv

\* What a user makes of a row: it keeps its key or loses it.
LEMMA EditedRow ==
  ASSUME NEW old \in PageRows, NEW new \in Edit(old)
  PROVE  new \in PageRows /\ new.key \in {old.key, Absent}
<1>1. CASE \E v \in Value : new = [old EXCEPT !.value = v]
  BY <1>1 DEF PageRows
<1>2. CASE new = [old EXCEPT !.key = Absent]
  BY <1>2 DEF PageRows
<1>3. CASE new = [old EXCEPT !.titled = FALSE]
  BY <1>3 DEF PageRows
<1> QED
  BY <1>1, <1>2, <1>3 DEF Edit

LEMMA UserEditsRowKeeps ==
  ASSUME ProjectionInv, UserEditsRow, UNCHANGED <<registry, lms, accepted, lost>> PROVE ProjectionInv'
<1> USE ProjectionAssumption
<1>1. PICK id \in DOMAIN rows :
        /\ \/ \E new \in Edit(rows[id]) : rows' = [rows EXCEPT ![id] = new]
           \/ rows' = Restrict(rows, DOMAIN rows \ {id})
        /\ round' = [round EXCEPT !.seen = @ \ {id}]
  BY DEF UserEditsRow
<1>2. page' = page
  BY DEF UserEditsRow
<1>3. round \in Rounds /\ NotionTypeOK /\ rows \in [DOMAIN rows -> PageRows]
  BY DEF ProjectionInv, ProjectionTypeOK, NotionTypeOK
<1>4. /\ round' \in Rounds /\ round'.at = round.at /\ round'.snapshot = round.snapshot
      /\ round'.todo = round.todo /\ round'.doing = round.doing /\ round'.made = round.made
      /\ round'.seen = round.seen \ {id}
  BY <1>1, <1>3 DEF Rounds
<1>5. /\ DOMAIN rows' \subseteq DOMAIN rows /\ DOMAIN rows \ {id} \subseteq DOMAIN rows'
      /\ rows' \in [DOMAIN rows' -> PageRows]
      /\ \A i \in DOMAIN rows \ {id} : rows'[i] = rows[i]
      /\ id \in DOMAIN rows' => rows'[id].key \in {rows[id].key, Absent}
  <2>1. CASE \E new \in Edit(rows[id]) : rows' = [rows EXCEPT ![id] = new]
    <3>1. PICK new \in Edit(rows[id]) : rows' = [rows EXCEPT ![id] = new]
      BY <2>1
    <3>2. rows[id] \in PageRows
      BY <1>3
    <3>3. new \in PageRows /\ new.key \in {rows[id].key, Absent}
      BY <3>2, EditedRow
    <3> QED
      BY <1>3, <3>1, <3>3
  <2>2. CASE rows' = Restrict(rows, DOMAIN rows \ {id})
    <3>1. rows' = [i \in DOMAIN rows \ {id} |-> rows[i]]
      BY <2>2 DEF Restrict
    <3> QED
      BY <1>3, <3>1
  <2> QED
    BY <1>1, <2>1, <2>2
<1>6. ProjectionTypeOK'
  <2>1. NotionTypeOK'
    BY <1>2, <1>3, <1>5 DEF NotionTypeOK
  <2> QED
    BY <1>4, <2>1 DEF ProjectionInv, ProjectionTypeOK
<1>7. KeysOnce'
  BY <1>5 DEF ProjectionInv, KeysOnce
<1>8. RegionsOK'
  BY <1>2 DEF ProjectionInv, RegionsOK
<1>9. OneEach' /\ PageSaysAll'
  BY <1>4 DEF ProjectionInv, OneEach, PageSaysAll, Left, Announcements
<1>10. ASSUME NEW o \in Left
       PROVE  /\ o.op \in PageOps => PageDue(o)'
              /\ o.op = "create" => CreateDue(o)'
              /\ o.op = "update" => UpdateDue(o)'
  <2>1. /\ o.op \in PageOps => PageDue(o)
        /\ o.op = "create" => CreateDue(o) /\ o.key \in Key
        /\ o.op = "update" => UpdateDue(o) /\ o.key \in Key
    BY DEF ProjectionInv, StillDue, RowOps
  <2>2. o.key \in Key => Exact(o.key)' \subseteq Exact(o.key)
    BY <1>5 DEF Exact
  <2>3. o.op \in PageOps => PageDue(o)'
    BY <1>2, <1>4, <2>1 DEF PageDue
  <2>4. o.op = "create" => CreateDue(o)'
    BY <2>1, <2>2 DEF CreateDue, Bound
  <2>5. o.op = "update" => UpdateDue(o)'
    BY <1>4, <1>5, <2>1, <2>2 DEF UpdateDue, AsAccepted
  <2> QED
    BY <2>3, <2>4, <2>5
<1>11. StillDue'
  BY <1>4, <1>10 DEF ProjectionInv, StillDue, Left
<1> QED
  BY <1>6, <1>7, <1>8, <1>9, <1>11 DEF ProjectionInv

LEMMA UserEditsPageKeeps ==
  ASSUME ProjectionInv, UserEditsPage, UNCHANGED <<registry, lms, accepted, lost>> PROVE ProjectionInv'
<1>1. rows' = rows /\ round' = [round EXCEPT !.seen = @ \ {0}]
  BY DEF UserEditsPage
<1>2. round \in Rounds /\ NotionTypeOK /\ page \in [region : Regions, body : Nat, comments : BOOLEAN]
  BY DEF ProjectionInv, ProjectionTypeOK, NotionTypeOK
<1>3. /\ round' \in Rounds /\ round'.at = round.at /\ round'.snapshot = round.snapshot
      /\ round'.todo = round.todo /\ round'.doing = round.doing /\ round'.made = round.made
      /\ round'.seen = round.seen \ {0}
  BY <1>1, <1>2 DEF Rounds
<1>4. /\ page' \in [region : Regions, body : Nat, comments : BOOLEAN]
      /\ page'.region = page.region \/ (page.region.there /\ page'.region.there)
  <2>1. CASE page.region.there /\ page' = [page EXCEPT !.region.edited = TRUE]
    BY <1>2, <2>1 DEF Regions
  <2>2. CASE page' = [page EXCEPT !.body = @ + 1]
    BY <1>2, <2>2
  <2>3. CASE page' = [page EXCEPT !.comments = ~@]
    BY <1>2, <2>3
  <2> QED
    BY <2>1, <2>2, <2>3 DEF UserEditsPage
<1>5. ProjectionTypeOK'
  BY <1>1, <1>2, <1>3, <1>4 DEF ProjectionInv, ProjectionTypeOK, NotionTypeOK
<1>6. KeysOnce' /\ RegionsOK'
  BY <1>1, <1>4 DEF ProjectionInv, KeysOnce, RegionsOK
<1>7. OneEach' /\ PageSaysAll'
  BY <1>3 DEF ProjectionInv, OneEach, PageSaysAll, Left, Announcements
<1>8. ASSUME NEW o \in Left
      PROVE  PageDue(o)' /\ CreateDue(o)' = CreateDue(o) /\ (UpdateDue(o) => UpdateDue(o)')
  BY <1>1, <1>3 DEF PageDue, CreateDue, UpdateDue, AsAccepted, Exact, Bound
<1>9. StillDue'
  BY <1>3, <1>8 DEF ProjectionInv, StillDue, Left
<1> QED
  BY <1>5, <1>6, <1>7, <1>9 DEF ProjectionInv

-----------------------------------------------------------------------------
(* The plan                                                                 *)

LEMMA ExactIsOne ==
  ASSUME KeysOnce, NEW k \in Key
  PROVE  \/ Exact(k) = {} /\ Cardinality(Exact(k)) = 0
         \/ \E id \in DOMAIN rows : Exact(k) = {id} /\ Cardinality(Exact(k)) = 1
<1>1. CASE Exact(k) = {}
  BY <1>1, FS_EmptySet
<1>2. CASE Exact(k) # {}
  <2>1. PICK id \in DOMAIN rows : id \in Exact(k)
    BY <1>2 DEF Exact
  <2>2. Exact(k) = {id}
    BY <2>1, ProjectionAssumption DEF Exact, KeysOnce
  <2>3. Cardinality({id}) = 1
    BY FS_Singleton
  <2> QED
    BY <2>2, <2>3
<1> QED
  BY <1>1, <1>2

LEMMA OpIs ==
  ASSUME NEW op \in RowOps \cup PageOps \cup {"noop", "conflict"}, NEW k \in Key, NEW id \in Nat, NEW v \in Value
  PROVE  Op(op, k, id, v) \in Ops /\ Op(op, k, id, v).op = op /\ Op(op, k, id, v).key = k
         /\ Op(op, k, id, v).id = id /\ Op(op, k, id, v).value = v
  BY DEF Op, Ops, NoRegion, Regions

LEMMA RowPlanned ==
  ASSUME ProjectionInv, NEW k \in Key, NEW v \in Value
  PROVE  LET o == RowPlan(k, v) IN
         /\ o \in Ops /\ o.key = k /\ o.value = v /\ o.op \in {"noop", "conflict", "create", "update"}
         /\ o.op = "create" => CreateDue(o)
         /\ o.op = "update" => Exact(o.key) \subseteq {o.id} /\ AsAccepted(o.id) /\ rows[o.id].key = o.key
<1>1. KeysOnce /\ DOMAIN rows \subseteq Nat /\ rows \in [DOMAIN rows -> PageRows]
      /\ accepted.rows \in [DOMAIN accepted.rows -> AcceptedRows]
  BY DEF ProjectionInv, ProjectionTypeOK, NotionTypeOK
<1>2. CASE Exact(k) = {} /\ Cardinality(Exact(k)) = 0
  <2>1. RowPlan(k, v) = Op(IF k \in Bound \/ Nameless(k) # {} THEN "conflict" ELSE "create", k, 0, v)
    BY <1>2 DEF RowPlan
  <2>2. CASE k \in Bound \/ Nameless(k) # {}
    <3>1. RowPlan(k, v) = Op("conflict", k, 0, v)
      BY <2>1, <2>2
    <3>2. Op("conflict", k, 0, v) \in Ops /\ Op("conflict", k, 0, v).op = "conflict" /\ Op("conflict", k, 0, v).key = k
          /\ Op("conflict", k, 0, v).value = v
      BY OpIs
    <3> QED
      BY <3>1, <3>2
  <2>3. CASE ~(k \in Bound \/ Nameless(k) # {})
    <3>1. RowPlan(k, v) = Op("create", k, 0, v)
      BY <2>1, <2>3
    <3>2. Op("create", k, 0, v) \in Ops /\ Op("create", k, 0, v).op = "create" /\ Op("create", k, 0, v).key = k
          /\ Op("create", k, 0, v).value = v
      BY OpIs DEF RowOps
    <3> QED
      BY <1>2, <2>3, <3>1, <3>2 DEF CreateDue
  <2> QED
    BY <2>2, <2>3
<1>3. CASE \E id \in DOMAIN rows : Exact(k) = {id} /\ Cardinality(Exact(k)) = 1
  <2>1. PICK id \in DOMAIN rows : Exact(k) = {id} /\ Cardinality(Exact(k)) = 1
    BY <1>3
  <2>2. (CHOOSE i \in Exact(k) : TRUE) = id
    BY <2>1
  <2>3. RowPlan(k, v) = IF IsEdited(id) THEN Op("conflict", k, id, v)
                        ELSE IF rows[id].value = v THEN Op("noop", k, id, v) ELSE Op("update", k, id, v)
    BY <2>1, <2>2 DEF RowPlan
  <2>4. id \in Nat /\ rows[id].key = k
    BY <1>1, <2>1 DEF Exact
  <2>5. CASE RowPlan(k, v) = Op("conflict", k, id, v) \/ RowPlan(k, v) = Op("noop", k, id, v)
    BY <2>4, <2>5, OpIs
  <2>6. CASE ~IsEdited(id) /\ RowPlan(k, v) = Op("update", k, id, v)
    <3>1. Op("update", k, id, v) \in Ops /\ Op("update", k, id, v).op = "update" /\ Op("update", k, id, v).key = k
          /\ Op("update", k, id, v).id = id /\ Op("update", k, id, v).value = v
      BY <2>4, OpIs DEF RowOps
    <3>2. id \in DOMAIN accepted.rows /\ [key |-> rows[id].key, value |-> rows[id].value, titled |-> rows[id].titled] = accepted.rows[id]
      BY <2>6 DEF IsEdited
    <3>3. accepted.rows[id] \in AcceptedRows
      BY <1>1, <3>2
    <3>4. accepted.rows[id].key = rows[id].key /\ accepted.rows[id].value = rows[id].value
          /\ accepted.rows[id].titled = rows[id].titled
      BY <3>2
    <3>5. accepted.rows[id].titled = TRUE
      BY <3>3 DEF AcceptedRows
    <3>6. AsAccepted(id)
      BY <2>1, <3>2, <3>4, <3>5 DEF AsAccepted
    <3> QED
      BY <2>1, <2>4, <2>6, <3>1, <3>6
  <2> QED
    BY <2>3, <2>5, <2>6
<1> QED
  BY <1>1, <1>2, <1>3, ExactIsOne

LEMMA PageOpIs ==
  ASSUME NEW op \in PageOps \cup {"noop", "conflict"}, NEW S \in SUBSET Notice
  PROVE  PageOp(op, S) \in Ops /\ PageOp(op, S).op = op /\ PageOp(op, S).key = Absent /\ PageOp(op, S).region = Region(S)
  BY DEF PageOp, Op, Ops, NoRegion, Region, Regions

LEMMA PagePlanned ==
  ASSUME ProjectionInv, NEW S \in SUBSET Notice, accepted.notices \subseteq S
  PROVE  LET o == PagePlan(S) IN
         /\ o \in Ops /\ o.key = Absent /\ o.op \in {"noop", "conflict", "replace"} /\ o.region = Region(S)
         /\ o.op = "replace" => ~page.region.edited /\ page.region.notices \subseteq o.region.notices
<1>1. CASE PagePlan(S) \in {PageOp("conflict", S), PageOp("noop", S)}
  BY <1>1, PageOpIs
<1>2. CASE page.region = accepted.region /\ PagePlan(S) = PageOp("replace", S)
  <2>1. ~page.region.edited /\ page.region.notices \subseteq S
    BY <1>2 DEF ProjectionInv, RegionsOK
  <2>2. Region(S).notices = S
    BY DEF Region
  <2> QED
    BY <1>2, <2>1, <2>2, PageOpIs DEF PageOps
<1> QED
  BY <1>1, <1>2 DEF PagePlan

\* The work of a plan: each change with what it was made for.
LEMMA WorkIsDue ==
  ASSUME ProjectionInv, NEW snapshot \in Snapshots, NEW o \in Plan(snapshot), o.op \notin {"noop", "conflict"}
  PROVE  /\ o \in Ops
         /\ \/ /\ o.op = "replace" /\ o.key = Absent /\ o = PagePlan(Announcements(snapshot))
               /\ o.region = Region(Announcements(snapshot))
               /\ ~page.region.edited /\ page.region.notices \subseteq o.region.notices
            \/ /\ o.key \in Key /\ o.value \in Value /\ o = RowPlan(o.key, snapshot.work[o.key])
               /\ \/ o.op = "create" /\ CreateDue(o)
                  \/ /\ o.op = "update" /\ Exact(o.key) \subseteq {o.id}
                     /\ AsAccepted(o.id) /\ rows[o.id].key = o.key
<1>1. CASE o = PagePlan(Announcements(snapshot))
  <2>1. Announcements(snapshot) \in SUBSET Notice /\ accepted.notices \subseteq Announcements(snapshot)
    BY DEF ProjectionInv, ProjectionTypeOK, NotionTypeOK, Announcements, Snapshots
  <2> QED
    BY <1>1, <2>1, PagePlanned
<1>2. CASE \E k \in Key : snapshot.work[k] # Absent /\ o = RowPlan(k, snapshot.work[k])
  <2>1. PICK k \in Key : snapshot.work[k] # Absent /\ o = RowPlan(k, snapshot.work[k])
    BY <1>2
  <2>2. snapshot.work[k] \in Value
    BY <2>1 DEF Snapshots
  <2>3. /\ o \in Ops /\ o.key = k /\ o.value = snapshot.work[k] /\ o.op \in {"noop", "conflict", "create", "update"}
        /\ o.op = "create" => CreateDue(o)
        /\ o.op = "update" => Exact(o.key) \subseteq {o.id} /\ AsAccepted(o.id) /\ rows[o.id].key = o.key
    BY <2>1, <2>2, RowPlanned
  <2> QED
    BY <2>1, <2>2, <2>3
<1> QED
  BY <1>1, <1>2 DEF Plan

LEMMA ProjectKeeps == ASSUME ProjectionInv, Project PROVE ProjectionInv'
<1> USE ProjectionAssumption
<1> DEFINE plan == Plan(round.snapshot)
<1>1. round.at = "collected" /\ UNCHANGED <<registry, lms, rows, page, accepted, lost>>
  BY DEF Project
<1>2. round \in Rounds /\ round.snapshot \in Snapshots /\ round.doing = {} /\ round.made = {}
  BY <1>1 DEF ProjectionInv, ProjectionTypeOK, OneEach, Left
<1>3. CASE Conflicts(plan) # {}
  BY <1>1, <1>3, StopKeeps DEF Project
<1>4. CASE Conflicts(plan) = {}
  <2>1. round' = [round EXCEPT !.at = "apply", !.todo = Changes(plan), !.result = plan, !.seen = DOMAIN rows \cup {0}]
    BY <1>4 DEF Project
  <2>2. ASSUME NEW o \in plan PROVE o \in Ops
    <3>1. CASE o = PagePlan(Announcements(round.snapshot))
      <4>1. Announcements(round.snapshot) \in SUBSET Notice /\ accepted.notices \subseteq Announcements(round.snapshot)
        BY <1>2 DEF ProjectionInv, ProjectionTypeOK, NotionTypeOK, Announcements, Snapshots
      <4> QED
        BY <3>1, <4>1, PagePlanned
    <3>2. CASE \E k \in Key : round.snapshot.work[k] # Absent /\ o = RowPlan(k, round.snapshot.work[k])
      <4>1. PICK k \in Key : round.snapshot.work[k] # Absent /\ o = RowPlan(k, round.snapshot.work[k])
        BY <3>2
      <4>2. round.snapshot.work[k] \in Value
        BY <1>2, <4>1 DEF Snapshots
      <4> QED
        BY <4>1, <4>2, RowPlanned
    <3> QED
      BY <3>1, <3>2 DEF Plan
  <2>3. plan \in SUBSET Ops /\ Changes(plan) \in SUBSET Ops
    BY <2>2 DEF Changes
  <2>4. ASSUME NEW o \in Changes(plan)
        PROVE  /\ \/ /\ o.op = "replace" /\ o.key = Absent /\ o = PagePlan(Announcements(round.snapshot))
                     /\ o.region = Region(Announcements(round.snapshot))
                     /\ ~page.region.edited /\ page.region.notices \subseteq o.region.notices
                  \/ /\ o.key \in Key /\ o.value \in Value /\ o = RowPlan(o.key, round.snapshot.work[o.key])
                     /\ \/ o.op = "create" /\ CreateDue(o)
                        \/ /\ o.op = "update" /\ Exact(o.key) \subseteq {o.id}
                           /\ AsAccepted(o.id) /\ rows[o.id].key = o.key
    <3>1. o \in plan /\ o.op \notin {"noop", "conflict"}
      BY <1>4 DEF Changes, Conflicts
    <3> HIDE DEF plan
    <3>2. o \in Plan(round.snapshot)
      BY <3>1 DEF plan
    <3> QED
      BY <1>2, <3>1, <3>2, WorkIsDue
  <2> HIDE DEF plan
  <2>5. /\ round' \in Rounds /\ round'.at = "apply" /\ round'.snapshot = round.snapshot
        /\ round'.todo = Changes(plan) /\ round'.doing = {} /\ round'.made = {}
        /\ round'.seen = DOMAIN rows \cup {0}
    <3>1. DOMAIN rows \cup {0} \in SUBSET Nat
      BY DEF ProjectionInv, ProjectionTypeOK, NotionTypeOK
    <3> QED
      BY <1>2, <2>1, <2>3, <3>1 DEF Rounds
  <2>6. ProjectionTypeOK' /\ KeysOnce' /\ RegionsOK'
    BY <1>1, <1>2, <2>5 DEF ProjectionInv, ProjectionTypeOK, NotionTypeOK, KeysOnce, RegionsOK
  <2>7. OneEach'
    <3>1. \A o, p \in Changes(plan) : o.key = p.key => o = p
      BY <2>4
    <3> QED
      BY <2>5, <3>1 DEF OneEach, Left
  <2>8. PageSaysAll'
    BY <1>1, <2>4, <2>5 DEF PageSaysAll, Left, Announcements, PageOps
  <2>9. ASSUME NEW o \in Changes(plan)
        PROVE  /\ o.op \in RowOps => o.key \in Key /\ o.value \in Value
               /\ o.op \in PageOps => o.key = Absent /\ PageDue(o)'
               /\ o.op = "create" => CreateDue(o)'
               /\ o.op = "update" => UpdateDue(o)'
    <3>1. CASE o.op = "replace" /\ o.key = Absent /\ ~page.region.edited /\ page.region.notices \subseteq o.region.notices
      BY <1>1, <3>1 DEF RowOps, PageDue
    <3>2. CASE o.op = "create" /\ o.key \in Key /\ o.value \in Value /\ CreateDue(o)
      BY <1>1, <3>2 DEF PageOps, CreateDue, Exact, Bound
    <3>3. CASE /\ o.op = "update" /\ o.key \in Key /\ o.value \in Value /\ Exact(o.key) \subseteq {o.id}
               /\ AsAccepted(o.id) /\ rows[o.id].key = o.key
      BY <1>1, <3>3 DEF PageOps, UpdateDue, AsAccepted, Exact
    <3> QED
      BY <2>4, <3>1, <3>2, <3>3
  <2>10. StillDue'
    BY <2>5, <2>9 DEF StillDue, Left
  <2> QED
    BY <1>1, <2>6, <2>7, <2>8, <2>10 DEF ProjectionInv
<1> QED
  BY <1>3, <1>4

LEMMA AdoptKeeps == ASSUME ProjectionInv, Adopt PROVE ProjectionInv'
<1> USE ProjectionAssumption
<1> DEFINE S == Announcements(round.snapshot)
           o == PageOp("append", S)
<1>1. round.at = "collected" /\ ~page.region.there /\ UNCHANGED <<registry, lms, rows, page, accepted, lost>>
  BY DEF Adopt
<1>2. /\ round \in Rounds /\ round.snapshot \in Snapshots /\ round.doing = {} /\ round.made = {}
      /\ page.body \in Nat /\ DOMAIN rows \cup {0} \in SUBSET Nat
  BY <1>1 DEF ProjectionInv, ProjectionTypeOK, NotionTypeOK, OneEach, Left
<1>3. S \in SUBSET Notice
  BY <1>2 DEF ProjectionInv, ProjectionTypeOK, NotionTypeOK, Announcements, Snapshots
<1>4. o \in Ops /\ o.op = "append" /\ o.key = Absent /\ o.region = Region(S)
  BY <1>3, PageOpIs DEF PageOps
<1>5. round' = [round EXCEPT !.at = "apply", !.body = page.body, !.seen = DOMAIN rows \cup {0}, !.todo = {o}]
  BY DEF Adopt
<1>6. ~page.region.edited /\ page.region.notices = {}
  BY <1>1 DEF ProjectionInv, RegionsOK, NoRegion
<1> HIDE DEF o
<1>7. /\ round' \in Rounds /\ round'.at = "apply" /\ round'.snapshot = round.snapshot
      /\ round'.todo = {o} /\ round'.doing = {} /\ round'.made = {}
  BY <1>2, <1>4, <1>5 DEF Rounds
<1>8. ProjectionTypeOK' /\ KeysOnce' /\ RegionsOK' /\ OneEach'
  BY <1>1, <1>2, <1>7 DEF ProjectionInv, ProjectionTypeOK, NotionTypeOK, KeysOnce, RegionsOK, OneEach, Left
<1>9. PageSaysAll'
  BY <1>1, <1>4, <1>7 DEF PageSaysAll, Left, Announcements
<1>10. StillDue'
  BY <1>1, <1>4, <1>6, <1>7 DEF StillDue, Left, RowOps, PageDue
<1> QED
  BY <1>1, <1>8, <1>9, <1>10 DEF ProjectionInv

LEMMA VerifyKeeps == ASSUME ProjectionInv, Verify PROVE ProjectionInv'
<1> USE ProjectionAssumption
<1>1. round.at = "apply" /\ round' = NoRun /\ UNCHANGED <<registry, lms, rows, page, lost>>
  BY DEF Verify
<1>2. CASE ~\A o \in round.made : IsThere(o)
  BY <1>1, <1>2, StopKeeps DEF Verify
<1>3. CASE \A o \in round.made : IsThere(o)
  <2>1. accepted' = Published(round.made)
    BY <1>3 DEF Verify
  <2>2. round.snapshot \in Snapshots /\ round \in Rounds /\ rows \in [DOMAIN rows -> PageRows]
        /\ accepted.rows \in [DOMAIN accepted.rows -> AcceptedRows]
        /\ accepted.notices \subseteq Notice /\ accepted.region \in Regions /\ page.region \in Regions
    BY <1>1 DEF ProjectionInv, ProjectionTypeOK, NotionTypeOK
  <2>3. accepted'.notices = Announcements(round.snapshot) /\ Announcements(round.snapshot) \subseteq Notice
        /\ accepted.notices \subseteq accepted'.notices
    BY <2>1, <2>2 DEF Published, Announcements, Snapshots
  <2>4. /\ accepted'.region \in Regions /\ ~accepted'.region.edited
        /\ accepted'.region.notices \subseteq accepted'.notices
    <3>1. CASE \E o \in round.made : o.op \in PageOps
      <4>1. PICK o \in round.made : o.op \in PageOps
        BY <3>1
      <4>2. o.region = Region(Announcements(round.snapshot))
        BY <4>1 DEF ProjectionInv, PageSaysAll
      <4>3. page.region = o.region
        BY <1>3, <4>1 DEF IsThere, PageOps
      <4>4. accepted'.region = page.region
        BY <2>1, <3>1 DEF Published, PageOps
      <4> QED
        BY <2>2, <2>3, <4>2, <4>3, <4>4 DEF Region
    <3>2. CASE ~\E o \in round.made : o.op \in PageOps
      <4>1. accepted'.region = accepted.region
        BY <2>1, <3>2 DEF Published, PageOps
      <4> QED
        BY <2>2, <2>3, <4>1 DEF ProjectionInv, RegionsOK
    <3> QED
      BY <3>1, <3>2
  <2>5. accepted'.rows \in [DOMAIN accepted'.rows -> AcceptedRows]
    <3> DEFINE D == DOMAIN accepted.rows \cup { i \in DOMAIN rows : \E o \in round.made : o.key # Absent /\ o.key = rows[i].key }
               Is(id) == \E o \in round.made : o.key # Absent /\ id \in Exact(o.key)
    <3>1. accepted'.rows = [id \in D |-> IF Is(id) THEN [key |-> rows[id].key, value |-> rows[id].value, titled |-> TRUE]
                                         ELSE accepted.rows[id]]
      BY <2>1 DEF Published
    <3>2. ASSUME NEW id \in D, Is(id)
          PROVE  [key |-> rows[id].key, value |-> rows[id].value, titled |-> TRUE] \in AcceptedRows
      <4>1. id \in DOMAIN rows /\ rows[id].key # Absent
        BY <3>2 DEF Exact
      <4>2. rows[id] \in PageRows
        BY <2>2, <4>1
      <4> QED
        BY <4>1, <4>2 DEF PageRows, AcceptedRows
    <3>3. ASSUME NEW id \in D, ~Is(id) PROVE accepted.rows[id] \in AcceptedRows
      <4>1. id \in DOMAIN accepted.rows
        BY <3>3 DEF Exact
      <4> QED
        BY <2>2, <4>1
    <3> HIDE DEF D, Is
    <3> QED
      BY <3>1, <3>2, <3>3
  <2>6. NotionTypeOK'
    BY <1>1, <2>3, <2>4, <2>5 DEF ProjectionInv, ProjectionTypeOK, NotionTypeOK
  <2>7. KeysOnce' /\ RegionsOK' /\ ~lost' /\ lost' \in BOOLEAN
    BY <1>1, <2>4 DEF ProjectionInv, ProjectionTypeOK, KeysOnce, RegionsOK
  <2> QED
    BY <1>1, <2>6, <2>7, RoundEnds DEF ProjectionInv, ProjectionTypeOK
<1> QED
  BY <1>2, <1>3

LEMMA ProjectionStep == ProjectionInv /\ [ProjectionNext]_projectionVars => ProjectionInv'
<1> SUFFICES ASSUME ProjectionInv, [ProjectionNext]_projectionVars PROVE ProjectionInv'
  OBVIOUS
<1>1. registry \in {0, 1} /\ lms \in Snapshots
  BY DEF ProjectionInv, ProjectionTypeOK
<1>2. CASE LmsChanges
  <2>1. lms' \in Snapshots
    BY <1>1, <1>2 DEF LmsChanges, Snapshots
  <2> QED
    BY <1>1, <1>2, <2>1, ProjectionRests DEF LmsChanges
<1>3. CASE User
  BY <1>3, UserEditsRowKeeps, UserEditsPageKeeps DEF User
<1>4. CASE Bind
  BY <1>1, <1>4, ProjectionRests DEF Bind
<1>5. CASE CollectCourse
  BY <1>5, CollectCourseKeeps
<1>6. CASE Project
  BY <1>6, ProjectKeeps
<1>7. CASE Refuse
  BY <1>7, StopKeeps DEF Refuse
<1>8. CASE Adopt
  BY <1>8, AdoptKeeps
<1>9. ASSUME NEW o \in round.todo, Intend(o) PROVE ProjectionInv'
  BY <1>9, IntendKeeps
<1>10. CASE Dispatch
  BY <1>10, DispatchKeeps
<1>11. CASE Uncertain
  BY <1>11, UncertainKeeps
<1>12. CASE DriverDies
  BY <1>12, StopKeeps DEF DriverDies
<1>13. CASE Verify
  BY <1>13, VerifyKeeps
<1>14. CASE UNCHANGED projectionVars
  BY <1>1, <1>14, ProjectionRests DEF projectionVars
<1> QED
  BY <1>2, <1>3, <1>4, <1>5, <1>6, <1>7, <1>8, <1>9, <1>10, <1>11, <1>12, <1>13, <1>14 DEF ProjectionNext

\* For any number of assignments, announcements, rows, runs and edits: however the driver
\* dies, calls are lost and a user edits, an assignment never has two rows, and the driver
\* takes nothing away that its readback had shown it.
THEOREM NothingEverTakenAway == ProjectionSpec => []NothingIsTakenAway
<1>1. ASSUME ProjectionInv PROVE NothingIsTakenAway
  <2>1. \A k \in Key : Cardinality(Exact(k)) \in {0, 1}
    BY <1>1, ExactIsOne DEF ProjectionInv
  <2> QED
    BY <1>1, <2>1 DEF ProjectionInv, NothingIsTakenAway
<1> QED
  BY <1>1, ProjectionStarts, ProjectionStep, PTL DEF ProjectionSpec

-----------------------------------------------------------------------------
(* One call of the browser (LmsAside)                                       *)

LEMMA AsideStarts == AsideInit => AsideInv
<1> SUFFICES ASSUME AsideInit PROVE AsideInv
  OBVIOUS
<1>1. /\ child.code = Running /\ child.wrote = [s \in Stream |-> <<>>]
      /\ reader = [s \in Stream |-> [read |-> 0, done |-> FALSE]]
      /\ events = <<>> /\ DOMAIN events = {}
      /\ caller.at = "drain" /\ caller.has = [s \in Stream |-> <<>>] /\ caller.open = Stream
  BY DEF AsideInit
<1>2. <<>> \in Seq(Line) /\ <<>> \in Seq(Events) /\ Len(<<>>) = 0
  OBVIOUS
<1>3. AsideTypeOK
  BY <1>2 DEF AsideInit, AsideTypeOK
<1>4. HasBeginning
  BY <1>1, <1>2 DEF HasBeginning
<1>5. NothingOverlooked
  <2>1. [i \in {} |-> 0] \in [DOMAIN events -> Nat]
    BY <1>1
  <2>2. Carries([i \in {} |-> 0])
    BY <1>1, <1>2 DEF Carries, IsData, Waiting
  <2> QED
    BY <2>1, <2>2 DEF NothingOverlooked
<1>6. EndsAreLast /\ AcceptedOK
  BY <1>1 DEF EndsAreLast, AcceptedOK
<1> QED
  BY <1>3, <1>4, <1>5, <1>6 DEF AsideInv

LEMMA AsideTypes ==
  ASSUME AsideInv
  PROVE  /\ child \in [code : {Running, Killed, 0, 1}, wrote : [Stream -> Seq(Line)]]
         /\ reader \in [Stream -> [read : Nat, done : BOOLEAN]]
         /\ events \in Seq(Events) /\ DOMAIN events = 1 .. Len(events) /\ Len(events) \in Nat
         /\ caller \in [at : {"drain", "failed", "accepted"}, has : [Stream -> Seq(Line)], open : SUBSET Stream]
         /\ \A s \in Stream : /\ child.wrote[s] \in Seq(Line) /\ Len(child.wrote[s]) \in Nat
                              /\ caller.has[s] \in Seq(Line) /\ Len(caller.has[s]) \in Nat
                              /\ reader[s].read \in Nat /\ reader[s].done \in BOOLEAN
         /\ \A i \in 1 .. Len(events) : /\ events[i] \in Events /\ events[i].stream \in Stream
                                        /\ events[i].kind \in Kinds /\ events[i].line \in Line
<1>1. /\ child \in [code : {Running, Killed, 0, 1}, wrote : [Stream -> Seq(Line)]]
      /\ reader \in [Stream -> [read : Nat, done : BOOLEAN]]
      /\ caller \in [at : {"drain", "failed", "accepted"}, has : [Stream -> Seq(Line)], open : SUBSET Stream]
      /\ events \in Seq(Events)
  BY DEF AsideInv, AsideTypeOK
<1>2. DOMAIN events = 1 .. Len(events) /\ Len(events) \in Nat /\ \A i \in 1 .. Len(events) : events[i] \in Events
  BY <1>1, LenProperties, ElementOfSeq
<1>3. \A e \in Events : e.stream \in Stream /\ e.kind \in Kinds /\ e.line \in Line
  BY DEF Events
<1>4. ASSUME NEW s \in Stream
      PROVE  child.wrote[s] \in Seq(Line) /\ caller.has[s] \in Seq(Line) /\ reader[s] \in [read : Nat, done : BOOLEAN]
  BY <1>1
<1> QED
  BY <1>1, <1>2, <1>3, <1>4

\* The child goes on or ends; the caller and the queue stay.
LEMMA ChildKeeps ==
  ASSUME AsideInv, UNCHANGED <<reader, events, caller>>,
         child' \in [code : {Running, Killed, 0, 1}, wrote : [Stream -> Seq(Line)]],
         child.code # Running => child'.code # Running,
         caller.at = "accepted" => child'.code = child.code,
         NEW t \in Stream, NEW line \in Line,
         \/ child'.wrote = child.wrote
         \/ /\ child.code = Running /\ child'.wrote = [child.wrote EXCEPT ![t] = Append(@, line)]
  PROVE  AsideInv'
<1>1. /\ \A s \in Stream : Len(child'.wrote[s]) \in Nat /\ Len(child.wrote[s]) <= Len(child'.wrote[s])
      /\ \A s \in Stream : \A n \in 1 .. Len(child.wrote[s]) : child'.wrote[s][n] = child.wrote[s][n]
      /\ child.code # Running => child'.wrote = child.wrote
  <2>1. CASE child'.wrote = child.wrote
    BY <2>1, AsideTypes
  <2>2. CASE child.code = Running /\ child'.wrote = [child.wrote EXCEPT ![t] = Append(@, line)]
    <3>1. child.wrote \in [Stream -> Seq(Line)] /\ child.wrote[t] \in Seq(Line)
      BY AsideTypes
    <3> DEFINE app == Append(child.wrote[t], line)
    <3>a. /\ app \in Seq(Line) /\ Len(app) = Len(child.wrote[t]) + 1
          /\ \A n \in 1 .. Len(child.wrote[t]) : app[n] = child.wrote[t][n]
      BY <3>1, AppendProperties
    <3> HIDE DEF app
    <3>2. PICK longer \in Seq(Line) :
            /\ longer = app /\ Len(longer) = Len(child.wrote[t]) + 1
            /\ \A n \in 1 .. Len(child.wrote[t]) : longer[n] = child.wrote[t][n]
      BY <3>a
    <3>3. \A s \in Stream : child'.wrote[s] = IF s = t THEN longer ELSE child.wrote[s]
      BY <2>2, <3>1, <3>2 DEF app
    <3>4. ASSUME NEW s \in Stream
          PROVE  /\ Len(child'.wrote[s]) \in Nat /\ Len(child.wrote[s]) <= Len(child'.wrote[s])
                 /\ \A n \in 1 .. Len(child.wrote[s]) : child'.wrote[s][n] = child.wrote[s][n]
      <4>1. Len(child.wrote[s]) \in Nat
        BY AsideTypes
      <4>2. CASE s = t
        BY <3>2, <3>3, <4>1, <4>2
      <4>3. CASE s # t
        BY <3>3, <4>1, <4>3
      <4> QED
        BY <4>2, <4>3
    <3> QED
      BY <2>2, <3>4
  <2> QED
    BY <2>1, <2>2
<1>2. AsideTypeOK'
  BY DEF AsideInv, AsideTypeOK
<1>3. HasBeginning'
  <2> SUFFICES ASSUME NEW s \in Stream
               PROVE  /\ Len(caller.has[s]) <= reader[s].read /\ reader[s].read <= Len(child'.wrote[s])
                      /\ \A n \in 1 .. Len(caller.has[s]) : caller.has[s][n] = child'.wrote[s][n]
    BY DEF HasBeginning
  <2>1. /\ Len(caller.has[s]) <= reader[s].read /\ reader[s].read <= Len(child.wrote[s])
        /\ \A n \in 1 .. Len(caller.has[s]) : caller.has[s][n] = child.wrote[s][n]
    BY DEF AsideInv, HasBeginning
  <2>2. Len(caller.has[s]) \in Nat /\ reader[s].read \in Nat /\ Len(child.wrote[s]) \in Nat
    BY AsideTypes
  <2> QED
    BY <1>1, <2>1, <2>2
<1>4. NothingOverlooked'
  <2>1. PICK nth \in [DOMAIN events -> Nat] : Carries(nth)
    BY DEF AsideInv, NothingOverlooked
  <2>2. ASSUME NEW s \in Stream, NEW n \in Waiting(s) PROVE child'.wrote[s][n] = child.wrote[s][n]
    <3>1. Len(caller.has[s]) \in Nat /\ reader[s].read \in Nat /\ Len(child.wrote[s]) \in Nat
          /\ reader[s].read <= Len(child.wrote[s])
      BY AsideTypes DEF AsideInv, HasBeginning
    <3>2. n \in 1 .. Len(child.wrote[s])
      BY <2>2, <3>1 DEF Waiting
    <3> QED
      BY <1>1, <3>2
  <2>3. Carries(nth)'
    BY <2>1, <2>2 DEF Carries, IsData, Waiting
  <2> QED
    BY <2>3 DEF NothingOverlooked
<1>5. EndsAreLast'
  <2>1. \A s \in Stream : Ended(s) => Ended(s)'
    BY <1>1 DEF Ended
  <2>2. \A i \in DOMAIN events : events[i].stream \in Stream
    BY AsideTypes
  <2> QED
    BY <2>1, <2>2 DEF AsideInv, EndsAreLast
<1>6. AcceptedOK'
  BY DEF AsideInv, AcceptedOK, Accepts, Said
<1> QED
  BY <1>2, <1>3, <1>4, <1>5, <1>6 DEF AsideInv

\* A reader queues what it has read, or how its stream ended.
LEMMA QueueKeeps ==
  ASSUME AsideInv, NEW s \in Stream, NEW kind \in Kinds, NEW line \in Line, NEW ends \in BOOLEAN,
         Queue(s, kind, line, ends), ~reader[s].done,
         kind = "data" => Unread(s) /\ line = child.wrote[s][reader[s].read + 1],
         kind = "eof" => ends /\ ~Unread(s) /\ child.code # Running
  PROVE  AsideInv'
<1> DEFINE e == [stream |-> s, kind |-> kind, line |-> line]
           more == IF kind = "data" THEN reader[s].read + 1 ELSE reader[s].read
<1>1. e \in Events /\ e.stream = s /\ e.kind = kind /\ e.line = line
  BY DEF Events
<1>2. UNCHANGED <<child, caller>> /\ events' = Append(events, e)
  BY DEF Queue
<1>3. reader \in [Stream -> [read : Nat, done : BOOLEAN]] /\ reader[s] \in [read : Nat, done : BOOLEAN]
      /\ reader[s].read \in Nat /\ events \in Seq(Events) /\ Len(events) \in Nat
      /\ DOMAIN events = 1 .. Len(events)
  BY AsideTypes
<1>4. /\ reader' \in [Stream -> [read : Nat, done : BOOLEAN]]
      /\ reader'[s].read = more /\ reader'[s].done = ends
      /\ \A t \in Stream \ {s} : reader'[t] = reader[t]
  <2>1. reader' = [reader EXCEPT ![s] = [read |-> more, done |-> ends]]
    BY <1>3 DEF Queue
  <2>2. more \in Nat
    BY <1>3
  <2> HIDE DEF more
  <2> QED
    BY <1>3, <2>1, <2>2
<1> HIDE DEF e
<1>a. PICK last \in Nat : last = Len(events) + 1
  BY <1>3
<1>5. /\ events' \in Seq(Events) /\ Len(events') = last /\ DOMAIN events' = 1 .. last
      /\ events'[last] = e /\ \A i \in 1 .. Len(events) : events'[i] = events[i]
  <2>1. /\ events' \in Seq(Events) /\ Len(events') = last
        /\ events'[last] = e /\ \A i \in 1 .. Len(events) : events'[i] = events[i]
    BY <1>1, <1>2, <1>3, <1>a, AppendProperties
  <2> QED
    BY <2>1, LenProperties
<1>6. /\ more \in Nat /\ reader[s].read <= more /\ more <= Len(child.wrote[s])
      /\ kind = "data" => more = reader[s].read + 1
      /\ kind # "data" => more = reader[s].read
  <2>1. reader[s].read <= Len(child.wrote[s]) /\ Len(child.wrote[s]) \in Nat
    BY AsideTypes DEF AsideInv, HasBeginning
  <2> QED
    BY <1>3, <2>1 DEF Unread
<1> HIDE DEF more
<1>7. last \in Nat /\ last = Len(events) + 1 /\ DOMAIN events \subseteq DOMAIN events' /\ last \notin DOMAIN events
      /\ \A i \in DOMAIN events' : i \in DOMAIN events \/ i = last
  BY <1>3, <1>5, <1>a
<1>8. AsideTypeOK'
  BY <1>2, <1>4, <1>5 DEF AsideInv, AsideTypeOK
<1>9. HasBeginning'
  <2> SUFFICES ASSUME NEW t \in Stream
               PROVE  /\ Len(caller.has[t]) <= reader'[t].read /\ reader'[t].read <= Len(child.wrote[t])
                      /\ \A n \in 1 .. Len(caller.has[t]) : caller.has[t][n] = child.wrote[t][n]
    BY <1>2 DEF HasBeginning
  <2>1. /\ Len(caller.has[t]) <= reader[t].read /\ reader[t].read <= Len(child.wrote[t])
        /\ \A n \in 1 .. Len(caller.has[t]) : caller.has[t][n] = child.wrote[t][n]
        /\ Len(caller.has[t]) \in Nat
    BY AsideTypes DEF AsideInv, HasBeginning
  <2>2. CASE t = s
    BY <1>3, <1>4, <1>6, <2>1, <2>2
  <2>3. CASE t # s
    BY <1>4, <2>1, <2>3
  <2> QED
    BY <2>2, <2>3
<1>10. NothingOverlooked'
  <2>1. PICK nth \in [DOMAIN events -> Nat] : Carries(nth)
    BY DEF AsideInv, NothingOverlooked
  <2> DEFINE new == [i \in DOMAIN events' |-> IF i = last THEN more ELSE nth[i]]
  <2>a. new \in [DOMAIN events' -> Nat] /\ new[last] = more /\ \A i \in DOMAIN events : new[i] = nth[i]
    BY <1>5, <1>6, <1>7
  <2> HIDE DEF new
  <2>2. PICK mth \in [DOMAIN events' -> Nat] : mth[last] = more /\ \A i \in DOMAIN events : mth[i] = nth[i]
    BY <2>a
  <2>3. ASSUME NEW t \in Stream, NEW i \in DOMAIN events PROVE IsData(i, t)' <=> IsData(i, t)
    BY <1>3, <1>5, <1>7 DEF IsData
  <2>4. ASSUME NEW t \in Stream PROVE IsData(last, t)' <=> kind = "data" /\ t = s
    BY <1>1, <1>5, <1>7 DEF IsData
  <2>5. ASSUME NEW t \in Stream
        PROVE  Waiting(t)' = IF kind = "data" /\ t = s THEN Waiting(t) \cup {more} ELSE Waiting(t)
    <3>1. Len(caller.has[t]) \in Nat /\ Len(caller.has[t]) <= reader[t].read /\ reader[t].read \in Nat
      BY AsideTypes DEF AsideInv, HasBeginning
    <3>2. CASE t # s
      BY <1>2, <1>4, <3>2 DEF Waiting
    <3>3. CASE t = s /\ kind # "data"
      BY <1>2, <1>4, <1>6, <3>3 DEF Waiting
    <3>4. CASE t = s /\ kind = "data"
      <4>1. Waiting(t)' = Len(caller.has[t]) + 1 .. reader[t].read + 1
        BY <1>2, <1>4, <1>6, <3>4 DEF Waiting
      <4>2. Len(caller.has[t]) + 1 .. reader[t].read + 1 = (Len(caller.has[t]) + 1 .. reader[t].read) \cup {reader[t].read + 1}
        BY <3>1
      <4> QED
        BY <1>6, <3>4, <4>1, <4>2 DEF Waiting
    <3> QED
      BY <3>2, <3>3, <3>4
  <2>6. ASSUME NEW n \in Waiting(s) PROVE n < reader[s].read + 1 /\ n \in Nat
    <3>1. Len(caller.has[s]) \in Nat
      BY AsideTypes
    <3> QED
      BY <1>3, <2>6, <3>1 DEF Waiting
  <2>7. ASSUME NEW t \in Stream
        PROVE  /\ \A i \in DOMAIN events' : IsData(i, t)' => mth[i] \in Waiting(t)' /\ events'[i].line = child'.wrote[t][mth[i]]
               /\ \A i, j \in DOMAIN events' : IsData(i, t)' /\ IsData(j, t)' /\ i < j => mth[i] < mth[j]
               /\ \A n \in Waiting(t)' : \E i \in DOMAIN events' : IsData(i, t)' /\ mth[i] = n
    <3>1. /\ \A i \in DOMAIN events : IsData(i, t) => nth[i] \in Waiting(t) /\ events[i].line = child.wrote[t][nth[i]]
          /\ \A i, j \in DOMAIN events : IsData(i, t) /\ IsData(j, t) /\ i < j => nth[i] < nth[j]
          /\ \A n \in Waiting(t) : \E i \in DOMAIN events : IsData(i, t) /\ nth[i] = n
      BY <2>1 DEF Carries
    <3>2. ASSUME NEW i \in DOMAIN events', IsData(i, t)'
          PROVE  mth[i] \in Waiting(t)' /\ events'[i].line = child'.wrote[t][mth[i]]
      <4>1. CASE i \in DOMAIN events
        BY <1>2, <1>3, <1>5, <2>2, <2>3, <2>5, <3>1, <3>2, <4>1
      <4>2. CASE i = last
        <5>1. kind = "data" /\ t = s
          BY <2>4, <3>2, <4>2
        <5> QED
          BY <1>1, <1>2, <1>5, <1>6, <2>2, <2>5, <4>2, <5>1
      <4> QED
        BY <1>7, <4>1, <4>2
    <3>3. ASSUME NEW i \in DOMAIN events', NEW j \in DOMAIN events', IsData(i, t)', IsData(j, t)', i < j
          PROVE  mth[i] < mth[j]
      <4>1. i \in DOMAIN events
        BY <1>3, <1>5, <1>7, <3>3
      <4>2. CASE j \in DOMAIN events
        BY <2>2, <2>3, <3>1, <3>3, <4>1, <4>2
      <4>3. CASE j = last
        <5>1. kind = "data" /\ t = s
          BY <2>4, <3>3, <4>3
        <5>2. nth[i] \in Waiting(s)
          BY <2>3, <3>1, <3>3, <4>1, <5>1
        <5> QED
          BY <1>6, <2>2, <2>6, <4>1, <4>3, <5>1, <5>2
      <4> QED
        BY <1>7, <4>2, <4>3
    <3>4. ASSUME NEW n \in Waiting(t)' PROVE \E i \in DOMAIN events' : IsData(i, t)' /\ mth[i] = n
      <4>1. CASE n \in Waiting(t)
        <5>1. PICK i \in DOMAIN events : IsData(i, t) /\ nth[i] = n
          BY <3>1, <4>1
        <5> QED
          BY <1>7, <2>2, <2>3, <5>1
      <4>2. CASE kind = "data" /\ t = s /\ n = more
        BY <1>5, <1>7, <2>2, <2>4, <4>2
      <4> QED
        BY <2>5, <3>4, <4>1, <4>2
    <3> QED
      BY <3>2, <3>3, <3>4
  <2>8. Carries(mth)'
    BY <2>7 DEF Carries
  <2> QED
    BY <2>2, <2>8 DEF NothingOverlooked
<1>11. EndsAreLast'
  <2>1. ASSUME NEW t \in Stream, Ended(t) PROVE Ended(t)' /\ t # s
    BY <1>2, <1>4, <2>1 DEF Ended
  <2>2. kind = "eof" => Ended(s)'
    BY <1>2, <1>3, <1>4, <1>6 DEF Ended, Unread
  <2>3. ASSUME NEW i \in DOMAIN events', events'[i].kind = "eof", NEW t, t = events'[i].stream
        PROVE  Ended(t)' /\ \A j \in DOMAIN events' : j > i => events'[j].stream # t
    <3>1. CASE i \in DOMAIN events
      <4>1. events'[i] = events[i] /\ events[i].stream = t /\ t \in Stream
        BY <1>3, <1>5, <2>3, <3>1, AsideTypes
      <4>2. Ended(t) /\ \A j \in DOMAIN events : j > i => events[j].stream # t
        BY <2>3, <3>1, <4>1 DEF AsideInv, EndsAreLast
      <4>3. Ended(t)' /\ t # s
        BY <2>1, <4>1, <4>2
      <4> QED
        BY <1>1, <1>3, <1>5, <1>7, <4>1, <4>2, <4>3
    <3>2. CASE i = last
      BY <1>1, <1>5, <1>7, <2>2, <2>3, <3>2
    <3> QED
      BY <1>7, <3>1, <3>2
  <2>4. \A t \in Stream \ caller.open : Ended(t) /\ Len(caller.has[t]) = reader[t].read
    BY DEF AsideInv, EndsAreLast
  <2>5. \A t \in Stream \ caller'.open : Ended(t)' /\ Len(caller'.has[t]) = reader'[t].read
    BY <1>2, <1>4, <2>1, <2>4
  <2> QED
    BY <2>3, <2>5 DEF EndsAreLast, Ended
<1>12. AcceptedOK'
  BY <1>2 DEF AsideInv, AcceptedOK, Accepts, Said
<1> QED
  BY <1>8, <1>9, <1>10, <1>11, <1>12 DEF AsideInv

LEMMA ChildSteps == ASSUME AsideInv, Child PROVE AsideInv'
<1>0. child \in [code : {Running, Killed, 0, 1}, wrote : [Stream -> Seq(Line)]] /\ "stdout" \in Stream /\ "other" \in Line
  BY AsideTypes DEF Stream, Line
<1>a. caller.at = "accepted" => child.code # Running
  BY DEF AsideInv, AcceptedOK, Running
<1>1. ASSUME NEW s \in Stream, NEW line \in Line, Write(s, line) PROVE AsideInv'
  <2>1. child.code = Running /\ child' = [child EXCEPT !.wrote[s] = Append(@, line)] /\ UNCHANGED <<reader, events, caller>>
    BY <1>1 DEF Write
  <2> DEFINE app == Append(child.wrote[s], line)
  <2>2. app \in Seq(Line)
    BY AsideTypes, AppendProperties
  <2>3. child' = [child EXCEPT !.wrote[s] = app]
    BY <2>1
  <2> HIDE DEF app
  <2>4. /\ child' \in [code : {Running, Killed, 0, 1}, wrote : [Stream -> Seq(Line)]]
        /\ child'.code = child.code /\ child'.wrote = [child.wrote EXCEPT ![s] = app]
    BY <1>0, <2>2, <2>3
  <2>5. child'.wrote = [child.wrote EXCEPT ![s] = Append(@, line)]
    BY <2>4 DEF app
  <2> QED
    BY <2>1, <2>4, <2>5, ChildKeeps
<1>2. ASSUME NEW code \in {0, 1}, Exit(code) PROVE AsideInv'
  <2>1. /\ child' \in [code : {Running, Killed, 0, 1}, wrote : [Stream -> Seq(Line)]]
        /\ child'.wrote = child.wrote /\ child.code = Running /\ UNCHANGED <<reader, events, caller>>
    BY <1>0, <1>2 DEF Exit
  <2> QED
    BY <1>0, <1>a, <2>1, ChildKeeps
<1> QED
  BY <1>1, <1>2 DEF Child

LEMMA ReaderSteps == ASSUME AsideInv, NEW s \in Stream, Reads(s) PROVE AsideInv'
<1>1. "data" \in Kinds /\ "eof" \in Kinds /\ "overflow" \in Kinds /\ "error" \in Kinds /\ "other" \in Line
  BY DEF Kinds, Line
<1>2. CASE ReadData(s)
  <2>1. child.wrote[s] \in Seq(Line) /\ reader[s].read \in Nat /\ reader[s].read < Len(child.wrote[s])
    BY <1>2, AsideTypes DEF ReadData, Unread
  <2>2. reader[s].read + 1 \in 1 .. Len(child.wrote[s])
    BY <2>1, LenProperties
  <2>3. child.wrote[s][reader[s].read + 1] \in Line
    BY <2>1, <2>2, ElementOfSeq
  <2> QED
    BY <1>1, <1>2, <2>3, QueueKeeps DEF ReadData
<1>3. CASE ReadOverflow(s)
  BY <1>1, <1>3, QueueKeeps DEF ReadOverflow
<1>4. CASE ReadEnd(s)
  BY <1>1, <1>4, QueueKeeps DEF ReadEnd
<1>5. CASE ReadFails(s)
  BY <1>1, <1>5, QueueKeeps DEF ReadFails, Failure
<1> QED
  BY <1>2, <1>3, <1>4, <1>5 DEF Reads

LEMMA KillIs ==
  ASSUME AsideInv, KillAndReap
  PROVE  /\ child' \in [code : {Running, Killed, 0, 1}, wrote : [Stream -> Seq(Line)]]
         /\ child'.wrote = child.wrote /\ child'.code # Running
         /\ caller' \in [at : {"drain", "failed", "accepted"}, has : [Stream -> Seq(Line)], open : SUBSET Stream]
         /\ caller'.has = caller.has /\ caller'.open = caller.open /\ caller'.at = "failed"
<1>1. child \in [code : {Running, Killed, 0, 1}, wrote : [Stream -> Seq(Line)]]
      /\ caller \in [at : {"drain", "failed", "accepted"}, has : [Stream -> Seq(Line)], open : SUBSET Stream]
  BY AsideTypes
<1>2. /\ child' \in [code : {Running, Killed, 0, 1}, wrote : [Stream -> Seq(Line)]]
      /\ child'.wrote = child.wrote /\ child'.code # Running
  <2>1. CASE child.code = Running
    <3>1. child' = [child EXCEPT !.code = Killed] /\ Killed # Running
      BY <2>1 DEF KillAndReap, Killed, Running
    <3> QED
      BY <1>1, <3>1
  <2>2. CASE child.code # Running
    BY <1>1, <2>2 DEF KillAndReap
  <2> QED
    BY <2>1, <2>2
<1> QED
  BY <1>1, <1>2 DEF KillAndReap, CallerGoes

\* The caller gives up; what it leaves in the queue is no longer taken.
LEMMA KillKeeps == ASSUME AsideInv, KillAndReap, UNCHANGED <<reader, events>> PROVE AsideInv'
<1>1. /\ child' \in [code : {Running, Killed, 0, 1}, wrote : [Stream -> Seq(Line)]]
      /\ child'.wrote = child.wrote /\ child'.code # Running
      /\ caller' \in [at : {"drain", "failed", "accepted"}, has : [Stream -> Seq(Line)], open : SUBSET Stream]
      /\ caller'.has = caller.has /\ caller'.open = caller.open /\ caller'.at = "failed"
  BY KillIs
<1>2. AsideTypeOK'
  BY <1>1 DEF AsideInv, AsideTypeOK
<1>3. HasBeginning'
  BY <1>1 DEF AsideInv, HasBeginning
<1>4. NothingOverlooked'
  <2>1. PICK nth \in [DOMAIN events -> Nat] : Carries(nth)
    BY DEF AsideInv, NothingOverlooked
  <2>2. Carries(nth)'
    BY <1>1, <2>1 DEF Carries, IsData, Waiting
  <2> QED
    BY <2>2 DEF NothingOverlooked
<1>5. EndsAreLast'
  BY <1>1 DEF AsideInv, EndsAreLast, Ended
<1>6. AcceptedOK'
  BY <1>1 DEF AcceptedOK
<1> QED
  BY <1>2, <1>3, <1>4, <1>5, <1>6 DEF AsideInv

\* The caller takes the head of the queue: a line, which is the next one of its stream, the
\* end of a stream, or a failure.
TakesHead(s, line) ==
  /\ events # <<>> /\ events' = Tail(events) /\ reader' = reader
  /\ s = Head(events).stream /\ line = Head(events).line
  /\ child' \in [code : {Running, Killed, 0, 1}, wrote : [Stream -> Seq(Line)]] /\ child'.wrote = child.wrote
  /\ child.code # Running => child'.code # Running
  /\ caller' \in [at : {"drain", "failed", "accepted"}, has : [Stream -> Seq(Line)], open : SUBSET Stream]
  /\ caller'.at # "accepted"
  /\ IF Head(events).kind = "data" THEN caller'.has = [caller.has EXCEPT ![s] = Append(@, line)]
                                   ELSE caller'.has = caller.has
  /\ \/ caller'.open = caller.open
     \/ Head(events).kind = "eof" /\ caller'.open = caller.open \ {s}

LEMMA HeadTaken ==
  ASSUME AsideInv, NEW s \in Stream, NEW line \in Line, TakesHead(s, line)
  PROVE  AsideInv'
<1> DEFINE data == Head(events).kind = "data"
<1> HIDE DEF data
<1>queue. events # <<>> /\ events' = Tail(events) /\ s = Head(events).stream /\ line = Head(events).line
  BY DEF TakesHead
<1>same. reader' = reader /\ child'.wrote = child.wrote /\ (child.code # Running => child'.code # Running)
  BY DEF TakesHead
<1>1. /\ events \in Seq(Events) /\ Len(events) \in Nat /\ Len(events) >= 1 /\ DOMAIN events = 1 .. Len(events)
      /\ Head(events) = events[1] /\ 1 \in DOMAIN events
  BY <1>queue, AsideTypes, EmptySeq
<1>2. /\ events' \in Seq(Events) /\ Len(events') = Len(events) - 1 /\ DOMAIN events' = 1 .. Len(events) - 1
      /\ \A i \in 1 .. Len(events) - 1 : i + 1 \in DOMAIN events /\ events'[i] = events[i + 1]
  <2>1. /\ events' \in Seq(Events) /\ Len(events') = Len(events) - 1
        /\ \A i \in 1 .. Len(events') : events'[i] = events[i + 1]
    BY <1>queue, <1>1, HeadTailProperties
  <2> QED
    BY <1>1, <2>1, LenProperties
<1>3. ASSUME NEW t \in Stream
      PROVE  /\ Len(caller.has[t]) \in Nat /\ reader[t].read \in Nat /\ Len(child.wrote[t]) \in Nat
             /\ caller.has[t] \in Seq(Line)
             /\ Len(caller.has[t]) <= reader[t].read /\ reader[t].read <= Len(child.wrote[t])
             /\ \A n \in 1 .. Len(caller.has[t]) : caller.has[t][n] = child.wrote[t][n]
  BY AsideTypes DEF AsideInv, HasBeginning
<1>4. PICK nth \in [DOMAIN events -> Nat] : Carries(nth)
  BY DEF AsideInv, NothingOverlooked
<1>5. \A t \in Stream :
        /\ \A i \in DOMAIN events : IsData(i, t) => nth[i] \in Waiting(t) /\ events[i].line = child.wrote[t][nth[i]]
        /\ \A i, j \in DOMAIN events : IsData(i, t) /\ IsData(j, t) /\ i < j => nth[i] < nth[j]
        /\ \A n \in Waiting(t) : \E i \in DOMAIN events : IsData(i, t) /\ nth[i] = n
  BY <1>4 DEF Carries
\* The first line of a stream in the queue is the next one.
<1>6. data => IsData(1, s) /\ Len(caller.has[s]) + 1 <= reader[s].read /\ nth[1] = Len(caller.has[s]) + 1
              /\ line = child.wrote[s][Len(caller.has[s]) + 1]
  <2> SUFFICES ASSUME data PROVE IsData(1, s) /\ Len(caller.has[s]) + 1 <= reader[s].read
                                 /\ nth[1] = Len(caller.has[s]) + 1 /\ line = child.wrote[s][Len(caller.has[s]) + 1]
    OBVIOUS
  <2>1. IsData(1, s)
    BY <1>queue, <1>1 DEF IsData, data
  <2>2. nth[1] \in Waiting(s) /\ events[1].line = child.wrote[s][nth[1]]
    BY <1>1, <1>5, <2>1
  <2>3. nth[1] \in Nat /\ Len(caller.has[s]) + 1 <= nth[1] /\ nth[1] <= reader[s].read
    BY <1>3, <2>2 DEF Waiting
  <2>4. Len(caller.has[s]) + 1 \in Waiting(s)
    BY <1>3, <2>3 DEF Waiting
  <2>5. PICK i \in DOMAIN events : IsData(i, s) /\ nth[i] = Len(caller.has[s]) + 1
    BY <1>5, <2>4
  <2>6. i = 1
    <3>1. CASE i > 1
      <4>1. nth[1] < nth[i]
        BY <1>1, <1>5, <2>1, <2>5, <3>1
      <4> QED
        BY <1>3, <2>3, <2>5, <4>1
    <3> QED
      BY <1>1, <2>5, <3>1
  <2> QED
    BY <1>queue, <1>1, <2>1, <2>2, <2>3, <2>5, <2>6
<1>7. /\ \A t \in Stream : t # s => caller'.has[t] = caller.has[t]
      /\ ~data => caller'.has = caller.has
      /\ data => /\ Len(caller'.has[s]) = Len(caller.has[s]) + 1
                 /\ caller'.has[s][Len(caller.has[s]) + 1] = line
                 /\ \A n \in 1 .. Len(caller.has[s]) : caller'.has[s][n] = caller.has[s][n]
  <2>1. CASE ~data
    BY <2>1 DEF data, TakesHead
  <2>2. CASE data
    <3> DEFINE app == Append(caller.has[s], line)
    <3>1. /\ Len(app) = Len(caller.has[s]) + 1 /\ app[Len(caller.has[s]) + 1] = line
          /\ \A n \in 1 .. Len(caller.has[s]) : app[n] = caller.has[s][n]
      BY <1>3, AppendProperties
    <3>2. caller'.has = [caller.has EXCEPT ![s] = app]
      BY <2>2 DEF data, TakesHead
    <3>3. caller.has \in [Stream -> Seq(Line)]
      BY AsideTypes
    <3> HIDE DEF app
    <3>4. caller'.has[s] = app /\ \A t \in Stream : t # s => caller'.has[t] = caller.has[t]
      BY <3>2, <3>3
    <3> QED
      BY <2>2, <3>1, <3>4
  <2> QED
    BY <2>1, <2>2
<1>8. AsideTypeOK'
  BY <1>2, <1>same DEF AsideInv, AsideTypeOK, TakesHead
<1>9. HasBeginning'
  <2> SUFFICES ASSUME NEW t \in Stream
               PROVE  /\ Len(caller'.has[t]) <= reader[t].read /\ reader[t].read <= Len(child.wrote[t])
                      /\ \A n \in 1 .. Len(caller'.has[t]) : caller'.has[t][n] = child.wrote[t][n]
    BY <1>same DEF HasBeginning
  <2>1. CASE ~data \/ t # s
    <3>1. caller'.has[t] = caller.has[t]
      BY <1>7, <2>1
    <3> QED
      BY <1>3, <3>1
  <2>2. CASE data /\ t = s
    <3>1. Len(caller'.has[t]) = Len(caller.has[t]) + 1 /\ Len(caller.has[t]) + 1 <= reader[t].read
      BY <1>6, <1>7, <2>2
    <3>2. ASSUME NEW n \in 1 .. Len(caller'.has[t]) PROVE caller'.has[t][n] = child.wrote[t][n]
      <4>1. n \in 1 .. Len(caller.has[t]) \/ n = Len(caller.has[t]) + 1
        BY <1>3, <3>1
      <4> QED
        BY <1>3, <1>6, <1>7, <2>2, <4>1
    <3> QED
      BY <1>3, <3>1, <3>2
  <2> QED
    BY <2>1, <2>2
<1>10. NothingOverlooked'
  <2> DEFINE new == [i \in DOMAIN events' |-> nth[i + 1]]
  <2>1. new \in [DOMAIN events' -> Nat] /\ \A i \in DOMAIN events' : new[i] = nth[i + 1]
    BY <1>1, <1>2
  <2> HIDE DEF new
  <2>2. PICK mth \in [DOMAIN events' -> Nat] : \A i \in DOMAIN events' : mth[i] = nth[i + 1]
    BY <2>1
  <2>3. ASSUME NEW t \in Stream, NEW i \in DOMAIN events' PROVE IsData(i, t)' <=> IsData(i + 1, t)
    BY <1>1, <1>2 DEF IsData
  <2>4. ASSUME NEW t \in Stream
        PROVE  Waiting(t)' = IF data /\ t = s THEN Waiting(t) \ {nth[1]} ELSE Waiting(t)
    <3>1. CASE ~(data /\ t = s)
      BY <1>same, <1>7, <3>1 DEF Waiting
    <3>2. CASE data /\ t = s
      <4>1. Waiting(t)' = Len(caller.has[t]) + 2 .. reader[t].read
        <5>1. Len(caller'.has[t]) = Len(caller.has[t]) + 1 /\ reader'[t].read = reader[t].read
          BY <1>same, <1>7, <3>2
        <5>2. Len(caller'.has[t]) + 1 = Len(caller.has[t]) + 2
          BY <1>3, <5>1
        <5> QED
          BY <5>1, <5>2 DEF Waiting
      <4>2. Len(caller.has[t]) + 2 .. reader[t].read = (Len(caller.has[t]) + 1 .. reader[t].read) \ {Len(caller.has[t]) + 1}
        BY <1>3
      <4> QED
        BY <1>6, <3>2, <4>1, <4>2 DEF Waiting
    <3> QED
      BY <3>1, <3>2
  <2>5. ~data => \A t \in Stream : ~IsData(1, t)
    BY <1>queue, <1>1 DEF IsData, data
  <2>6. ASSUME NEW t \in Stream
        PROVE  /\ \A i \in DOMAIN events' : IsData(i, t)' => mth[i] \in Waiting(t)' /\ events'[i].line = child'.wrote[t][mth[i]]
               /\ \A i, j \in DOMAIN events' : IsData(i, t)' /\ IsData(j, t)' /\ i < j => mth[i] < mth[j]
               /\ \A n \in Waiting(t)' : \E i \in DOMAIN events' : IsData(i, t)' /\ mth[i] = n
    <3>1. ASSUME NEW i \in DOMAIN events', IsData(i, t)'
          PROVE  mth[i] \in Waiting(t)' /\ events'[i].line = child'.wrote[t][mth[i]]
      <4>1. IsData(i + 1, t) /\ i + 1 \in DOMAIN events /\ i + 1 > 1 /\ events'[i] = events[i + 1]
        BY <1>1, <1>2, <2>3, <3>1
      <4>2. nth[i + 1] \in Waiting(t) /\ events[i + 1].line = child.wrote[t][nth[i + 1]]
        BY <1>5, <4>1
      <4>3. data /\ t = s => nth[1] < nth[i + 1] /\ nth[1] \in Nat /\ nth[i + 1] \in Nat
        BY <1>1, <1>5, <1>6, <4>1
      <4> QED
        BY <1>same, <2>2, <2>4, <4>1, <4>2, <4>3
    <3>2. ASSUME NEW i \in DOMAIN events', NEW j \in DOMAIN events', IsData(i, t)', IsData(j, t)', i < j
          PROVE  mth[i] < mth[j]
      <4>1. IsData(i + 1, t) /\ IsData(j + 1, t)
        BY <2>3, <3>2
      <4>2. i + 1 \in DOMAIN events /\ j + 1 \in DOMAIN events /\ i + 1 < j + 1
        BY <1>1, <1>2, <3>2
      <4> QED
        BY <1>5, <2>2, <4>1, <4>2
    <3>3. ASSUME NEW n \in Waiting(t)' PROVE \E i \in DOMAIN events' : IsData(i, t)' /\ mth[i] = n
      <4>1. n \in Waiting(t) /\ (data /\ t = s => n # nth[1])
        BY <2>4, <3>3
      <4>2. PICK i \in DOMAIN events : IsData(i, t) /\ nth[i] = n
        BY <1>5, <4>1
      <4>3. i # 1
        <5>1. CASE ~data
          BY <2>5, <4>2, <5>1
        <5>2. CASE data
          BY <1>1, <1>6, <4>1, <4>2, <5>2 DEF IsData
        <5> QED
          BY <5>1, <5>2
      <4>4. i - 1 \in DOMAIN events' /\ (i - 1) + 1 = i
        BY <1>1, <1>2, <4>3
      <4> QED
        BY <2>2, <2>3, <4>2, <4>4
    <3> QED
      BY <3>1, <3>2, <3>3
  <2>7. Carries(mth)'
    BY <2>6 DEF Carries
  <2> QED
    BY <2>7 DEF NothingOverlooked
<1>11. EndsAreLast'
  <2>1. ASSUME NEW t \in Stream, Ended(t) PROVE Ended(t)'
    BY <1>same, <2>1 DEF Ended
  <2>2. ASSUME NEW i \in DOMAIN events', events'[i].kind = "eof", NEW t, t = events'[i].stream
        PROVE  Ended(t)' /\ \A j \in DOMAIN events' : j > i => events'[j].stream # t
    <3>1. i + 1 \in DOMAIN events /\ events'[i] = events[i + 1] /\ t \in Stream
      BY <1>1, <1>2, <2>2, AsideTypes
    <3>2. Ended(t) /\ \A j \in DOMAIN events : j > i + 1 => events[j].stream # t
      BY <2>2, <3>1 DEF AsideInv, EndsAreLast
    <3>3. ASSUME NEW j \in DOMAIN events', j > i PROVE events'[j].stream # t
      <4>1. j + 1 \in DOMAIN events /\ events'[j] = events[j + 1]
        BY <1>2
      <4>2. j + 1 > i + 1
        BY <1>1, <1>2, <3>3
      <4> QED
        BY <3>2, <4>1, <4>2
    <3>4. Ended(t)'
      BY <2>1, <3>1, <3>2
    <3>5. \A j \in DOMAIN events' : j > i => events'[j].stream # t
      BY <3>3
    <3> QED
      BY <3>4, <3>5
  <2>3. ASSUME NEW t \in Stream, t \notin caller'.open PROVE Ended(t)' /\ Len(caller'.has[t]) = reader'[t].read
    <3>1. CASE t \notin caller.open
      <4>1. Ended(t) /\ Len(caller.has[t]) = reader[t].read
        BY <3>1 DEF AsideInv, EndsAreLast
      <4>2. ~(data /\ t = s)
        BY <1>3, <1>6, <4>1
      <4> QED
        BY <1>same, <1>7, <2>1, <4>1, <4>2
    <3>2. CASE t \in caller.open
      <4>1. t = s /\ Head(events).kind = "eof"
        BY <2>3, <3>2 DEF TakesHead
      <4>2. Ended(s) /\ \A j \in DOMAIN events : j > 1 => events[j].stream # s
        BY <1>queue, <1>1, <4>1 DEF AsideInv, EndsAreLast
      <4>3. ~data
        BY <4>1 DEF data
      <4>4. Waiting(s) = {}
        <5>1. ASSUME NEW n \in Waiting(s) PROVE FALSE
          <6>1. PICK i \in DOMAIN events : IsData(i, s)
            BY <1>5, <5>1
          <6> QED
            BY <1>queue, <1>1, <4>1, <4>2, <6>1 DEF IsData
        <5> QED
          BY <5>1
      <4>5. Len(caller.has[s]) = reader[s].read
        <5>1. Len(caller.has[s]) + 1 \notin Waiting(s)
          BY <4>4
        <5> QED
          BY <1>3, <5>1 DEF Waiting
      <4> QED
        BY <1>same, <1>7, <2>1, <4>1, <4>2, <4>3, <4>5
    <3> QED
      BY <3>1, <3>2
  <2> QED
    BY <2>2, <2>3 DEF EndsAreLast
<1>12. AcceptedOK'
  BY DEF AcceptedOK, TakesHead
<1> QED
  BY <1>8, <1>9, <1>10, <1>11, <1>12 DEF AsideInv

LEMMA TakeKeeps == ASSUME AsideInv, Take PROVE AsideInv'
<1> DEFINE e == Head(events)
<1>1. events # <<>> /\ events' = Tail(events) /\ reader' = reader /\ caller.at = "drain"
  BY DEF Take
<1>2. e \in Events /\ e.stream \in Stream /\ e.line \in Line
  <2>1. e \in Events
    BY <1>1, AsideTypes, HeadTailProperties
  <2> QED
    BY <2>1 DEF Events
<1>3. child \in [code : {Running, Killed, 0, 1}, wrote : [Stream -> Seq(Line)]]
      /\ caller \in [at : {"drain", "failed", "accepted"}, has : [Stream -> Seq(Line)], open : SUBSET Stream]
  BY AsideTypes
<1>4. CASE e.kind = "data" /\ caller' = [caller EXCEPT !.has[e.stream] = Append(@, e.line)] /\ UNCHANGED child
  <2> DEFINE app == Append(caller.has[e.stream], e.line)
  <2>1. app \in Seq(Line)
    BY <1>2, AsideTypes, AppendProperties
  <2>2. caller' = [caller EXCEPT !.has[e.stream] = app]
    BY <1>4
  <2> HIDE DEF app
  <2>3. /\ caller' \in [at : {"drain", "failed", "accepted"}, has : [Stream -> Seq(Line)], open : SUBSET Stream]
        /\ caller'.has = [caller.has EXCEPT ![e.stream] = app] /\ caller'.open = caller.open /\ caller'.at = caller.at
    BY <1>2, <1>3, <2>1, <2>2
  <2>4. caller'.has = [caller.has EXCEPT ![e.stream] = Append(@, e.line)]
    BY <2>3 DEF app
  <2>5. TakesHead(e.stream, e.line)
    BY <1>1, <1>2, <1>3, <1>4, <2>3, <2>4 DEF TakesHead
  <2> QED
    BY <1>2, <2>5, HeadTaken
<1>5. CASE e.kind = "eof" /\ caller' = [caller EXCEPT !.open = @ \ {e.stream}] /\ UNCHANGED child
  <2>1. /\ caller' \in [at : {"drain", "failed", "accepted"}, has : [Stream -> Seq(Line)], open : SUBSET Stream]
        /\ caller'.has = caller.has /\ caller'.open = caller.open \ {e.stream} /\ caller'.at = caller.at
    BY <1>3, <1>5
  <2>5. TakesHead(e.stream, e.line)
    BY <1>1, <1>2, <1>3, <1>5, <2>1 DEF TakesHead
  <2> QED
    BY <1>2, <2>5, HeadTaken
<1>6. CASE e.kind \in {"overflow", "error"} /\ KillAndReap
  <2>1. /\ child' \in [code : {Running, Killed, 0, 1}, wrote : [Stream -> Seq(Line)]]
        /\ child'.wrote = child.wrote /\ child'.code # Running
        /\ caller' \in [at : {"drain", "failed", "accepted"}, has : [Stream -> Seq(Line)], open : SUBSET Stream]
        /\ caller'.has = caller.has /\ caller'.open = caller.open /\ caller'.at = "failed"
    BY <1>6, KillIs
  <2>5. TakesHead(e.stream, e.line)
    BY <1>1, <1>2, <1>6, <2>1 DEF TakesHead
  <2> QED
    BY <1>2, <2>5, HeadTaken
<1> QED
  BY <1>4, <1>5, <1>6 DEF Take

LEMMA FinishKeeps == ASSUME AsideInv, Finish PROVE AsideInv'
<1>1. UNCHANGED <<child, reader, events>> /\ caller.open = {}
      /\ caller' = [caller EXCEPT !.at = IF child.code = 0 /\ Accepts THEN "accepted" ELSE "failed"]
  BY DEF Finish, CallerGoes
<1>2. caller \in [at : {"drain", "failed", "accepted"}, has : [Stream -> Seq(Line)], open : SUBSET Stream]
  BY AsideTypes
<1>3. /\ caller' \in [at : {"drain", "failed", "accepted"}, has : [Stream -> Seq(Line)], open : SUBSET Stream]
      /\ caller'.has = caller.has /\ caller'.open = caller.open
      /\ caller'.at = "accepted" => child.code = 0 /\ Accepts
  BY <1>1, <1>2
<1>4. AsideTypeOK'
  BY <1>1, <1>3 DEF AsideInv, AsideTypeOK
<1>7. HasBeginning'
  BY <1>1, <1>3 DEF AsideInv, HasBeginning
<1>8. EndsAreLast'
  BY <1>1, <1>3 DEF AsideInv, EndsAreLast, Ended
<1>5. NothingOverlooked'
  <2>1. PICK nth \in [DOMAIN events -> Nat] : Carries(nth)
    BY DEF AsideInv, NothingOverlooked
  <2>2. Carries(nth)'
    BY <1>1, <1>3, <2>1 DEF Carries, IsData, Waiting
  <2> QED
    BY <1>1, <2>2 DEF NothingOverlooked
<1>6. AcceptedOK'
  BY ZenonT(40), <1>1, <1>3 DEF AcceptedOK, Accepts, Said
<1> QED
  BY <1>4, <1>5, <1>6, <1>7, <1>8 DEF AsideInv

LEMMA AsideStep == AsideInv /\ [AsideNext]_asideVars => AsideInv'
<1> SUFFICES ASSUME AsideInv, [AsideNext]_asideVars PROVE AsideInv'
  OBVIOUS
<1>1. ASSUME UNCHANGED <<child, reader, events, caller>> PROVE AsideInv'
  <2>1. PICK nth \in [DOMAIN events -> Nat] : Carries(nth)
    BY DEF AsideInv, NothingOverlooked
  <2>2. Carries(nth)'
    BY <1>1, <2>1 DEF Carries, IsData, Waiting
  <2>3. NothingOverlooked'
    BY <1>1, <2>2 DEF NothingOverlooked
  <2>4. AsideTypeOK'
    BY <1>1 DEF AsideInv, AsideTypeOK
  <2>5. HasBeginning'
    BY <1>1 DEF AsideInv, HasBeginning
  <2>6. EndsAreLast'
    BY <1>1 DEF AsideInv, EndsAreLast, Ended
  <2>7. AcceptedOK'
    BY <1>1 DEF AsideInv, AcceptedOK, Accepts, Said
  <2> QED
    BY <2>3, <2>4, <2>5, <2>6, <2>7 DEF AsideInv
<1>2. CASE Child
  BY <1>2, ChildSteps
<1>3. CASE Deadline
  BY <1>1, <1>3 DEF Deadline
<1>4. ASSUME NEW s \in Stream, Reads(s) PROVE AsideInv'
  BY <1>4, ReaderSteps
<1>5. CASE TimeOut
  BY <1>5, KillKeeps DEF TimeOut
<1>6. CASE Take
  BY <1>6, TakeKeeps
<1>7. CASE Finish
  BY <1>7, FinishKeeps
<1>8. CASE UNCHANGED asideVars
  BY <1>1, <1>8 DEF asideVars
<1> QED
  BY <1>2, <1>3, <1>4, <1>5, <1>6, <1>7, <1>8 DEF AsideNext

LEMMA AcceptedIsAll == AsideInv => AcceptedIsAllItSaid
<1> SUFFICES ASSUME AsideInv, caller.at = "accepted"
             PROVE  /\ child.code = 0
                    /\ \A s \in Stream : caller.has[s] = child.wrote[s]
                    /\ \E n \in DOMAIN child.wrote["stdout"] :
                         \A m \in DOMAIN child.wrote["stdout"] : child.wrote["stdout"][m] # "other" <=> m = n
  BY DEF AcceptedIsAllItSaid
<1>1. child.code = 0 /\ caller.open = {} /\ Accepts
  BY DEF AsideInv, AcceptedOK
<1>2. ASSUME NEW s \in Stream PROVE caller.has[s] = child.wrote[s]
  <2>1. Len(caller.has[s]) = Len(child.wrote[s])
    BY <1>1 DEF AsideInv, EndsAreLast, Ended
  <2>2. \A n \in 1 .. Len(caller.has[s]) : caller.has[s][n] = child.wrote[s][n]
    BY DEF AsideInv, HasBeginning
  <2> QED
    BY <2>1, <2>2, AsideTypes, SeqEqual
<1>3. caller.has["stdout"] = child.wrote["stdout"] /\ child.wrote["stdout"] \in Seq(Line)
  BY <1>2, AsideTypes DEF Stream
<1>4. \A m \in DOMAIN child.wrote["stdout"] : child.wrote["stdout"][m] \in Line
  BY <1>3, LenProperties, ElementOfSeq
<1>5. PICK n \in Said({"frame"}) : Said({"frame", "bad frame"}) = {n}
  BY <1>1 DEF Accepts
<1>6. \A m \in DOMAIN child.wrote["stdout"] : child.wrote["stdout"][m] # "other" <=> m = n
  BY ZenonT(40), <1>1, <1>3, <1>4, <1>5 DEF Said, Accepts, Line
<1>7. n \in DOMAIN child.wrote["stdout"]
  BY <1>3, <1>5 DEF Said
<1> QED
  BY <1>1, <1>2, <1>6, <1>7

-----------------------------------------------------------------------------
(* Collecting from Canvas: lists (LmsCollector)                              *)

\* What lists are: an entry inserted or removed, lists joined, a set arranged.
LEMMA InsertIs ==
  ASSUME NEW S, NEW s \in Seq(S), NEW e \in S, NEW i \in 1 .. Len(s) + 1
  PROVE  /\ InsertAt(s, i, e) \in Seq(S)
         /\ Len(InsertAt(s, i, e)) = Len(s) + 1
         /\ \A p \in 1 .. Len(s) : InsertAt(s, i, e)[IF p < i THEN p ELSE p + 1] = s[p]
<1> DEFINE a == SubSeq(s, 1, i - 1)
           b == SubSeq(s, i, Len(s))
<1>0. Len(s) \in Nat /\ i \in Nat /\ \A p \in 1 .. Len(s) : s[p] \in S
  BY LenProperties, ElementOfSeq
<1>1. a \in Seq(S) /\ Len(a) = i - 1 /\ \A p \in 1 .. i - 1 : a[p] = s[p]
  <2>1. \A p \in 1 .. i - 1 : s[p] \in S
    BY <1>0
  <2>2. a \in Seq(S) /\ Len(a) = (IF 1 <= i - 1 THEN i - 1 - 1 + 1 ELSE 0) /\ \A p \in 1 .. i - 1 - 1 + 1 : a[p] = s[1 + p - 1]
    BY <1>0, <2>1, SubSeqProperties
  <2> QED
    BY <1>0, <2>2
<1>2. b \in Seq(S) /\ Len(b) = Len(s) + 1 - i /\ \A p \in 1 .. Len(s) + 1 - i : b[p] = s[i + p - 1]
  <2>1. \A p \in i .. Len(s) : s[p] \in S
    BY <1>0
  <2>2. b \in Seq(S) /\ Len(b) = (IF i <= Len(s) THEN Len(s) - i + 1 ELSE 0) /\ \A p \in 1 .. Len(s) - i + 1 : b[p] = s[i + p - 1]
    BY <1>0, <2>1, SubSeqProperties
  <2> QED
    BY <1>0, <2>2
<1>3. InsertAt(s, i, e) = a \o <<e>> \o b
  BY DEF InsertAt
<1> HIDE DEF a, b
<1>4. PICK c \in Seq(S) : c = a \o <<e>> /\ Len(c) = i /\ (\A p \in 1 .. i - 1 : c[p] = a[p])
  <2>1. <<e>> \in Seq(S) /\ Len(<<e>>) = 1
    OBVIOUS
  <2>2. a \o <<e>> \in Seq(S) /\ Len(a \o <<e>>) = Len(a) + Len(<<e>>)
        /\ \A p \in 1 .. Len(a) + Len(<<e>>) : (a \o <<e>>)[p] = IF p <= Len(a) THEN a[p] ELSE <<e>>[p - Len(a)]
    BY <1>1, <2>1, ConcatProperties
  <2>3. Len(a \o <<e>>) = i
    BY <1>0, <1>1, <2>1, <2>2
  <2>4. ASSUME NEW p \in 1 .. i - 1 PROVE (a \o <<e>>)[p] = a[p]
    BY <1>0, <1>1, <2>1, <2>2
  <2> QED
    BY <2>2, <2>3, <2>4
<1>5. /\ c \o b \in Seq(S)
      /\ Len(c \o b) = Len(c) + Len(b)
      /\ \A p \in 1 .. Len(c) + Len(b) : (c \o b)[p] = IF p <= Len(c) THEN c[p] ELSE b[p - Len(c)]
  <2>1. c \in Seq(S) /\ b \in Seq(S)
    BY <1>2
  <2> QED
    BY <2>1, ConcatProperties, Zenon
<1>6. ASSUME NEW p \in 1 .. Len(s) PROVE (c \o b)[IF p < i THEN p ELSE p + 1] = s[p]
  <2>1. CASE p < i
    <3>1. p \in 1 .. Len(c) + Len(b) /\ p <= Len(c) /\ p \in 1 .. i - 1
      BY <1>0, <1>2, <1>4, <2>1
    <3>2. (c \o b)[p] = c[p] /\ c[p] = a[p] /\ a[p] = s[p]
      BY <1>1, <1>4, <1>5, <3>1
    <3> QED
      BY <2>1, <3>2
  <2>2. CASE ~(p < i)
    <3>1. p + 1 \in 1 .. Len(c) + Len(b) /\ ~(p + 1 <= Len(c)) /\ p + 1 - i \in 1 .. Len(s) + 1 - i /\ i + (p + 1 - i) - 1 = p
      BY <1>0, <1>2, <1>4, <2>2
    <3>2. (c \o b)[p + 1] = b[p + 1 - i] /\ b[p + 1 - i] = s[i + (p + 1 - i) - 1]
      BY <1>2, <1>4, <1>5, <3>1
    <3> QED
      BY <2>2, <3>1, <3>2
  <2> QED
    BY <2>1, <2>2
<1>7. Len(c \o b) = Len(s) + 1
  BY <1>0, <1>2, <1>4, <1>5
<1> QED
  BY <1>3, <1>4, <1>5, <1>6, <1>7

LEMMA RemoveIs ==
  ASSUME NEW S, NEW s \in Seq(S), NEW i \in 1 .. Len(s)
  PROVE  RemoveAt(s, i) \in Seq(S)
<1>1. Len(s) \in Nat /\ \A p \in 1 .. Len(s) : s[p] \in S
  BY LenProperties, ElementOfSeq
<1>2. SubSeq(s, 1, i - 1) \in Seq(S)
  <2>1. \A p \in 1 .. i - 1 : s[p] \in S
    BY <1>1
  <2> QED
    BY <1>1, <2>1, SubSeqProperties
<1>3. SubSeq(s, i + 1, Len(s)) \in Seq(S)
  <2>1. \A p \in i + 1 .. Len(s) : s[p] \in S
    BY <1>1
  <2> QED
    BY <1>1, <2>1, SubSeqProperties
<1> QED
  BY <1>2, <1>3, ConcatProperties DEF RemoveAt

LEMMA ConcatRange ==
  ASSUME NEW S, NEW s \in Seq(S), NEW t \in Seq(S)
  PROVE  s \o t \in Seq(S) /\ Range(s) \subseteq Range(s \o t) /\ Range(t) \subseteq Range(s \o t)
<1>1. Len(s) \in Nat /\ Len(t) \in Nat /\ DOMAIN s = 1 .. Len(s) /\ DOMAIN t = 1 .. Len(t)
  BY LenProperties
<1>2. /\ s \o t \in Seq(S)
      /\ Len(s \o t) = Len(s) + Len(t)
      /\ \A i \in 1 .. Len(s) + Len(t) : (s \o t)[i] = IF i <= Len(s) THEN s[i] ELSE t[i - Len(s)]
  BY ConcatProperties
<1>3. DOMAIN (s \o t) = 1 .. Len(s) + Len(t)
  BY <1>2, LenProperties
<1>4. ASSUME NEW i \in DOMAIN s PROVE i \in DOMAIN (s \o t) /\ (s \o t)[i] = s[i]
  BY <1>1, <1>2, <1>3
<1>5. ASSUME NEW i \in DOMAIN t PROVE i + Len(s) \in DOMAIN (s \o t) /\ (s \o t)[i + Len(s)] = t[i]
  <2>1. i + Len(s) \in 1 .. Len(s) + Len(t) /\ ~(i + Len(s) <= Len(s)) /\ (i + Len(s)) - Len(s) = i
    BY <1>1
  <2>2. (s \o t)[i + Len(s)] = t[(i + Len(s)) - Len(s)]
    BY <1>2, <2>1
  <2> QED
    BY <1>3, <2>1, <2>2
<1> QED
  BY ZenonT(40), <1>2, <1>4, <1>5 DEF Range

LEMMA ArrangedIs ==
  ASSUME NEW S, IsFiniteSet(S) PROVE SetToSeq(S) \in Seq(S)
<1>1. PICK n \in Nat : ExistsBijection(1 .. n, S)
  BY FS_NatBijection
<1>2. Cardinality(S) = n
  BY <1>1, FS_CountingElements
<1>3. \E f \in [1 .. n -> S] : IsInjective(f)
  BY <1>1 DEF ExistsBijection, Bijection, Injection
<1>4. SetToSeq(S) \in [1 .. n -> S]
  BY <1>2, <1>3 DEF SetToSeq
<1> QED
  BY <1>4

\* No course of the registry and no list of a course comes twice.
LEMMA Listed ==
  /\ Len(Semester) \in Nat \ {0} /\ DOMAIN Semester = 1 .. Len(Semester)
  /\ \A j \in DOMAIN Semester : Semester[j] \in Courses
  /\ \A i, j \in DOMAIN Semester : Semester[i] = Semester[j] => i = j
  /\ Len(Resource) \in Nat \ {0} /\ DOMAIN Resource = 1 .. Len(Resource)
  /\ \A j \in DOMAIN Resource : Resource[j] \in Resources
  /\ \A i, j \in DOMAIN Resource : Resource[i] = Resource[j] => i = j
  /\ \A r \in Resources : \E i \in DOMAIN Resource : r = Resource[i]
<1>1. Len(Semester) \in Nat \ {0} /\ DOMAIN Semester = 1 .. Len(Semester)
  BY CollectorAssumption, LenProperties, EmptySeq
<1>2. Len(Resource) \in Nat \ {0} /\ DOMAIN Resource = 1 .. Len(Resource)
  BY CollectorAssumption, LenProperties, EmptySeq
<1> QED
  BY <1>1, <1>2, CollectorAssumption DEF Courses, Resources, Range, IsInjective

\* Where the page that is read begins and ends in its list.
LEMMA PageAt ==
  ASSUME NEW k \in Nat \ {0}
  PROVE  (k - 1) * PerPage \in Nat /\ k * PerPage = (k - 1) * PerPage + PerPage /\ k * PerPage \in Nat
<1>1. PerPage \in Nat \ {0}
  BY CollectorAssumption
<1>2. k - 1 \in Nat
  OBVIOUS
<1> QED
  BY <1>1, <1>2

\* What is behind the pages read before and not behind this one, this one has.
LEMMA PageIs ==
  ASSUME NEW list \in Seq(Entry), run.page \in Nat \ {0}
  PROVE  /\ Page(list) \in Seq(Entry)
         /\ \A p \in DOMAIN list :
              p > (run.page - 1) * PerPage /\ (p <= run.page * PerPage \/ ~HasNext(list)) => list[p] \in Range(Page(list))
<1>1. Len(list) \in Nat /\ DOMAIN list = 1 .. Len(list) /\ \A p \in 1 .. Len(list) : list[p] \in Entry
  BY LenProperties, ElementOfSeq
<1>2. PICK b \in Nat : b = (run.page - 1) * PerPage
  BY PageAt
<1>3. PICK c \in Nat : c = run.page * PerPage /\ c = b + PerPage
  BY <1>2, PageAt
<1>4. PICK m \in Nat : m = Least(c, Len(list)) /\ m <= c /\ m <= Len(list) /\ (m = c \/ m = Len(list))
  <2> DEFINE l == Least(c, Len(list))
  <2>1. l = IF c < Len(list) THEN c ELSE Len(list)
    BY DEF Least
  <2>2. l \in Nat /\ l <= c /\ l <= Len(list) /\ (l = c \/ l = Len(list))
    BY <1>1, <2>1
  <2> QED
    BY <2>2
<1>5. Page(list) = SubSeq(list, b + 1, m)
  BY <1>2, <1>3, <1>4 DEF Page
<1>6. \A p \in b + 1 .. m : list[p] \in Entry
  BY <1>1, <1>4
<1>7. PICK q \in Seq(Entry) :
        /\ q = SubSeq(list, b + 1, m)
        /\ Len(q) = (IF b + 1 <= m THEN m - (b + 1) + 1 ELSE 0)
        /\ \A i \in 1 .. m - (b + 1) + 1 : q[i] = list[b + 1 + i - 1]
  <2>1. b + 1 \in Int /\ m \in Int
    OBVIOUS
  <2>2. /\ SubSeq(list, b + 1, m) \in Seq(Entry)
        /\ Len(SubSeq(list, b + 1, m)) = (IF b + 1 <= m THEN m - (b + 1) + 1 ELSE 0)
        /\ \A i \in 1 .. m - (b + 1) + 1 : SubSeq(list, b + 1, m)[i] = list[b + 1 + i - 1]
    BY <1>6, <2>1, SubSeqProperties
  <2> QED
    BY <2>2
<1>8. ASSUME NEW p \in DOMAIN list, p > b, p <= c \/ ~HasNext(list) PROVE list[p] \in Range(q)
  <2>1. p <= m
    BY <1>1, <1>3, <1>4, <1>8 DEF HasNext
  <2>2. p - b \in 1 .. m - (b + 1) + 1 /\ b + 1 + (p - b) - 1 = p /\ b + 1 <= m /\ p - b \in 1 .. Len(q)
    BY <1>1, <1>7, <1>8, <2>1
  <2>3. q[p - b] = list[p]
    BY <1>7, <2>2
  <2>4. DOMAIN q = 1 .. Len(q)
    BY LenProperties
  <2> QED
    BY <2>2, <2>3, <2>4 DEF Range
<1> QED
  BY <1>2, <1>3, <1>5, <1>7, <1>8

-----------------------------------------------------------------------------
(* Collecting from Canvas: the invariant                                    *)

USE DEF Walks, Collections

LEMMA CollectorTypes ==
  ASSUME CollectorInv
  PROVE  /\ now \in Nat
         /\ \A c \in Courses, r \in Resources : /\ canvas[c][r] \in Seq(Entry)
                                                /\ raw[c].lists[r] \in Seq(Entry)
                                                /\ stayed[c][r] \subseteq Entry
         /\ run.items \in Seq(Entry) /\ run.page \in Nat /\ run.limit \in Nat /\ run.until \in Nat
         /\ run.at \in {"course", "identity", "page"} => run.course \in DOMAIN Semester /\ TheCourse \in Courses
         /\ run.at = "page" => run.list \in DOMAIN Resource /\ TheResource \in Resources /\ run.page \in Nat \ {0}
<1>1. run.items \in Seq(Entry) /\ run.page \in Nat /\ run.limit \in Nat /\ run.until \in Nat /\ now \in Nat
  BY DEF CollectorInv, CollectorTypeOK
<1>2. /\ run.at \in {"course", "identity", "page"} => run.course \in DOMAIN Semester
      /\ run.at = "page" => run.list \in DOMAIN Resource /\ run.page # 0
  BY DEF CollectorInv, CollectorTypeOK
<1>3. ASSUME NEW c \in Courses, NEW r \in Resources
      PROVE  canvas[c][r] \in Seq(Entry) /\ raw[c].lists[r] \in Seq(Entry) /\ stayed[c][r] \subseteq Entry
  <2>1. canvas[c] \in [Resources -> Seq(Entry)]
    BY DEF CollectorInv, CollectorTypeOK
  <2>2. raw[c].lists \in [Resources -> Seq(Entry)]
    BY DEF CollectorInv, CollectorTypeOK
  <2>3. stayed[c] \in [Resources -> SUBSET Entry]
    BY DEF CollectorInv, CollectorTypeOK
  <2> QED
    BY <2>1, <2>2, <2>3
<1> QED
  BY <1>1, <1>2, <1>3, Listed DEF TheCourse, TheResource

LEMMA CollectorStart == CollectorInit => CollectorInv
<1> SUFFICES ASSUME CollectorInit PROVE CollectorInv
  OBVIOUS
<1>1. canvas \in [Courses -> [Resources -> Seq(Entry)]]
  <2>1. ASSUME NEW S \in SUBSET Entry PROVE SetToSeq(S) \in Seq(Entry)
    <3>1. IsFiniteSet(S)
      BY CollectorAssumption, FS_Subset
    <3>2. SetToSeq(S) \in Seq(S)
      BY <3>1, ArrangedIs
    <3> QED
      BY <3>2, SeqMonotonic
  <2> QED
    BY <2>1 DEF CollectorInit
<1>2. <<>> \in Seq(Entry)
  BY EmptySeq
<1>3. NoRaw \in Collections
      /\ NoRaw.status = "missing"
  BY <1>2 DEF NoRaw, Nothing
<1>4. run = NoCollection /\ run.at = "idle"
      /\ run \in Walks
  BY <1>2 DEF CollectorInit, NoCollection
<1>5. raw = [c \in Courses |-> NoRaw] /\ stayed = [c \in Courses |-> [r \in Resources |-> {}]] /\ now = 0 /\ result = NoResult
  BY DEF CollectorInit
<1>6. CollectorTypeOK
  BY <1>1, <1>3, <1>4, <1>5 DEF CollectorTypeOK
<1>7. NotYet
  BY <1>3, <1>5, Listed DEF NotYet
<1>8. NoneSkipped
  BY <1>3, <1>4, <1>5 DEF NoneSkipped
<1>9. ValidatedOK
  BY <1>4, <1>5 DEF ValidatedOK, NoResult
<1> QED
  BY <1>6, <1>7, <1>8, <1>9 DEF CollectorInv

LEMMA Unvalidated == ASSUME CollectorInv, run.at # "idle" PROVE result = NoResult /\ result.complete = {}
BY DEF CollectorInv, ValidatedOK, NoResult

\* A step of the reader that leaves alone what it has.
LEMMA ReaderMoves ==
  ASSUME CollectorInv, UNCHANGED <<canvas, now, raw, stayed, result>>,
         run' \in Walks,
         run'.at # "page",
         result # NoResult => run'.at = "idle",
         run'.at \in {"course", "identity"} => run'.course \in DOMAIN Semester,
         \A j \in DOMAIN Semester :
           (run'.at = "idle" /\ result = NoResult) \/ (run'.at \in {"course", "identity"} /\ j >= run'.course)
             => raw[Semester[j]].status = "missing"
  PROVE  CollectorInv'
<1>1. CollectorTypeOK'
  BY DEF CollectorInv, CollectorTypeOK
<1>2. NotYet'
  BY DEF NotYet
<1>3. NoneSkipped'
  BY DEF CollectorInv, NoneSkipped, WasRead
<1>4. ValidatedOK'
  BY DEF CollectorInv, ValidatedOK, Valid
<1> QED
  BY <1>1, <1>2, <1>3, <1>4 DEF CollectorInv

\* A course is done with.
LEMMA SettledKeeps ==
  ASSUME CollectorInv, run.at \in {"course", "identity", "page"},
         NEW course \in Collections,
         course.status = "complete" => \A r \in Resources : stayed[TheCourse][r] \subseteq Range(course.lists[r]),
         Settled(course), UNCHANGED stayed
  PROVE  CollectorInv'
<1>1. UNCHANGED <<canvas, edits, now, ours, result, stayed>> /\ raw' = [raw EXCEPT ![TheCourse] = course]
  BY DEF Settled
<1>2. run.course \in DOMAIN Semester /\ TheCourse \in Courses /\ run.limit \in Nat
  BY CollectorTypes
<1>3. raw \in [Courses -> Collections]
  BY DEF CollectorInv, CollectorTypeOK
<1>4. raw' \in [Courses -> Collections]
      /\ raw'[TheCourse] = course /\ \A c \in Courses \ {TheCourse} : raw'[c] = raw[c]
  BY <1>1, <1>2, <1>3
<1>5. result = NoResult /\ result.complete = {}
  BY Unvalidated
<1>6. /\ run' \in Walks
      /\ run'.at \in {"course", "after"}
      /\ run'.at = "course" => run'.course = run.course + 1 /\ run'.course \in DOMAIN Semester
  <2>1. NoCollection = [at |-> "idle", course |-> 0, list |-> 0, page |-> 0, items |-> <<>>, until |-> 0, limit |-> 0]
        /\ <<>> \in Seq(Entry)
    BY EmptySeq DEF NoCollection
  <2>2. CASE run.course < Len(Semester)
    <3>1. run' = [NoCollection EXCEPT !.at = "course", !.course = run.course + 1, !.limit = run.limit]
      BY <2>2 DEF Settled
    <3>2. run' = [at |-> "course", course |-> run.course + 1, list |-> 0, page |-> 0, items |-> <<>>, until |-> 0, limit |-> run.limit]
      BY <2>1, <3>1
    <3>3. run.course + 1 \in DOMAIN Semester /\ run.course + 1 \in Nat
      BY <1>2, <2>2, Listed
    <3> QED
      BY <1>2, <2>1, <3>2, <3>3
  <2>3. CASE ~(run.course < Len(Semester))
    <3>1. run' = [NoCollection EXCEPT !.at = "after"]
      BY <2>3 DEF Settled
    <3>2. run' = [at |-> "after", course |-> 0, list |-> 0, page |-> 0, items |-> <<>>, until |-> 0, limit |-> 0]
      BY <2>1, <3>1
    <3> QED
      BY <2>1, <3>2
  <2> QED
    BY <2>2, <2>3
<1>7. CollectorTypeOK'
  BY <1>1, <1>4, <1>6 DEF CollectorInv, CollectorTypeOK
<1>8. NotYet'
  <2> SUFFICES ASSUME NEW j \in DOMAIN Semester, run'.at = "course", j >= run'.course
               PROVE  raw'[Semester[j]].status = "missing"
    BY <1>6 DEF NotYet
  <2>1. j > run.course /\ run.course \in Nat
    BY <1>2, <1>6, Listed
  <2>2. Semester[j] # TheCourse /\ Semester[j] \in Courses
    BY <1>2, <2>1, Listed DEF TheCourse
  <2>3. raw[Semester[j]].status = "missing"
    BY <2>1, Listed DEF CollectorInv, NotYet
  <2> QED
    BY <1>4, <2>2, <2>3
<1>9. NoneSkipped'
  <2>1. ASSUME NEW c \in Courses, NEW r \in Resources, raw'[c].status = "complete"
        PROVE  stayed[c][r] \subseteq Range(raw'[c].lists[r])
    <3>1. CASE c = TheCourse
      BY <1>4, <2>1, <3>1
    <3>2. CASE c # TheCourse
      BY <1>4, <2>1, <3>2 DEF CollectorInv, NoneSkipped, WasRead
    <3> QED
      BY <3>1, <3>2
  <2> QED
    BY <1>1, <1>6, <2>1 DEF NoneSkipped, WasRead
<1>10. ValidatedOK'
  BY <1>1, <1>5 DEF ValidatedOK
<1> QED
  BY <1>7, <1>8, <1>9, <1>10 DEF CollectorInv

LEMMA WithoutKeeps ==
  ASSUME CollectorInv, run.at \in {"course", "identity", "page"}, NEW status \in {"partial", "failed"}, Without(status)
  PROVE  CollectorInv'
<1>1. PICK course : course = [NoRaw EXCEPT !.status = status]
  OBVIOUS
<1>2. course \in Collections
      /\ course.status = status
  BY <1>1, EmptySeq DEF NoRaw, Nothing
<1> QED
  BY <1>1, <1>2, SettledKeeps DEF Without

LEMMA CollectionBeginKeeps == ASSUME CollectorInv, CollectionBegin \/ CourseBegin PROVE CollectorInv'
<1>1. CASE CollectionBegin
  <2>1. UNCHANGED <<canvas, now, raw, stayed, result>> /\ run.at = "idle" /\ result = NoResult
        /\ run' = [NoCollection EXCEPT !.at = "course", !.course = 1, !.limit = now + SemesterTicks]
    BY <1>1 DEF CollectionBegin
  <2>2. run' = [at |-> "course", course |-> 1, list |-> 0, page |-> 0, items |-> <<>>, until |-> 0, limit |-> now + SemesterTicks]
    BY <2>1 DEF NoCollection
  <2>3. <<>> \in Seq(Entry) /\ now + SemesterTicks \in Nat
    BY EmptySeq, CollectorAssumption, CollectorTypes
  <2>4. run' \in Walks
        /\ run'.at = "course" /\ run'.course \in DOMAIN Semester
    BY <2>2, <2>3, Listed
  <2>5. \A j \in DOMAIN Semester : raw[Semester[j]].status = "missing"
    BY <2>1 DEF CollectorInv, NotYet
  <2> QED
    BY <2>1, <2>4, <2>5, ReaderMoves
<1>2. CASE CourseBegin
  <2>1. UNCHANGED <<canvas, now, raw, stayed, result>> /\ run.at = "course"
        /\ run' = [run EXCEPT !.at = "identity", !.until = Least(now + RunTicks, run.limit)]
    BY <1>2 DEF CourseBegin
  <2>2. PICK l \in Nat : l = Least(now + RunTicks, run.limit)
    BY CollectorAssumption, CollectorTypes DEF Least
  <2>3. run \in Walks
    BY DEF CollectorInv, CollectorTypeOK
  <2>4. run' \in Walks
        /\ run'.at = "identity" /\ run'.course = run.course
    BY <2>1, <2>2, <2>3
  <2>5. \A j \in DOMAIN Semester : j >= run.course => raw[Semester[j]].status = "missing"
    BY <2>1 DEF CollectorInv, NotYet
  <2> QED
    BY <2>1, <2>4, <2>5, CollectorTypes, Unvalidated, ReaderMoves
<1> QED
  BY <1>1, <1>2

\* What a list has when its reading begins is ahead of the reader.
LEMMA ListBeginKeeps ==
  ASSUME CollectorInv, run.at \in {"identity", "page"}, NEW i \in DOMAIN Resource, ListBegin(i),
         raw' \in [Courses -> Collections],
         \A c \in Courses \ {TheCourse} : raw'[c] = raw[c],
         raw'[TheCourse].status = "missing",
         \A j \in 1 .. i - 1 : stayed[TheCourse][Resource[j]] \subseteq Range(raw'[TheCourse].lists[Resource[j]])
  PROVE  CollectorInv'
<1> DEFINE t == TheCourse
           r0 == Resource[i]
           there == Present(TheCourse, Resource[i])
<1>1. UNCHANGED <<canvas, now, result>>
      /\ run' = [run EXCEPT !.at = "page", !.list = i, !.page = 1, !.items = <<>>]
      /\ stayed' = [stayed EXCEPT ![TheCourse][Resource[i]] = there]
  BY DEF ListBegin
<1>2. t \in Courses /\ r0 \in Resources /\ run.course \in DOMAIN Semester /\ canvas[t][r0] \in Seq(Entry)
  BY CollectorTypes, Listed
<1>3. there \in SUBSET Entry
  BY <1>2, LenProperties, ElementOfSeq DEF Present, Range
<1>4. stayed \in [Courses -> [Resources -> SUBSET Entry]]
  BY DEF CollectorInv, CollectorTypeOK
<1>5. PICK seen \in [Resources -> SUBSET Entry] : seen = [stayed[t] EXCEPT ![r0] = there]
  BY <1>2, <1>3, <1>4
<1>6. stayed' = [stayed EXCEPT ![t] = seen]
  BY <1>1, <1>5
<1>7. stayed' \in [Courses -> [Resources -> SUBSET Entry]]
      /\ stayed'[t] = seen /\ \A c \in Courses \ {t} : stayed'[c] = stayed[c]
  BY <1>2, <1>4, <1>5, <1>6
<1>8. seen[r0] = there /\ \A r \in Resources \ {r0} : seen[r] = stayed[t][r]
  BY <1>2, <1>4, <1>5
<1>9. /\ run' \in Walks
      /\ run'.at = "page" /\ run'.list = i /\ run'.page = 1 /\ run'.course = run.course
  <2>1. run \in Walks
    BY DEF CollectorInv, CollectorTypeOK
  <2>2. <<>> \in Seq(Entry) /\ i \in Nat
    BY EmptySeq, Listed
  <2> QED
    BY <1>1, <2>1, <2>2
<1>10. CollectorTypeOK'
  BY <1>1, <1>2, <1>7, <1>9 DEF CollectorInv, CollectorTypeOK
<1>11. NotYet'
  <2> SUFFICES ASSUME NEW j \in DOMAIN Semester, j >= run.course PROVE raw'[Semester[j]].status = "missing"
    BY <1>9 DEF NotYet
  <2>1. CASE Semester[j] = t
    BY <2>1
  <2>2. CASE Semester[j] # t
    BY <2>2, Listed DEF CollectorInv, NotYet
  <2> QED
    BY <2>1, <2>2
<1>12. TheCourse' = t /\ TheResource' = r0
  BY <1>9 DEF TheCourse, TheResource
<1>13. NoneSkipped'
  <2>1. ASSUME NEW c \in Courses, NEW r \in Resources, raw'[c].status = "complete"
        PROVE  WasRead(c, r)'
    <3>1. c # t /\ raw'[c] = raw[c] /\ stayed'[c] = stayed[c]
      BY <1>7, <2>1
    <3> QED
      BY <2>1, <3>1 DEF CollectorInv, NoneSkipped, WasRead
  <2>2. ReadOrAhead'
    <3> SUFFICES ASSUME NEW e \in stayed'[t][r0]
                 PROVE  \E p \in DOMAIN canvas[t][r0] : p > (run'.page - 1) * PerPage /\ canvas[t][r0][p] = e
      BY <1>1, <1>12 DEF ReadOrAhead
    <3>1. PICK p \in DOMAIN canvas[t][r0] : canvas[t][r0][p] = e
      BY <1>7, <1>8 DEF Present, Range
    <3>2. p \in Nat \ {0}
      BY <1>2, LenProperties
    <3>3. (run'.page - 1) * PerPage = 0
      BY <1>9, CollectorAssumption
    <3> QED
      BY <3>1, <3>2, <3>3
  <2>3. ASSUME NEW j \in 1 .. i - 1 PROVE WasRead(TheCourse, Resource[j])'
    <3>1. j \in DOMAIN Resource /\ j # i
      BY Listed
    <3>2. Resource[j] \in Resources /\ Resource[j] # r0
      BY <3>1, Listed
    <3> QED
      BY <1>7, <1>8, <1>12, <3>2 DEF WasRead
  <2>4. \A j \in 1 .. run'.list - 1 : WasRead(TheCourse, Resource[j])'
    BY <1>9, <2>3
  <2> QED
    BY <1>12, <2>1, <2>2, <2>4 DEF NoneSkipped
<1>14. ValidatedOK'
  BY <1>1, Unvalidated DEF ValidatedOK
<1> QED
  BY <1>10, <1>11, <1>13, <1>14 DEF CollectorInv

LEMMA VerifiedKeeps == ASSUME CollectorInv, CourseVerified PROVE CollectorInv'
<1>1. run.at = "identity" /\ ListBegin(1) /\ raw' = raw
  BY DEF CourseVerified
<1>2. 1 \in DOMAIN Resource /\ run.course \in Nat
  BY <1>1, CollectorTypes, Listed
<1>3. raw[TheCourse].status = "missing"
  BY <1>1, <1>2, CollectorTypes DEF CollectorInv, NotYet, TheCourse
<1>4. raw \in [Courses -> Collections]
  BY DEF CollectorInv, CollectorTypeOK
<1> QED
  BY <1>1, <1>2, <1>3, <1>4, ListBeginKeeps

LEMMA PageMoreKeeps ==
  ASSUME CollectorInv, run.at = "page", PageMore(canvas[TheCourse][TheResource]) PROVE CollectorInv'
<1> DEFINE list == canvas[TheCourse][TheResource]
           got == Page(list)
<1>1. UNCHANGED <<canvas, now, raw, stayed, result>> /\ run' = [run EXCEPT !.page = @ + 1, !.items = @ \o got]
  BY DEF PageMore
<1>2. list \in Seq(Entry) /\ run.page \in Nat \ {0} /\ run.items \in Seq(Entry)
  BY CollectorTypes
<1>3. /\ got \in Seq(Entry)
      /\ \A p \in DOMAIN list : p > (run.page - 1) * PerPage /\ p <= run.page * PerPage => list[p] \in Range(got)
  BY <1>2, PageIs
<1>4. PICK all \in Seq(Entry) : all = run.items \o got /\ Range(run.items) \subseteq Range(all) /\ Range(got) \subseteq Range(all)
  BY <1>2, <1>3, ConcatRange
<1>5. /\ run' \in Walks
      /\ run'.at = "page" /\ run'.list = run.list /\ run'.page = run.page + 1 /\ run'.course = run.course /\ run'.items = all
  <2>1. run \in Walks
    BY DEF CollectorInv, CollectorTypeOK
  <2>2. PICK k \in Nat : k = run.page + 1
    BY <1>2
  <2>3. run' = [run EXCEPT !.page = k, !.items = all]
    BY <1>1, <1>4, <2>2
  <2> HIDE DEF list, got
  <2> QED
    BY <2>1, <2>2, <2>3
<1>12. run'.items = all /\ run'.page - 1 = run.page + 1 - 1
  BY <1>2, <1>5
<1>11. run.list \in DOMAIN Resource /\ run.course \in DOMAIN Semester /\ run'.page # 0
  BY <1>2, <1>5, CollectorTypes
<1>6. CollectorTypeOK'
  BY <1>1, <1>5, <1>11 DEF CollectorInv, CollectorTypeOK
<1>7. NotYet'
  BY <1>1, <1>5 DEF CollectorInv, NotYet
<1>8. TheCourse' = TheCourse /\ TheResource' = TheResource
  BY <1>5 DEF TheCourse, TheResource
<1>9. NoneSkipped'
  <2>1. ReadOrAhead'
    <3>1. ASSUME NEW e \in stayed[TheCourse][TheResource], NEW p \in DOMAIN list,
                 p > (run.page - 1) * PerPage, list[p] = e
          PROVE  e \in Range(all) \/ p > (run.page + 1 - 1) * PerPage
      <4>1. CASE p <= run.page * PerPage
        BY <1>3, <1>4, <3>1, <4>1
      <4>2. CASE ~(p <= run.page * PerPage)
        <5>1. run.page * PerPage \in Nat
          BY <1>2, PageAt
        <5>2. Len(list) \in Nat /\ DOMAIN list = 1 .. Len(list)
          BY <1>2, LenProperties
        <5>3. p \in Nat /\ run.page + 1 - 1 = run.page
          BY <1>2, <5>2
        <5> QED
          BY <4>2, <5>1, <5>3
      <4> QED
        BY <4>1, <4>2
    <3>2. \A e \in stayed[TheCourse][TheResource] :
            e \in Range(all) \/ \E p \in DOMAIN list : p > (run.page + 1 - 1) * PerPage /\ list[p] = e
      BY <1>4, <3>1 DEF CollectorInv, NoneSkipped, ReadOrAhead
    <3> QED
      <4>1. /\ canvas'[TheCourse'][TheResource'] = list /\ stayed'[TheCourse'][TheResource'] = stayed[TheCourse][TheResource]
            /\ run'.items = all /\ run'.page - 1 = run.page + 1 - 1
        <5>1. canvas' = canvas /\ stayed' = stayed
          BY <1>1
        <5> QED
          BY <1>8, <1>12, <5>1, Zenon
      <4> HIDE DEF list
      <4>2. \A e \in stayed'[TheCourse'][TheResource'] :
              e \in Range(run'.items)
              \/ \E p \in DOMAIN canvas'[TheCourse'][TheResource'] :
                   p > (run'.page - 1) * PerPage /\ canvas'[TheCourse'][TheResource'][p] = e
        BY <3>2, <4>1
      <4> QED
        BY <4>2, Zenon DEF ReadOrAhead
  <2>2. \A c \in Courses, r \in Resources : raw[c].status = "complete" => WasRead(c, r)'
    BY <1>1 DEF CollectorInv, NoneSkipped, WasRead
  <2>3. \A i \in 1 .. run.list - 1 : WasRead(TheCourse, Resource[i])'
    BY <1>1, <1>8 DEF CollectorInv, NoneSkipped, WasRead
  <2> QED
    BY <1>1, <1>5, <1>8, <2>1, <2>2, <2>3 DEF NoneSkipped
<1>10. ValidatedOK'
  BY <1>1, Unvalidated DEF ValidatedOK
<1> QED
  BY <1>6, <1>7, <1>9, <1>10 DEF CollectorInv

LEMMA PageLastKeeps ==
  ASSUME CollectorInv, run.at = "page", PageLast(canvas[TheCourse][TheResource]) PROVE CollectorInv'
<1> DEFINE list == canvas[TheCourse][TheResource]
           got == Page(list)
<1>1. list \in Seq(Entry) /\ run.page \in Nat \ {0} /\ run.items \in Seq(Entry) /\ TheCourse \in Courses /\ TheResource \in Resources
      /\ run.list \in DOMAIN Resource /\ run.course \in DOMAIN Semester
  BY CollectorTypes
<1>2. ~HasNext(list)
  BY DEF PageLast
<1>3. /\ got \in Seq(Entry)
      /\ \A p \in DOMAIN list : p > (run.page - 1) * PerPage => list[p] \in Range(got)
  BY <1>1, <1>2, PageIs
<1>4. PICK all \in Seq(Entry) : all = run.items \o got /\ Range(run.items) \subseteq Range(all) /\ Range(got) \subseteq Range(all)
  BY <1>1, <1>3, ConcatRange
<1>5. stayed[TheCourse][TheResource] \subseteq Range(all)
  BY <1>3, <1>4 DEF CollectorInv, NoneSkipped, ReadOrAhead
<1>6. raw \in [Courses -> Collections]
  BY DEF CollectorInv, CollectorTypeOK
<1>7. PICK lists \in [Resources -> Seq(Entry)] : lists = [raw[TheCourse].lists EXCEPT ![TheResource] = all]
  BY <1>1, <1>6
<1>8. lists[TheResource] = all /\ \A r \in Resources \ {TheResource} : lists[r] = raw[TheCourse].lists[r]
  BY <1>1, <1>6, <1>7
<1>9. ASSUME NEW j \in 1 .. run.list PROVE stayed[TheCourse][Resource[j]] \subseteq Range(lists[Resource[j]])
  <2>1. CASE j = run.list
    BY <1>5, <1>8, <2>1 DEF TheResource
  <2>2. CASE j # run.list
    <3>1. j \in DOMAIN Resource /\ j \in 1 .. run.list - 1
      BY <1>1, <2>2, Listed
    <3>2. Resource[j] \in Resources \ {TheResource}
      BY <1>1, <2>2, <3>1, Listed DEF TheResource
    <3> QED
      BY <1>8, <3>1, <3>2 DEF CollectorInv, NoneSkipped, WasRead
  <2> QED
    BY <2>1, <2>2
<1>10. IF run.list < Len(Resource)
         THEN raw' = [raw EXCEPT ![TheCourse].lists = lists] /\ ListBegin(run.list + 1)
         ELSE Settled([status |-> "complete", lists |-> lists]) /\ UNCHANGED stayed
  BY <1>4, <1>7 DEF PageLast
<1>11. CASE run.list < Len(Resource)
  <2>1. PICK course \in Collections :
          course = [raw[TheCourse] EXCEPT !.lists = lists] /\ course.lists = lists /\ course.status = raw[TheCourse].status
    <3>1. raw[TheCourse] \in Collections
      BY <1>1, <1>6
    <3> HIDE DEF list, got
    <3>2. PICK old \in Collections : old = raw[TheCourse]
      BY <3>1
    <3>3. [old EXCEPT !.lists = lists] \in Collections
          /\ [old EXCEPT !.lists = lists].lists = lists /\ [old EXCEPT !.lists = lists].status = old.status
      OBVIOUS
    <3> QED
      BY <3>2, <3>3
  <2>2. raw' = [raw EXCEPT ![TheCourse] = course]
    BY <1>10, <1>11, <2>1
  <2>3. raw' \in [Courses -> Collections]
        /\ raw'[TheCourse] = course /\ \A c \in Courses \ {TheCourse} : raw'[c] = raw[c]
    BY <1>1, <1>6, <2>1, <2>2
  <2>4. raw'[TheCourse].status = "missing"
    <3>1. run.course \in Nat
      BY <1>1, Listed
    <3> QED
      BY <1>1, <2>1, <2>3, <3>1 DEF CollectorInv, NotYet, TheCourse
  <2>5. PICK i \in DOMAIN Resource : i = run.list + 1
    BY SMTT(20), <1>1, <1>11, Listed
  <2>7. i - 1 = run.list /\ ListBegin(i)
    BY <1>1, <1>10, <1>11, <2>5, Listed
  <2>6. \A j \in 1 .. i - 1 : stayed[TheCourse][Resource[j]] \subseteq Range(raw'[TheCourse].lists[Resource[j]])
    BY <1>9, <2>1, <2>3, <2>7
  <2> QED
    BY <2>3, <2>4, <2>6, <2>7, ListBeginKeeps
<1>12. CASE ~(run.list < Len(Resource))
  <2>1. PICK course \in Collections :
          course = [status |-> "complete", lists |-> lists] /\ course.lists = lists
    <3> HIDE DEF list, got
    <3>1. [status |-> "complete", lists |-> lists] \in Collections
          /\ [status |-> "complete", lists |-> lists].lists = lists
      OBVIOUS
    <3> QED
      BY <3>1
  <2>2. \A r \in Resources : stayed[TheCourse][r] \subseteq Range(course.lists[r])
    <3>1. DOMAIN Resource = 1 .. run.list
      BY <1>1, <1>12, Listed
    <3> SUFFICES ASSUME NEW r \in Resources PROVE stayed[TheCourse][r] \subseteq Range(course.lists[r])
      OBVIOUS
    <3>2. PICK j \in DOMAIN Resource : r = Resource[j]
      BY Listed
    <3> QED
      BY <1>9, <2>1, <3>1, <3>2
  <2>3. Settled(course) /\ UNCHANGED stayed
    BY <1>10, <1>12, <2>1
  <2> QED
    BY <2>2, <2>3, SettledKeeps
<1> QED
  BY <1>11, <1>12

LEMMA GetKeeps == ASSUME CollectorInv, GetTimesOut \/ GetFails \/ GetPage PROVE CollectorInv'
<1>1. CASE GetTimesOut
  BY <1>1, WithoutKeeps DEF GetTimesOut, Asking
<1>2. CASE GetFails
  BY <1>2, WithoutKeeps DEF GetFails, Asking
<1>3. CASE GetPage
  <2>1. run.at = "page"
        /\ \/ PageStops(canvas[TheCourse][TheResource])
           \/ PageMore(canvas[TheCourse][TheResource])
           \/ PageLast(canvas[TheCourse][TheResource])
    BY <1>3 DEF GetPage
  <2>2. CASE PageStops(canvas[TheCourse][TheResource])
    BY <2>1, <2>2, WithoutKeeps DEF PageStops
  <2> QED
    BY <2>1, <2>2, PageMoreKeeps, PageLastKeeps
<1> QED
  BY <1>1, <1>2, <1>3

LEMMA ValidateKeeps == ASSUME CollectorInv, Validate PROVE CollectorInv'
<1>1. UNCHANGED <<canvas, now, raw, stayed>> /\ run' = NoCollection
      /\ result' = [status |-> IF { c \in Courses : Valid(raw[c]) } = Courses THEN "complete" ELSE "incomplete",
                    complete |-> { c \in Courses : Valid(raw[c]) }]
  BY DEF Validate
<1>2. /\ run' \in Walks
      /\ run'.at = "idle"
  BY <1>1, EmptySeq DEF NoCollection
<1>3. result'.complete = { c \in Courses : Valid(raw[c]) } /\ result'.status # "none"
  BY <1>1
<1>4. result' # NoResult
  BY <1>3 DEF NoResult
<1>5. CollectorTypeOK'
  BY <1>1, <1>2 DEF CollectorInv, CollectorTypeOK
<1>6. NotYet'
  BY <1>2, <1>4 DEF NotYet
<1>7. NoneSkipped'
  BY <1>1, <1>2 DEF CollectorInv, NoneSkipped, WasRead
<1>8. ValidatedOK'
  BY <1>1, <1>2, <1>3 DEF ValidatedOK, Valid
<1> QED
  BY <1>5, <1>6, <1>7, <1>8 DEF CollectorInv

LEMMA FailKeeps == ASSUME CollectorInv, CollectFails PROVE CollectorInv'
<1>1. UNCHANGED <<canvas, now, raw, stayed, result>> /\ run.at # "idle" /\ run' = [NoCollection EXCEPT !.at = "failed"]
  BY DEF CollectFails
<1>2. run' = [at |-> "failed", course |-> 0, list |-> 0, page |-> 0, items |-> <<>>, until |-> 0, limit |-> 0]
  BY <1>1 DEF NoCollection
<1>3. /\ run' \in Walks
      /\ run'.at = "failed"
  BY <1>2, EmptySeq
<1> QED
  BY <1>1, <1>3, Unvalidated, ReaderMoves

\* What a teacher does keeps what is still ahead of the reader ahead of it.
LEMMA EditedKeeps ==
  ASSUME CollectorInv, NEW c \in Courses, NEW r \in Resources, NEW list \in Seq(Entry), Edited(c, r, list),
         stayed' \in [Courses -> [Resources -> SUBSET Entry]],
         \A d \in Courses, q \in Resources : stayed'[d][q] \subseteq stayed[d][q],
         run.at = "page" /\ c = TheCourse /\ r = TheResource =>
           \A p \in DOMAIN canvas[c][r] : canvas[c][r][p] \in stayed'[c][r]
             => \E q \in DOMAIN list : q >= p /\ list[q] = canvas[c][r][p]
  PROVE  CollectorInv'
<1>1. UNCHANGED <<now, ours, run, raw, result>> /\ canvas' = [canvas EXCEPT ![c][r] = list]
  BY DEF Edited
<1>2. canvas \in [Courses -> [Resources -> Seq(Entry)]]
  BY DEF CollectorInv, CollectorTypeOK
<1>3. PICK new \in [Resources -> Seq(Entry)] : new = [canvas[c] EXCEPT ![r] = list]
  BY <1>2
<1>4. canvas' = [canvas EXCEPT ![c] = new]
  BY <1>1, <1>3
<1>5. canvas' \in [Courses -> [Resources -> Seq(Entry)]] /\ canvas'[c][r] = list
      /\ \A d \in Courses, q \in Resources : d # c \/ q # r => canvas'[d][q] = canvas[d][q]
  BY <1>2, <1>3, <1>4
<1>6. CollectorTypeOK'
  BY <1>1, <1>5 DEF CollectorInv, CollectorTypeOK
<1>7. NotYet'
  BY <1>1 DEF CollectorInv, NotYet
<1>8. ASSUME NEW d \in Courses, NEW q \in Resources, WasRead(d, q) PROVE stayed'[d][q] \subseteq Range(raw[d].lists[q])
  BY <1>8 DEF WasRead
<1>9. ASSUME run.at = "page", NEW e \in stayed'[TheCourse][TheResource]
      PROVE  e \in Range(run.items)
             \/ \E p \in DOMAIN canvas'[TheCourse][TheResource] :
                  p > (run.page - 1) * PerPage /\ canvas'[TheCourse][TheResource][p] = e
  <2>1. TheCourse \in Courses /\ TheResource \in Resources /\ run.page \in Nat \ {0}
    BY <1>9, CollectorTypes
  <2>2. e \in stayed[TheCourse][TheResource]
    BY <1>9, <2>1
  <2>3. CASE e \in Range(run.items)
    BY <2>3
  <2>4. ASSUME NEW p \in DOMAIN canvas[TheCourse][TheResource],
               p > (run.page - 1) * PerPage, canvas[TheCourse][TheResource][p] = e
        PROVE  \E q \in DOMAIN canvas'[TheCourse][TheResource] :
                 q > (run.page - 1) * PerPage /\ canvas'[TheCourse][TheResource][q] = e
    <3>1. CASE c = TheCourse /\ r = TheResource
      <4>1. PICK q \in DOMAIN list : q >= p /\ list[q] = e
        BY <1>9, <2>4, <3>1
      <4>2. p \in Nat /\ q \in Nat
        BY <1>2, <2>1, LenProperties
      <4>3. (run.page - 1) * PerPage \in Nat
        BY <2>1, PageAt
      <4>4. q > (run.page - 1) * PerPage
        BY <2>4, <4>1, <4>2, <4>3
      <4> QED
        BY <1>5, <3>1, <4>1, <4>4
    <3>2. CASE ~(c = TheCourse /\ r = TheResource)
      <4>1. canvas'[TheCourse][TheResource] = canvas[TheCourse][TheResource]
        BY <1>5, <2>1, <3>2
      <4> QED
        BY <2>4, <4>1
    <3> QED
      BY <3>1, <3>2
  <2> QED
    BY <1>9, <2>2, <2>3, <2>4 DEF CollectorInv, NoneSkipped, ReadOrAhead
<1>10. TheCourse' = TheCourse /\ TheResource' = TheResource
  BY <1>1 DEF TheCourse, TheResource
<1>11. NoneSkipped'
  <2>1. \A d \in Courses, q \in Resources : raw[d].status = "complete" => WasRead(d, q)'
    BY <1>1, <1>8 DEF CollectorInv, NoneSkipped, WasRead
  <2>2. ASSUME run.at = "page" PROVE ReadOrAhead'
    <3>1. run' = run
      BY <1>1
    <3>2. \A e \in stayed'[TheCourse'][TheResource'] :
              e \in Range(run'.items)
              \/ \E p \in DOMAIN canvas'[TheCourse'][TheResource'] :
                   p > (run'.page - 1) * PerPage /\ canvas'[TheCourse'][TheResource'][p] = e
      BY <1>9, <1>10, <2>2, <3>1
    <3> QED
      BY <3>2, Zenon DEF ReadOrAhead
  <2>3. ASSUME run.at = "page", NEW i \in 1 .. run.list - 1 PROVE WasRead(TheCourse, Resource[i])'
    <3>1. WasRead(TheCourse, Resource[i])
      BY <2>3 DEF CollectorInv, NoneSkipped
    <3>2. TheCourse \in Courses /\ Resource[i] \in Resources
      <4>1. run.list \in 1 .. Len(Resource) /\ TheCourse \in Courses
        BY <2>3, CollectorTypes, Listed
      <4>2. i \in DOMAIN Resource
        BY <4>1, Listed
      <4> QED
        BY <4>1, <4>2, Listed
    <3> QED
      BY <1>1, <1>8, <1>10, <3>1, <3>2 DEF WasRead
  <2> QED
    BY <1>1, <1>10, <2>1, <2>2, <2>3 DEF NoneSkipped
<1>12. ValidatedOK'
  BY <1>1 DEF CollectorInv, ValidatedOK, Valid
<1> QED
  BY <1>6, <1>7, <1>11, <1>12 DEF CollectorInv

LEMMA AddKeeps ==
  ASSUME CollectorInv, NEW c \in Courses, NEW r \in Resources, NEW e \in Entry,
         NEW i \in 1 .. Len(canvas[c][r]) + 1, Add(c, r, e, i)
  PROVE  CollectorInv'
<1>1. canvas[c][r] \in Seq(Entry)
  BY CollectorTypes
<1>2. PICK s \in Seq(Entry) : s = canvas[c][r]
  BY <1>1
<1>3. PICK list \in Seq(Entry) :
        /\ list = InsertAt(s, i, e)
        /\ Len(list) = Len(s) + 1
        /\ \A p \in 1 .. Len(s) : list[IF p < i THEN p ELSE p + 1] = s[p]
  <2>1. i \in 1 .. Len(s) + 1
    BY <1>2
  <2>2. /\ InsertAt(s, i, e) \in Seq(Entry)
        /\ Len(InsertAt(s, i, e)) = Len(s) + 1
        /\ \A p \in 1 .. Len(s) : InsertAt(s, i, e)[IF p < i THEN p ELSE p + 1] = s[p]
    BY <2>1, InsertIs
  <2> QED
    BY <2>2
<1>4. Len(s) \in Nat /\ DOMAIN s = 1 .. Len(s) /\ DOMAIN list = 1 .. Len(s) + 1
  BY <1>3, LenProperties
<1>5. ASSUME NEW p \in DOMAIN s PROVE \E q \in DOMAIN list : q >= p /\ list[q] = s[p]
  <2>1. CASE p < i
    <3>1. p \in DOMAIN list /\ p >= p /\ list[p] = s[p]
      BY <1>3, <1>4, <2>1
    <3> QED
      BY <3>1
  <2>2. CASE ~(p < i)
    <3>1. p + 1 \in DOMAIN list /\ p + 1 >= p /\ list[p + 1] = s[p]
      BY <1>3, <1>4, <2>2
    <3> QED
      BY <3>1
  <2> QED
    BY <2>1, <2>2
<1>6. Edited(c, r, list) /\ stayed' = stayed
  BY <1>2, <1>3 DEF Add
<1>7. stayed' \in [Courses -> [Resources -> SUBSET Entry]]
  BY <1>6 DEF CollectorInv, CollectorTypeOK
<1>8. \A d \in Courses, q \in Resources : stayed'[d][q] \subseteq stayed[d][q]
  BY <1>6
<1>9. \A p \in DOMAIN canvas[c][r] : \E q \in DOMAIN list : q >= p /\ list[q] = canvas[c][r][p]
  BY <1>2, <1>5
<1> QED
  BY <1>6, <1>7, <1>8, <1>9, EditedKeeps

LEMMA DeleteKeeps ==
  ASSUME CollectorInv, NEW c \in Courses, NEW r \in Resources, NEW i \in 1 .. Len(canvas[c][r]), Delete(c, r, i)
  PROVE  CollectorInv'
<1>1. canvas[c][r] \in Seq(Entry)
  BY CollectorTypes
<1>2. PICK list \in Seq(Entry) : list = RemoveAt(canvas[c][r], i)
  BY <1>1, RemoveIs
<1>3. Edited(c, r, list)
      /\ stayed' = IF run.at = "page" /\ c = TheCourse /\ r = TheResource THEN [stayed EXCEPT ![c][r] = {}] ELSE stayed
  BY <1>2 DEF Delete
<1>4. stayed \in [Courses -> [Resources -> SUBSET Entry]]
  BY DEF CollectorInv, CollectorTypeOK
<1>5. CASE run.at = "page" /\ c = TheCourse /\ r = TheResource
  <2>1. PICK new \in [Resources -> SUBSET Entry] : new = [stayed[c] EXCEPT ![r] = {}]
    BY <1>4
  <2>2. stayed' = [stayed EXCEPT ![c] = new]
    BY <1>3, <1>5, <2>1
  <2>3. stayed' \in [Courses -> [Resources -> SUBSET Entry]] /\ stayed'[c] = new /\ \A d \in Courses \ {c} : stayed'[d] = stayed[d]
    BY <1>4, <2>1, <2>2
  <2>4. new[r] = {} /\ \A q \in Resources \ {r} : new[q] = stayed[c][q]
    BY <1>4, <2>1
  <2>5. \A d \in Courses, q \in Resources : stayed'[d][q] \subseteq stayed[d][q]
    BY <2>3, <2>4
  <2>6. stayed'[c][r] = {}
    BY <2>3, <2>4
  <2> QED
    BY <1>3, <2>3, <2>5, <2>6, EditedKeeps
<1>6. CASE ~(run.at = "page" /\ c = TheCourse /\ r = TheResource)
  BY <1>3, <1>4, <1>6, EditedKeeps
<1> QED
  BY <1>5, <1>6

LEMMA CollectorStep == CollectorInv /\ [CollectorNext]_collectorVars => CollectorInv'
<1> SUFFICES ASSUME CollectorInv, [CollectorNext]_collectorVars PROVE CollectorInv'
  OBVIOUS
<1>1. ASSUME UNCHANGED <<canvas, run, raw, stayed, result>>, now' \in Nat PROVE CollectorInv'
  <2>1. CollectorTypeOK'
    BY <1>1 DEF CollectorInv, CollectorTypeOK
  <2>2. NotYet'
    BY <1>1 DEF CollectorInv, NotYet
  <2>3. NoneSkipped'
    BY <1>1 DEF CollectorInv, NoneSkipped, WasRead, ReadOrAhead, TheCourse, TheResource
  <2>4. ValidatedOK'
    BY <1>1 DEF CollectorInv, ValidatedOK, Valid
  <2> QED
    BY <2>1, <2>2, <2>3, <2>4 DEF CollectorInv
<1>2. CASE CollectionBegin \/ CourseBegin
  BY <1>2, CollectionBeginKeeps
<1>3. CASE CourseTooLate
  BY <1>3, WithoutKeeps DEF CourseTooLate
<1>4. CASE CourseVerified
  BY <1>4, VerifiedKeeps
<1>5. CASE GetTimesOut \/ GetFails \/ GetPage
  BY <1>5, GetKeeps
<1>6. CASE Validate
  BY <1>6, ValidateKeeps
<1>7. CASE CollectFails
  BY <1>7, FailKeeps
<1>8. CASE Teach
  BY <1>8, AddKeeps, DeleteKeeps DEF Teach
<1>9. CASE Tick
  BY <1>1, <1>9, CollectorTypes DEF Tick
<1>10. CASE LoseReservation
  BY <1>1, <1>10, CollectorTypes DEF LoseReservation
<1>11. CASE UNCHANGED collectorVars
  BY <1>1, <1>11, CollectorTypes DEF collectorVars
<1> QED
  BY <1>2, <1>3, <1>4, <1>5, <1>6, <1>7, <1>8, <1>9, <1>10, <1>11 DEF CollectorNext

LEMMA WholeIsCollected == CollectorInv => CollectedIsWhole
<1> SUFFICES ASSUME CollectorInv, NEW c \in result.complete, NEW r \in Resources
             PROVE  stayed[c][r] \subseteq Range(raw[c].lists[r]) /\ IsInjective(raw[c].lists[r])
  BY DEF CollectedIsWhole
<1>1. c \in Courses /\ Valid(raw[c])
  BY DEF CollectorInv, ValidatedOK
<1> QED
  BY <1>1 DEF CollectorInv, NoneSkipped, WasRead, Valid

-----------------------------------------------------------------------------
\* What counts as complete is.  A course collected (CanvasClient, fetch_paginated,
\* validate_snapshot) has everything that stayed in its lists, once, although teachers add
\* entries in front of the reader, caps are met and time runs out; and a frame that is
\* accepted (AsideReplTransport.run) is all that the child said.
THEOREM AnswersAlwaysWhole == CollectorSpec /\ AsideSpec => []AnswersAreWhole
<1>1. CollectorSpec => []CollectorInv
  BY CollectorStart, CollectorStep, PTL DEF CollectorSpec
<1>2. AsideSpec => []AsideInv
  BY AsideStarts, AsideStep, PTL DEF AsideSpec
<1>3. CollectorInv /\ AsideInv => AnswersAreWhole
  BY WholeIsCollected, AcceptedIsAll DEF AnswersAreWhole
<1> QED
  BY <1>1, <1>2, <1>3, PTL

=============================================================================
