---------------------------- MODULE LockFileProofs ----------------------------
(***************************************************************************)
(* For every number of processes and files, on POSIX and on Windows: one    *)
(* process holds the lock, and the path names its file.                     *)
(*                                                                          *)
(* The argument: IndInv is inductive.  A file gets a maker only when it is  *)
(* created, so once a process has judged a file to have none (Unmade), that *)
(* stays true however long it takes to open, lock, compare and unlink; the  *)
(* advisory lock keeps other removers of the same file away meanwhile.      *)
(*                                                                          *)
(* The second part is about the launches of the settings server that take   *)
(* the place of one another, for any number of them (HandoverInv), and the  *)
(* third about the Shell and its Core, for any number of callers.           *)
(***************************************************************************)
EXTENDS LockFile, SettingsHandover, ShellChannel, TLAPS

(* Closing a file gives up its lock and nobody else's.                      *)
LEMMA Closing ==
  ASSUME TypeOK, NEW p \in Process, Close(p)
  PROVE  /\ fd' \in [Process -> Inode \cup {0}] /\ flock' \in [Inode -> Process \cup {NoProcess}]
         /\ \A i \in Inode : flock'[i] # NoProcess => fd'[flock'[i]] = i
         /\ fd'[p] = 0
         /\ \A q \in Process : q # p => fd'[q] = fd[q] /\ \A i \in Inode : flock[i] = q => flock'[i] = q
<1> USE LockFileAssumption DEF Close, Unlocked, TypeOK
<1>1. /\ fd' \in [Process -> Inode \cup {0}] /\ flock' \in [Inode -> Process \cup {NoProcess}]
      /\ fd'[p] = 0
      /\ \A q \in Process : q # p => fd'[q] = fd[q] /\ \A i \in Inode : flock[i] = q => flock'[i] = q
  OBVIOUS
<1>2. ASSUME NEW i \in Inode, flock'[i] # NoProcess PROVE fd'[flock'[i]] = i
  <2>1. flock'[i] = flock[i] /\ flock[i] # p /\ flock[i] \in Process
    BY <1>2
  <2> QED BY <1>1, <2>1
<1> QED BY <1>1, <1>2

(* Who takes the lock of the file it has open takes nobody's.               *)
LEMMA Locking ==
  ASSUME TypeOK, NEW p \in Process, fd[p] \in Inode, Locked(p)
  PROVE  /\ flock' \in [Inode -> Process \cup {NoProcess}] /\ marked' \subseteq Inode /\ old' \in SUBSET old
         /\ UNCHANGED <<path, created, owner, fd, snap>>
         /\ \A i \in Inode : flock'[i] # NoProcess => fd'[flock'[i]] = i
         /\ flock'[fd[p]] = p
         /\ \A q \in Process : \A i \in Inode : flock[i] = q => flock'[i] = q
<1> USE LockFileAssumption DEF Locked, TypeOK
<1>1. flock' = [flock EXCEPT ![fd[p]] = p] /\ fd' = fd /\ flock[fd[p]] = NoProcess
  OBVIOUS
<1>2. \A i \in Inode : flock'[i] # NoProcess => fd'[flock'[i]] = i
  BY <1>1
<1>3. marked' \subseteq Inode /\ old' \in SUBSET old
  OBVIOUS
<1>4. flock'[fd[p]] = p /\ \A q \in Process : \A i \in Inode : flock[i] = q => flock'[i] = q
  BY <1>1
<1>5. flock' \in [Inode -> Process \cup {NoProcess}] /\ UNCHANGED <<path, created, owner, fd, snap>>
  BY <1>1
<1> QED BY <1>2, <1>3, <1>4, <1>5

(* Whoever opens a file had none open, and so held no lock.                 *)
LEMMA Opening ==
  ASSUME TypeOK, NEW p \in Process, fd[p] = 0, NEW f \in Inode,
         fd' = [fd EXCEPT ![p] = f], flock' = flock
  PROVE  /\ fd' \in [Process -> Inode \cup {0}]
         /\ \A i \in Inode : flock'[i] # NoProcess => fd'[flock'[i]] = i
<1>1. ASSUME NEW i \in Inode, flock'[i] # NoProcess PROVE fd'[flock'[i]] = i
  <2>1. flock[i] \in Process /\ fd[flock[i]] = i /\ i # 0
    BY <1>1 DEF TypeOK, Inode
  <2>2. flock[i] # p
    BY <2>1
  <2> QED BY <2>1, <2>2 DEF TypeOK
<1> QED BY <1>1 DEF TypeOK

(* What a process reads of a file is a signature.                           *)
LEMMA SignatureType ==
  ASSUME TypeOK, NEW p \in Process, NEW i \in Inode
  PROVE  Signature(p, i) \in Mark /\ Signature(p, i).inode = i
  BY DEF TypeOK, Signature, Seen, Mark

(* What the others have judged stays true while p becomes no maker.         *)
LEMMA OthersJudged ==
  ASSUME IndInv, ~Windows, NEW p \in Process, created' = created,
         Own(p)' => Own(p) /\ fd'[p] = fd[p],
         \A q \in Process : q # p =>
           /\ pc'[q] = pc[q] /\ snap'[q] = snap[q] /\ fd'[q] = fd[q]
           /\ \A i \in Inode : flock[i] = q => flock'[i] = q
  PROVE  \A q \in Process : q # p => JudgedBy(q)'
<1> SUFFICES ASSUME NEW q \in Process, q # p PROVE JudgedBy(q)'
  OBVIOUS
<1>1. JudgedBy(q) /\ fd[q] \in Inode \cup {0} /\ (pc[q] \in {"check"} \cup Removing => fd[q] \in 1..created)
  BY DEF IndInv, Judged, TypeOK, FilesOpen, Closed, Removing, Leaving
<1>2. \A i : Unmade(i) => Unmade(i)'
  BY DEF Unmade, Own
<1>3. fd[q] \in 1..created => fd[q] \in Inode
  BY <1>1 DEF Inode
<1> QED BY <1>1, <1>2, <1>3 DEF JudgedBy

(* Init establishes it.                                                     *)
LEMMA Initial == Init => IndInv
  BY LockFileAssumption DEF Init, IndInv, TypeOK, FilesOpen, OneMaker, Owned, Named, Judged, JudgedBy, Unmade, Own,
     Closed, Place, Making, Undoing, Leaving, Looking, Removing, NoMark, Mark, Inode

-----------------------------------------------------------------------------
(* Every step preserves it: one step per action; on Windows nothing is      *)
(* claimed of what was judged, for an open file is not removed.             *)
LEMMA Inductive == IndInv /\ [Next]_vars => IndInv'
<1> SUFFICES ASSUME IndInv, [Next]_vars PROVE IndInv'
  OBVIOUS
<1> USE LockFileAssumption DEF IndInv, Inode, Place, Making, Undoing, Leaving, Looking, Closed, Removing, Goto, files
<1>1. ASSUME NEW p \in Process, Start(p) PROVE IndInv'
  <2> USE <1>1 DEF Start
  <2>1. TypeOK'
    BY DEF TypeOK, FilesOpen
  <2>2. FilesOpen' /\ OneMaker' /\ Owned' /\ Named'
    BY DEF TypeOK, FilesOpen, OneMaker, Owned, Named, Judged, JudgedBy, Unmade, Own
  <2>3. ASSUME ~Windows PROVE Judged'
    <3>1. \A q \in Process : q # p => JudgedBy(q)'
      BY OthersJudged, <2>3 DEF TypeOK, FilesOpen, Own
    <3>2. JudgedBy(p)'
      BY <2>3 DEF JudgedBy, TypeOK
    <3> QED BY <3>1, <3>2 DEF Judged
  <2>4. Judged'
    BY <2>3 DEF Judged
  <2> QED BY <2>1, <2>2, <2>4
<1>2. ASSUME NEW p \in Process, Create(p) PROVE IndInv'
  <2> USE <1>2 DEF Create
  <2>1. TypeOK'
    BY Opening DEF TypeOK, FilesOpen
  <2>2. FilesOpen'
    BY DEF TypeOK, FilesOpen, OneMaker, Owned, Named, Judged, JudgedBy, Unmade, Own
  <2>3. OneMaker'
    BY DEF TypeOK, FilesOpen, OneMaker, Owned, Named, Judged, JudgedBy, Unmade, Own
  <2>4. Owned'
    BY DEF TypeOK, FilesOpen, OneMaker, Owned, Named, Judged, JudgedBy, Unmade, Own
  <2>5. Named'
    BY SMTT(20) DEF TypeOK, FilesOpen, OneMaker, Owned, Named, Judged, JudgedBy, Unmade, Own
  <2>6. Judged'
    BY DEF TypeOK, FilesOpen, Judged, JudgedBy, Unmade, Own
  <2> QED BY <2>1, <2>2, <2>3, <2>4, <2>5, <2>6
<1>3. ASSUME NEW p \in Process, Found(p) PROVE IndInv'
  <2> USE <1>3 DEF Found
  <2>1. TypeOK'
    BY DEF TypeOK, FilesOpen
  <2>2. FilesOpen' /\ OneMaker' /\ Owned' /\ Named'
    BY DEF TypeOK, FilesOpen, OneMaker, Owned, Named, Judged, JudgedBy, Unmade, Own
  <2>3. ASSUME ~Windows PROVE Judged'
    <3>1. \A q \in Process : q # p => JudgedBy(q)'
      BY OthersJudged, <2>3 DEF TypeOK, FilesOpen, Own
    <3>2. JudgedBy(p)'
      BY <2>3 DEF JudgedBy, TypeOK
    <3> QED BY <3>1, <3>2 DEF Judged
  <2>4. Judged'
    BY <2>3 DEF Judged
  <2> QED BY <2>1, <2>2, <2>4
<1>4. ASSUME NEW p \in Process, LockNew(p) PROVE IndInv'
  <2> USE <1>4 DEF LockNew
  <2>a. fd[p] \in Inode
    BY DEF TypeOK, FilesOpen
  <2>0. /\ flock' \in [Inode -> Process \cup {NoProcess}] /\ marked' \subseteq Inode /\ old' \in SUBSET old
        /\ UNCHANGED <<path, created, owner, fd, snap>>
        /\ \A i \in Inode : flock'[i] # NoProcess => fd'[flock'[i]] = i
        /\ flock'[fd[p]] = p
        /\ \A q \in Process : \A i \in Inode : flock[i] = q => flock'[i] = q
    BY <2>a, Locking
  <2>1. TypeOK'
    BY <2>0 DEF TypeOK, FilesOpen
  <2>2. FilesOpen' /\ OneMaker' /\ Owned' /\ Named'
    BY DEF TypeOK, FilesOpen, OneMaker, Owned, Named, Judged, JudgedBy, Unmade, Own, Locked
  <2>3. ASSUME ~Windows PROVE Judged'
    <3>a. created' = created /\ (Own(p)' => Own(p) /\ fd'[p] = fd[p])
      BY <2>0, <2>3 DEF Own, TypeOK
    <3>e. \A q \in Process : q # p => \A i \in Inode : flock[i] = q => flock'[i] = q
      BY <2>0
    <3>b. \A q \in Process : q # p => pc'[q] = pc[q] /\ snap'[q] = snap[q] /\ fd'[q] = fd[q]
      BY <2>0 DEF TypeOK
    <3>1. \A q \in Process : q # p => JudgedBy(q)'
      BY OthersJudged, <3>a, <3>b, <3>e, <2>3
    <3>2. JudgedBy(p)'
      BY <2>3 DEF JudgedBy, TypeOK
    <3> QED BY <3>1, <3>2 DEF Judged
  <2>4. Judged'
    BY <2>3 DEF Judged
  <2> QED BY <2>1, <2>2, <2>4
<1>5. ASSUME NEW p \in Process, LockNewFails(p) PROVE IndInv'
  <2> USE <1>5 DEF LockNewFails
  <2>1. TypeOK'
    BY DEF TypeOK, FilesOpen
  <2>2. FilesOpen' /\ OneMaker' /\ Owned' /\ Named'
    BY DEF TypeOK, FilesOpen, OneMaker, Owned, Named, Judged, JudgedBy, Unmade, Own
  <2>3. ASSUME ~Windows PROVE Judged'
    <3>1. \A q \in Process : q # p => JudgedBy(q)'
      BY OthersJudged, <2>3 DEF TypeOK, FilesOpen, Own
    <3>2. JudgedBy(p)'
      BY <2>3 DEF JudgedBy, TypeOK
    <3> QED BY <3>1, <3>2 DEF Judged
  <2>4. Judged'
    BY <2>3 DEF Judged
  <2> QED BY <2>1, <2>2, <2>4
<1>6. ASSUME NEW p \in Process, Write(p) PROVE IndInv'
  <2> USE <1>6 DEF Write
  <2>1. TypeOK'
    BY DEF TypeOK, FilesOpen
  <2>2. FilesOpen' /\ OneMaker' /\ Owned' /\ Named'
    BY DEF TypeOK, FilesOpen, OneMaker, Owned, Named, Judged, JudgedBy, Unmade, Own
  <2>3. ASSUME ~Windows PROVE Judged'
    <3>1. \A q \in Process : q # p => JudgedBy(q)'
      BY OthersJudged, <2>3 DEF TypeOK, FilesOpen, Own
    <3>2. JudgedBy(p)'
      BY <2>3 DEF JudgedBy, TypeOK
    <3> QED BY <3>1, <3>2 DEF Judged
  <2>4. Judged'
    BY <2>3 DEF Judged
  <2> QED BY <2>1, <2>2, <2>4
<1>7. ASSUME NEW p \in Process, WriteFails(p) PROVE IndInv'
  <2> USE <1>7 DEF WriteFails
  <2>1. TypeOK'
    BY DEF TypeOK, FilesOpen
  <2>2. FilesOpen' /\ OneMaker' /\ Owned' /\ Named'
    BY DEF TypeOK, FilesOpen, OneMaker, Owned, Named, Judged, JudgedBy, Unmade, Own
  <2>3. ASSUME ~Windows PROVE Judged'
    <3>1. \A q \in Process : q # p => JudgedBy(q)'
      BY OthersJudged, <2>3 DEF TypeOK, FilesOpen, Own
    <3>2. JudgedBy(p)'
      BY <2>3 DEF JudgedBy, TypeOK
    <3> QED BY <3>1, <3>2 DEF Judged
  <2>4. Judged'
    BY <2>3 DEF Judged
  <2> QED BY <2>1, <2>2, <2>4
<1>8. ASSUME NEW p \in Process, UndoStat(p) PROVE IndInv'
  <2> USE <1>8 DEF UndoStat
  <2>1. TypeOK'
    BY SMTT(20), Closing DEF TypeOK, FilesOpen
  <2>2. FilesOpen'
    BY DEF Close, TypeOK, FilesOpen, OneMaker, Owned, Named, Judged, JudgedBy, Unmade, Own
  <2>3. OneMaker'
    BY DEF Close, TypeOK, FilesOpen, OneMaker, Owned, Named, Judged, JudgedBy, Unmade, Own
  <2>4. Owned'
    BY DEF Close, TypeOK, FilesOpen, OneMaker, Owned, Named, Judged, JudgedBy, Unmade, Own
  <2>5. Named'
    BY DEF Close, TypeOK, FilesOpen, OneMaker, Owned, Named, Judged, JudgedBy, Unmade, Own
  <2>6. ASSUME ~Windows PROVE Judged'
    <3>0. \A q \in Process : q # p => fd'[q] = fd[q] /\ \A i \in Inode : flock[i] = q => flock'[i] = q
      BY Closing DEF TypeOK, FilesOpen
    <3>a. created' = created /\ (Own(p)' => Own(p) /\ fd'[p] = fd[p])
      BY <2>6 DEF Own, TypeOK, Close
    <3>b. \A q \in Process : q # p => pc'[q] = pc[q] /\ snap'[q] = snap[q]
      BY DEF TypeOK
    <3>1. \A q \in Process : q # p => JudgedBy(q)'
      BY OthersJudged, <3>0, <3>a, <3>b, <2>6
    <3>2. JudgedBy(p)'
      BY <2>6 DEF JudgedBy, TypeOK
    <3> QED BY <3>1, <3>2 DEF Judged
  <2>7. Judged'
    BY <2>6 DEF Judged
  <2> QED BY <2>1, <2>2, <2>3, <2>4, <2>5, <2>7
<1>9. ASSUME NEW p \in Process, UndoUnlink(p) PROVE IndInv'
  <2> USE <1>9 DEF UndoUnlink
  <2>0. path' \in {path, 0} /\ pc' \in [Process -> Place]
    BY DEF TypeOK, Unlink
  <2>1. TypeOK'
    BY Closing, <2>0 DEF TypeOK, FilesOpen
  <2>2. FilesOpen' /\ OneMaker' /\ Owned' /\ Named'
    BY DEF Close, TypeOK, FilesOpen, OneMaker, Owned, Named, Judged, JudgedBy, Unmade, Own, Unlink, Deletable
  <2>3. ASSUME ~Windows PROVE Judged'
    <3>0. \A q \in Process : q # p => fd'[q] = fd[q] /\ \A i \in Inode : flock[i] = q => flock'[i] = q
      BY Closing DEF TypeOK, FilesOpen
    <3>a. created' = created /\ (Own(p)' => Own(p) /\ fd'[p] = fd[p])
      BY <2>3 DEF Unlink, Own, TypeOK, Close
    <3>b. \A q \in Process : q # p => pc'[q] = pc[q] /\ snap'[q] = snap[q]
      BY DEF Unlink, TypeOK
    <3>1. \A q \in Process : q # p => JudgedBy(q)'
      BY OthersJudged, <3>0, <3>a, <3>b, <2>3
    <3>2. JudgedBy(p)'
      BY <2>3 DEF JudgedBy, TypeOK, Unlink
    <3> QED BY <3>1, <3>2 DEF Judged
  <2>4. Judged'
    BY <2>3 DEF Judged
  <2> QED BY <2>1, <2>2, <2>4
<1>10. ASSUME NEW p \in Process, LookOpen(p) PROVE IndInv'
  <2> USE <1>10 DEF LookOpen
  <2>1. TypeOK'
    BY Opening DEF TypeOK, FilesOpen
  <2>2. FilesOpen'
    BY DEF TypeOK, FilesOpen, OneMaker, Owned, Named, Judged, JudgedBy, Unmade, Own
  <2>3. OneMaker'
    BY DEF TypeOK, FilesOpen, OneMaker, Owned, Named, Judged, JudgedBy, Unmade, Own
  <2>4. Owned'
    BY DEF TypeOK, FilesOpen, OneMaker, Owned, Named, Judged, JudgedBy, Unmade, Own
  <2>5. Named'
    BY DEF TypeOK, FilesOpen, OneMaker, Owned, Named, Judged, JudgedBy, Unmade, Own
  <2>6. ASSUME ~Windows PROVE Judged'
    <3>1. \A q \in Process : q # p => JudgedBy(q)'
      BY OthersJudged, <2>6 DEF TypeOK, FilesOpen, Own
    <3>2. JudgedBy(p)'
      BY <2>6 DEF JudgedBy, TypeOK
    <3> QED BY <3>1, <3>2 DEF Judged
  <2>7. Judged'
    BY <2>6 DEF Judged
  <2> QED BY <2>1, <2>2, <2>3, <2>4, <2>5, <2>7
<1>11. ASSUME NEW p \in Process, LooksStale(p) PROVE IndInv'
  <2> USE <1>11 DEF LooksStale
  <2>a. fd[p] \in Inode
    BY DEF TypeOK, FilesOpen
  <2>b. Signature(p, fd[p]) \in Mark /\ Signature(p, fd[p]).inode = fd[p]
    BY <2>a, SignatureType
  <2>0. fd[p] \in Inode /\ snap'[p] = Signature(p, fd[p]) /\ snap' \in [Process -> Mark] /\ snap'[p].inode = fd[p]
    BY <2>a, <2>b DEF TypeOK
  <2>1. TypeOK'
    BY Closing, <2>0 DEF TypeOK, FilesOpen
  <2>2. FilesOpen' /\ OneMaker' /\ Owned' /\ Named'
    BY DEF Close, TypeOK, FilesOpen, OneMaker, Owned, Named, Judged, JudgedBy, Unmade, Own, MayLookStale, Signature, Seen
  <2>3. ASSUME ~Windows PROVE Judged'
    <3>0. \A q \in Process : q # p => fd'[q] = fd[q] /\ \A i \in Inode : flock[i] = q => flock'[i] = q
      BY Closing DEF TypeOK, FilesOpen
    <3>a. created' = created /\ (Own(p)' => Own(p) /\ fd'[p] = fd[p])
      BY <2>3 DEF Own, TypeOK, Close
    <3>b. \A q \in Process : q # p => pc'[q] = pc[q] /\ snap'[q] = snap[q]
      BY DEF TypeOK
    <3>1. \A q \in Process : q # p => JudgedBy(q)'
      BY OthersJudged, <3>0, <3>a, <3>b, <2>3
    <3>2. JudgedBy(p)'
      BY Closing, <2>0, <2>3 DEF TypeOK, FilesOpen, OneMaker, Owned, Named, Judged, JudgedBy, Unmade, Own, MayLookStale, Signature, Seen
    <3> QED BY <3>1, <3>2 DEF Judged
  <2>4. Judged'
    BY <2>3 DEF Judged
  <2> QED BY <2>1, <2>2, <2>4
<1>12. ASSUME NEW p \in Process, LooksLive(p) PROVE IndInv'
  <2> USE <1>12 DEF LooksLive
  <2>1. TypeOK'
    BY Closing DEF TypeOK, FilesOpen
  <2>2. FilesOpen' /\ OneMaker' /\ Owned' /\ Named'
    BY DEF Close, TypeOK, FilesOpen, OneMaker, Owned, Named, Judged, JudgedBy, Unmade, Own
  <2>3. ASSUME ~Windows PROVE Judged'
    <3>0. \A q \in Process : q # p => fd'[q] = fd[q] /\ \A i \in Inode : flock[i] = q => flock'[i] = q
      BY Closing DEF TypeOK, FilesOpen
    <3>a. created' = created /\ (Own(p)' => Own(p) /\ fd'[p] = fd[p])
      BY <2>3 DEF Own, TypeOK, Close
    <3>b. \A q \in Process : q # p => pc'[q] = pc[q] /\ snap'[q] = snap[q]
      BY DEF TypeOK
    <3>1. \A q \in Process : q # p => JudgedBy(q)'
      BY OthersJudged, <3>0, <3>a, <3>b, <2>3
    <3>2. JudgedBy(p)'
      BY <2>3 DEF JudgedBy, TypeOK
    <3> QED BY <3>1, <3>2 DEF Judged
  <2>4. Judged'
    BY <2>3 DEF Judged
  <2> QED BY <2>1, <2>2, <2>4
<1>13. ASSUME NEW p \in Process, Retry(p) PROVE IndInv'
  <2> USE <1>13 DEF Retry
  <2>1. TypeOK'
    BY DEF TypeOK, FilesOpen
  <2>2. FilesOpen' /\ OneMaker' /\ Owned' /\ Named'
    BY DEF TypeOK, FilesOpen, OneMaker, Owned, Named, Judged, JudgedBy, Unmade, Own
  <2>3. ASSUME ~Windows PROVE Judged'
    <3>1. \A q \in Process : q # p => JudgedBy(q)'
      BY OthersJudged, <2>3 DEF TypeOK, FilesOpen, Own
    <3>2. JudgedBy(p)'
      BY <2>3 DEF JudgedBy, TypeOK
    <3> QED BY <3>1, <3>2 DEF Judged
  <2>4. Judged'
    BY <2>3 DEF Judged
  <2> QED BY <2>1, <2>2, <2>4
<1>14. ASSUME NEW p \in Process, GiveUp(p) PROVE IndInv'
  <2> USE <1>14 DEF GiveUp
  <2>1. TypeOK'
    BY DEF TypeOK, FilesOpen
  <2>2. FilesOpen' /\ OneMaker' /\ Owned' /\ Named'
    BY DEF TypeOK, FilesOpen, OneMaker, Owned, Named, Judged, JudgedBy, Unmade, Own
  <2>3. ASSUME ~Windows PROVE Judged'
    <3>1. \A q \in Process : q # p => JudgedBy(q)'
      BY OthersJudged, <2>3 DEF TypeOK, FilesOpen, Own
    <3>2. JudgedBy(p)'
      BY <2>3 DEF JudgedBy, TypeOK
    <3> QED BY <3>1, <3>2 DEF Judged
  <2>4. Judged'
    BY <2>3 DEF Judged
  <2> QED BY <2>1, <2>2, <2>4
<1>15. ASSUME NEW p \in Process, Reopen(p) PROVE IndInv'
  <2> USE <1>15 DEF Reopen
  <2>1. TypeOK'
    BY Opening DEF TypeOK, FilesOpen
  <2>2. FilesOpen'
    BY DEF TypeOK, FilesOpen, OneMaker, Owned, Named, Judged, JudgedBy, Unmade, Own
  <2>3. OneMaker'
    BY DEF TypeOK, FilesOpen, OneMaker, Owned, Named, Judged, JudgedBy, Unmade, Own
  <2>4. Owned'
    BY DEF TypeOK, FilesOpen, OneMaker, Owned, Named, Judged, JudgedBy, Unmade, Own
  <2>5. Named'
    BY DEF TypeOK, FilesOpen, OneMaker, Owned, Named, Judged, JudgedBy, Unmade, Own
  <2>6. ASSUME ~Windows PROVE Judged'
    <3>1. \A q \in Process : q # p => JudgedBy(q)'
      BY OthersJudged, <2>6 DEF TypeOK, FilesOpen, Own
    <3>2. JudgedBy(p)'
      BY Opening, <2>6 DEF TypeOK, FilesOpen, OneMaker, Owned, Named, Judged, JudgedBy, Unmade, Own
    <3> QED BY <3>1, <3>2 DEF Judged
  <2>7. Judged'
    BY <2>6 DEF Judged
  <2> QED BY <2>1, <2>2, <2>3, <2>4, <2>5, <2>7
<1>16. ASSUME NEW p \in Process, LockStale(p) PROVE IndInv'
  <2> USE <1>16 DEF LockStale
  <2>a. fd[p] \in Inode
    BY DEF TypeOK, FilesOpen
  <2>0. /\ flock' \in [Inode -> Process \cup {NoProcess}] /\ marked' \subseteq Inode /\ old' \in SUBSET old
        /\ UNCHANGED <<path, created, owner, fd, snap>>
        /\ \A i \in Inode : flock'[i] # NoProcess => fd'[flock'[i]] = i
        /\ flock'[fd[p]] = p
        /\ \A q \in Process : \A i \in Inode : flock[i] = q => flock'[i] = q
    BY <2>a, Locking
  <2>1. TypeOK'
    BY <2>0 DEF TypeOK, FilesOpen
  <2>2. FilesOpen' /\ OneMaker' /\ Owned' /\ Named'
    BY DEF TypeOK, FilesOpen, OneMaker, Owned, Named, Judged, JudgedBy, Unmade, Own, Locked
  <2>3. ASSUME ~Windows PROVE Judged'
    <3>a. created' = created /\ (Own(p)' => Own(p) /\ fd'[p] = fd[p])
      BY <2>0, <2>3 DEF Own, TypeOK
    <3>e. \A q \in Process : q # p => \A i \in Inode : flock[i] = q => flock'[i] = q
      BY <2>0
    <3>b. \A q \in Process : q # p => pc'[q] = pc[q] /\ snap'[q] = snap[q] /\ fd'[q] = fd[q]
      BY <2>0 DEF TypeOK
    <3>1. \A q \in Process : q # p => JudgedBy(q)'
      BY OthersJudged, <3>a, <3>b, <3>e, <2>3
    <3>c. \A i : Unmade(i) => Unmade(i)'
      BY <3>a, <3>b DEF Unmade, Own
    <3>d. pc[p] = "try" /\ pc'[p] = "check" /\ JudgedBy(p)
      BY <2>3 DEF TypeOK, Judged
    <3>2. JudgedBy(p)'
      <4>1. snap'[p] = snap[p] /\ fd'[p] = fd[p] /\ flock'[fd'[p]] = p
        BY <2>0
      <4>2. snap[p].inode \in 1..created /\ \A q \in Process : Own(q)' => fd'[q] # snap[p].inode
        BY <3>c, <3>d DEF JudgedBy, Unmade
      <4> QED BY <3>a, <3>d, <4>1, <4>2 DEF JudgedBy, Unmade
    <3> QED BY <3>1, <3>2 DEF Judged
  <2>4. Judged'
    BY <2>3 DEF Judged
  <2> QED BY <2>1, <2>2, <2>4
<1>17. ASSUME NEW p \in Process, LockStaleFails(p) PROVE IndInv'
  <2> USE <1>17 DEF LockStaleFails
  <2>1. TypeOK'
    BY Closing DEF TypeOK, FilesOpen
  <2>2. FilesOpen' /\ OneMaker' /\ Owned' /\ Named'
    BY DEF Close, TypeOK, FilesOpen, OneMaker, Owned, Named, Judged, JudgedBy, Unmade, Own
  <2>3. ASSUME ~Windows PROVE Judged'
    <3>0. \A q \in Process : q # p => fd'[q] = fd[q] /\ \A i \in Inode : flock[i] = q => flock'[i] = q
      BY Closing DEF TypeOK, FilesOpen
    <3>a. created' = created /\ (Own(p)' => Own(p) /\ fd'[p] = fd[p])
      BY <2>3 DEF Own, TypeOK, Close
    <3>b. \A q \in Process : q # p => pc'[q] = pc[q] /\ snap'[q] = snap[q]
      BY DEF TypeOK
    <3>1. \A q \in Process : q # p => JudgedBy(q)'
      BY OthersJudged, <3>0, <3>a, <3>b, <2>3
    <3>2. JudgedBy(p)'
      BY <2>3 DEF JudgedBy, TypeOK
    <3> QED BY <3>1, <3>2 DEF Judged
  <2>4. Judged'
    BY <2>3 DEF Judged
  <2> QED BY <2>1, <2>2, <2>4
<1>18. ASSUME NEW p \in Process, Check(p) PROVE IndInv'
  <2> USE <1>18 DEF Check
  <2>1. TypeOK'
    BY Closing DEF TypeOK, FilesOpen
  <2>2. FilesOpen' /\ OneMaker' /\ Owned' /\ Named'
    BY DEF Close, TypeOK, FilesOpen, OneMaker, Owned, Named, Judged, JudgedBy, Unmade, Own, Same, Signature
  <2>3. ASSUME ~Windows PROVE Judged'
    <3>0. \A q \in Process : q # p => fd'[q] = fd[q] /\ \A i \in Inode : flock[i] = q => flock'[i] = q
      BY Closing DEF TypeOK, FilesOpen
    <3>a. created' = created /\ (Own(p)' => Own(p) /\ fd'[p] = fd[p])
      BY <2>3 DEF Own, TypeOK, Close
    <3>b. \A q \in Process : q # p => pc'[q] = pc[q] /\ snap'[q] = snap[q]
      BY DEF TypeOK
    <3>1. \A q \in Process : q # p => JudgedBy(q)'
      BY OthersJudged, <3>0, <3>a, <3>b, <2>3
    <3>2. JudgedBy(p)'
      BY Closing, <2>3 DEF TypeOK, FilesOpen, OneMaker, Owned, Named, Judged, JudgedBy, Unmade, Own, Same, Signature
    <3> QED BY <3>1, <3>2 DEF Judged
  <2>4. Judged'
    BY <2>3 DEF Judged
  <2> QED BY <2>1, <2>2, <2>4
<1>19. ASSUME NEW p \in Process, Stat(p) PROVE IndInv'
  <2> USE <1>19 DEF Stat
  <2>1. TypeOK'
    BY Closing DEF TypeOK, FilesOpen
  <2>2. FilesOpen' /\ OneMaker' /\ Owned' /\ Named'
    BY DEF Close, TypeOK, FilesOpen, OneMaker, Owned, Named, Judged, JudgedBy, Unmade, Own, StillNamed
  <2>3. ASSUME ~Windows PROVE Judged'
    <3>0. \A q \in Process : q # p => fd'[q] = fd[q] /\ \A i \in Inode : flock[i] = q => flock'[i] = q
      BY Closing DEF TypeOK, FilesOpen
    <3>a. created' = created /\ (Own(p)' => Own(p) /\ fd'[p] = fd[p])
      BY <2>3 DEF Own, TypeOK, Close
    <3>b. \A q \in Process : q # p => pc'[q] = pc[q] /\ snap'[q] = snap[q]
      BY DEF TypeOK
    <3>1. \A q \in Process : q # p => JudgedBy(q)'
      BY OthersJudged, <3>0, <3>a, <3>b, <2>3
    <3>2. JudgedBy(p)'
      BY Closing, <2>3 DEF TypeOK, FilesOpen, OneMaker, Owned, Named, Judged, JudgedBy, Unmade, Own, StillNamed
    <3> QED BY <3>1, <3>2 DEF Judged
  <2>4. Judged'
    BY <2>3 DEF Judged
  <2> QED BY <2>1, <2>2, <2>4
<1>20. ASSUME NEW p \in Process, Remove(p) PROVE IndInv'
  <2> USE <1>20 DEF Remove
  <2>0. path' \in {path, 0} /\ pc' \in [Process -> Place]
    BY DEF TypeOK, Unlink
  <2>1. TypeOK'
    BY Closing, <2>0 DEF TypeOK, FilesOpen
  <2>2. FilesOpen' /\ OneMaker' /\ Owned' /\ Named'
    BY DEF Close, TypeOK, FilesOpen, OneMaker, Owned, Named, Judged, JudgedBy, Unmade, Own, Unlink, Deletable
  <2>3. ASSUME ~Windows PROVE Judged'
    <3>0. \A q \in Process : q # p => fd'[q] = fd[q] /\ \A i \in Inode : flock[i] = q => flock'[i] = q
      BY Closing DEF TypeOK, FilesOpen
    <3>a. created' = created /\ (Own(p)' => Own(p) /\ fd'[p] = fd[p])
      BY <2>3 DEF Unlink, Own, TypeOK, Close
    <3>b. \A q \in Process : q # p => pc'[q] = pc[q] /\ snap'[q] = snap[q]
      BY DEF Unlink, TypeOK
    <3>1. \A q \in Process : q # p => JudgedBy(q)'
      BY OthersJudged, <3>0, <3>a, <3>b, <2>3
    <3>2. JudgedBy(p)'
      BY <2>3 DEF JudgedBy, TypeOK, Unlink
    <3> QED BY <3>1, <3>2 DEF Judged
  <2>4. Judged'
    BY <2>3 DEF Judged
  <2> QED BY <2>1, <2>2, <2>4
<1>21. ASSUME NEW p \in Process, Release(p) PROVE IndInv'
  <2> USE <1>21 DEF Release
  <2>1. TypeOK'
    <3>1. fd[p] \in Inode
      BY DEF TypeOK, FilesOpen
    <3>2. pc' \in [Process -> Place] /\ snap' \in [Process -> Mark]
      BY <3>1, SignatureType DEF TypeOK
    <3>3. CASE Windows
      <4>1. Close(p)
        BY <3>3
      <4> QED BY <3>2, <4>1, Closing DEF TypeOK
    <3>4. CASE ~Windows
      <4> QED BY <3>2, <3>4 DEF TypeOK
    <3> QED BY <3>3, <3>4
  <2>2. FilesOpen' /\ OneMaker' /\ Owned' /\ Named'
    BY DEF Close, TypeOK, FilesOpen, OneMaker, Owned, Named, Judged, JudgedBy, Unmade, Own
  <2>3. ASSUME ~Windows PROVE Judged'
    <3>0. \A q \in Process : q # p => fd'[q] = fd[q] /\ \A i \in Inode : flock[i] = q => flock'[i] = q
      BY Closing DEF TypeOK, FilesOpen
    <3>a. created' = created /\ (Own(p)' => Own(p) /\ fd'[p] = fd[p])
      BY <2>3 DEF Own, TypeOK, Close
    <3>b. \A q \in Process : q # p => pc'[q] = pc[q] /\ snap'[q] = snap[q]
      BY DEF TypeOK
    <3>1. \A q \in Process : q # p => JudgedBy(q)'
      BY OthersJudged, <3>0, <3>a, <3>b, <2>3
    <3>2. JudgedBy(p)'
      BY <2>3 DEF JudgedBy, TypeOK
    <3> QED BY <3>1, <3>2 DEF Judged
  <2>4. Judged'
    BY <2>3 DEF Judged
  <2> QED BY <2>1, <2>2, <2>4
<1>22. ASSUME NEW p \in Process, LeaveStat(p) PROVE IndInv'
  <2> USE <1>22 DEF LeaveStat
  <2>1. TypeOK'
    BY Closing DEF TypeOK, FilesOpen
  <2>2. FilesOpen' /\ OneMaker' /\ Owned' /\ Named'
    BY DEF Close, TypeOK, FilesOpen, OneMaker, Owned, Named, Judged, JudgedBy, Unmade, Own, StillNamed
  <2>3. ASSUME ~Windows PROVE Judged'
    <3>0. \A q \in Process : q # p => fd'[q] = fd[q] /\ \A i \in Inode : flock[i] = q => flock'[i] = q
      BY Closing DEF TypeOK, FilesOpen
    <3>a. created' = created /\ (Own(p)' => Own(p) /\ fd'[p] = fd[p])
      BY <2>3 DEF Own, TypeOK, Close
    <3>b. \A q \in Process : q # p => pc'[q] = pc[q] /\ snap'[q] = snap[q]
      BY DEF TypeOK
    <3>1. \A q \in Process : q # p => JudgedBy(q)'
      BY OthersJudged, <3>0, <3>a, <3>b, <2>3
    <3>2. JudgedBy(p)'
      BY <2>3 DEF JudgedBy, TypeOK
    <3> QED BY <3>1, <3>2 DEF Judged
  <2>4. Judged'
    BY <2>3 DEF Judged
  <2> QED BY <2>1, <2>2, <2>4
<1>23. ASSUME NEW p \in Process, LeaveUnlink(p) PROVE IndInv'
  <2> USE <1>23 DEF LeaveUnlink
  <2>0. path' \in {path, 0} /\ pc' \in [Process -> Place]
    BY DEF TypeOK, Unlink
  <2>1. TypeOK'
    BY Closing, <2>0 DEF TypeOK, FilesOpen
  <2>2. FilesOpen' /\ OneMaker' /\ Owned' /\ Named'
    BY DEF Close, TypeOK, FilesOpen, OneMaker, Owned, Named, Judged, JudgedBy, Unmade, Own, Unlink, Deletable
  <2>3. ASSUME ~Windows PROVE Judged'
    <3>0. \A q \in Process : q # p => fd'[q] = fd[q] /\ \A i \in Inode : flock[i] = q => flock'[i] = q
      BY Closing DEF TypeOK, FilesOpen
    <3>a. created' = created /\ (Own(p)' => Own(p) /\ fd'[p] = fd[p])
      BY <2>3 DEF Unlink, Own, TypeOK, Close
    <3>b. \A q \in Process : q # p => pc'[q] = pc[q] /\ snap'[q] = snap[q]
      BY DEF Unlink, TypeOK
    <3>1. \A q \in Process : q # p => JudgedBy(q)'
      BY OthersJudged, <3>0, <3>a, <3>b, <2>3
    <3>2. JudgedBy(p)'
      BY <2>3 DEF JudgedBy, TypeOK, Unlink
    <3> QED BY <3>1, <3>2 DEF Judged
  <2>4. Judged'
    BY <2>3 DEF Judged
  <2> QED BY <2>1, <2>2, <2>4
<1>24. ASSUME NEW p \in Process, Crash(p) PROVE IndInv'
  <2> USE <1>24 DEF Crash
  <2>1. TypeOK'
    BY Closing DEF TypeOK, FilesOpen
  <2>2. FilesOpen' /\ OneMaker' /\ Owned' /\ Named'
    BY DEF Close, TypeOK, FilesOpen, OneMaker, Owned, Named, Judged, JudgedBy, Unmade, Own
  <2>3. ASSUME ~Windows PROVE Judged'
    <3>0. \A q \in Process : q # p => fd'[q] = fd[q] /\ \A i \in Inode : flock[i] = q => flock'[i] = q
      BY Closing DEF TypeOK, FilesOpen
    <3>a. created' = created /\ (Own(p)' => Own(p) /\ fd'[p] = fd[p])
      BY <2>3 DEF Own, TypeOK, Close
    <3>b. \A q \in Process : q # p => pc'[q] = pc[q] /\ snap'[q] = snap[q]
      BY DEF TypeOK
    <3>1. \A q \in Process : q # p => JudgedBy(q)'
      BY OthersJudged, <3>0, <3>a, <3>b, <2>3
    <3>2. JudgedBy(p)'
      BY <2>3 DEF JudgedBy, TypeOK
    <3> QED BY <3>1, <3>2 DEF Judged
  <2>4. Judged'
    BY <2>3 DEF Judged
  <2> QED BY <2>1, <2>2, <2>4
<1>25. ASSUME NEW i \in Inode, Age(i) PROVE IndInv'
  BY <1>25 DEF Age, TypeOK, FilesOpen, OneMaker, Owned, Named, Judged, JudgedBy, Unmade, Own
<1>26. CASE UNCHANGED vars
  BY <1>26 DEF vars, TypeOK, FilesOpen, OneMaker, Owned, Named, Judged, JudgedBy, Unmade, Own
<1> QED
  BY <1>1, <1>2, <1>3, <1>4, <1>5, <1>6, <1>7, <1>8, <1>9, <1>10, <1>11, <1>12, <1>13, <1>14, <1>15, <1>16, <1>17, <1>18, <1>19, <1>20, <1>21, <1>22, <1>23, <1>24, <1>25, <1>26 DEF Next, Acquiring, Releasing

-----------------------------------------------------------------------------
(* Litter: the file the path names has a maker, or remembers a dead one.    *)

LEMMA LitterStep == IndInv /\ LitterIsFromCrash /\ [Next]_vars => LitterIsFromCrash'
<1> SUFFICES ASSUME IndInv, LitterIsFromCrash, [Next]_vars, ~Windows PROVE LitterIsFromCrash'
  BY DEF LitterIsFromCrash
<1> USE LockFileAssumption DEF IndInv, LitterIsFromCrash, Inode, Place, Making, Undoing, Leaving, Looking, Closed, Removing, Goto, files
<1>1. ASSUME NEW p \in Process, Start(p) PROVE LitterIsFromCrash'
  BY <1>1 DEF Start, TypeOK, FilesOpen, Owned, Named
<1>2. ASSUME NEW p \in Process, Create(p) PROVE LitterIsFromCrash'
  BY <1>2 DEF Create, TypeOK, FilesOpen, Owned, Named
<1>3. ASSUME NEW p \in Process, Found(p) PROVE LitterIsFromCrash'
  BY <1>3 DEF Found, TypeOK, FilesOpen, Owned, Named
<1>4. ASSUME NEW p \in Process, LockNew(p) PROVE LitterIsFromCrash'
  BY <1>4 DEF LockNew, Locked, TypeOK, FilesOpen, Owned, Named
<1>5. ASSUME NEW p \in Process, LockNewFails(p) PROVE LitterIsFromCrash'
  BY <1>5 DEF LockNewFails, TypeOK, FilesOpen, Owned, Named
<1>6. ASSUME NEW p \in Process, Write(p) PROVE LitterIsFromCrash'
  BY <1>6 DEF Write, TypeOK, FilesOpen, Owned, Named
<1>7. ASSUME NEW p \in Process, WriteFails(p) PROVE LitterIsFromCrash'
  BY <1>7 DEF WriteFails, TypeOK, FilesOpen, Owned, Named
<1>8. ASSUME NEW p \in Process, UndoStat(p) PROVE LitterIsFromCrash'
  BY SMTT(20), <1>8 DEF UndoStat, Close, TypeOK, FilesOpen, Owned, Named
<1>9. ASSUME NEW p \in Process, UndoUnlink(p) PROVE LitterIsFromCrash'
  BY <1>9 DEF UndoUnlink, Unlink, Deletable, Close, TypeOK, FilesOpen, Owned, Named
<1>10. ASSUME NEW p \in Process, LookOpen(p) PROVE LitterIsFromCrash'
  BY <1>10 DEF LookOpen, TypeOK, FilesOpen, Owned, Named
<1>11. ASSUME NEW p \in Process, LooksStale(p) PROVE LitterIsFromCrash'
  BY <1>11 DEF LooksStale, Close, TypeOK, FilesOpen, Owned, Named
<1>12. ASSUME NEW p \in Process, LooksLive(p) PROVE LitterIsFromCrash'
  BY <1>12 DEF LooksLive, Close, TypeOK, FilesOpen, Owned, Named
<1>13. ASSUME NEW p \in Process, Retry(p) PROVE LitterIsFromCrash'
  BY <1>13 DEF Retry, TypeOK, FilesOpen, Owned, Named
<1>14. ASSUME NEW p \in Process, GiveUp(p) PROVE LitterIsFromCrash'
  BY <1>14 DEF GiveUp, TypeOK, FilesOpen, Owned, Named
<1>15. ASSUME NEW p \in Process, Reopen(p) PROVE LitterIsFromCrash'
  BY <1>15 DEF Reopen, TypeOK, FilesOpen, Owned, Named
<1>16. ASSUME NEW p \in Process, LockStale(p) PROVE LitterIsFromCrash'
  BY <1>16 DEF LockStale, Locked, TypeOK, FilesOpen, Owned, Named
<1>17. ASSUME NEW p \in Process, LockStaleFails(p) PROVE LitterIsFromCrash'
  BY <1>17 DEF LockStaleFails, Close, TypeOK, FilesOpen, Owned, Named
<1>18. ASSUME NEW p \in Process, Check(p) PROVE LitterIsFromCrash'
  BY <1>18 DEF Check, Close, TypeOK, FilesOpen, Owned, Named
<1>19. ASSUME NEW p \in Process, Stat(p) PROVE LitterIsFromCrash'
  BY <1>19 DEF Stat, StillNamed, Close, TypeOK, FilesOpen, Owned, Named
<1>20. ASSUME NEW p \in Process, Remove(p) PROVE LitterIsFromCrash'
  BY <1>20 DEF Remove, Unlink, Deletable, Close, TypeOK, FilesOpen, Owned, Named
<1>21. ASSUME NEW p \in Process, Release(p) PROVE LitterIsFromCrash'
  BY <1>21 DEF Release, Close, TypeOK, FilesOpen, Owned, Named
<1>22. ASSUME NEW p \in Process, LeaveStat(p) PROVE LitterIsFromCrash'
  BY ZenonT(40), <1>22 DEF LeaveStat, StillNamed, Close, TypeOK, FilesOpen, Owned, Named
<1>23. ASSUME NEW p \in Process, LeaveUnlink(p) PROVE LitterIsFromCrash'
  BY <1>23 DEF LeaveUnlink, Unlink, Deletable, Close, TypeOK, FilesOpen, Owned, Named
<1>24. ASSUME NEW p \in Process, Crash(p) PROVE LitterIsFromCrash'
  BY <1>24 DEF Crash, Close, TypeOK, FilesOpen, Owned, Named
<1>25. ASSUME NEW i \in Inode, Age(i) PROVE LitterIsFromCrash'
  BY <1>25 DEF Age
<1>26. CASE UNCHANGED vars
  BY <1>26 DEF vars
<1> QED
  BY <1>1, <1>2, <1>3, <1>4, <1>5, <1>6, <1>7, <1>8, <1>9, <1>10, <1>11, <1>12, <1>13, <1>14, <1>15, <1>16, <1>17, <1>18, <1>19, <1>20, <1>21, <1>22, <1>23, <1>24, <1>25, <1>26 DEF Next, Acquiring, Releasing

-----------------------------------------------------------------------------
(* A holder is the only maker of the file the path names.                   *)
LEMMA Consequences == IndInv => LockIsHeld
  BY DEF IndInv, OneMaker, Owned, Named, LockIsHeld, MutualExclusion, HolderIsNamed, Own

(* The inductive invariant holds of every reachable state.                  *)
THEOREM Invariance == Spec => []IndInv
  BY Initial, Inductive, PTL DEF Spec

(* Two processes never hold the lock at the same time, and the path names   *)
(* the file of the one that holds it or is about to: nobody removes it      *)
(* under it.                                                                *)
THEOREM OneHolder == Spec => []LockIsHeld
  BY Invariance, Consequences, PTL

(* On POSIX a file nobody is using is what a crash left behind.             *)
THEOREM LitterOrigin == Spec => []LitterIsFromCrash
<1>1. Init => LitterIsFromCrash
  BY DEF Init, LitterIsFromCrash
<1> QED BY <1>1, LitterStep, Invariance, PTL DEF Spec

-----------------------------------------------------------------------------
(***************************************************************************)
(* The launches of the settings server.                                    *)
(***************************************************************************)
(* What is known of each launch.  Whoever owns is in the lock, and nobody  *)
(* else is, until it lets go; the socket is its own from its first minute  *)
(* of service until it ends, since only the owner binds or removes one; a  *)
(* launch is connected to the owner whose record it read, and commits to   *)
(* no one else, once.                                                      *)
Stages == {"start", "reading", "asking", "ready", "waiting", "owner", "serving", "ending", "parting", "released",
           "gone", "refused", "timeout"}
Owning == {"owner", "serving", "ending", "parting"}

HandoverTypeOK ==
  /\ stage \in [Launch -> Stages]
  /\ lock \in Launch \cup {NoLaunch} /\ socket \in Launch \cup {NoLaunch}
  /\ seen \in [Launch -> Launch \cup {NoLaunch}] /\ peer \in [Launch -> Launch \cup {NoLaunch}]
  /\ mail \subseteq Launch \X Launch

OwnersOK == \A l \in Launch : stage[l] \in Owning => lock = l
SocketOK == \A l \in Launch : stage[l] \in {"serving", "ending"} => socket = l
PeersOK  == \A l \in Launch : stage[l] \in {"ready", "waiting"} => peer[l] = seen[l] /\ peer[l] # NoLaunch
MailOK   == \A m \in mail : m[2] = seen[m[1]] /\ stage[m[1]] \notin {"start", "reading", "asking", "ready", "refused"}

HandoverInv == HandoverTypeOK /\ OwnersOK /\ SocketOK /\ PeersOK /\ MailOK

LEMMA HandoverInitInv ==
  ASSUME HandoverInit
  PROVE  HandoverInv
  BY DEF HandoverInit, HandoverInv, HandoverTypeOK, Stages, Owning, OwnersOK, SocketOK, PeersOK, MailOK

(* A launch goes on; nobody else does.                                     *)
LEMMA Moving ==
  ASSUME HandoverInv, NEW l \in Launch, NEW s \in Stages, Proceeds(l, s)
  PROVE  stage' \in [Launch -> Stages] /\ stage'[l] = s /\ \A q \in Launch : q # l => stage'[q] = stage[q]
  BY DEF HandoverInv, HandoverTypeOK, Proceeds

(* A free lock has no owner who could still serve.                         *)
LEMMA FreeIsFree ==
  ASSUME HandoverInv, LockFree
  PROVE  \A q \in Launch : stage[q] \notin Owning
  <1> SUFFICES ASSUME NEW q \in Launch, stage[q] \in Owning
               PROVE  FALSE
    OBVIOUS
  <1>1. lock = q
    BY DEF HandoverInv, OwnersOK
  <1> QED BY <1>1, LaunchAssumption DEF LockFree, StillRuns, Owning

(* A launch that moves without owning, before or after, or is the only one *)
(* and goes on owning.                                                     *)
LEMMA QuietMove ==
  ASSUME HandoverInv, NEW l \in Launch, NEW s \in Stages, Proceeds(l, s),
         UNCHANGED <<lock, socket, seen, peer, mail>>,
         s \in Owning => stage[l] \in Owning,
         s \in {"serving", "ending"} => stage[l] \in {"serving", "ending"},
         s \in {"ready", "waiting"} => stage[l] \in {"ready", "waiting"},
         s \in {"start", "reading", "asking", "ready", "refused"} => \A m \in mail : m[1] # l
  PROVE  HandoverInv'
  <1>1. stage' \in [Launch -> Stages] /\ stage'[l] = s /\ \A q \in Launch : q # l => stage'[q] = stage[q]
    BY Moving
  <1>2. HandoverTypeOK'
    BY <1>1 DEF HandoverInv, HandoverTypeOK
  <1>3. OwnersOK' /\ SocketOK' /\ PeersOK'
    BY <1>1 DEF HandoverInv, OwnersOK, SocketOK, PeersOK
  <1>4. MailOK'
    <2> SUFFICES ASSUME NEW m \in mail
                 PROVE  m[2] = seen[m[1]] /\ stage'[m[1]] \notin {"start", "reading", "asking", "ready", "refused"}
      BY DEF MailOK
    <2>1. m[1] \in Launch
      BY DEF HandoverInv, HandoverTypeOK
    <2> QED BY <1>1, <2>1 DEF HandoverInv, MailOK
  <1> QED BY <1>2, <1>3, <1>4 DEF HandoverInv

(* The lock is taken when it is free.                                      *)
LEMMA TakesLock ==
  ASSUME HandoverInv, NEW l \in Launch, LockFree, lock' = l, Proceeds(l, "owner"), UNCHANGED <<socket, seen, peer, mail>>
  PROVE  HandoverInv'
  <1>1. stage' \in [Launch -> Stages] /\ stage'[l] = "owner" /\ \A q \in Launch : q # l => stage'[q] = stage[q]
    BY Moving DEF Stages
  <1>2. \A q \in Launch : stage[q] \notin Owning
    BY FreeIsFree
  <1>3. HandoverTypeOK'
    BY <1>1 DEF HandoverInv, HandoverTypeOK
  <1>4. OwnersOK'
    BY <1>1, <1>2 DEF OwnersOK
  <1>5. SocketOK' /\ PeersOK'
    BY <1>1, <1>2 DEF SocketOK, PeersOK, Owning, HandoverInv
  <1>6. MailOK'
    <2> SUFFICES ASSUME NEW m \in mail
                 PROVE  m[2] = seen[m[1]] /\ stage'[m[1]] \notin {"start", "reading", "asking", "ready", "refused"}
      BY DEF MailOK
    <2>1. m[1] \in Launch
      BY DEF HandoverInv, HandoverTypeOK
    <2> QED BY <1>1, <2>1 DEF HandoverInv, MailOK
  <1> QED BY <1>3, <1>4, <1>5, <1>6 DEF HandoverInv

(* A launch that has not committed has no mail under way.                  *)
LEMMA NoMailYet ==
  ASSUME HandoverInv, NEW l \in Launch, stage[l] \in {"start", "reading", "asking", "ready"}
  PROVE  \A m \in mail : m[1] # l
  BY DEF HandoverInv, MailOK

LEMMA HandoverStep ==
  ASSUME HandoverInv, [HandoverNext]_launchVars
  PROVE  HandoverInv'
  <1>1. ASSUME NEW l \in Launch, AcquireAtOnce(l)
        PROVE  HandoverInv'
    <2>1. CASE LockFree
      BY <1>1, <2>1, TakesLock DEF AcquireAtOnce
    <2>2. CASE ~LockFree
      <3>1. Proceeds(l, "reading") /\ stage[l] = "start" /\ UNCHANGED <<lock, socket, seen, peer, mail>>
        BY <1>1, <2>2 DEF AcquireAtOnce
      <3>2. \A m \in mail : m[1] # l
        BY <3>1, NoMailYet
      <3> QED BY <3>1, <3>2, QuietMove DEF Stages, Owning
    <2> QED BY <2>1, <2>2
  <1>2. ASSUME NEW l \in Launch, ReadOwner(l)
        PROVE  HandoverInv'
    <2>1. PICK s \in {"refused", "asking"} : Proceeds(l, s)
      BY <1>2 DEF ReadOwner
    <2>2. seen' = [seen EXCEPT ![l] = lock] /\ stage[l] = "reading" /\ UNCHANGED <<lock, socket, peer, mail>>
      BY <1>2 DEF ReadOwner
    <2>3. stage' \in [Launch -> Stages] /\ stage'[l] = s /\ \A q \in Launch : q # l => stage'[q] = stage[q]
      BY <2>1, Moving DEF Stages
    <2>4. seen' \in [Launch -> Launch \cup {NoLaunch}] /\ \A q \in Launch : q # l => seen'[q] = seen[q]
      BY <2>2 DEF HandoverInv, HandoverTypeOK
    <2>5. HandoverTypeOK'
      BY <2>2, <2>3, <2>4 DEF HandoverInv, HandoverTypeOK
    <2>6. OwnersOK' /\ SocketOK' /\ PeersOK'
      BY <2>2, <2>3, <2>4 DEF HandoverInv, OwnersOK, SocketOK, PeersOK, Owning
    <2>7. MailOK'
      <3> SUFFICES ASSUME NEW m \in mail
                   PROVE  m[2] = seen'[m[1]] /\ stage'[m[1]] \notin {"start", "reading", "asking", "ready", "refused"}
        BY <2>2 DEF MailOK
      <3>1. m[1] \in Launch /\ m[1] # l
        BY <2>2, NoMailYet DEF HandoverInv, HandoverTypeOK
      <3> QED BY <2>3, <2>4, <3>1 DEF HandoverInv, MailOK
    <2> QED BY <2>5, <2>6, <2>7 DEF HandoverInv
  <1>3. ASSUME NEW l \in Launch, AskOwner(l)
        PROVE  HandoverInv'
    <2>1. stage[l] = "asking" /\ \A m \in mail : m[1] # l
      BY <1>3, NoMailYet DEF AskOwner
    <2>2. CASE Proceeds(l, "refused") /\ UNCHANGED peer
      BY <1>3, <2>1, <2>2, QuietMove DEF AskOwner, Stages, Owning
    <2>3. CASE socket # NoLaunch /\ IsOwner(l, socket) /\ peer' = [peer EXCEPT ![l] = socket] /\ Proceeds(l, "ready")
      <3>1. stage' \in [Launch -> Stages] /\ stage'[l] = "ready" /\ \A q \in Launch : q # l => stage'[q] = stage[q]
        BY <2>3, Moving DEF Stages
      <3>2. UNCHANGED <<lock, socket, seen, mail>>
        BY <1>3 DEF AskOwner
      <3>3. peer' \in [Launch -> Launch \cup {NoLaunch}] /\ peer'[l] = socket /\ \A q \in Launch : q # l => peer'[q] = peer[q]
        BY <2>3 DEF HandoverInv, HandoverTypeOK
      <3>4. HandoverTypeOK'
        BY <3>1, <3>2, <3>3 DEF HandoverInv, HandoverTypeOK
      <3>5. OwnersOK' /\ SocketOK'
        BY <3>1, <3>2 DEF HandoverInv, OwnersOK, SocketOK, Owning
      <3>6. PeersOK'
        BY <2>3, <3>1, <3>2, <3>3 DEF HandoverInv, PeersOK, IsOwner
      <3>7. MailOK'
        <4> SUFFICES ASSUME NEW m \in mail
                     PROVE  m[2] = seen[m[1]] /\ stage'[m[1]] \notin {"start", "reading", "asking", "ready", "refused"}
          BY <3>2 DEF MailOK
        <4>1. m[1] \in Launch /\ m[1] # l
          BY <2>1 DEF HandoverInv, HandoverTypeOK
        <4> QED BY <3>1, <4>1 DEF HandoverInv, MailOK
      <3> QED BY <3>4, <3>5, <3>6, <3>7 DEF HandoverInv
    <2> QED BY <1>3, <2>2, <2>3 DEF AskOwner
  <1>4. ASSUME NEW l \in Launch, SendCommit(l)
        PROVE  HandoverInv'
    <2>1. stage[l] = "ready" /\ Proceeds(l, "waiting") /\ UNCHANGED <<lock, socket, seen, peer>>
          /\ (mail' = mail \/ mail' = mail \cup {<<l, peer[l]>>})
      BY <1>4 DEF SendCommit
    <2>2. stage' \in [Launch -> Stages] /\ stage'[l] = "waiting" /\ \A q \in Launch : q # l => stage'[q] = stage[q]
      BY <2>1, Moving DEF Stages
    <2>3. peer[l] = seen[l] /\ peer[l] \in Launch
      BY <2>1 DEF HandoverInv, PeersOK, HandoverTypeOK
    <2>4. HandoverTypeOK'
      BY <2>1, <2>2, <2>3 DEF HandoverInv, HandoverTypeOK
    <2>5. OwnersOK' /\ SocketOK' /\ PeersOK'
      BY <2>1, <2>2 DEF HandoverInv, OwnersOK, SocketOK, PeersOK, Owning
    <2>6. MailOK'
      <3> SUFFICES ASSUME NEW m \in mail'
                   PROVE  m[2] = seen[m[1]] /\ stage'[m[1]] \notin {"start", "reading", "asking", "ready", "refused"}
        BY <2>1 DEF MailOK
      <3>1. CASE m \in mail
        <4>1. m[1] \in Launch
          BY <3>1 DEF HandoverInv, HandoverTypeOK
        <4> QED BY <2>2, <3>1, <4>1 DEF HandoverInv, MailOK
      <3>2. CASE m = <<l, peer[l]>>
        <4>1. m[1] = l /\ m[2] = peer[l]
          BY <3>2
        <4> QED BY <2>2, <2>3, <4>1
      <3> QED BY <2>1, <3>1, <3>2
    <2> QED BY <2>4, <2>5, <2>6 DEF HandoverInv
  <1>5. ASSUME NEW l \in Launch, NEW o \in Launch, HearCommit(l, o)
        PROVE  HandoverInv'
    <2>1. <<l, o>> \in mail /\ mail' = mail \ {<<l, o>>} /\ UNCHANGED <<lock, socket, seen, peer>>
          /\ (stage' = stage \/ Proceeds(l, "refused") \/ (stage[o] = "serving" /\ Proceeds(o, "ending")))
      BY <1>5 DEF HearCommit
    <2>2. o = seen[l]
      <3>1. PICK m \in mail : m = <<l, o>>
        BY <2>1
      <3>2. m[2] = seen[m[1]] /\ m[1] = l /\ m[2] = o
        BY <3>1 DEF HandoverInv, MailOK
      <3> QED BY <3>2
    <2>3. \A m \in mail' : m \in mail /\ m[1] \in Launch /\ m[1] # l
      <3> SUFFICES ASSUME NEW m \in mail', m[1] = l
                   PROVE  FALSE
        BY <2>1 DEF HandoverInv, HandoverTypeOK
      <3>1. m \in Launch \X Launch /\ m[2] = seen[l] /\ m # <<l, o>>
        BY <2>1 DEF HandoverInv, HandoverTypeOK, MailOK
      <3>2. m = <<m[1], m[2]>>
        BY <3>1
      <3> QED BY <2>2, <3>1, <3>2
    <2>4. CASE stage' = stage
      <3>1. HandoverTypeOK'
        BY <2>1, <2>4 DEF HandoverInv, HandoverTypeOK
      <3>2. OwnersOK' /\ SocketOK' /\ PeersOK'
        BY <2>1, <2>4 DEF HandoverInv, OwnersOK, SocketOK, PeersOK
      <3>3. MailOK'
        BY <2>1, <2>3, <2>4 DEF HandoverInv, MailOK
      <3> QED BY <3>1, <3>2, <3>3 DEF HandoverInv
    <2>5. CASE Proceeds(l, "refused")
      <3>1. stage' \in [Launch -> Stages] /\ stage'[l] = "refused" /\ \A q \in Launch : q # l => stage'[q] = stage[q]
        BY <2>5, Moving DEF Stages
      <3>2. HandoverTypeOK'
        BY <2>1, <3>1 DEF HandoverInv, HandoverTypeOK
      <3>3. OwnersOK' /\ SocketOK' /\ PeersOK'
        BY <2>1, <3>1 DEF HandoverInv, OwnersOK, SocketOK, PeersOK, Owning
      <3>4. MailOK'
        BY <2>1, <2>3, <3>1 DEF HandoverInv, MailOK
      <3> QED BY <3>2, <3>3, <3>4 DEF HandoverInv
    <2>6. CASE stage[o] = "serving" /\ Proceeds(o, "ending")
      <3>1. stage' \in [Launch -> Stages] /\ stage'[o] = "ending" /\ \A q \in Launch : q # o => stage'[q] = stage[q]
        BY <2>6, Moving DEF Stages
      <3>2. HandoverTypeOK'
        BY <2>1, <3>1 DEF HandoverInv, HandoverTypeOK
      <3>3. OwnersOK' /\ SocketOK' /\ PeersOK'
        BY <2>1, <2>6, <3>1 DEF HandoverInv, OwnersOK, SocketOK, PeersOK, Owning
      <3>4. MailOK'
        <4> SUFFICES ASSUME NEW m \in mail'
                     PROVE  m[2] = seen[m[1]] /\ stage'[m[1]] \notin {"start", "reading", "asking", "ready", "refused"}
          BY <2>1 DEF MailOK
        <4>1. m \in mail /\ m[1] \in Launch
          BY <2>3
        <4> QED BY <3>1, <4>1 DEF HandoverInv, MailOK
      <3> QED BY <3>2, <3>3, <3>4 DEF HandoverInv
    <2> QED BY <2>1, <2>4, <2>5, <2>6
  <1>6. ASSUME NEW l \in Launch, AwaitExit(l)
        PROVE  HandoverInv'
    <2>1. CASE LockFree /\ lock' = l /\ Proceeds(l, "owner")
      BY <1>6, <2>1, TakesLock DEF AwaitExit
    <2>2. CASE Proceeds(l, "timeout") /\ UNCHANGED lock
      BY <1>6, <2>2, QuietMove DEF AwaitExit, Stages, Owning
    <2> QED BY <1>6, <2>1, <2>2 DEF AwaitExit
  <1>7. ASSUME NEW l \in Launch, StartControl(l)
        PROVE  HandoverInv'
    <2>1. stage[l] = "owner" /\ socket' = l /\ Proceeds(l, "serving") /\ UNCHANGED <<lock, seen, peer, mail>>
      BY <1>7 DEF StartControl
    <2>2. stage' \in [Launch -> Stages] /\ stage'[l] = "serving" /\ \A q \in Launch : q # l => stage'[q] = stage[q]
      BY <2>1, Moving DEF Stages
    <2>3. lock = l /\ \A q \in Launch : q # l => stage[q] \notin Owning
      BY <2>1 DEF HandoverInv, OwnersOK, Owning
    <2>4. HandoverTypeOK'
      BY <2>1, <2>2 DEF HandoverInv, HandoverTypeOK
    <2>5. OwnersOK' /\ SocketOK' /\ PeersOK'
      BY <2>1, <2>2, <2>3 DEF HandoverInv, OwnersOK, SocketOK, PeersOK, Owning
    <2>6. MailOK'
      <3> SUFFICES ASSUME NEW m \in mail
                   PROVE  m[2] = seen[m[1]] /\ stage'[m[1]] \notin {"start", "reading", "asking", "ready", "refused"}
        BY <2>1 DEF MailOK
      <3>1. m[1] \in Launch
        BY DEF HandoverInv, HandoverTypeOK
      <3> QED BY <2>2, <3>1 DEF HandoverInv, MailOK
    <2> QED BY <2>4, <2>5, <2>6 DEF HandoverInv
  <1>8. ASSUME NEW l \in Launch, LetGo(l)
        PROVE  HandoverInv'
    <2>1. \/ stage[l] = "ending" /\ Proceeds(l, "parting") /\ socket' = NoLaunch /\ lock' = lock
          \/ stage[l] = "parting" /\ Proceeds(l, "released") /\ socket' = socket /\ lock' = IF lock = l THEN NoLaunch ELSE lock
      <3>1. PICK i \in 1..2 :
              /\ stage[l] = <<"ending", "parting">>[i] /\ Proceeds(l, <<"parting", "released">>[i])
              /\ socket' = IF Ending[i] = "socket" THEN NoLaunch ELSE socket
              /\ lock' = IF Ending[i] = "lock" /\ lock = l THEN NoLaunch ELSE lock
        BY <1>8 DEF LetGo
      <3>2. CASE i = 1
        BY <3>1, <3>2 DEF Ending
      <3>3. CASE i = 2
        BY <3>1, <3>3 DEF Ending
      <3> QED BY <3>2, <3>3
    <2>2. UNCHANGED <<seen, peer, mail>>
      BY <1>8 DEF LetGo
    <2>3. PICK s \in {"parting", "released"} : Proceeds(l, s) /\ (s = "parting" => lock' = lock)
      BY <2>1
    <2>4. stage' \in [Launch -> Stages] /\ stage'[l] = s /\ \A q \in Launch : q # l => stage'[q] = stage[q]
      BY <2>3, Moving DEF Stages
    <2>5. lock = l /\ \A q \in Launch : q # l => stage[q] \notin Owning
      BY <2>1 DEF HandoverInv, OwnersOK, Owning
    <2>6. HandoverTypeOK'
      BY <2>1, <2>2, <2>4 DEF HandoverInv, HandoverTypeOK
    <2>7. OwnersOK' /\ SocketOK'
      BY <2>3, <2>4, <2>5 DEF OwnersOK, SocketOK, Owning
    <2>8. PeersOK'
      BY <2>2, <2>4 DEF HandoverInv, PeersOK
    <2>9. MailOK'
      <3> SUFFICES ASSUME NEW m \in mail
                   PROVE  m[2] = seen[m[1]] /\ stage'[m[1]] \notin {"start", "reading", "asking", "ready", "refused"}
        BY <2>2 DEF MailOK
      <3>1. m[1] \in Launch
        BY DEF HandoverInv, HandoverTypeOK
      <3> QED BY <2>4, <3>1 DEF HandoverInv, MailOK
    <2> QED BY <2>6, <2>7, <2>8, <2>9 DEF HandoverInv
  <1>9. ASSUME NEW l \in Launch, EndsItself(l)
        PROVE  HandoverInv'
    BY <1>9, QuietMove DEF EndsItself, Stages, Owning
  <1>10. ASSUME NEW l \in Launch, EndLaunch(l) \/ LaunchDies(l)
         PROVE  HandoverInv'
    BY <1>10, QuietMove DEF EndLaunch, LaunchDies, Stages, Owning
  <1>11. CASE UNCHANGED launchVars
    BY <1>11 DEF launchVars, HandoverInv, HandoverTypeOK, OwnersOK, SocketOK, PeersOK, MailOK
  <1> QED BY <1>1, <1>2, <1>3, <1>4, <1>5, <1>6, <1>7, <1>8, <1>9, <1>10, <1>11 DEF HandoverNext

(* The owner of the settings answers at its own socket, and is committed   *)
(* to by those who read its record.                                        *)
THEOREM OwnerAlwaysAnswers == HandoverSpec => []OwnerAnswers
  <1>1. HandoverInit => HandoverInv
    BY HandoverInitInv
  <1>2. HandoverInv /\ [HandoverNext]_launchVars => HandoverInv'
    BY HandoverStep
  <1>3. HandoverInv => OwnerAnswers
    BY DEF HandoverInv, OwnersOK, SocketOK, MailOK, OwnerAnswers, Owning
  <1> QED BY <1>1, <1>2, <1>3, PTL DEF HandoverSpec

-----------------------------------------------------------------------------
(****************************************************************************)
(* The Shell and its Core: the replies carry no name, and yet they match.   *)
(*                                                                          *)
(* The argument: ShellInv is inductive.  A caller holds the lock while it   *)
(* waits, so that at most one line is on its way - first hello, later the   *)
(* request of that caller, then its answer - and what the reader has not    *)
(* passed on when it stops, it never will (Courier).  A request that was    *)
(* given up while the reader still runs leaves its answer behind: that is   *)
(* late, and nothing is promised from then on.                              *)
(****************************************************************************)

(* What the queues do that hold at most garbage and one line.              *)
LEMMA ShortQueues ==
  ASSUME NEW line
  PROVE  /\ <<line>> # <<>> /\ Head(<<line>>) = line /\ Tail(<<line>>) = <<>> /\ Len(<<line>>) = 1 /\ Append(<<>>, line) = <<line>>
         /\ Head(Append(<<Garbage>>, line)) = Garbage /\ Len(Append(<<Garbage>>, line)) = 2
  <1>1. <<line>> # <<>> /\ Head(<<line>>) = line /\ Len(<<line>>) = 1
    OBVIOUS
  <1>2. Tail(<<line>>) = <<>>
    OBVIOUS
  <1>3. Append(<<>>, line) = <<line>>
    OBVIOUS
  <1>4. Head(Append(<<Garbage>>, line)) = Garbage /\ Len(Append(<<Garbage>>, line)) = 2
    <2>1. <<Garbage>> \in Seq({Garbage, line}) /\ Len(<<Garbage>>) = 1 /\ <<Garbage>>[1] = Garbage
      OBVIOUS
    <2> QED BY <2>1
  <1> QED BY <1>1, <1>2, <1>3, <1>4

(* The lines are told apart from each other and from every request.        *)
LEMMA LinesDiffer ==
  /\ Ready # Declined /\ Ready # Garbage /\ Declined # Garbage /\ Hello # Shutdown /\ Hello # Garbage
  /\ \A n \in Nat : n > 0 => n \notin {Ready, Declined, Bye, Garbage, Hello, Shutdown}
  /\ \A n \in 1..MaxRequest : n \in Nat /\ n > 0
  BY ShellAssumption DEF Ready, Declined, Bye, Garbage, Hello, Shutdown

(* A request that is awaited has a number.                                 *)
LEMMA AwaitedIs ==
  ASSUME CallsAreHeld
  PROVE  /\ \A line \in Awaited : line \in Nat /\ line > 0
         /\ holder = NoCaller => Awaited = {}
         /\ \A c \in Caller : call[c].at = "waiting" => Awaited = {call[c].id} /\ holder = c /\ holder # NoCaller
  <1>1. \A c \in Caller : call[c].id \in Nat
    BY DEF CallsAreHeld
  <1> QED BY <1>1, ShellAssumption DEF Awaited, CallsAreHeld

(* What the Core does to a queue that holds what it may.                   *)
LEMMA CoreCarries ==
  ASSUME NEW requests, NEW answers, Courier(requests, answers), UNCHANGED <<reader, replies>>,
         \/ /\ inbox # <<>> /\ inbox' = Tail(inbox)
            /\ \E line : out' = Append(out, line) /\ (Head(inbox) \in requests => line \in answers)
         \/ UNCHANGED <<inbox, out>>
         \/ Len(out) = 0 /\ out' = <<Garbage>> /\ UNCHANGED inbox
  PROVE  Courier(requests, answers)'
  <1>1. ASSUME reader = "reading", inbox # <<>>, inbox' = Tail(inbox), NEW line, out' = Append(out, line),
               Head(inbox) \in requests => line \in answers
        PROVE  OneOnTheWay(requests, answers)'
    <2>1. PICK request \in requests : inbox = <<request>> /\ Still /\ replies = <<>>
      BY <1>1 DEF Courier, OneOnTheWay
    <2>2. inbox' = <<>> /\ line \in answers
      BY <1>1, <2>1, ShortQueues
    <2>3. out' \in {<<line>>, Append(<<Garbage>>, line)}
      BY <1>1, <2>1, ShortQueues DEF Still
    <2> QED BY <2>1, <2>2, <2>3 DEF OneOnTheWay
  <1>2. ASSUME reader = "reading", UNCHANGED <<inbox, out>>
        PROVE  OneOnTheWay(requests, answers)'
    BY <1>2 DEF Courier, OneOnTheWay, Still
  <1>3. ASSUME reader = "reading", Len(out) = 0, out' = <<Garbage>>, UNCHANGED inbox
        PROVE  OneOnTheWay(requests, answers)'
    <2>1. \A line : Len(<<line>>) = 1 /\ Len(Append(<<Garbage>>, line)) = 2
      BY ShortQueues
    <2>2. \A line : out \notin {<<line>>, Append(<<Garbage>>, line)}
      BY <1>3, <2>1
    <2> QED BY <1>3, <2>2 DEF Courier, OneOnTheWay, Still
  <1> QED BY <1>1, <1>2, <1>3 DEF Courier

(* Everything but the queues and the Core's own state stands still.        *)
LEMMA SameCalls ==
  ASSUME CallsAreHeld, UNCHANGED <<life, reader, holder, call, asked, late, app>>
  PROVE  CallsAreHeld' /\ Awaited' = Awaited
  BY DEF CallsAreHeld, Awaited, NoRequest

LEMMA CoreServesStep ==
  ASSUME ShellInv, CoreServes
  PROVE  CallsMatch'
  <1>1. UNCHANGED <<life, reader, replies, holder, call, asked, late, app>> /\ CallsAreHeld
    BY DEF CoreServes, ShellInv, CallsMatch
  <1>2. CallsAreHeld' /\ Awaited' = Awaited
    BY <1>1, SameCalls
  <1>3. ASSUME Courier({Hello}, {Ready, Declined})
        PROVE  Courier({Hello}, {Ready, Declined})'
    <2>1. CASE inbox = <<>> /\ UNCHANGED <<inbox, out>>
      BY <1>1, <1>3, <2>1, CoreCarries
    <2>2. ASSUME inbox # <<>>, inbox' = Tail(inbox), NEW line, out' = Append(out, line), Head(inbox) = Hello => line \in {Ready, Declined}
          PROVE  Courier({Hello}, {Ready, Declined})'
      BY <1>1, <1>3, <2>2, CoreCarries
    <2> QED BY <2>1, <2>2, LinesDiffer DEF CoreServes
  <1>4. ASSUME Courier(Awaited, Awaited)
        PROVE  Courier(Awaited, Awaited)'
    <2>1. CASE inbox = <<>> /\ UNCHANGED <<inbox, out>>
      BY <1>1, <1>2, <1>4, <2>1, CoreCarries DEF Courier, OneOnTheWay, Still
    <2>2. ASSUME inbox # <<>>, inbox' = Tail(inbox), NEW line, out' = Append(out, line), Head(inbox) \in Awaited => line \in Awaited
          PROVE  Courier(Awaited, Awaited)'
      BY <1>1, <1>2, <1>4, <2>2, CoreCarries DEF Courier, OneOnTheWay, Still
    <2>3. \A line \in Awaited : line \notin {Hello, Shutdown}
      BY <1>1, AwaitedIs, LinesDiffer
    <2> QED BY <2>1, <2>2, <2>3 DEF CoreServes
  <1> QED BY <1>1, <1>2, <1>3, <1>4 DEF ShellInv, CallsMatch, Courier, OneOnTheWay, Still

LEMMA CoreFailsStep ==
  ASSUME ShellInv, CoreFails
  PROVE  CallsMatch'
  <1>1. UNCHANGED <<life, inbox, reader, replies, holder, call, asked, late, app>> /\ CallsAreHeld
    BY DEF CoreFails, ShellInv, CallsMatch
  <1>2. CallsAreHeld' /\ Awaited' = Awaited
    BY <1>1, SameCalls
  <1>3. UNCHANGED out \/ (Len(out) = 0 /\ out' = <<Garbage>>)
    BY DEF CoreFails
  <1>4. Courier({Hello}, {Ready, Declined}) => Courier({Hello}, {Ready, Declined})'
    BY <1>1, <1>3, CoreCarries
  <1>5. Courier(Awaited, Awaited) => Courier(Awaited, Awaited)'
    BY <1>1, <1>2, <1>3, CoreCarries DEF Courier, OneOnTheWay, Still
  <1> QED BY <1>1, <1>2, <1>4, <1>5 DEF ShellInv, CallsMatch

(* The reader passes on the one line, or stops and passes nothing more.    *)
LEMMA ReaderCarries ==
  ASSUME NEW requests, NEW answers, Courier(requests, answers), UNCHANGED inbox,
         \/ /\ reader = "reading" /\ out # <<>> /\ ~Broken /\ UNCHANGED reader
            /\ replies' = Append(replies, Head(out)) /\ out' = Tail(out)
         \/ reader' # "reading" /\ UNCHANGED replies
  PROVE  Courier(requests, answers)'
  <1>1. ASSUME reader = "reading", out # <<>>, ~Broken, UNCHANGED reader, replies' = Append(replies, Head(out)), out' = Tail(out)
        PROVE  OneOnTheWay(requests, answers)'
    <2>1. Head(out) # Garbage
      BY <1>1 DEF Broken
    <2>2. ~Still
      BY <1>1, <2>1 DEF Still
    <2>3. PICK line \in answers : replies = <<>> /\ inbox = <<>> /\ out \in {<<line>>, Append(<<Garbage>>, line)}
      BY <1>1, <2>2 DEF Courier, OneOnTheWay
    <2>4. out = <<line>>
      BY <2>1, <2>3, ShortQueues
    <2>5. replies' = <<line>> /\ out' = <<>> /\ inbox' = <<>>
      BY <1>1, <2>3, <2>4, ShortQueues
    <2> QED BY <2>5 DEF OneOnTheWay, Still
  <1>2. ASSUME reader' # "reading", UNCHANGED replies
        PROVE  replies' = <<>> \/ \E line \in answers : replies' = <<line>>
    BY <1>2 DEF Courier, OneOnTheWay
  <1> QED BY <1>1, <1>2 DEF Courier

LEMMA ReaderStep ==
  ASSUME ShellInv, Reader
  PROVE  CallsMatch'
  <1>0. CallsAreHeld /\ UNCHANGED <<inbox, holder, call, asked, late>>
    BY DEF Reader, ReaderPasses, ReaderBreaks, ReaderSwaps, ReaderTells, ShellInv, CallsMatch
  <1>1. Awaited' = Awaited
    BY <1>0 DEF Awaited
  <1>2. \/ /\ reader = "reading" /\ out # <<>> /\ ~Broken /\ UNCHANGED reader
           /\ replies' = Append(replies, Head(out)) /\ out' = Tail(out)
        \/ reader' # "reading" /\ UNCHANGED replies
    BY DEF Reader, ReaderPasses, ReaderBreaks, ReaderSwaps, ReaderTells
  <1>3. CallsAreHeld'
    <2>1. CASE ReaderPasses \/ ReaderBreaks
      BY <1>0, <2>1 DEF ReaderPasses, ReaderBreaks, CallsAreHeld, NoRequest
    <2>2. CASE ReaderSwaps
      BY <1>0, <2>2 DEF ReaderSwaps, CallsAreHeld, NoRequest
    <2>3. CASE ReaderTells
      <3>1. life \in {"RUNNING", "STOPPING"} /\ app.at # "starting" /\ life' = life /\ app' = [at |-> "ended", why |-> "lost"]
        BY <1>0, <2>3 DEF ReaderTells, CallsAreHeld
      <3> QED BY <1>0, <3>1 DEF CallsAreHeld
    <2> QED BY <2>1, <2>2, <2>3 DEF Reader
  <1>4. Courier({Hello}, {Ready, Declined}) => Courier({Hello}, {Ready, Declined})'
    BY <1>0, <1>2, ReaderCarries
  <1>5. Courier(Awaited, Awaited) => Courier(Awaited, Awaited)'
    BY <1>0, <1>1, <1>2, ReaderCarries DEF Courier, OneOnTheWay, Still
  <1>6. life' = "STARTING" => life = "STARTING"
    BY DEF Reader, ReaderPasses, ReaderBreaks, ReaderSwaps, ReaderTells
  <1>7. life' = "RUNNING" => life = "RUNNING"
    BY DEF Reader, ReaderPasses, ReaderBreaks, ReaderSwaps, ReaderTells
  <1> QED BY <1>0, <1>3, <1>4, <1>5, <1>6, <1>7 DEF ShellInv, CallsMatch

(* A start that is accepted has taken the only line there was.             *)
LEMMA StartCoreStep ==
  ASSUME ShellInv, StartCore
  PROVE  CallsMatch'
  <1>0. CallsAreHeld /\ UNCHANGED <<inbox, out, reader, holder, call, asked, late>> /\ app.at = "starting"
    BY DEF StartCore, ShellInv, CallsMatch
  <1>1. CASE StartFails
    <2>1. CallsAreHeld'
      <3>1. life' = "STOPPING" /\ app' = [at |-> "ended", why |-> "refused"]
        BY <1>1 DEF StartFails
      <3> QED BY <1>0, <3>1 DEF CallsAreHeld
    <2> QED BY <1>1, <2>1 DEF StartFails, ShellInv, CallsMatch
  <1>2. CASE replies # <<>> /\ replies' = Tail(replies) /\ AcceptsReady(life) /\ life' = "RUNNING" /\ app' = [app EXCEPT !.at = "running"]
    <2>1. life = "STARTING" /\ holder = NoCaller /\ (\A c \in Caller : call[c] = NoRequest) /\ Courier({Hello}, {Ready, Declined})
      BY <1>0, <1>2 DEF AcceptsReady, CallsAreHeld, ShellInv, CallsMatch
    <2>2. PICK line : replies = <<line>>
      BY <1>2, <2>1 DEF Courier, OneOnTheWay
    <2>3. replies' = <<>>
      BY <1>2, <2>2, ShortQueues
    <2>4. reader = "reading" => inbox = <<>> /\ Still
      BY <1>2, <2>1 DEF Courier, OneOnTheWay
    <2>5. Courier(Awaited, Awaited)'
      BY <1>0, <2>3, <2>4 DEF Courier, OneOnTheWay, Still
    <2>6. app'.at # "starting" /\ app'.why = app.why
      BY <1>2
    <2>7. CallsAreHeld'
      BY <1>0, <1>2, <2>6 DEF CallsAreHeld
    <2>8. \A c \in Caller : call'[c].at # "told"
      BY <1>0, <2>1 DEF NoRequest
    <2> QED BY <1>2, <2>5, <2>7, <2>8 DEF ShellInv, CallsMatch
  <1> QED BY <1>1, <1>2 DEF StartCore

(* A request goes out when nothing is on its way.                          *)
LEMMA AskStep ==
  ASSUME ShellInv, NEW c \in Caller, Ask(c)
  PROVE  CallsMatch'
  <1> DEFINE request == [NoRequest EXCEPT !.at = "waiting", !.id = asked + 1]
  <1>0. /\ CallsAreHeld /\ UNCHANGED <<life, out, reader, replies, late, app>> /\ app.at \in {"running", "quitting"}
        /\ holder = NoCaller /\ call[c] = NoRequest /\ asked' = asked + 1 /\ asked \in Nat
        /\ holder' = c /\ call' = [call EXCEPT ![c] = request]
    BY DEF Ask, MayAsk, ShellInv, CallsMatch, CallsAreHeld
  <1>1. /\ request \in [at : {"idle", "waiting", "told"}, id : Nat, reply : Int]
        /\ request.at = "waiting" /\ request.id = asked + 1 /\ request.id > 0
    <2> DEFINE number == asked + 1
    <2>1. number \in Nat /\ number > 0
      BY <1>0
    <2> HIDE DEF number
    <2>2. request = [NoRequest EXCEPT !.at = "waiting", !.id = number]
      BY DEF number
    <2>3. NoRequest \in [at : {"idle", "waiting", "told"}, id : Nat, reply : Int]
      BY DEF NoRequest
    <2> HIDE DEF request
    <2> QED BY <2>1, <2>2, <2>3 DEF number
  <1> HIDE DEF request
  <1>2. CallsAreHeld'
    <2>1. \A d \in Caller : call'[d] = IF d = c THEN request ELSE call[d]
      BY <1>0 DEF CallsAreHeld
    <2>2. call' \in [Caller -> [at : {"idle", "waiting", "told"}, id : Nat, reply : Int]]
      BY <1>0, <1>1 DEF CallsAreHeld
    <2>3. \A d \in Caller : (call'[d].at = "waiting" <=> holder' = d) /\ (call'[d].at = "waiting" => call'[d].id > 0)
      BY <1>0, <1>1, <2>1, ShellAssumption DEF CallsAreHeld
    <2>4. life # "STARTING"
      BY <1>0 DEF CallsAreHeld
    <2> QED BY <1>0, <2>2, <2>3, <2>4 DEF CallsAreHeld
  <1>3. ASSUME life = "RUNNING", ~late
        PROVE  Courier(Awaited, Awaited)' /\ \A d \in Caller : call'[d].at = "told" => call'[d].reply = call'[d].id
    <2>1. Awaited = {} /\ Awaited' = {asked + 1}
      BY <1>0, <1>1, ShellAssumption DEF Awaited, CallsAreHeld
    <2>2. Courier({}, {}) /\ \A d \in Caller : call[d].at = "told" => call[d].reply = call[d].id
      BY <1>3, <2>1 DEF ShellInv, CallsMatch
    <2>3. replies = <<>> /\ (reader = "reading" => inbox = <<>> /\ Still)
      BY <2>2 DEF Courier, OneOnTheWay
    <2>4. reader = "reading" => inbox' = <<>> \/ inbox' = <<asked + 1>>
      BY <2>3, ShortQueues DEF Ask
    <2>5. Courier(Awaited, Awaited)'
      BY <1>0, <2>1, <2>3, <2>4 DEF Courier, OneOnTheWay, Still
    <2>6. \A d \in Caller : call'[d] = IF d = c THEN request ELSE call[d]
      BY <1>0 DEF CallsAreHeld
    <2> QED BY <1>1, <2>2, <2>5, <2>6
  <1>4. life' # "STARTING"
    BY <1>0 DEF CallsAreHeld
  <1> QED BY <1>0, <1>2, <1>3, <1>4 DEF ShellInv, CallsMatch

(* The caller that waits takes the line that is there, its own.            *)
LEMMA TakeStep ==
  ASSUME ShellInv, NEW c \in Caller, Take(c)
  PROVE  CallsMatch'
  <1> DEFINE answered == [call[c] EXCEPT !.at = "told", !.reply = Head(replies)]
  <1>0. /\ CallsAreHeld /\ UNCHANGED <<life, core, inbox, out, reader, asked, late, app>>
        /\ call[c].at = "waiting" /\ replies # <<>> /\ replies' = Tail(replies) /\ holder' = NoCaller
        /\ call' = [call EXCEPT ![c] = answered]
    BY DEF Take, ShellInv, CallsMatch
  <1>1. Awaited = {call[c].id} /\ holder = c /\ holder # NoCaller /\ Awaited' = {}
    BY <1>0, AwaitedIs DEF Awaited
  <1>2. life # "STARTING"
    BY <1>0, <1>1 DEF CallsAreHeld
  <1>3. ASSUME life = "RUNNING", ~late
        PROVE  Head(replies) = call[c].id /\ Courier(Awaited, Awaited)'
    <2>1. Courier({call[c].id}, {call[c].id})
      BY <1>1, <1>3 DEF ShellInv, CallsMatch
    <2>2. replies = <<call[c].id>> /\ (reader = "reading" => inbox = <<>> /\ Still)
      BY <1>0, <2>1 DEF Courier, OneOnTheWay
    <2>3. replies' = <<>> /\ Head(replies) = call[c].id
      BY <1>0, <2>2, ShortQueues
    <2> QED BY <1>0, <2>2, <2>3 DEF Courier, OneOnTheWay, Still
  <1>4. /\ answered.at = "told" /\ answered.reply = Head(replies) /\ answered.id = call[c].id
        /\ answered.reply \in Int => answered \in [at : {"idle", "waiting", "told"}, id : Nat, reply : Int]
    BY <1>0 DEF CallsAreHeld
  <1> HIDE DEF answered
  <1>5. \A d \in Caller : call'[d] = IF d = c THEN answered ELSE call[d]
    BY <1>0 DEF CallsAreHeld
  <1>6. CallsAreHeld'
    <2>1. Head(replies) \in Int
      BY <1>0 DEF ShellInv, LinesAreNumbers
    <2>2. call' \in [Caller -> [at : {"idle", "waiting", "told"}, id : Nat, reply : Int]]
      BY <1>0, <1>4, <2>1 DEF CallsAreHeld
    <2>3. \A d \in Caller : (call'[d].at = "waiting" <=> holder' = d) /\ (call'[d].at = "waiting" => call'[d].id > 0)
      BY <1>0, <1>1, <1>4, <1>5, ShellAssumption DEF CallsAreHeld
    <2> QED BY <1>0, <1>2, <2>2, <2>3 DEF CallsAreHeld
  <1>7. life = "RUNNING" /\ ~late => \A d \in Caller : call'[d].at = "told" => call'[d].reply = call'[d].id
    BY <1>3, <1>4, <1>5 DEF ShellInv, CallsMatch
  <1> QED BY <1>0, <1>2, <1>3, <1>6, <1>7 DEF ShellInv, CallsMatch

(* A caller that forgets its call, which it gave up or returned from.      *)
LEMMA Forgetting ==
  ASSUME CallsAreHeld, NEW c \in Caller, call' = [call EXCEPT ![c] = NoRequest], life # "STARTING",
         UNCHANGED <<life, reader, asked, app>>,
         (call[c].at = "waiting" /\ holder' = NoCaller) \/ (call[c].at = "told" /\ holder' = holder)
  PROVE  CallsAreHeld' /\ \A d \in Caller : call'[d] = IF d = c THEN NoRequest ELSE call[d]
  <1>1. \A d \in Caller : call'[d] = IF d = c THEN NoRequest ELSE call[d]
    BY DEF CallsAreHeld
  <1>2. NoRequest \in [at : {"idle", "waiting", "told"}, id : Nat, reply : Int] /\ NoRequest.at = "idle"
    BY DEF NoRequest
  <1>3. call' \in [Caller -> [at : {"idle", "waiting", "told"}, id : Nat, reply : Int]]
    BY <1>2 DEF CallsAreHeld
  <1>4. \A d \in Caller : (call'[d].at = "waiting" <=> holder' = d) /\ (call'[d].at = "waiting" => call'[d].id > 0)
    BY <1>1, <1>2, ShellAssumption DEF CallsAreHeld
  <1> QED BY <1>1, <1>3, <1>4 DEF CallsAreHeld

LEMMA UnansweredStep ==
  ASSUME ShellInv, NEW c \in Caller, Unanswered(c)
  PROVE  CallsMatch'
  <1>0. /\ CallsAreHeld /\ UNCHANGED <<life, core, inbox, out, reader, replies, asked, app>>
        /\ call[c].at = "waiting" /\ replies = <<>> /\ holder' = NoCaller /\ late' = (late \/ ~Disconnected)
        /\ call' = [call EXCEPT ![c] = NoRequest]
    BY DEF Unanswered, ShellInv, CallsMatch
  <1>1. life # "STARTING"
    BY <1>0 DEF CallsAreHeld, NoRequest
  <1>2. CallsAreHeld' /\ \A d \in Caller : call'[d] = IF d = c THEN NoRequest ELSE call[d]
    BY <1>0, <1>1, Forgetting
  <1>3. ASSUME life = "RUNNING", ~late'
        PROVE  Courier(Awaited, Awaited)' /\ \A d \in Caller : call'[d].at = "told" => call'[d].reply = call'[d].id
    <2>1. ~late /\ reader = "returned"
      BY <1>0, <1>3 DEF Disconnected
    <2>2. Courier(Awaited, Awaited)'
      BY <1>0, <2>1 DEF Courier
    <2> QED BY <1>2, <1>3, <2>1, <2>2 DEF ShellInv, CallsMatch, NoRequest
  <1> QED BY <1>0, <1>1, <1>2, <1>3 DEF ShellInv, CallsMatch

LEMMA ReturnStep ==
  ASSUME ShellInv, NEW c \in Caller, Return(c)
  PROVE  CallsMatch'
  <1>0. /\ CallsAreHeld /\ UNCHANGED <<life, core, inbox, out, reader, replies, holder, asked, late, app>>
        /\ call[c].at = "told" /\ call' = [call EXCEPT ![c] = NoRequest]
    BY DEF Return, ShellInv, CallsMatch
  <1>1. life # "STARTING"
    BY <1>0 DEF CallsAreHeld, NoRequest
  <1>2. CallsAreHeld' /\ \A d \in Caller : call'[d] = IF d = c THEN NoRequest ELSE call[d]
    BY <1>0, <1>1, Forgetting
  <1>3. Awaited' = Awaited
    BY <1>0, <1>2 DEF Awaited, CallsAreHeld
  <1>4. Courier(Awaited, Awaited) => Courier(Awaited, Awaited)'
    BY <1>0, <1>3 DEF Courier, OneOnTheWay, Still
  <1> QED BY <1>0, <1>1, <1>2, <1>4 DEF ShellInv, CallsMatch, NoRequest

LEMMA QuitStep ==
  ASSUME ShellInv, Quit \/ QuitDone
  PROVE  CallsMatch'
  <1>0. /\ CallsAreHeld /\ UNCHANGED <<out, reader, replies, holder, call, asked, late>> /\ app.at \in {"running", "quitting"}
        /\ app'.at # "starting" /\ life' \in {"STOPPING", life}
    BY DEF Quit, QuitDone, ShellInv, CallsMatch, CallsAreHeld
  <1>1. life \notin {"STARTING", "LOST_EARLY"}
    BY <1>0 DEF CallsAreHeld
  <1>2. CallsAreHeld'
    <2>1. CASE Quit
      <3>1. life' = "STOPPING" /\ app' = [app EXCEPT !.at = "quitting"]
        BY <2>1 DEF Quit
      <3> QED BY <1>0, <1>1, <3>1 DEF CallsAreHeld
    <2>2. CASE QuitDone
      <3>1. life' = life /\ app' = [at |-> "ended", why |-> "quit"]
        BY <2>2 DEF QuitDone
      <3> QED BY <1>0, <1>1, <3>1 DEF CallsAreHeld
    <2> QED BY <2>1, <2>2
  <1>3. life' = "RUNNING" => life = "RUNNING" /\ inbox' = inbox
    BY DEF Quit, QuitDone
  <1>4. Awaited' = Awaited
    BY <1>0 DEF Awaited
  <1>5. inbox' = inbox => (Courier(Awaited, Awaited) => Courier(Awaited, Awaited)')
    BY <1>0, <1>4 DEF Courier, OneOnTheWay, Still
  <1> QED BY <1>0, <1>1, <1>2, <1>3, <1>5 DEF ShellInv, CallsMatch

LEMMA ShellStarts ==
  ASSUME ShellInit
  PROVE  ShellInv
  <1>0. LinesAreNumbers
    BY DEF ShellInit, LinesAreNumbers, Hello
  <1>1. CallsAreHeld
    BY ShellAssumption DEF ShellInit, CallsAreHeld, NoRequest
  <1>2. Courier({Hello}, {Ready, Declined})
    BY DEF ShellInit, Courier, OneOnTheWay, Still
  <1> QED BY <1>0, <1>1, <1>2 DEF ShellInit, ShellInv, CallsMatch

(* Only lines are put into the queues.                                     *)
LEMMA LinesKeep ==
  ASSUME ShellInv, [ShellNext]_shellVars
  PROVE  LinesAreNumbers'
  <1>0. /\ inbox \in Seq(Int) /\ out \in Seq(Int) /\ replies \in Seq(Int) /\ asked \in Nat
        /\ Ready \in Int /\ Declined \in Int /\ Bye \in Int /\ Garbage \in Int /\ Hello \in Int /\ Shutdown \in Int
        /\ asked + 1 \in Int
    BY DEF ShellInv, CallsMatch, CallsAreHeld, LinesAreNumbers, Ready, Declined, Bye, Garbage, Hello, Shutdown
  <1>1. inbox' = inbox \/ (inbox # <<>> /\ inbox' = Tail(inbox)) \/ \E line \in Int : inbox' = Append(inbox, line)
    <2>1. ASSUME NEW c \in Caller, Ask(c) PROVE inbox' = inbox \/ \E line \in Int : inbox' = Append(inbox, line)
      BY <1>0, <2>1 DEF Ask
    <2>2. CASE Quit
      BY <1>0, <2>2 DEF Quit
    <2>3. CASE CoreServes
      BY <2>3 DEF CoreServes
    <2>4. CASE CoreFails \/ Reader \/ StartCore \/ QuitDone \/ UNCHANGED shellVars
      BY <2>4 DEF CoreFails, Reader, ReaderPasses, ReaderBreaks, ReaderSwaps, ReaderTells, StartCore, QuitDone, shellVars
    <2>5. ASSUME NEW c \in Caller, Take(c) \/ Unanswered(c) \/ Return(c) PROVE inbox' = inbox
      BY <2>5 DEF Take, Unanswered, Return
    <2> QED BY <2>1, <2>2, <2>3, <2>4, <2>5 DEF ShellNext
  <1>2. out' = out \/ (out # <<>> /\ out' = Tail(out)) \/ out' = <<Garbage>> \/ \E line \in Int : out' = Append(out, line)
    <2>1. CASE CoreServes
      <3>1. inbox # <<>> => Head(inbox) \in Int
        BY <1>0
      <3> QED BY <1>0, <2>1, <3>1 DEF CoreServes
    <2>2. CASE CoreFails
      BY <2>2 DEF CoreFails
    <2>3. CASE Reader
      BY <2>3 DEF Reader, ReaderPasses, ReaderBreaks, ReaderSwaps, ReaderTells
    <2>4. CASE StartCore \/ Quit \/ QuitDone \/ UNCHANGED shellVars
      BY <2>4 DEF StartCore, Quit, QuitDone, shellVars
    <2>5. ASSUME NEW c \in Caller, Ask(c) \/ Take(c) \/ Unanswered(c) \/ Return(c) PROVE out' = out
      BY <2>5 DEF Ask, Take, Unanswered, Return
    <2> QED BY <2>1, <2>2, <2>3, <2>4, <2>5 DEF ShellNext
  <1>3. replies' = replies \/ (replies # <<>> /\ replies' = Tail(replies)) \/ \E line \in Int : replies' = Append(replies, line)
    <2>1. CASE ReaderPasses
      <3>1. Head(out) \in Int
        BY <1>0, <2>1 DEF ReaderPasses
      <3> QED BY <2>1, <3>1 DEF ReaderPasses
    <2>2. CASE ReaderBreaks \/ ReaderSwaps \/ ReaderTells
      BY <2>2 DEF ReaderBreaks, ReaderSwaps, ReaderTells
    <2>3. CASE StartCore
      BY <2>3 DEF StartCore
    <2>4. CASE CoreServes \/ CoreFails \/ Quit \/ QuitDone \/ UNCHANGED shellVars
      BY <2>4 DEF CoreServes, CoreFails, Quit, QuitDone, shellVars
    <2>5. ASSUME NEW c \in Caller, Take(c) PROVE replies # <<>> /\ replies' = Tail(replies)
      BY <2>5 DEF Take
    <2>6. ASSUME NEW c \in Caller, Ask(c) \/ Unanswered(c) \/ Return(c) PROVE replies' = replies
      BY <2>6 DEF Ask, Unanswered, Return
    <2> QED BY <2>1, <2>2, <2>3, <2>4, <2>5, <2>6 DEF ShellNext, Reader
  <1>4. \A queue \in Seq(Int) : (queue # <<>> => Tail(queue) \in Seq(Int)) /\ \A line \in Int : Append(queue, line) \in Seq(Int)
    OBVIOUS
  <1>5. <<Garbage>> \in Seq(Int)
    BY <1>0
  <1> QED BY <1>0, <1>1, <1>2, <1>3, <1>4, <1>5 DEF LinesAreNumbers

LEMMA ShellStep ==
  ASSUME ShellInv, [ShellNext]_shellVars
  PROVE  ShellInv'
  <1>1. CASE UNCHANGED shellVars
    <2>1. CallsAreHeld' /\ Awaited' = Awaited
      BY <1>1, SameCalls DEF shellVars, ShellInv, CallsMatch
    <2>2. CallsMatch'
      BY <1>1, <2>1 DEF shellVars, ShellInv, CallsMatch, Courier, OneOnTheWay, Still
    <2> QED BY <2>2, LinesKeep DEF ShellInv
  <1>2. CASE ShellNext
    <2>1. CallsMatch'
      BY <1>2, CoreServesStep, CoreFailsStep, ReaderStep, StartCoreStep, QuitStep, AskStep, TakeStep,
         UnansweredStep, ReturnStep DEF ShellNext
    <2> QED BY <2>1, LinesKeep DEF ShellInv
  <1> QED BY <1>1, <1>2

(* Replies carry no name, and yet a caller takes the reply to its own      *)
(* request while none was given up and the app is not quitting; and a Core *)
(* that never ran is not reported as lost (shell/app/src/core.rs).         *)
THEOREM AnswersAlwaysMatch == ShellSpec => []AnswersMatch
  <1>1. ShellInit => ShellInv
    BY ShellStarts
  <1>2. ShellInv /\ [ShellNext]_shellVars => ShellInv'
    BY ShellStep
  <1>3. ShellInv => AnswersMatch
    BY DEF ShellInv, CallsMatch, CallsAreHeld, AnswersMatch
  <1> QED BY <1>1, <1>2, <1>3, PTL DEF ShellSpec

=============================================================================
