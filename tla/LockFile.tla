------------------------------ MODULE LockFile ------------------------------
(***************************************************************************)
(* The lock file by which processes of one computer exclude one another     *)
(* (LocalWorkerLock in orchestration/locks.py): configuration writers,      *)
(* credential stores, the settings launcher.                                *)
(*                                                                          *)
(* A path and the file it names are different things: a process holds a     *)
(* file open under its own descriptor while others unlink the path and      *)
(* create it again.  The lock belongs to whoever created the file the path  *)
(* names.  A file a dead process left behind is removed by a process that   *)
(* holds the advisory lock of that very file.                               *)
(*                                                                          *)
(* On Windows a file that somebody has open cannot be deleted, so the code  *)
(* closes its descriptor (and with it the lock) before it unlinks; a file   *)
(* whose first byte another process has locked cannot be read and looks     *)
(* malformed; and a live owner may be taken for a dead one, os.kill(pid, 0) *)
(* being no test there.                                                     *)
(*                                                                          *)
(* Abstractions: one lock object per process; inodes are not reused (the    *)
(* signature also compares size and mtime, which this model knows as the    *)
(* content); a file of another host is never touched and is left out; no    *)
(* process takes malformed_stale_after (a day) from create to write, so a   *)
(* malformed file grows old only when nobody is making it.                  *)
(***************************************************************************)
EXTENDS Naturals

CONSTANTS
  Process,   \* pids; a process that dies does not come back
  NoProcess,
  MaxInode,  \* bound on the files created
  Windows    \* _IS_WINDOWS

ASSUME LockFileAssumption ==
  /\ NoProcess \notin Process
  /\ MaxInode \in Nat
  /\ Windows \in BOOLEAN

Inode == 1..MaxInode

VARIABLES
  path,     \* the inode the path names, 0 when there is none
  created,  \* inodes created so far
  owner,    \* the pid in a file's metadata, NoProcess while it is malformed
  marked,   \* malformed files that hold the byte Windows locks
  old,      \* files not written to for malformed_stale_after
  flock,    \* the holder of a file's advisory lock
  pc, fd,   \* where a process is, and the file it has open
  snap      \* the signature a process has read

vars == <<path, created, owner, marked, old, flock, pc, fd, snap>>
files == <<created, owner, marked, old>>

-----------------------------------------------------------------------------
Making == {"lock", "write"}
Undoing == {"undo", "undoUnlink"}
Leaving == {"leave", "leaveUnlink"}
Looking == {"look", "read", "retry", "reopen", "try", "check", "stat", "unlink"}
Place == {"idle", "create", "held", "dead"} \cup Making \cup Undoing \cup Leaving \cup Looking
Mark == [inode : Inode \cup {0}, owner : Process \cup {NoProcess}, marked : BOOLEAN]

NoMark == [inode |-> 0, owner |-> NoProcess, marked |-> FALSE]

(* Faulty forms of a definition X are named X_...; nothing uses them.       *)

(* The metadata process p reads from file i (_snapshot_from_fd).            *)
Seen(p, i) == IF Windows /\ flock[i] \notin {p, NoProcess} THEN NoProcess ELSE owner[i]
Signature(p, i) == [inode |-> i, owner |-> Seen(p, i), marked |-> i \in marked]

(* _stale_lock_snapshot: the owner is dead, or the file has been malformed  *)
(* for long.                                                                *)
MayLookStale_AnyMalformed(p) ==
  LET o == Seen(p, fd[p]) IN o # NoProcess => pc[o] = "dead" \/ Windows
MayLookStale(p) ==
  LET o == Seen(p, fd[p]) IN
  IF o = NoProcess THEN fd[p] \in old ELSE pc[o] = "dead" \/ Windows
MayLookLive(p) ==
  LET o == Seen(p, fd[p]) IN
  IF o = NoProcess THEN fd[p] \notin old ELSE pc[o] # "dead"

(* Does the path still name the file?  POSIX compares it with the open one, *)
(* Windows, where it is closed by then, with what was read of it.           *)
StillNamed_NotCompared(p) == path # 0
StillNamed(p) ==
  /\ path # 0
  /\ IF Windows THEN Signature(p, path) = snap[p] ELSE path = fd[p]

Deletable(i) == Windows => \A q \in Process : fd[q] # i

Goto(p, place) == pc' = [pc EXCEPT ![p] = place]
Unlocked(p) == [i \in Inode |-> IF flock[i] = p THEN NoProcess ELSE flock[i]]
Close(p) == fd' = [fd EXCEPT ![p] = 0] /\ flock' = Unlocked(p)

(* os.unlink removes whatever the path names now, if it can.                *)
Unlink(p, done, failed) ==
  IF path # 0 /\ Deletable(path)
    THEN path' = 0 /\ Goto(p, done)
    ELSE UNCHANGED path /\ Goto(p, failed)

Init ==
  /\ path = 0 /\ created = 0
  /\ owner = [i \in Inode |-> NoProcess]
  /\ marked = {} /\ old = {}
  /\ flock = [i \in Inode |-> NoProcess]
  /\ pc = [p \in Process |-> "idle"]
  /\ fd = [p \in Process |-> 0]
  /\ snap = [p \in Process |-> NoMark]

-----------------------------------------------------------------------------
(* acquire(): create the file, lock it, write who owns it                   *)

Start(p) ==
  /\ pc[p] = "idle"
  /\ Goto(p, "create")
  /\ UNCHANGED <<path, files, flock, fd, snap>>

Create(p) ==
  /\ pc[p] = "create" /\ path = 0
  /\ created < MaxInode
  /\ created' = created + 1
  /\ path' = created + 1
  /\ fd' = [fd EXCEPT ![p] = created + 1]
  /\ Goto(p, "lock")
  /\ UNCHANGED <<owner, marked, old, flock, snap>>

Found(p) ==
  /\ pc[p] = "create" /\ path # 0
  /\ Goto(p, "look")
  /\ UNCHANGED <<path, files, flock, fd, snap>>

(* An advisory lock; Windows needs a byte to lock, which it writes first.   *)
Locked(p) ==
  LET i == fd[p] IN
  /\ flock[i] = NoProcess
  /\ flock' = [flock EXCEPT ![i] = p]
  /\ IF Windows /\ owner[i] = NoProcess
       THEN /\ marked' = marked \cup {i}
            /\ old' = IF i \in marked THEN old ELSE old \ {i}
       ELSE UNCHANGED <<marked, old>>
  /\ UNCHANGED <<path, created, owner, fd, snap>>

LockNew(p) == pc[p] = "lock" /\ Locked(p) /\ Goto(p, "write")

(* Somebody who wanted an older file has locked this one.                   *)
LockNewFails(p) ==
  /\ pc[p] = "lock" /\ flock[fd[p]] # NoProcess
  /\ Goto(p, "undo")
  /\ UNCHANGED <<path, files, flock, fd, snap>>

Write(p) ==
  /\ pc[p] = "write"
  /\ owner' = [owner EXCEPT ![fd[p]] = p]
  /\ marked' = marked \ {fd[p]} /\ old' = old \ {fd[p]}
  /\ Goto(p, "held")
  /\ UNCHANGED <<path, created, flock, fd, snap>>

WriteFails_NoCleanup(p) ==
  /\ pc[p] = "write"
  /\ Goto(p, "idle") /\ Close(p)
  /\ UNCHANGED <<path, files, snap>>
WriteFails(p) ==
  /\ pc[p] = "write"
  /\ Goto(p, "undo")
  /\ UNCHANGED <<path, files, flock, fd, snap>>

UndoStat(p) ==
  /\ pc[p] = "undo"
  /\ IF path = fd[p] THEN Goto(p, "undoUnlink") /\ UNCHANGED <<fd, flock>>
                     ELSE Goto(p, "idle") /\ Close(p)
  /\ UNCHANGED <<path, files, snap>>

UndoUnlink(p) ==
  /\ pc[p] = "undoUnlink"
  /\ Unlink(p, "idle", "idle") /\ Close(p)
  /\ UNCHANGED <<files, snap>>

-----------------------------------------------------------------------------
(* acquire() when the file exists: remove it if its owner is gone           *)

LookOpen(p) ==
  /\ pc[p] = "look"
  /\ IF path = 0 THEN Goto(p, "retry") /\ UNCHANGED fd
                 ELSE Goto(p, "read") /\ fd' = [fd EXCEPT ![p] = path]
  /\ UNCHANGED <<path, files, flock, snap>>

LooksStale(p) ==
  /\ pc[p] = "read" /\ MayLookStale(p)
  /\ snap' = [snap EXCEPT ![p] = Signature(p, fd[p])]
  /\ Goto(p, "reopen") /\ Close(p)
  /\ UNCHANGED <<path, files>>

LooksLive(p) ==
  /\ pc[p] = "read" /\ MayLookLive(p)
  /\ Goto(p, "retry") /\ Close(p)
  /\ UNCHANGED <<path, files, snap>>

Retry(p) ==
  /\ pc[p] = "retry"
  /\ Goto(p, "create")
  /\ UNCHANGED <<path, files, flock, fd, snap>>

GiveUp(p) ==
  /\ pc[p] = "retry"
  /\ Goto(p, "idle")
  /\ UNCHANGED <<path, files, flock, fd, snap>>

Reopen(p) ==
  /\ pc[p] = "reopen"
  /\ IF path = 0 THEN Goto(p, "retry") /\ UNCHANGED fd
                 ELSE Goto(p, "try") /\ fd' = [fd EXCEPT ![p] = path]
  /\ UNCHANGED <<path, files, flock, snap>>

LockStale(p) == pc[p] = "try" /\ Locked(p) /\ Goto(p, "check")

LockStaleFails(p) ==
  /\ pc[p] = "try" /\ flock[fd[p]] # NoProcess
  /\ Goto(p, "retry") /\ Close(p)
  /\ UNCHANGED <<path, files, snap>>

(* The file under the lock must be the one that was judged.  Windows lets   *)
(* the lock go before it unlinks.                                           *)
Same(p) == Signature(p, fd[p]) = snap[p]

Check(p) ==
  /\ pc[p] = "check"
  /\ Goto(p, IF Same(p) THEN "stat" ELSE "retry")
  /\ IF Windows \/ ~Same(p) THEN Close(p) ELSE UNCHANGED <<fd, flock>>
  /\ UNCHANGED <<path, files, snap>>

Stat(p) ==
  /\ pc[p] = "stat"
  /\ IF StillNamed(p) THEN Goto(p, "unlink") /\ UNCHANGED <<fd, flock>>
                      ELSE Goto(p, "retry") /\ Close(p)
  /\ UNCHANGED <<path, files, snap>>

Remove(p) ==
  /\ pc[p] = "unlink"
  /\ Unlink(p, "create", "retry") /\ Close(p)
  /\ UNCHANGED <<files, snap>>

-----------------------------------------------------------------------------
(* release()                                                                *)

Release(p) ==
  /\ pc[p] = "held"
  /\ snap' = [snap EXCEPT ![p] = Signature(p, fd[p])]
  /\ Goto(p, "leave")
  /\ IF Windows THEN Close(p) ELSE UNCHANGED <<fd, flock>>
  /\ UNCHANGED <<path, files>>

LeaveStat(p) ==
  /\ pc[p] = "leave"
  /\ IF StillNamed(p) THEN Goto(p, "leaveUnlink") /\ UNCHANGED <<fd, flock>>
                      ELSE Goto(p, "idle") /\ Close(p)
  /\ UNCHANGED <<path, files, snap>>

LeaveUnlink(p) ==
  /\ pc[p] = "leaveUnlink"
  /\ Unlink(p, "idle", "idle") /\ Close(p)
  /\ UNCHANGED <<files, snap>>

-----------------------------------------------------------------------------
(* A process dies: the system closes its file.                              *)
Crash(p) ==
  /\ pc[p] # "dead"
  /\ Goto(p, "dead") /\ Close(p)
  /\ UNCHANGED <<path, files, snap>>

(* A file has not been written to for malformed_stale_after.                *)
Age(i) ==
  /\ i <= created /\ i \notin old
  /\ \A p \in Process : fd[p] = i => pc[p] \notin Making \cup Undoing
  /\ Windows \/ owner[i] = NoProcess
  /\ old' = old \cup {i}
  /\ UNCHANGED <<path, created, owner, marked, flock, pc, fd, snap>>

-----------------------------------------------------------------------------
Acquiring(p) ==
  \/ Create(p) \/ Found(p) \/ LockNew(p) \/ LockNewFails(p) \/ Write(p) \/ UndoStat(p) \/ UndoUnlink(p)
  \/ LookOpen(p) \/ LooksStale(p) \/ LooksLive(p) \/ Retry(p)
  \/ Reopen(p) \/ LockStale(p) \/ LockStaleFails(p) \/ Check(p) \/ Stat(p) \/ Remove(p)

Releasing(p) == Release(p) \/ LeaveStat(p) \/ LeaveUnlink(p)

Next ==
  \/ \E p \in Process : Start(p) \/ Acquiring(p) \/ Releasing(p) \/ WriteFails(p) \/ GiveUp(p) \/ Crash(p)
  \/ \E i \in Inode : Age(i)

Spec == Init /\ [][Next]_vars

(* Code between two statements runs on; nobody has to ask for the lock, to  *)
(* wait for it or to give it back.                                          *)
FairSpec == Spec /\ \A p \in Process : WF_vars(Acquiring(p))

-----------------------------------------------------------------------------
(* What the lock file promises.                                             *)

(* Every variable has its type, and a lock belongs to who has the file open.*)
TypeOK ==
  /\ path \in Inode \cup {0} /\ created \in 0..MaxInode
  /\ owner \in [Inode -> Process \cup {NoProcess}]
  /\ marked \subseteq Inode /\ old \subseteq Inode
  /\ flock \in [Inode -> Process \cup {NoProcess}]
  /\ pc \in [Process -> Place]
  /\ fd \in [Process -> Inode \cup {0}]
  /\ snap \in [Process -> Mark]
  /\ \A i \in Inode : flock[i] # NoProcess => fd[flock[i]] = i

(* One holder, whoever dies, recovers a stale file or is overtaken between  *)
(* judging a file and removing the path.                                    *)
MutualExclusion ==
  \A p, q \in Process : pc[p] = "held" /\ pc[q] = "held" => p = q

(* Who holds the lock or is about to is the maker of the file the path      *)
(* names: no other process has removed it, though judging a file, opening   *)
(* it, stat and unlink are calls others come between.                       *)
HolderIsNamed ==
  \A p \in Process :
    /\ pc[p] \in {"held"} \cup Making => path = fd[p]
    /\ pc[p] = "held" => owner[path] = p

(* Holding the lock means what the callers take it for.                     *)
LockIsHeld == MutualExclusion /\ HolderIsNamed

(* On POSIX a lock file without a live user is the remains of a crash: no   *)
(* release and no failed acquire leaves one behind ("a stale lock file ...  *)
(* made every subsequent acquire on the same host/pid fail forever").       *)
LitterIsFromCrash ==
  ~Windows /\ path # 0 =>
    \/ \E p \in Process : fd[p] = path /\ pc[p] \in {"held"} \cup Making \cup Undoing \cup Leaving
    \/ owner[path] # NoProcess /\ pc[owner[path]] = "dead"
    \/ owner[path] = NoProcess /\ \E p \in Process : pc[p] = "dead"

(* Why nobody removes a live file.  Every process in the middle of using a  *)
(* file is the only maker of it; on POSIX a process that is about to remove *)
(* a path has the file it names under its advisory lock, judged it to have  *)
(* no maker any more, and files never get a new one; on Windows a file that *)
(* is open is not removed at all.                                           *)
Closed == {"idle", "create", "look", "retry", "reopen", "dead"}
Removing == {"stat", "unlink"}
Own(p) == pc[p] \in {"held"} \cup Making \cup Undoing \/ (~Windows /\ pc[p] \in Leaving)
Unmade(i) == \A p \in Process : Own(p) => fd[p] # i

FilesOpen ==
  /\ path <= created
  /\ \A p \in Process :
       IF pc[p] \in Closed \/ (Windows /\ pc[p] \in Leaving \cup Removing)
         THEN fd[p] = 0 ELSE fd[p] \in 1..created
  /\ \A i \in Inode : i > created => owner[i] = NoProcess /\ i \notin old

OneMaker == \A p, q \in Process : Own(p) /\ Own(q) /\ fd[p] = fd[q] => p = q

Owned ==
  \A p \in Process :
    /\ ~Windows /\ pc[p] \in Making \cup Undoing => owner[fd[p]] = NoProcess /\ fd[p] \notin old
    /\ pc[p] = "held" \/ (~Windows /\ pc[p] \in Leaving) => owner[fd[p]] = p

Named ==
  \A p \in Process :
    /\ pc[p] \in {"held"} \cup Making => path = fd[p]
    /\ ~Windows /\ pc[p] \in {"undoUnlink", "leaveUnlink", "unlink"} => path = fd[p]

JudgedBy(p) ==
  /\ pc[p] \in {"reopen", "try", "check"} \cup Removing =>
       snap[p].inode \in 1..created /\ Unmade(snap[p].inode)
  /\ pc[p] \in {"check"} \cup Removing => flock[fd[p]] = p
  /\ pc[p] \in Removing => fd[p] = snap[p].inode

Judged == ~Windows => \A p \in Process : JudgedBy(p)

IndInv == TypeOK /\ FilesOpen /\ OneMaker /\ Owned /\ Named /\ Judged

(* The file of a dead owner is removed when somebody keeps trying for it,   *)
(* also when several processes judge it stale at the same time.             *)
Waiting(p) == pc[p] \in {"create"} \cup Looking
DeadFileIsRemoved ==
  \A i \in Inode, p \in Process :
    (path = i /\ owner[i] # NoProcess /\ pc[owner[i]] = "dead" /\ Waiting(p)) ~> (path # i \/ ~Waiting(p))

=============================================================================
