-------------------------- MODULE SettingsHandover --------------------------
(***************************************************************************)
(* Launches of the Local Settings server that take the place of one        *)
(* another (settings/launcher.py).  A launch that finds the owner's lock   *)
(* held reads its record, asks the owner over the control socket in two    *)
(* stages, prepare and commit, and then believes only what it observes:    *)
(* the old process is gone and the lock is free.                           *)
(*                                                                         *)
(* What is abstracted.  The lock is its owner (LockFile has the file); a   *)
(* process number and a lock token are the launch they name; what a launch *)
(* does between serving and its end is SettingsSession.  A time limit may  *)
(* pass at any step that has one.                                          *)
(***************************************************************************)
EXTENDS Naturals

CONSTANTS Launch, NoLaunch

ASSUME LaunchAssumption == NoLaunch \notin Launch

VARIABLES
  stage,      \* where each launch is
  lock,       \* the launch named by settings-owner.lock
  socket,     \* the launch whose socket settings-control.sock is
  seen,       \* the owner whose record each launch read
  peer,       \* the launch each one is connected to
  mail        \* commits written to a connection and not read yet: <<from, to>>

launchVars == <<stage, lock, socket, seen, peer, mail>>

StillRuns(l) == stage[l] \notin {"gone", "refused", "timeout"}
Proceeds(l, step) == stage' = [stage EXCEPT ![l] = step]

HandoverInit ==
  /\ stage = [l \in Launch |-> "start"]
  /\ lock = NoLaunch /\ socket = NoLaunch
  /\ seen = [l \in Launch |-> NoLaunch]
  /\ peer = [l \in Launch |-> NoLaunch]
  /\ mail = {}

(* A lock whose owner is dead is taken over.                               *)
LockFree == lock # NoLaunch => ~StillRuns(lock)

AcquireAtOnce(l) ==
  /\ stage[l] = "start"
  /\ IF LockFree THEN lock' = l /\ Proceeds(l, "owner") ELSE Proceeds(l, "reading") /\ UNCHANGED lock
  /\ UNCHANGED <<socket, seen, peer, mail>>

ReadOwner(l) ==
  /\ stage[l] = "reading"
  /\ seen' = [seen EXCEPT ![l] = lock]
  /\ Proceeds(l, IF lock = NoLaunch THEN "refused" ELSE "asking")
  /\ UNCHANGED <<lock, socket, peer, mail>>

(* The process at the other end is the one whose record was read: its      *)
(* number, by the kernel, and its token, by its own check.                 *)
IsOwner(l, o) == o = seen[l]

(* connect, prepare and ready: nothing changes at the owner.  A launch that *)
(* gives up here, or finds nobody, has refused and left no trace.          *)
AskOwner(l) ==
  /\ stage[l] = "asking"
  /\ \/ Proceeds(l, "refused") /\ UNCHANGED peer
     \/ /\ socket # NoLaunch /\ stage[socket] \in {"serving", "ending"} /\ IsOwner(l, socket)
        /\ peer' = [peer EXCEPT ![l] = socket] /\ Proceeds(l, "ready")
  /\ UNCHANGED <<lock, socket, seen, mail>>

(* commit: from here on the launch decides only by what it observes.       *)
SendCommit(l) ==
  /\ stage[l] = "ready" /\ Proceeds(l, "waiting")
  /\ mail' = IF StillRuns(peer[l]) THEN mail \cup {<<l, peer[l]>>} ELSE mail
  /\ UNCHANGED <<lock, socket, seen, peer>>

(* The owner reads the commit, or its time limit for it has passed; it may *)
(* say no, and be heard or not.                                            *)
HearCommit(l, o) ==
  /\ <<l, o>> \in mail /\ mail' = mail \ {<<l, o>>}
  /\ \/ UNCHANGED stage
     \/ stage[l] = "waiting" /\ Proceeds(l, "refused")
     \/ stage[o] = "serving" /\ Proceeds(o, "ending")
  /\ UNCHANGED <<lock, socket, seen, peer>>

AwaitExit(l) ==
  /\ stage[l] = "waiting"
  /\ \/ ~StillRuns(seen[l]) /\ LockFree /\ lock' = l /\ Proceeds(l, "owner")
     \/ Proceeds(l, "timeout") /\ UNCHANGED lock
  /\ UNCHANGED <<socket, seen, peer, mail>>

(* serve: a socket left at the path is removed before the new one is bound.*)
StartControl(l) ==
  /\ stage[l] = "owner"
  /\ socket' = l /\ Proceeds(l, "serving")
  /\ UNCHANGED <<lock, seen, peer, mail>>

(* Closed by its user, or its session expired (SettingsSession).           *)
EndsItself(l) ==
  /\ stage[l] = "serving" /\ Proceeds(l, "ending")
  /\ UNCHANGED <<lock, socket, seen, peer, mail>>

(* The end of serve and of run_setup: the socket goes first, whosever it   *)
(* is, and the lock last; the process ends after that.                     *)
(* As faulty: the lock is released before the socket is removed.           *)
Ending_LockFirst == <<"lock", "socket">>
Ending == <<"socket", "lock">>

LetGo(l) ==
  \E i \in 1..2 :
    /\ stage[l] = <<"ending", "parting">>[i] /\ Proceeds(l, <<"parting", "released">>[i])
    /\ socket' = IF Ending[i] = "socket" THEN NoLaunch ELSE socket
    /\ lock' = IF Ending[i] = "lock" /\ lock = l THEN NoLaunch ELSE lock
    /\ UNCHANGED <<seen, peer, mail>>

EndLaunch(l) ==
  /\ stage[l] = "released" /\ Proceeds(l, "gone")
  /\ UNCHANGED <<lock, socket, seen, peer, mail>>

LaunchDies(l) ==
  /\ StillRuns(l) /\ Proceeds(l, "gone")
  /\ UNCHANGED <<lock, socket, seen, peer, mail>>

HandoverNext ==
  \E l \in Launch :
    \/ AcquireAtOnce(l) \/ ReadOwner(l) \/ AskOwner(l) \/ SendCommit(l) \/ AwaitExit(l)
    \/ StartControl(l) \/ EndsItself(l) \/ LetGo(l) \/ EndLaunch(l) \/ LaunchDies(l)
    \/ \E o \in Launch : HearCommit(l, o)

HandoverSpec == HandoverInit /\ [][HandoverNext]_launchVars

----------------------------------------------------------------------------
(* At most one launch is between taking the lock and releasing it, and     *)
(* while one serves, the control socket is its own, so that the next       *)
(* launch can reach it: no launch that ends takes away the socket of the   *)
(* one that follows.  A commit is only ever addressed to the launch whose  *)
(* record was read, and a launch that refused has sent none.               *)
OwnerAnswers ==
  /\ \A l \in Launch : stage[l] \in {"owner", "serving", "ending"} => lock = l
  /\ \A l \in Launch : stage[l] \in {"serving", "ending"} => socket = l
  /\ \A m \in mail : m[2] = seen[m[1]] /\ stage[m[1]] # "refused"
=============================================================================
