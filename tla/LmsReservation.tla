---------------------------- MODULE LmsReservation ----------------------------
(***************************************************************************)
(* The reservation of the LMS import (scripts/knu_lms_apply_lock.py) and   *)
(* who works under it in scripts/knu_lms_sync.py: keepers, enrollments of  *)
(* an access token, collections, and the operator who reconciles what an   *)
(* interrupted run left behind.                                            *)
(*                                                                         *)
(* An advisory lock dies with its process; the record in active-run.json   *)
(* survives it.  The record names its run by a fresh number.  A collection *)
(* is another process than the keeper: it holds no lock and only asks, now *)
(* and then, whether the record still names the run it works for.          *)
(*                                                                         *)
(* What is abstracted.  A binding document and its scope hash are one      *)
(* value; the token is known by the document it was entered for; evidence  *)
(* files and their hashes are a version number.  The enrollment of a       *)
(* course and of a semester are one protocol over different files, and so  *)
(* are their collections.                                                  *)
(***************************************************************************)
EXTENDS Naturals

CONSTANTS
  Proc,        \* processes
  Doc,         \* binding documents an operator may put in the configuration
  None,        \* no process, no document
  MaxRun,      \* bound on the reservations begun
  MaxEvidence  \* bound on the changes of the evidence files

ASSUME ReservationAssumption ==
  None \notin Proc \cup Doc /\ MaxRun \in Nat /\ MaxEvidence \in Nat

VARIABLES
  flock,     \* holder of apply.lock
  record,    \* active-run.json
  runs,      \* owner ids handed out
  evidence,  \* version of the evidence files
  shown,     \* the candidate the operator was shown
  config,    \* the binding document in the configuration
  manifest,  \* the enrollment manifest
  entry,     \* the document the token in the keychain was entered for
  doing        \* what each process does

files == <<config, manifest, entry>>
reservationVars == <<flock, record, runs, evidence, shown, files, doing>>

-----------------------------------------------------------------------------
NoRecord == [state |-> "none", owner |-> 0, scope |-> None]
NoCandidate == [record |-> NoRecord, evidence |-> 0]
NoManifest == [state |-> "none", doc |-> None]
NotWorking == [at |-> "idle", owner |-> 0, doc |-> None, token |-> None]

\* Places at which a process works under a reservation of its own.
Holding == {"held", "reserved", "pending", "stored", "enrolled"}
\* Places at which a process has the lock.
Locking == Holding \cup {"reconcile", "confirmed", "closing"}

Stands(p, place) == doing[p].at = place
Moves(p, place) == doing' = [doing EXCEPT ![p].at = place]

\* ensure_participant: the record is active and is of this run and scope.
IsParticipant(p) == record = [state |-> "active", owner |-> doing[p].owner, scope |-> doing[p].doc]

\* Reservation.begin: the lock is free and no run was interrupted.
MayBegin == flock = None /\ record.state # "active"

Begin(p, doc, place) ==
  /\ MayBegin /\ runs < MaxRun
  /\ flock' = p /\ runs' = runs + 1
  /\ record' = [state |-> "active", owner |-> runs + 1, scope |-> doc]
  /\ doing' = [doing EXCEPT ![p] = [at |-> place, owner |-> runs + 1, doc |-> doc, token |-> None]]
  /\ UNCHANGED <<evidence, shown, files>>

\* Reservation.complete, in front of close; a record that is not its own any more raises.
Complete(p) ==
  /\ record' = IF IsParticipant(p) THEN [record EXCEPT !.state = "completed"] ELSE record
  /\ Moves(p, "closing")
  /\ UNCHANGED <<flock, runs, evidence, shown, files>>

ReservationInit ==
  /\ flock = None /\ record = NoRecord /\ runs = 0
  /\ evidence = 0 /\ shown = NoCandidate
  /\ config \in Doc /\ manifest = NoManifest /\ entry = None
  /\ doing = [p \in Proc |-> NotWorking]

-----------------------------------------------------------------------------
(* hold_cli: a keeper, whose standard input ends or says release            *)

KeeperBegin(p, doc) == Stands(p, "idle") /\ Begin(p, doc, "held")

KeeperRelease(p) == Stands(p, "held") /\ Complete(p)

\* The end of its input, or an exception: the record stays active.
GiveUp(p) ==
  /\ doing[p].at \in Holding \cup {"reconcile", "confirmed"}
  /\ Moves(p, "closing")
  /\ UNCHANGED <<flock, record, runs, evidence, shown, files>>

Close(p) ==
  /\ Stands(p, "closing")
  /\ flock' = None
  /\ doing' = [doing EXCEPT ![p] = NotWorking]
  /\ UNCHANGED <<record, runs, evidence, shown, files>>

\* A process dies anywhere, and its lock with it.
Dies(p) ==
  /\ ~Stands(p, "idle")
  /\ flock' = IF flock = p THEN None ELSE flock
  /\ doing' = [doing EXCEPT ![p] = NotWorking]
  /\ UNCHANGED <<record, runs, evidence, shown, files>>

-----------------------------------------------------------------------------
(* Enrollment: the document is read before the reservation is taken, and a  *)
(* manifest says pending until the keychain has the new token               *)

EnrollLoad(p) ==
  /\ Stands(p, "idle")
  /\ doing' = [doing EXCEPT ![p] = [NotWorking EXCEPT !.at = "loaded", !.doc = config]]
  /\ UNCHANGED <<flock, record, runs, evidence, shown, files>>

EnrollReserve(p) == Stands(p, "loaded") /\ Begin(p, doing[p].doc, "reserved")

Pending(p) == [state |-> "pending", doc |-> doing[p].doc]

EnrollPending(p) ==
  /\ Stands(p, "reserved")
  /\ manifest' = Pending(p)
  /\ Moves(p, "pending")
  /\ UNCHANGED <<flock, record, runs, evidence, shown, config, entry>>

\* The prompt is answered and the token stored.  The call may also raise, before or
\* after the keychain has the token (GiveUp).
EnrollStore(p) ==
  /\ Stands(p, "pending")
  /\ entry' = doing[p].doc
  /\ Moves(p, "stored")
  /\ UNCHANGED <<flock, record, runs, evidence, shown, config, manifest>>

EnrollManifest(p) ==
  /\ Stands(p, "stored")
  /\ manifest' = [state |-> "enrolled", doc |-> doing[p].doc]
  /\ Moves(p, "enrolled")
  /\ UNCHANGED <<flock, record, runs, evidence, shown, config, entry>>

EnrollComplete(p) == Stands(p, "enrolled") /\ Complete(p)

\* prepare_semester_api, or an operator's edit of the course configuration: neither asks
\* for the reservation.
Prepare(doc) ==
  /\ config # doc
  /\ config' = doc
  /\ UNCHANGED <<flock, record, runs, evidence, shown, manifest, entry, doing>>

-----------------------------------------------------------------------------
(* collect: for the run whose number a keeper printed                       *)

CollectBegin(p, q) ==
  /\ Stands(p, "idle") /\ Stands(q, "held")
  /\ doing[q].doc = config
  /\ doing' = [doing EXCEPT ![p] = [at |-> "collect", owner |-> doing[q].owner, doc |-> config, token |-> None]]
  /\ UNCHANGED <<flock, record, runs, evidence, shown, files>>

\* read_enrolled_token: the configuration, then the manifest, then the keychain.
CollectManifest(p) ==
  /\ Stands(p, "collect") /\ IsParticipant(p)
  /\ config = doing[p].doc
  /\ manifest = [state |-> "enrolled", doc |-> doing[p].doc]
  /\ Moves(p, "manifest")
  /\ UNCHANGED <<flock, record, runs, evidence, shown, files>>

CollectToken(p) ==
  /\ Stands(p, "manifest") /\ entry # None
  /\ doing' = [doing EXCEPT ![p].at = "token", ![p].token = entry]
  /\ UNCHANGED <<flock, record, runs, evidence, shown, files>>

\* The record is asked once more before the token goes to Canvas.
Confirmed_Once(p) == TRUE
Confirmed(p) == IsParticipant(p)

CollectSend(p) ==
  /\ Stands(p, "token") /\ Confirmed(p)
  /\ Moves(p, "send")
  /\ UNCHANGED <<flock, record, runs, evidence, shown, files>>

\* The answer counts when the record still names the run; otherwise the collection fails,
\* as it may anywhere.
CollectEnd(p) ==
  /\ doing[p].at \in {"loaded", "collect", "manifest", "token", "send"}
  /\ doing' = [doing EXCEPT ![p] = IF Stands(p, "send") /\ IsParticipant(p) THEN [@ EXCEPT !.at = "accepted"] ELSE NotWorking]
  /\ UNCHANGED <<flock, record, runs, evidence, shown, files>>

\* The driver that works with what was collected: it changes the evidence files until it
\* ends, whether or not its keeper lives.
DriverWrites(p) ==
  /\ Stands(p, "accepted") /\ evidence < MaxEvidence
  /\ evidence' = evidence + 1
  /\ UNCHANGED <<flock, record, runs, shown, files, doing>>

-----------------------------------------------------------------------------
(* The operator: reconcile check shows a candidate, reconcile apply takes   *)
(* it back and compares it twice under the lock                             *)

Candidate == [record |-> record, evidence |-> evidence]

OperatorCheck ==
  /\ flock = None /\ record.state = "active"
  /\ shown' = Candidate
  /\ UNCHANGED <<flock, record, runs, evidence, files, doing>>

OperatorApply(p) ==
  /\ Stands(p, "idle")
  /\ flock = None /\ record.state = "active" /\ shown = Candidate
  /\ flock' = p
  /\ doing' = [doing EXCEPT ![p] = [at |-> "reconcile", owner |-> record.owner, doc |-> record.scope, token |-> None]]
  /\ UNCHANGED <<record, runs, evidence, shown, files>>

Same == shown = Candidate

OperatorConfirm(p) ==
  /\ Stands(p, "reconcile") /\ Same
  /\ Moves(p, "confirmed")
  /\ UNCHANGED <<flock, record, runs, evidence, shown, files>>

OperatorComplete(p) == Stands(p, "confirmed") /\ Complete(p)

-----------------------------------------------------------------------------
Keep(p) == KeeperRelease(p) \/ (\E doc \in Doc : KeeperBegin(p, doc)) \/ GiveUp(p) \/ Close(p) \/ Dies(p)

Enroll(p) ==
  EnrollLoad(p) \/ EnrollReserve(p) \/ EnrollPending(p) \/ EnrollStore(p) \/ EnrollManifest(p) \/ EnrollComplete(p)

Collect(p) ==
  \/ \E q \in Proc : CollectBegin(p, q)
  \/ CollectManifest(p) \/ CollectToken(p) \/ CollectSend(p) \/ CollectEnd(p) \/ DriverWrites(p)

Operate(p) == OperatorApply(p) \/ OperatorConfirm(p) \/ OperatorComplete(p)

ReservationNext ==
  \/ \E p \in Proc : Keep(p) \/ Enroll(p) \/ Collect(p) \/ Operate(p)
  \/ OperatorCheck
  \/ \E doc \in Doc : Prepare(doc)

ReservationSpec == ReservationInit /\ [][ReservationNext]_reservationVars

-----------------------------------------------------------------------------
(* Properties *)

\* Who works under a reservation of its own has the lock, and the record is active and
\* names its run: no second run begins and no operator completes it under it, although
\* the lock dies with a process and the record does not.
HolderIsRecorded ==
  \A p \in Proc : doing[p].at \in Holding => flock = p /\ IsParticipant(p)

\* A token that can be read was entered for the very document that lets it be read,
\* through every crash between keychain and manifest ...
TokenIsOfManifest ==
  manifest.state = "enrolled" => entry = manifest.doc

\* ... and a collection sends a token only if it was entered for its own document: not
\* when its keeper died, an operator reconciled the run and another enrollment stored
\* its token between two reads of the collection.
SentTokenIsBound ==
  \A p \in Proc : doing[p].at \in {"send", "accepted"} => doing[p].token = doing[p].doc

ReservationProtects == HolderIsRecorded /\ TokenIsOfManifest /\ SentTokenIsBound

=============================================================================
