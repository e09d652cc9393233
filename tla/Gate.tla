-------------------------------- MODULE Gate --------------------------------
(***************************************************************************)
(* The human gate: "the user looked at this and pressed Confirm in a native *)
(* dialog" (gate/service.py, StateWriter.commit_gate, shell/app/src/gate.rs *)
(* and the liveness of sessions it asks ui/sessions.py about).              *)
(*                                                                          *)
(* Requests live in the memory of Core; the log of proofs and the verified  *)
(* marks live in the database.  The service lock makes begin, view, deny    *)
(* and confirm atomic, with two exceptions that this model keeps apart:     *)
(* begin reads its target before it takes the lock, and confirm lets the    *)
(* database, the sessions and the clock move between its checks, the commit *)
(* and the entry it makes in memory.  Of the library the gate reads what    *)
(* MaterialEvidence calls revision and evidence: a fingerprint is the two.  *)
(*                                                                          *)
(* Abstractions: VERIFY_MATERIAL is the one action that is wired; a request *)
(* hash is the fingerprint it is computed from; answers are COMMITTED or    *)
(* REFUSED, and the answers that decide nothing (UNKNOWN, WRONG_WINDOW) and *)
(* the refusals of begin are not told apart.                                *)
(***************************************************************************)
EXTENDS Naturals, FiniteSets

CONSTANTS
  Window,       \* labels of the Shell's windows
  Session,      \* session ids exchange() may hand out
  MaterialId,
  None,         \* no window, no session, no target
  Ttl,          \* TTL_S
  Cooldown,     \* COOLDOWN_S
  Keep,         \* KEEP_TERMINAL_S
  MaxTime,      \* bound on the clock
  MaxNonce,     \* bound on the requests begun
  MaxReads,     \* bound on begin() calls under way at once
  MaxRevision,  \* bound on replacements of a material
  MaxFaults     \* bound on crashes and database errors

ASSUME GateAssumption ==
  /\ None \notin Window \cup Session \cup MaterialId
  /\ Ttl \in Nat /\ Cooldown \in Nat /\ Keep \in Nat
  /\ MaxTime \in Nat /\ MaxNonce \in Nat /\ MaxReads \in Nat /\ MaxRevision \in Nat /\ MaxFaults \in Nat

Nonce == 1..MaxNonce

VARIABLES
  revision,  \* newest source_version of a material, 0 before it exists
  evidence,  \* completeness of that version's newest chunks
  hidden,    \* materials whose source was deleted
  log,       \* human_gate_log: nonces with a row
  asked,     \* what a nonce was begun for: its target and fingerprint
  verified,  \* material_usage.verified_gate_id, as a nonce
  issued,    \* nonces handed out so far
  records,   \* GateService._records
  cooldown,  \* GateService._cooldown
  reads,     \* begin() calls between reading the target and taking the lock
  confirm,   \* the confirm() that holds the lock after its checks
  owner,     \* window of every session handed out
  alive,     \* SessionStore: sessions that are alive
  shown,     \* nonces whose dialog the Shell has opened
  told,      \* decisions the Shell was told, per nonce
  now, faults

library == <<revision, evidence, hidden>>
database == <<log, verified>>
memory == <<records, cooldown, reads, confirm>>
sessions == <<owner, alive>>
vars == <<library, database, asked, issued, memory, sessions, shown, told, now, faults>>

-----------------------------------------------------------------------------
Terminal == {"COMMITTED", "REJECTED", "DENIED", "EXPIRED"}
Fingerprint == [revision : Nat, evidence : {"NONE", "PARTIAL", "COMPLETE"}]
Request == [target : MaterialId \cup {None}, print : Fingerprint]
Record == [state : {"NONE", "PENDING", "COMMITTING"} \cup Terminal, session : Session \cup {None},
           deadline : Nat, finished : Nat]
Confirming == [pc : {"idle", "commit", "finish"}, nonce : Nonce \cup {0}, at : Nat,
               outcome : {"NONE", "COMMITTED", "REJECTED"}]

NoRequest == [target |-> None, print |-> [revision |-> 0, evidence |-> "NONE"]]
NoRecord == [state |-> "NONE", session |-> None, deadline |-> 0, finished |-> 0]
NoConfirm == [pc |-> "idle", nonce |-> 0, at |-> 0, outcome |-> "NONE"]

(* Definitions named X_... are faulty forms of X, for the mutation runs; no *)
(* other definition uses them.                                              *)

(* material_target: the newest version and the completeness of its chunks.  *)
Target(m) == [revision |-> revision[m], evidence |-> evidence[m]]
Visible(m) == revision[m] > 0 /\ m \notin hidden
Verifiable(m) == Visible(m) /\ verified[m] = 0

LockFree == confirm.pc = "idle"

(* _expire, which every call runs first: overdue requests expire as of      *)
(* their deadline, and decided ones are forgotten after a while.            *)
Overdue(n) == records[n].state = "PENDING" /\ now >= records[n].deadline
Forgotten(n) == records[n].state \in Terminal /\ now - records[n].finished > Keep
Kept == [n \in Nonce |->
  IF Overdue(n) THEN [records[n] EXCEPT !.state = "EXPIRED", !.finished = records[n].deadline]
  ELSE IF Forgotten(n) THEN NoRecord ELSE records[n]]
CooldownKept_IgnoresExpiry == cooldown
CooldownKept == [s \in Session |->
  LET overdue == { n \in Nonce : Overdue(n) /\ records[n].session = s }
  IN  IF overdue = {} THEN cooldown[s] ELSE records[CHOOSE n \in overdue : TRUE].deadline + Cooldown]

Pending(n) == Kept[n].state = "PENDING"
Usable_AnySession(n, w) == Pending(n) /\ owner[Kept[n].session] = w
Usable(n, w) == Pending(n) /\ owner[Kept[n].session] = w /\ Kept[n].session \in alive

(* _finish: a refusal starts the cooldown of its session.                   *)
Finished(n, decision, at) == [Kept EXCEPT ![n].state = decision, ![n].finished = at]
CooldownFinished(n, at) == [CooldownKept EXCEPT ![Kept[n].session] = at + Cooldown]

Decision_Replayed(n) == "COMMITTED"
Decision(n) == IF Kept[n].state = "COMMITTED" THEN "COMMITTED" ELSE "REFUSED"
Tell(n, decision) == [told EXCEPT ![n] = @ \cup {decision}]

-----------------------------------------------------------------------------
Init ==
  /\ revision = [m \in MaterialId |-> 0] /\ evidence = [m \in MaterialId |-> "NONE"] /\ hidden = {}
  /\ log = {}
  /\ asked = [n \in Nonce |-> NoRequest]
  /\ verified = [m \in MaterialId |-> 0]
  /\ issued = 0
  /\ records = [n \in Nonce |-> NoRecord]
  /\ cooldown = [s \in Session |-> 0]
  /\ reads = {} /\ confirm = NoConfirm
  /\ owner = [s \in Session |-> None] /\ alive = {}
  /\ shown = {} /\ told = [n \in Nonce |-> {}]
  /\ now = 0 /\ faults = 0

-----------------------------------------------------------------------------
(* begin(), called by the web UI of a session                               *)

BeginRead(s, m) ==
  /\ s \in alive /\ Verifiable(m)
  /\ issued < MaxNonce /\ Cardinality(reads) < MaxReads
  /\ reads' = reads \cup {[session |-> s, target |-> m, print |-> Target(m)]}
  /\ UNCHANGED <<library, database, asked, issued, records, cooldown, confirm, sessions, shown, told, now, faults>>

MayBegin(s) ==
  /\ \A n \in Nonce : ~(Pending(n) /\ Kept[n].session = s)
  /\ now >= CooldownKept[s]

Begin(r) ==
  /\ LockFree
  /\ MayBegin(r.session) /\ issued < MaxNonce
  /\ issued' = issued + 1
  /\ records' = [Kept EXCEPT ![issued + 1] =
       [state |-> "PENDING", session |-> r.session, deadline |-> now + Ttl, finished |-> 0]]
  /\ asked' = [asked EXCEPT ![issued + 1] = [target |-> r.target, print |-> r.print]]
  /\ cooldown' = CooldownKept
  /\ reads' = reads \ {r}
  /\ UNCHANGED <<library, database, confirm, sessions, shown, told, now, faults>>

(* GATE_BUSY or GATE_COOLDOWN.                                              *)
BeginRefused(r) ==
  /\ LockFree
  /\ ~MayBegin(r.session)
  /\ records' = Kept /\ cooldown' = CooldownKept
  /\ reads' = reads \ {r}
  /\ UNCHANGED <<library, database, asked, issued, confirm, sessions, shown, told, now, faults>>

-----------------------------------------------------------------------------
(* view(), deny() and confirm(), called by the Shell                        *)

(* gate.get: only a usable request has a dialog.                            *)
View(n, w) ==
  /\ LockFree
  /\ Usable(n, w)
  /\ records' = Kept /\ cooldown' = CooldownKept
  /\ shown' = shown \cup {n}
  /\ UNCHANGED <<library, database, asked, issued, reads, confirm, sessions, told, now, faults>>

Deny(n) ==
  /\ LockFree
  /\ Pending(n)
  /\ records' = Finished(n, "DENIED", now) /\ cooldown' = CooldownFinished(n, now)
  /\ told' = Tell(n, "REFUSED")
  /\ UNCHANGED <<library, database, asked, issued, reads, confirm, sessions, shown, now, faults>>

(* deny() or confirm() for a request that is decided: the decision again.   *)
Replay(n) ==
  /\ LockFree
  /\ Kept[n].state \in Terminal
  /\ records' = Kept /\ cooldown' = CooldownKept
  /\ told' = Tell(n, Decision(n))
  /\ UNCHANGED <<library, database, asked, issued, reads, confirm, sessions, shown, now, faults>>

(* The Shell's MAC is right only after its dialog was confirmed.            *)
ConfirmRefused(n, w, macOk) ==
  /\ LockFree
  /\ Pending(n) /\ owner[Kept[n].session] = w
  /\ Kept[n].session \notin alive \/ ~macOk
  /\ records' = Finished(n, "REJECTED", now) /\ cooldown' = CooldownFinished(n, now)
  /\ told' = Tell(n, "REFUSED")
  /\ UNCHANGED <<library, database, asked, issued, reads, confirm, sessions, shown, now, faults>>

ConfirmBegin(n, w) ==
  /\ LockFree
  /\ n \in shown
  /\ Usable(n, w)
  /\ records' = [Kept EXCEPT ![n].state = "COMMITTING"] /\ cooldown' = CooldownKept
  /\ confirm' = [pc |-> "commit", nonce |-> n, at |-> now, outcome |-> "NONE"]
  /\ UNCHANGED <<library, database, asked, issued, reads, sessions, shown, told, now, faults>>

(* commit_gate: one transaction compares the target with the request and    *)
(* writes the log row and the mark together.                                *)
Unchanged_NoFingerprint(n) == Verifiable(asked[n].target)
Unchanged(n) ==
  /\ Verifiable(asked[n].target)
  /\ Target(asked[n].target) = asked[n].print

CommitWrites ==
  /\ confirm.pc = "commit" /\ Unchanged(confirm.nonce)
  /\ log' = log \cup {confirm.nonce}
  /\ verified' = [verified EXCEPT ![asked[confirm.nonce].target] = confirm.nonce]
  /\ confirm' = [confirm EXCEPT !.pc = "finish", !.outcome = "COMMITTED"]
  /\ UNCHANGED <<library, asked, issued, records, cooldown, reads, sessions, shown, told, now, faults>>

(* TARGET_CHANGED, or a database error: nothing is written.                 *)
CommitRefused ==
  /\ confirm.pc = "commit" /\ ~Unchanged(confirm.nonce)
  /\ confirm' = [confirm EXCEPT !.pc = "finish", !.outcome = "REJECTED"]
  /\ UNCHANGED <<library, database, asked, issued, records, cooldown, reads, sessions, shown, told, now, faults>>

CommitFails ==
  /\ confirm.pc = "commit"
  /\ faults < MaxFaults /\ faults' = faults + 1
  /\ confirm' = [confirm EXCEPT !.pc = "finish", !.outcome = "REJECTED"]
  /\ UNCHANGED <<library, database, asked, issued, records, cooldown, reads, sessions, shown, told, now>>

(* The entry in memory, stamped with the time the call began.               *)
ConfirmEnd ==
  /\ confirm.pc = "finish"
  /\ LET n == confirm.nonce IN
     /\ records' = [records EXCEPT ![n].state = confirm.outcome, ![n].finished = confirm.at]
     /\ cooldown' = IF confirm.outcome = "REJECTED"
                      THEN [cooldown EXCEPT ![records[n].session] = confirm.at + Cooldown] ELSE cooldown
     /\ told' = Tell(n, IF confirm.outcome = "COMMITTED" THEN "COMMITTED" ELSE "REFUSED")
  /\ confirm' = NoConfirm
  /\ UNCHANGED <<library, database, asked, issued, reads, sessions, shown, now, faults>>

-----------------------------------------------------------------------------
(* Around the gate *)

(* A token is exchanged: the window's older session ends.                   *)
OpenSession(s, w) ==
  /\ owner[s] = None
  /\ owner' = [owner EXCEPT ![s] = w]
  /\ alive' = { t \in alive : owner[t] # w } \cup {s}
  /\ UNCHANGED <<library, database, asked, issued, memory, shown, told, now, faults>>

(* Logout, a closed window, or eight idle hours.                            *)
CloseSession(s) ==
  /\ s \in alive
  /\ alive' = alive \ {s}
  /\ UNCHANGED <<library, database, asked, issued, memory, owner, shown, told, now, faults>>

(* A file becomes a material, or a new file replaces the material's.        *)
NewRevision(m) ==
  /\ revision[m] < MaxRevision /\ m \notin hidden
  /\ revision' = [revision EXCEPT ![m] = @ + 1]
  /\ evidence' = [evidence EXCEPT ![m] = "NONE"]
  /\ UNCHANGED <<hidden, database, asked, issued, memory, sessions, shown, told, now, faults>>

(* A run stores the newest version's derivatives (also after a deletion).   *)
StoreEvidence(m) ==
  /\ revision[m] > 0 /\ evidence[m] = "NONE"
  /\ \E grade \in {"PARTIAL", "COMPLETE"} : evidence' = [evidence EXCEPT ![m] = grade]
  /\ UNCHANGED <<revision, hidden, database, asked, issued, memory, sessions, shown, told, now, faults>>

DeleteMaterial(m) ==
  /\ Visible(m)
  /\ hidden' = hidden \cup {m}
  /\ UNCHANGED <<revision, evidence, database, asked, issued, memory, sessions, shown, told, now, faults>>

Tick ==
  /\ now < MaxTime
  /\ now' = now + 1
  /\ UNCHANGED <<library, database, asked, issued, memory, sessions, shown, told, faults>>

(* Core ends and starts again: requests, cooldowns and sessions are gone.   *)
Restart ==
  /\ faults < MaxFaults /\ faults' = faults + 1
  /\ records' = [n \in Nonce |-> NoRecord]
  /\ cooldown' = [s \in Session |-> 0]
  /\ reads' = {} /\ confirm' = NoConfirm
  /\ alive' = {}
  /\ UNCHANGED <<library, database, asked, issued, owner, shown, told, now>>

-----------------------------------------------------------------------------
WebUi ==
  \/ \E s \in Session, m \in MaterialId : BeginRead(s, m)
  \/ \E r \in reads : Begin(r) \/ BeginRefused(r)

Shell ==
  \E n \in Nonce :
    \/ Deny(n) \/ Replay(n)
    \/ \E w \in Window :
         \/ View(n, w) \/ ConfirmBegin(n, w)
         \/ \E macOk \in BOOLEAN : (macOk => n \in shown) /\ ConfirmRefused(n, w, macOk)

Committing == CommitWrites \/ CommitRefused \/ CommitFails \/ ConfirmEnd

Around ==
  \/ \E s \in Session : CloseSession(s) \/ \E w \in Window : OpenSession(s, w)
  \/ \E m \in MaterialId : NewRevision(m) \/ StoreEvidence(m) \/ DeleteMaterial(m)
  \/ Tick \/ Restart

Next == WebUi \/ Shell \/ Committing \/ Around

Spec == Init /\ [][Next]_vars

=============================================================================
