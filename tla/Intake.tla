------------------------------- MODULE Intake -------------------------------
(***************************************************************************)
(* The local intake of Syllva Core (intake/v2/pipeline.py, with the two     *)
(* services it drives: ingestion/local.py and normalization/local.py) and   *)
(* the thread that runs it (core/worker.py).                                *)
(*                                                                          *)
(* Tables are functions from row ids to records; a row id that is not in    *)
(* use holds the table's null row.  Every public method of LocalIntake runs *)
(* under one re-entrant lock (the "step lock"), but a method is several     *)
(* transactions: `step' is the method that holds the lock and where it is.  *)
(* Deleting a material (ui/library.py) takes only the writer's lock, so it  *)
(* may happen between any two transactions of a step.  A crash keeps the    *)
(* tables and loses the lock, the step and the worker's pass.               *)
(*                                                                          *)
(* Abstractions: content is known up to its SHA-256; there is one course;   *)
(* which of its outcomes a classification or a normalization has is a       *)
(* nondeterministic choice; attempt counters and time stamps are left out.  *)
(***************************************************************************)
EXTENDS Naturals

CONSTANTS
  Content,       \* what a file may contain, up to equality of hashes
  NoContent,     \* the hash of a version row that is not in use
  MaxFile,       \* bound on source_files rows
  MaxVersion,    \* bound on source_versions rows
  MaxCandidate,  \* bound on intake_candidates rows
  MaxMaterial,   \* material ids of the course (_MAX_SEQUENCE, 99 in the code)
  MaxFaults      \* bound on crashes and on steps ended by an exception

ASSUME IntakeAssumption ==
  /\ MaxFile \in Nat /\ MaxVersion \in Nat /\ MaxCandidate \in Nat
  /\ MaxMaterial \in Nat /\ MaxFaults \in Nat
  /\ NoContent \notin Content

FileId == 1..MaxFile
VersionId == 1..MaxVersion
CandidateId == 1..MaxCandidate
MaterialId == 1..MaxMaterial

VARIABLES
  deleted,     \* source_files.deleted_at is set
  versions,    \* source_versions
  derivative,  \* completeness of the version's normalized + chunks pair
  job,         \* jobs.status of normalize:<version>:<processor>
  candidates,  \* intake_candidates
  materials,   \* materials
  step,        \* the holder of LocalIntake._step_lock
  worker,      \* the IntakeWorker thread
  faults       \* crashes and failed steps so far

tables == <<deleted, versions, derivative, job, candidates, materials>>
vars == <<tables, step, worker, faults>>

-----------------------------------------------------------------------------
(* Types *)

Runnable == {"AUTO_CONFIRMED", "CONFIRMED", "QUEUED"}
Busy == Runnable \cup {"PROCESSING"}
Settled == {"READY", "PARTIAL", "FAILED"}
Unsettled == {"RECEIVED", "CLASSIFYING", "NEEDS_REVIEW"}
NotLive == {"NONE", "UNSUPPORTED", "DUPLICATE", "DISMISSED"}
CandidateState == Unsettled \cup Busy \cup Settled \cup NotLive
Reason == {"NONE", "DUPLICATE_CONTENT", "UNSUPPORTED", "SOURCE_DELETED", "SUPERSEDED", "RUN_FAILED"}
RunStatus == {"READY", "PARTIAL", "NEEDS_REVIEW", "FAILED"}
MaterialStatus == {"NONE", "PENDING", "PROCESSING"} \cup RunStatus
StepPc == {"idle", "recover", "classify", "replace", "job", "claim", "normalize", "finish"}

Version == [file : FileId \cup {0}, number : Nat, hash : Content \cup {NoContent}]
Candidate == [state : CandidateState, version : VersionId \cup {0},
              material : MaterialId \cup {0}, replaces : MaterialId \cup {0}, reason : Reason]
Material == [file : FileId \cup {0}, status : MaterialStatus]
Step == [pc : StepPc, candidate : CandidateId \cup {0}, material : MaterialId \cup {0},
         hash : Content \cup {NoContent}, result : RunStatus \cup {"NONE"}, byWorker : BOOLEAN]
Worker == [at : {"down", "recover", "idle", "classify", "process"}, todo : SUBSET CandidateId]

NoVersion == [file |-> 0, number |-> 0, hash |-> NoContent]
NoCandidate == [state |-> "NONE", version |-> 0, material |-> 0, replaces |-> 0, reason |-> "NONE"]
NoMaterial == [file |-> 0, status |-> "NONE"]
NoStep == [pc |-> "idle", candidate |-> 0, material |-> 0, hash |-> NoContent,
           result |-> "NONE", byWorker |-> FALSE]

(* Definitions named X_... are faulty forms of X, for the mutation runs; no *)
(* other definition uses them.                                              *)

(* The transition tables the schema and StateWriter enforce.               *)
IntakeTransition ==
  { <<"RECEIVED", "CLASSIFYING">>, <<"RECEIVED", "CONFIRMED">>,
    <<"CLASSIFYING", "NEEDS_REVIEW">>, <<"CLASSIFYING", "AUTO_CONFIRMED">>, <<"CLASSIFYING", "RECEIVED">>,
    <<"NEEDS_REVIEW", "CONFIRMED">>, <<"NEEDS_REVIEW", "DISMISSED">>,
    <<"AUTO_CONFIRMED", "PROCESSING">>, <<"AUTO_CONFIRMED", "QUEUED">>,
    <<"CONFIRMED", "PROCESSING">>, <<"CONFIRMED", "QUEUED">>, <<"QUEUED", "PROCESSING">>,
    <<"PROCESSING", "READY">>, <<"PROCESSING", "PARTIAL">>, <<"PROCESSING", "FAILED">>,
    <<"PROCESSING", "QUEUED">>, <<"READY", "QUEUED">>, <<"PARTIAL", "QUEUED">>, <<"FAILED", "QUEUED">>,
    <<"DUPLICATE", "DISMISSED">>, <<"UNSUPPORTED", "DISMISSED">> }

StatusTransition ==
  { <<"PENDING", "PROCESSING">>, <<"PENDING", "FAILED">>,
    <<"PROCESSING", "READY">>, <<"PROCESSING", "PARTIAL">>, <<"PROCESSING", "NEEDS_REVIEW">>,
    <<"PROCESSING", "FAILED">>, <<"READY", "PENDING">>,
    <<"PARTIAL", "PENDING">>, <<"PARTIAL", "PROCESSING">>, <<"PARTIAL", "NEEDS_REVIEW">>,
    <<"PARTIAL", "FAILED">>, <<"NEEDS_REVIEW", "PENDING">>, <<"NEEDS_REVIEW", "FAILED">>,
    <<"FAILED", "PENDING">> }

-----------------------------------------------------------------------------
(* Queries *)

State(c) == candidates[c].state
VersionOf(c) == versions[candidates[c].version]
Live(c) == State(c) \notin NotLive

(* Rows with the content h in a source that is not deleted.                 *)
Stored(h) ==
  { v \in VersionId : versions[v].number > 0 /\ versions[v].hash = h /\ ~deleted[versions[v].file] }
LiveFor_Unsettled(v) == { c \in CandidateId : State(c) \in Unsettled /\ candidates[c].version = v }
LiveFor(v) == { c \in CandidateId : Live(c) /\ candidates[c].version = v }
VersionsOf(f) == { v \in VersionId : versions[v].number > 0 /\ versions[v].file = f }
IsLatest(v) ==
  /\ versions[v].number > 0
  /\ \A w \in VersionsOf(versions[v].file) : versions[w].number <= versions[v].number
Superseded_Never(v) == FALSE
Superseded_OffByOne(v) == \E w \in VersionsOf(versions[v].file) : versions[w].number > versions[v].number + 1
Superseded(v) == \E w \in VersionsOf(versions[v].file) : versions[w].number > versions[v].number

(* The row ids INSERT hands out: the lowest that no row has.                *)
NextFile(f) == VersionsOf(f) = {} /\ \A g \in FileId : g < f => VersionsOf(g) # {}
NextVersion(v) == versions[v].number = 0 /\ \A w \in VersionId : w < v => versions[w].number > 0
NextCandidate(c) == State(c) = "NONE" /\ \A d \in CandidateId : d < c => State(d) # "NONE"
NextMaterial(m) ==
  materials[m].status = "NONE" /\ \A n \in MaterialId : n < m => materials[n].status # "NONE"

MayMove_DismissConfirmed(c, s) ==
  <<State(c), s>> \in IntakeTransition \cup {<<"CONFIRMED", "DISMISSED">>}
MayMove(c, s) == <<State(c), s>> \in IntakeTransition
CandidateTo(c, s) == [candidates EXCEPT ![c].state = s]
CandidateFailed(c, why) == [candidates EXCEPT ![c].state = "FAILED", ![c].reason = why]

(* _material_to: a reprocess goes back through PENDING.                     *)
MaterialMayMove(m, s) ==
  LET old == materials[m].status IN
  \/ old = s
  \/ <<old, s>> \in StatusTransition
  \/ s = "PROCESSING" /\ old \in {"READY", "FAILED", "NEEDS_REVIEW"} /\ <<old, "PENDING">> \in StatusTransition
MaterialTo(m, s) == [materials EXCEPT ![m].status = s]

Up == worker.at # "down"
LockFree == Up /\ step.pc = "idle"

-----------------------------------------------------------------------------
Init ==
  /\ deleted = [f \in FileId |-> FALSE]
  /\ versions = [v \in VersionId |-> NoVersion]
  /\ derivative = [v \in VersionId |-> "NONE"]
  /\ job = [v \in VersionId |-> "NONE"]
  /\ candidates = [c \in CandidateId |-> NoCandidate]
  /\ materials = [m \in MaterialId |-> NoMaterial]
  /\ step = NoStep
  /\ worker = [at |-> "down", todo |-> {}]
  /\ faults = 0

-----------------------------------------------------------------------------
(* Receiving a file: one transaction stores the bytes and opens a candidate *)

ReceiveNew(h) ==
  /\ LockFree
  /\ Stored(h) = {}
  /\ \E c \in CandidateId, v \in VersionId, f \in FileId :
       /\ NextCandidate(c) /\ NextVersion(v) /\ NextFile(f)
       /\ versions' = [versions EXCEPT ![v] = [file |-> f, number |-> 1, hash |-> h]]
       /\ candidates' = [candidates EXCEPT ![c] = [NoCandidate EXCEPT !.state = "RECEIVED", !.version = v]]
  /\ UNCHANGED <<deleted, derivative, job, materials, step, worker, faults>>

(* The same bytes again: a DUPLICATE while their candidate is live, a fresh *)
(* candidate when it was dismissed.                                         *)
ReceiveKnown(h) ==
  /\ LockFree
  /\ \E c \in CandidateId, v \in Stored(h) :
       /\ NextCandidate(c)
       /\ \A w \in Stored(h) : v <= w
       /\ candidates' = [candidates EXCEPT ![c] =
            IF LiveFor(v) # {}
              THEN [NoCandidate EXCEPT !.state = "DUPLICATE", !.version = v, !.reason = "DUPLICATE_CONTENT"]
              ELSE [NoCandidate EXCEPT !.state = "RECEIVED", !.version = v]]
  /\ UNCHANGED <<deleted, versions, derivative, job, materials, step, worker, faults>>

(* Too large, or a type with no normalizer: recorded, nothing stored.       *)
ReceiveUnsupported ==
  /\ LockFree
  /\ \E c \in CandidateId :
       /\ NextCandidate(c)
       /\ candidates' = [candidates EXCEPT ![c] =
            [NoCandidate EXCEPT !.state = "UNSUPPORTED", !.reason = "UNSUPPORTED"]]
  /\ UNCHANGED <<deleted, versions, derivative, job, materials, step, worker, faults>>

-----------------------------------------------------------------------------
(* Classification: CLASSIFYING is committed, then AUTO_CONFIRMED or          *)
(* NEEDS_REVIEW in a transaction of its own.                                *)

ClassifyBegin(c, byWorker) ==
  /\ LockFree
  /\ State(c) = "RECEIVED" /\ candidates[c].replaces = 0
  /\ MayMove(c, "CLASSIFYING")
  /\ candidates' = CandidateTo(c, "CLASSIFYING")
  /\ step' = [NoStep EXCEPT !.pc = "classify", !.candidate = c, !.byWorker = byWorker]
  /\ UNCHANGED <<deleted, versions, derivative, job, materials, faults>>

(* No blockers and a material id is left: the material is created with it.  *)
ClassifyAuto ==
  /\ step.pc = "classify"
  /\ LET c == step.candidate IN
     /\ MayMove(c, "AUTO_CONFIRMED")
     /\ \E m \in MaterialId :
          /\ NextMaterial(m)
          /\ materials' = [materials EXCEPT ![m] = [file |-> VersionOf(c).file, status |-> "PENDING"]]
          /\ candidates' = [candidates EXCEPT ![c].state = "AUTO_CONFIRMED", ![c].material = m]
  /\ step' = NoStep
  /\ UNCHANGED <<deleted, versions, derivative, job, worker, faults>>

(* A blocker, an unreadable file, or an id space that is exhausted.         *)
ClassifyReview ==
  /\ step.pc = "classify"
  /\ MayMove(step.candidate, "NEEDS_REVIEW")
  /\ candidates' = CandidateTo(step.candidate, "NEEDS_REVIEW")
  /\ step' = NoStep
  /\ UNCHANGED <<deleted, versions, derivative, job, materials, worker, faults>>

-----------------------------------------------------------------------------
(* The user's decisions *)

Confirm(c) ==
  /\ LockFree
  /\ State(c) = "NEEDS_REVIEW" /\ MayMove(c, "CONFIRMED")
  /\ \E m \in MaterialId :
       /\ NextMaterial(m)
       /\ materials' = [materials EXCEPT ![m] = [file |-> VersionOf(c).file, status |-> "PENDING"]]
       /\ candidates' = [candidates EXCEPT ![c].state = "CONFIRMED", ![c].material = m]
  /\ UNCHANGED <<deleted, versions, derivative, job, step, worker, faults>>

Dismiss(c) ==
  /\ LockFree
  /\ MayMove(c, "DISMISSED")
  /\ candidates' = CandidateTo(c, "DISMISSED")
  /\ UNCHANGED <<deleted, versions, derivative, job, materials, step, worker, faults>>

Retry(c) ==
  /\ LockFree
  /\ MayMove(c, "QUEUED")
  /\ candidates' = CandidateTo(c, "QUEUED")
  /\ UNCHANGED <<deleted, versions, derivative, job, materials, step, worker, faults>>

(* Replacing a file: the checks run before the transaction ...              *)
ReplaceBegin(m, h) ==
  /\ LockFree
  /\ materials[m].status # "NONE" /\ ~deleted[materials[m].file]
  /\ \A c \in CandidateId : candidates[c].material = m => State(c) \notin Busy
  /\ \E v \in VersionId, c \in CandidateId : NextVersion(v) /\ NextCandidate(c)  \* bounds of the tables
  /\ step' = [NoStep EXCEPT !.pc = "replace", !.material = m, !.hash = h]
  /\ UNCHANGED <<tables, worker, faults>>

(* ... which accepts only bytes no version of a source still there has.     *)
ReplaceAccepted ==
  LET f == materials[step.material].file IN
  /\ ~deleted[f]
  /\ \A v \in VersionsOf(f) : versions[v].hash # step.hash
  /\ materials[step.material].status = "PENDING" \/ <<materials[step.material].status, "PENDING">> \in StatusTransition

ReplaceCommit ==
  /\ step.pc = "replace" /\ ReplaceAccepted
  /\ \E v \in VersionId, u \in VersionsOf(materials[step.material].file), c \in CandidateId :
       /\ NextVersion(v) /\ IsLatest(u) /\ NextCandidate(c)
       /\ versions' = [versions EXCEPT ![v] =
            [file |-> materials[step.material].file, number |-> versions[u].number + 1, hash |-> step.hash]]
       /\ candidates' = [candidates EXCEPT ![c] =
            [NoCandidate EXCEPT !.state = "CONFIRMED", !.version = v,
                                !.material = step.material, !.replaces = step.material]]
  /\ materials' = MaterialTo(step.material, "PENDING")
  /\ step' = NoStep
  /\ UNCHANGED <<deleted, derivative, job, worker, faults>>

(* Not accepted, or larger than a file may be.                              *)
ReplaceRefused ==
  /\ step.pc = "replace"
  /\ step' = NoStep
  /\ UNCHANGED <<tables, worker, faults>>

(* The user deletes a material: no step lock, one writer transaction.       *)
Delete(m) ==
  /\ Up
  /\ materials[m].status # "NONE" /\ ~deleted[materials[m].file]
  /\ deleted' = [deleted EXCEPT ![materials[m].file] = TRUE]
  /\ UNCHANGED <<versions, derivative, job, candidates, materials, step, worker, faults>>

-----------------------------------------------------------------------------
(* Processing one candidate.  The worker takes the lowest id of its list;    *)
(* process() refuses a candidate that is not Runnable, which the list never *)
(* holds (PassListIsRunnable).                                              *)

Turn(c, phase) ==
  /\ LockFree
  /\ worker.at = phase /\ c \in worker.todo /\ \A d \in worker.todo : c <= d
Done(c) == [worker EXCEPT !.todo = @ \ {c}]

ProcessDeleted(c) ==
  /\ Turn(c, "process") /\ State(c) \in Runnable
  /\ deleted[VersionOf(c).file]
  /\ candidates' = CandidateFailed(c, "SOURCE_DELETED")
  /\ worker' = Done(c)
  /\ UNCHANGED <<deleted, versions, derivative, job, materials, step, faults>>

ProcessSuperseded(c) ==
  /\ Turn(c, "process") /\ State(c) \in Runnable
  /\ ~deleted[VersionOf(c).file] /\ Superseded(candidates[c].version)
  /\ candidates' = CandidateFailed(c, "SUPERSEDED")
  /\ worker' = Done(c)
  /\ UNCHANGED <<deleted, versions, derivative, job, materials, step, faults>>

ProcessBegin(c) ==
  /\ Turn(c, "process") /\ State(c) \in Runnable
  /\ ~deleted[VersionOf(c).file] /\ ~Superseded(candidates[c].version)
  /\ step' = [NoStep EXCEPT !.pc = "job", !.candidate = c, !.byWorker = TRUE]
  /\ worker' = Done(c)
  /\ UNCHANGED <<tables, faults>>

JobStart ==
  /\ step.pc = "job"
  /\ job' = [job EXCEPT ![candidates[step.candidate].version] = "PROCESSING"]
  /\ step' = [step EXCEPT !.pc = "claim"]
  /\ UNCHANGED <<deleted, versions, derivative, candidates, materials, worker, faults>>

Claim ==
  /\ step.pc = "claim"
  /\ LET c == step.candidate  m == candidates[step.candidate].material IN
     /\ MayMove(c, "PROCESSING") /\ MaterialMayMove(m, "PROCESSING")
     /\ candidates' = [candidates EXCEPT ![c].state = "PROCESSING", ![c].reason = "NONE"]
     /\ materials' = MaterialTo(m, "PROCESSING")
  /\ step' = [step EXCEPT !.pc = "normalize"]
  /\ UNCHANGED <<deleted, versions, derivative, job, worker, faults>>

(* normalize_source_version: what was stored for the version is the answer; *)
(* otherwise the run stores at most one complete or partial pair.  FAILED   *)
(* also stands for an exception caught by process().                        *)
NormalizeOutcome_Hasty ==
  { <<"READY", "COMPLETE">>, <<"READY", "PARTIAL">>, <<"NEEDS_REVIEW", "NONE">>, <<"FAILED", "NONE">> }
NormalizeOutcome ==
  { <<"READY", "COMPLETE">>, <<"PARTIAL", "PARTIAL">>, <<"NEEDS_REVIEW", "PARTIAL">>,
    <<"NEEDS_REVIEW", "NONE">>, <<"FAILED", "NONE">> }

Normalize ==
  /\ step.pc = "normalize"
  /\ LET v == candidates[step.candidate].version IN
     \/ /\ derivative[v] # "NONE"
        /\ step' = [step EXCEPT !.pc = "finish",
                                !.result = IF derivative[v] = "COMPLETE" THEN "READY" ELSE "PARTIAL"]
        /\ UNCHANGED derivative
     \/ /\ derivative[v] = "NONE"
        /\ \E outcome \in NormalizeOutcome :
             /\ derivative' = [derivative EXCEPT ![v] = outcome[2]]
             /\ step' = [step EXCEPT !.pc = "finish", !.result = outcome[1]]
  /\ UNCHANGED <<deleted, versions, job, candidates, materials, worker, faults>>

FinalState_Lenient(result) == IF result = "NEEDS_REVIEW" THEN "PARTIAL" ELSE result
FinalState(result) == IF result \in {"READY", "PARTIAL"} THEN result ELSE "FAILED"

Finish ==
  /\ step.pc = "finish"
  /\ LET c == step.candidate
         m == candidates[step.candidate].material
         final == FinalState(step.result) IN
     /\ MayMove(c, final) /\ MaterialMayMove(m, step.result)
     /\ materials' = MaterialTo(m, step.result)
     /\ candidates' = IF final = "FAILED" THEN CandidateFailed(c, "RUN_FAILED") ELSE CandidateTo(c, final)
     /\ job' = [job EXCEPT ![candidates[c].version] = final]
  /\ step' = NoStep
  /\ UNCHANGED <<deleted, versions, derivative, worker, faults>>

-----------------------------------------------------------------------------
(* The worker's passes *)

ClassifyList_Empty == {}
ClassifyList == { c \in CandidateId : State(c) = "RECEIVED" /\ candidates[c].replaces = 0 }

ProcessList_ForgetsQueued == { c \in CandidateId : State(c) \in {"AUTO_CONFIRMED", "CONFIRMED"} }
ProcessList == { c \in CandidateId : State(c) \in Runnable }

PassBegin ==
  /\ worker.at = "idle"
  /\ worker' = [at |-> "classify", todo |-> ClassifyList]
  /\ UNCHANGED <<tables, step, faults>>

WorkerClassify(c) ==
  /\ Turn(c, "classify")
  /\ ClassifyBegin(c, TRUE)
  /\ worker' = Done(c)

(* Classified by the upload's own thread meanwhile.                         *)
WorkerClassifySkip(c) ==
  /\ Turn(c, "classify") /\ State(c) # "RECEIVED"
  /\ worker' = Done(c)
  /\ UNCHANGED <<tables, step, faults>>

(* The second list is read when the first is used up and its step is over.  *)
PassProcess ==
  /\ worker.at = "classify" /\ worker.todo = {} /\ ~step.byWorker
  /\ worker' = [at |-> "process", todo |-> ProcessList]
  /\ UNCHANGED <<tables, step, faults>>

PassEnd ==
  /\ worker.at = "process" /\ worker.todo = {} /\ ~step.byWorker
  /\ worker' = [at |-> "idle", todo |-> {}]
  /\ UNCHANGED <<tables, step, faults>>

(* An upload's thread classifies what it received.                          *)
UserClassify(c) == ClassifyBegin(c, FALSE) /\ UNCHANGED worker

-----------------------------------------------------------------------------
(* Start, recovery and failures *)

Start ==
  /\ worker.at = "down"
  /\ worker' = [at |-> "recover", todo |-> {}]
  /\ UNCHANGED <<tables, step, faults>>

RecoverBegin ==
  /\ LockFree /\ worker.at = "recover"
  /\ step' = [NoStep EXCEPT !.pc = "recover", !.byWorker = TRUE]
  /\ UNCHANGED <<tables, worker, faults>>

Orphans == { c \in CandidateId : State(c) \in {"PROCESSING", "CLASSIFYING"} }

RecoveredState(c) == IF State(c) = "PROCESSING" THEN "QUEUED" ELSE "RECEIVED"

Recover(c) ==
  /\ step.pc = "recover" /\ c \in Orphans
  /\ candidates' = CandidateTo(c, RecoveredState(c))
  /\ UNCHANGED <<deleted, versions, derivative, job, materials, step, worker, faults>>

RecoverEnd ==
  /\ step.pc = "recover" /\ Orphans = {}
  /\ step' = NoStep
  /\ worker' = [at |-> "idle", todo |-> {}]
  /\ UNCHANGED <<tables, faults>>

(* A database error or a broken invariant propagates out of classify(),     *)
(* process() or recover(): the step ends where it is and, when it was the    *)
(* worker's, so does the pass.                                              *)
StepFails ==
  /\ step.pc # "idle"
  /\ faults < MaxFaults /\ faults' = faults + 1
  /\ step' = NoStep
  /\ worker' = IF step.byWorker THEN [at |-> "idle", todo |-> {}] ELSE worker
  /\ UNCHANGED tables

Crash ==
  /\ Up
  /\ faults < MaxFaults /\ faults' = faults + 1
  /\ step' = NoStep
  /\ worker' = [at |-> "down", todo |-> {}]
  /\ UNCHANGED tables

-----------------------------------------------------------------------------
UserStep ==
  \/ \E h \in Content : ReceiveNew(h) \/ ReceiveKnown(h)
  \/ ReceiveUnsupported
  \/ \E c \in CandidateId : UserClassify(c) \/ Confirm(c) \/ Dismiss(c) \/ Retry(c)
  \/ \E m \in MaterialId : Delete(m) \/ \E h \in Content : ReplaceBegin(m, h)

(* Acquisitions of the step lock by the worker.                             *)
WorkerAcquires ==
  \/ RecoverBegin
  \/ \E c \in CandidateId :
       \/ WorkerClassify(c) \/ WorkerClassifySkip(c)
       \/ ProcessDeleted(c) \/ ProcessSuperseded(c) \/ ProcessBegin(c)

(* What a thread that holds the lock does until it lets it go.              *)
StepRuns ==
  \/ ClassifyAuto \/ ClassifyReview \/ ReplaceCommit \/ ReplaceRefused
  \/ JobStart \/ Claim \/ Normalize \/ Finish
  \/ (\E c \in CandidateId : Recover(c)) \/ RecoverEnd

PassMoves == PassBegin \/ PassProcess \/ PassEnd

Next ==
  \/ UserStep \/ WorkerAcquires \/ StepRuns \/ PassMoves
  \/ Start \/ StepFails \/ Crash

Spec == Init /\ [][Next]_vars

(* The worker is a thread and a step a running method, so both are weakly   *)
(* fair; the lock goes back and forth between them, so the worker's waiting *)
(* for it needs strong fairness.  Nothing makes the user act; the app is    *)
(* started again after a crash.                                             *)
Fairness ==
  /\ WF_vars(Start) /\ WF_vars(PassMoves) /\ WF_vars(StepRuns)
  /\ SF_vars(WorkerAcquires)

FairSpec == Spec /\ Fairness

=============================================================================
