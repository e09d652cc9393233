------------------------- MODULE IntakeProperties -------------------------
(* The intake's correctness properties and the instance of the              *)
(* specification of evidence it implements.                                 *)
EXTENDS Intake, TLC

(* Every table row, the step and the worker have the shape of their types.  *)
TypeOK ==
  /\ deleted \in [FileId -> BOOLEAN]
  /\ versions \in [VersionId -> Version]
  /\ derivative \in [VersionId -> {"NONE", "PARTIAL", "COMPLETE"}]
  /\ job \in [VersionId -> {"NONE", "PROCESSING"} \cup Settled]
  /\ candidates \in [CandidateId -> Candidate]
  /\ materials \in [MaterialId -> Material]
  /\ step \in Step
  /\ worker \in Worker
  /\ faults \in 0..MaxFaults

Exists(m) == materials[m].status # "NONE"
SourceDeleted(m) == deleted[materials[m].file]

(* A material that says READY has complete derivatives of the newest        *)
(* version of its source, and one that says PARTIAL has partial ones: no    *)
(* retry of an older version, replacement, deletion or crash lets a status  *)
(* outlive the bytes it was given for (process(), replace(), _material_to). *)
StatusSpeaksOfLatest ==
  \A m \in MaterialId, v \in VersionId :
    (Exists(m) /\ IsLatest(v) /\ versions[v].file = materials[m].file) =>
      /\ materials[m].status = "READY" => derivative[v] = "COMPLETE"
      /\ materials[m].status = "PARTIAL" => derivative[v] = "PARTIAL"

(* A source file becomes at most one material, however often its bytes are  *)
(* dropped, dismissed, dropped again, confirmed or replaced.  No constraint *)
(* of the schema says so: receive() and the live-candidate rule must.       *)
OneMaterialPerSource ==
  \A m, n \in MaterialId :
    (m # n /\ Exists(m) /\ Exists(n)) => materials[m].file # materials[n].file

(* The inserts of receive() and replace() never meet the unique index of    *)
(* live candidates: a version has at most one.                              *)
OneLiveCandidate ==
  \A c, d \in CandidateId :
    (c # d /\ Live(c) /\ Live(d)) => candidates[c].version # candidates[d].version

(* A material that waits (PENDING) or runs (PROCESSING) has a candidate for *)
(* its newest version that a later pass or a restart will pick up, unless   *)
(* the user deleted it: a crash between any two transactions strands none.  *)
NoWorkLost ==
  \A m \in MaterialId :
    (materials[m].status \in {"PENDING", "PROCESSING"} /\ ~SourceDeleted(m)) =>
      \E c \in CandidateId :
        /\ candidates[c].material = m /\ State(c) \in Busy
        /\ IsLatest(candidates[c].version)

(* The tables and the worker's list tell one story.  The candidate of the   *)
(* newest version and its material agree (process() writes both together);  *)
(* a job is left PROCESSING only while its candidate runs or will run, or   *)
(* its source was deleted; and the second list of a pass stays runnable     *)
(* while the pass works it off and users act, so that process() never       *)
(* raises "not ready" and drops the rest of the pass.                       *)
CandidateAgreesWithMaterial ==
  \A c \in CandidateId :
    (State(c) \in Settled /\ IsLatest(candidates[c].version) /\ candidates[c].reason # "SOURCE_DELETED") =>
      LET s == materials[candidates[c].material].status IN
      CASE State(c) = "FAILED" -> s \in {"FAILED", "NEEDS_REVIEW"}
        [] OTHER -> s = State(c)

NoJobLeftRunning ==
  \A v \in VersionId :
    (job[v] = "PROCESSING" /\ ~deleted[versions[v].file]) =>
      \E c \in LiveFor(v) : State(c) \in Busy

PassListIsRunnable ==
  worker.at = "process" => \A c \in worker.todo : State(c) \in Runnable

RowsAgree == CandidateAgreesWithMaterial /\ NoJobLeftRunning /\ PassListIsRunnable

(* A run that was started for the newest version is still about the newest  *)
(* version when it writes its result: no step changes the material's status *)
(* to a run's result for a version that is superseded (the comment "a run   *)
(* of a superseded version must never decide the material's state").        *)
SupersededNeverDecides ==
  [][\A m \in MaterialId :
       (materials'[m].status # materials[m].status /\ materials'[m].status \in RunStatus) =>
         \E c \in CandidateId :
           /\ candidates[c].material = m /\ IsLatest(candidates[c].version)
           /\ State(c) = "PROCESSING" /\ State(c)' \in Settled]_vars

-----------------------------------------------------------------------------
(* The inductive invariant behind StatusSpeaksOfLatest and                  *)
(* OneMaterialPerSource: how the rows of the tables refer to one another    *)
(* (Structure), and what a step that holds the lock still knows of them.    *)

VersionRows ==
  /\ \A v \in VersionId : versions[v].number > 0 => versions[v].file \in FileId
  /\ \A v, w \in VersionId :
       (versions[v].number > 0 /\ versions[v].number = versions[w].number /\ versions[v].file = versions[w].file)
         => v = w
  /\ \A v \in VersionId : versions[v].number > 1 => LiveFor(v) # {}

CandidateRows ==
  \A c \in CandidateId :
    /\ Live(c) => candidates[c].version \in VersionId /\ VersionOf(c).number > 0
    /\ candidates[c].material # 0 =>
         Live(c) /\ Exists(candidates[c].material) /\ materials[candidates[c].material].file = VersionOf(c).file
    /\ State(c) \in Unsettled => candidates[c].material = 0 /\ VersionOf(c).number = 1
    /\ State(c) \in Busy \cup Settled => candidates[c].material # 0

MaterialRows ==
  \A m \in MaterialId :
    Exists(m) => \E c \in CandidateId : candidates[c].material = m /\ VersionOf(c).number = 1

Structure == VersionRows /\ CandidateRows /\ MaterialRows /\ OneLiveCandidate /\ OneMaterialPerSource

StepKnows ==
  /\ step.pc = "classify" => step.candidate \in CandidateId /\ State(step.candidate) = "CLASSIFYING"
  /\ step.pc = "replace" =>
       step.material \in MaterialId /\ Exists(step.material) /\ step.hash \in Content
  /\ step.pc \in {"job", "claim", "normalize", "finish"} =>
       /\ step.candidate \in CandidateId /\ State(step.candidate) \in Busy
       /\ IsLatest(candidates[step.candidate].version)
  /\ step.pc \in {"normalize", "finish"} => State(step.candidate) = "PROCESSING"
  /\ step.pc = "finish" =>
       /\ step.result \in RunStatus
       /\ step.result = "READY" => derivative[candidates[step.candidate].version] = "COMPLETE"
       /\ step.result = "PARTIAL" => derivative[candidates[step.candidate].version] = "PARTIAL"

IndInv == TypeOK /\ Structure /\ StepKnows /\ StatusSpeaksOfLatest

-----------------------------------------------------------------------------
(* The intake implements the specification of evidence.                     *)

LatestOf(m) == CHOOSE v \in VersionsOf(materials[m].file) : IsLatest(v)

Evidence == INSTANCE MaterialEvidence WITH
  status <- [m \in MaterialId |-> materials[m].status],
  revision <- [m \in MaterialId |-> IF Exists(m) THEN versions[LatestOf(m)].number ELSE 0],
  evidence <- [m \in MaterialId |-> IF Exists(m) THEN derivative[LatestOf(m)] ELSE "NONE"]

(* Every step of the intake is a step of MaterialEvidence or changes        *)
(* nothing it speaks of: a new revision loses its READY in the transaction  *)
(* that adds it, evidence is stored once, and a run ends only with a status *)
(* its evidence allows.                                                     *)
ImplementsEvidence == Evidence!Spec

-----------------------------------------------------------------------------
(* The inductive invariant behind NoWorkLost, RowsAgree and                 *)
(* ImplementsEvidence, on top of IndInv.                                    *)

Running == {"job", "claim", "normalize", "finish"}

(* What a step and the worker's pass know of one another, and what holding  *)
(* the step lock keeps true while a step is under way.                      *)
PassKnows ==
  /\ step.pc \in Running =>
       worker.at = "process" /\ step.byWorker /\ step.candidate \notin worker.todo
  /\ step.pc = "replace" =>
       \A c \in CandidateId : candidates[c].material = step.material => State(c) \notin Busy
  /\ step.pc \in {"normalize", "finish"} =>
       materials[candidates[step.candidate].material].status = "PROCESSING"
  /\ step.pc = "finish" =>
       step.result \in Evidence!Allowed(derivative[candidates[step.candidate].version])

(* A job that was started is about the newest version of its source, and    *)
(* its candidate will end it.                                               *)
JobsAreWorked ==
  \A v \in VersionId : job[v] = "PROCESSING" =>
    /\ versions[v].number > 0
    /\ ~deleted[versions[v].file] => IsLatest(v) /\ \E c \in LiveFor(v) : State(c) \in Busy

(* Only a version of a source that has a material has derivatives, and a    *)
(* source that has one has a newest version.                                *)
EvidenceHasMaterial ==
  /\ \A v \in VersionId : derivative[v] # "NONE" =>
       versions[v].number > 0 /\ \E m \in MaterialId : Exists(m) /\ materials[m].file = versions[v].file
  /\ \A m \in MaterialId : Exists(m) =>
       \E v \in VersionId : IsLatest(v) /\ versions[v].file = materials[m].file

WorkInv ==
  /\ PassKnows /\ PassListIsRunnable
  /\ NoWorkLost /\ CandidateAgreesWithMaterial /\ JobsAreWorked
  /\ EvidenceHasMaterial

-----------------------------------------------------------------------------
(* Liveness *)

(* The candidate was left behind by a step that failed; only a restart      *)
(* takes it up again.                                                       *)
LeftBehind(c) ==
  /\ State(c) \in {"PROCESSING", "CLASSIFYING"}
  /\ step.candidate # c /\ step.pc # "recover" /\ worker.at \notin {"down", "recover"}

(* A start takes up every candidate a crash or a failed step left behind,   *)
(* once it is not interrupted itself (recover()).                           *)
RestartRepairs ==
  \A c \in CandidateId :
    (worker.at = "recover" /\ State(c) \in {"PROCESSING", "CLASSIFYING"} /\ faults = MaxFaults)
      ~> State(c) \notin {"PROCESSING", "CLASSIFYING"}

(* A received file is classified and a confirmed or queued candidate is     *)
(* settled eventually, across crashes and whatever happens to the other     *)
(* candidates, unless a database error ended its own run, which the next    *)
(* start repeats (RestartRepairs).                                          *)
NothingWaitsForever ==
  /\ \A c \in CandidateId : State(c) \in Runnable ~> (State(c) \in Settled \/ LeftBehind(c))
  /\ \A c \in CandidateId : State(c) = "RECEIVED" ~> (State(c) \notin {"RECEIVED", "CLASSIFYING"} \/ LeftBehind(c))
  /\ RestartRepairs

-----------------------------------------------------------------------------
(* For the runs: no definition tells two contents apart except by equality. *)
ContentSymmetry == Permutations(Content)

=============================================================================
