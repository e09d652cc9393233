---------------------------- MODULE IntakeProofs ----------------------------
(***************************************************************************)
(* For every number of files, versions, candidates, materials and faults:  *)
(* a status speaks of the newest version, a source has one material, no    *)
(* waiting material is without a candidate that will be run, the tables    *)
(* and the worker's list tell one story, a superseded run never decides,   *)
(* and the intake implements the specification of evidence.                *)
(*                                                                          *)
(* The argument: IndInv is inductive.  Its part Structure is preserved by   *)
(* every step that only moves candidates and materials between states       *)
(* (SameStructure); the seven actions that insert rows or end a candidate's *)
(* life are proved one by one.  The second half: WorkInv is inductive       *)
(* relative to IndInv.  Most actions only move one candidate and are        *)
(* covered by one lemma (QuietTables); the eight that insert a row or run a *)
(* candidate are proved one by one.                                         *)
(***************************************************************************)
EXTENDS IntakeProperties, TLAPS

(* The members of the enumerations that actions name.                       *)
LEMMA Names ==
  /\ {"NONE", "UNSUPPORTED", "DUPLICATE", "DISMISSED", "RECEIVED", "CLASSIFYING", "NEEDS_REVIEW", "AUTO_CONFIRMED",
      "CONFIRMED", "QUEUED", "PROCESSING", "READY", "PARTIAL", "FAILED"} \subseteq CandidateState
  /\ {"NONE", "DUPLICATE_CONTENT", "UNSUPPORTED", "SOURCE_DELETED", "SUPERSEDED", "RUN_FAILED"} \subseteq Reason
  /\ {"NONE", "PENDING", "PROCESSING"} \subseteq MaterialStatus /\ RunStatus \subseteq MaterialStatus
  /\ {"idle", "recover", "classify", "replace", "job", "claim", "normalize", "finish"} \subseteq StepPc
  /\ {"READY", "PARTIAL", "NEEDS_REVIEW", "FAILED"} \subseteq RunStatus
  BY DEF CandidateState, Unsettled, Busy, Runnable, Settled, NotLive, Reason, MaterialStatus, RunStatus, StepPc

LEMMA NullRows ==
  /\ NoVersion \in Version /\ NoCandidate \in Candidate /\ NoMaterial \in Material /\ NoStep \in Step
  BY Names DEF NoVersion, NoCandidate, NoMaterial, NoStep, Version, Candidate, Material, Step

(* Every inserted row has its table's type.                                 *)
LEMMA NewVersionRow ==
  ASSUME NEW f \in FileId, NEW n \in Nat, NEW h \in Content
  PROVE  [file |-> f, number |-> n, hash |-> h] \in Version
  BY DEF Version

LEMMA NewCandidateRows ==
  /\ [NoCandidate EXCEPT !.state = "UNSUPPORTED", !.reason = "UNSUPPORTED"] \in Candidate
  /\ \A v \in VersionId :
       /\ [NoCandidate EXCEPT !.state = "RECEIVED", !.version = v] \in Candidate
       /\ [NoCandidate EXCEPT !.state = "DUPLICATE", !.version = v, !.reason = "DUPLICATE_CONTENT"] \in Candidate
       /\ \A m \in MaterialId :
            [NoCandidate EXCEPT !.state = "CONFIRMED", !.version = v, !.material = m, !.replaces = m] \in Candidate
  BY Names DEF NoCandidate, Candidate

(* The worker's record after a candidate of its list is done.               *)
LEMMA DoneType == ASSUME worker \in Worker, NEW c PROVE Done(c) \in Worker
  BY DEF Done, Worker

-----------------------------------------------------------------------------
(* Types.  The rest of the invariant says that a step's candidate and a     *)
(* confirmed candidate's version are rows.                                  *)

LEMMA TypeInit == Init => TypeOK
  BY IntakeAssumption, NullRows DEF Init, TypeOK, Worker

LEMMA TypeStep == IndInv /\ [Next]_vars => TypeOK'
<1> SUFFICES ASSUME IndInv, [Next]_vars PROVE TypeOK'
  OBVIOUS
<1>0. TypeOK /\ CandidateRows /\ StepKnows
  BY DEF IndInv, Structure
<1> USE <1>0, IntakeAssumption, Names, NullRows DEF TypeOK, tables
<1>1. ASSUME NEW h \in Content, ReceiveNew(h) PROVE TypeOK'
  <2>1. PICK c \in CandidateId, v \in VersionId, f \in FileId :
          /\ versions' = [versions EXCEPT ![v] = [file |-> f, number |-> 1, hash |-> h]]
          /\ candidates' = [candidates EXCEPT ![c] = [NoCandidate EXCEPT !.state = "RECEIVED", !.version = v]]
    BY <1>1 DEF ReceiveNew
  <2>2. versions' \in [VersionId -> Version] /\ candidates' \in [CandidateId -> Candidate]
    BY <2>1, NewVersionRow, NewCandidateRows
  <2> QED BY <1>1, <2>2 DEF ReceiveNew
<1>2. ASSUME NEW h \in Content, ReceiveKnown(h) PROVE TypeOK'
  <2>1. PICK c \in CandidateId, v \in Stored(h) :
          candidates' = [candidates EXCEPT ![c] =
            IF LiveFor(v) # {}
              THEN [NoCandidate EXCEPT !.state = "DUPLICATE", !.version = v, !.reason = "DUPLICATE_CONTENT"]
              ELSE [NoCandidate EXCEPT !.state = "RECEIVED", !.version = v]]
    BY <1>2 DEF ReceiveKnown
  <2>2. v \in VersionId BY DEF Stored
  <2> QED BY <1>2, <2>1, <2>2, NewCandidateRows DEF ReceiveKnown
<1>3. CASE ReceiveUnsupported
  BY <1>3, NewCandidateRows DEF ReceiveUnsupported
<1>4. ASSUME NEW c \in CandidateId, NEW b \in BOOLEAN, ClassifyBegin(c, b), worker' \in Worker PROVE TypeOK'
  <2>1. candidates' \in [CandidateId -> Candidate]
    BY <1>4 DEF ClassifyBegin, CandidateTo, Candidate
  <2>2. step' \in Step
    BY ZenonT(40), <1>4 DEF ClassifyBegin, Step, NoStep
  <2> QED BY <1>4, <2>1, <2>2 DEF ClassifyBegin
<1>5. ASSUME NEW c \in CandidateId, State(c) \in Unsettled, NEW m \in MaterialId, NEW s \in CandidateState,
             materials' = [materials EXCEPT ![m] = [file |-> VersionOf(c).file, status |-> "PENDING"]],
             candidates' = [candidates EXCEPT ![c].state = s, ![c].material = m]
      PROVE  materials' \in [MaterialId -> Material] /\ candidates' \in [CandidateId -> Candidate]
  <2>1. candidates[c].version \in VersionId
    BY <1>5 DEF CandidateRows, Live, Unsettled, NotLive
  <2>2. VersionOf(c).file \in FileId \cup {0}
    BY <2>1 DEF VersionOf, Version
  <2>3. [file |-> VersionOf(c).file, status |-> "PENDING"] \in Material
    BY <2>2 DEF Material
  <2>4. [[candidates[c] EXCEPT !.state = s] EXCEPT !.material = m] \in Candidate
    BY DEF Candidate
  <2>5. materials' \in [MaterialId -> Material]
    BY <1>5, <2>3
  <2>6. candidates' \in [CandidateId -> Candidate]
    BY <1>5, <2>4 DEF Candidate
  <2> QED BY <2>5, <2>6
<1>6. CASE ClassifyAuto
  <2>1. step.candidate \in CandidateId /\ State(step.candidate) \in Unsettled
    BY <1>6 DEF ClassifyAuto, StepKnows, Unsettled
  <2>2. PICK m \in MaterialId :
          /\ materials' = [materials EXCEPT ![m] = [file |-> VersionOf(step.candidate).file, status |-> "PENDING"]]
          /\ candidates' = [candidates EXCEPT ![step.candidate].state = "AUTO_CONFIRMED", ![step.candidate].material = m]
    BY <1>6 DEF ClassifyAuto
  <2>3. materials' \in [MaterialId -> Material] /\ candidates' \in [CandidateId -> Candidate]
    BY <1>5, <2>1, <2>2
  <2> QED BY <1>6, <2>3 DEF ClassifyAuto
<1>7. ASSUME NEW c \in CandidateId, Confirm(c) PROVE TypeOK'
  <2>1. State(c) \in Unsettled
    BY <1>7 DEF Confirm, Unsettled
  <2>2. PICK m \in MaterialId :
          /\ materials' = [materials EXCEPT ![m] = [file |-> VersionOf(c).file, status |-> "PENDING"]]
          /\ candidates' = [candidates EXCEPT ![c].state = "CONFIRMED", ![c].material = m]
    BY <1>7 DEF Confirm
  <2>3. materials' \in [MaterialId -> Material] /\ candidates' \in [CandidateId -> Candidate]
    BY <1>5, <2>1, <2>2
  <2> QED BY <1>7, <2>3 DEF Confirm
<1>8. ASSUME NEW c \in CandidateId, Dismiss(c) \/ Retry(c) PROVE TypeOK'
  <2>0. PICK s \in CandidateState : candidates' = [candidates EXCEPT ![c].state = s]
    BY <1>8 DEF Dismiss, Retry, CandidateTo
  <2>1. candidates' \in [CandidateId -> Candidate]
    BY <2>0 DEF Candidate
  <2> QED BY <1>8, <2>1 DEF Dismiss, Retry
<1>9. CASE ClassifyReview
  BY <1>9 DEF ClassifyReview, CandidateTo, Candidate, StepKnows
<1>10. ASSUME NEW m \in MaterialId, NEW h \in Content, ReplaceBegin(m, h) PROVE TypeOK'
  BY <1>10 DEF ReplaceBegin, Step, NoStep
<1>11. CASE ReplaceCommit
  <2>1. step.material \in MaterialId /\ step.hash \in Content
    BY <1>11 DEF ReplaceCommit, StepKnows
  <2>2. PICK v \in VersionId, u \in VersionsOf(materials[step.material].file), c \in CandidateId :
       /\ versions' = [versions EXCEPT ![v] =
            [file |-> materials[step.material].file, number |-> versions[u].number + 1, hash |-> step.hash]]
       /\ candidates' = [candidates EXCEPT ![c] =
            [NoCandidate EXCEPT !.state = "CONFIRMED", !.version = v,
                                !.material = step.material, !.replaces = step.material]]
    BY <1>11 DEF ReplaceCommit
  <2>3. u \in VersionId
    BY DEF VersionsOf
  <2>4. [file |-> materials[step.material].file, number |-> versions[u].number + 1, hash |-> step.hash] \in Version
    BY <2>1, <2>3 DEF Version, Material
  <2>5. candidates' \in [CandidateId -> Candidate]
    BY <2>1, <2>2, NewCandidateRows
  <2>6. materials' \in [MaterialId -> Material]
    BY <1>11, <2>1 DEF ReplaceCommit, MaterialTo, Material
  <2> QED BY <1>11, <2>2, <2>4, <2>5, <2>6 DEF ReplaceCommit
<1>12. CASE ReplaceRefused
  BY <1>12 DEF ReplaceRefused
<1>13. ASSUME NEW m \in MaterialId, Delete(m) PROVE TypeOK'
  BY <1>13 DEF Delete
<1>14. ASSUME NEW c \in CandidateId, ProcessDeleted(c) \/ ProcessSuperseded(c) PROVE TypeOK'
  BY <1>14, DoneType DEF ProcessDeleted, ProcessSuperseded, CandidateFailed, Candidate
<1>15. ASSUME NEW c \in CandidateId, ProcessBegin(c) PROVE TypeOK'
  <2>1. step' \in Step
    BY <1>15 DEF ProcessBegin, Step, NoStep
  <2> QED BY <1>15, <2>1, DoneType DEF ProcessBegin
<1>16. CASE JobStart
  <2>1. step' \in Step
    BY <1>16 DEF JobStart, Step
  <2> QED BY <1>16, <2>1 DEF JobStart
<1>17. CASE Claim
  <2>1. step' \in Step
    BY <1>17 DEF Claim, Step
  <2>2. candidates' \in [CandidateId -> Candidate]
    BY <1>17 DEF Claim, Candidate
  <2>3. materials' \in [MaterialId -> Material]
    BY <1>17 DEF Claim, MaterialTo, Material
  <2> QED BY <1>17, <2>1, <2>2, <2>3 DEF Claim
<1>18. CASE Normalize
  <2>1. PICK r \in RunStatus : step' = [step EXCEPT !.pc = "finish", !.result = r]
    <3>1. CASE derivative[candidates[step.candidate].version] # "NONE"
      BY <1>18, <3>1 DEF Normalize
    <3>2. CASE derivative[candidates[step.candidate].version] = "NONE"
      <4>1. PICK o \in NormalizeOutcome : step' = [step EXCEPT !.pc = "finish", !.result = o[1]]
        BY <1>18, <3>2 DEF Normalize
      <4>2. o[1] \in RunStatus
        BY DEF NormalizeOutcome
      <4> QED BY <4>1, <4>2
    <3> QED BY <3>1, <3>2
  <2>3. step' \in Step
    BY <2>1 DEF Step
  <2>2. derivative' \in [VersionId -> {"NONE", "PARTIAL", "COMPLETE"}]
    BY <1>18 DEF Normalize, NormalizeOutcome
  <2> QED BY <1>18, <2>2, <2>3 DEF Normalize
<1>19. CASE Finish
  <2>1. step.result \in RunStatus /\ FinalState(step.result) \in Settled
    BY <1>19 DEF Finish, StepKnows, FinalState, Settled, RunStatus
  <2>2. Settled \subseteq CandidateState
    BY DEF CandidateState
  <2>3. candidates' \in [CandidateId -> Candidate]
    BY ZenonT(40), <1>19, <2>1, <2>2 DEF Finish, CandidateTo, CandidateFailed, Candidate
  <2>4. materials' \in [MaterialId -> Material]
    BY <1>19, <2>1 DEF Finish, MaterialTo, Material
  <2>5. job' \in [VersionId -> {"NONE", "PROCESSING"} \cup Settled]
    BY <1>19, <2>1 DEF Finish
  <2> QED BY <1>19, <2>3, <2>4, <2>5 DEF Finish
<1>20. CASE PassMoves
  BY <1>20 DEF PassMoves, PassBegin, PassProcess, PassEnd, ClassifyList, ProcessList, Worker
<1>21. ASSUME NEW c \in CandidateId, WorkerClassify(c) PROVE TypeOK'
  BY <1>4, <1>21, DoneType DEF WorkerClassify
<1>22. ASSUME NEW c \in CandidateId, WorkerClassifySkip(c) PROVE TypeOK'
  BY <1>22, DoneType DEF WorkerClassifySkip
<1>23. ASSUME NEW c \in CandidateId, UserClassify(c) PROVE TypeOK'
  BY <1>4, <1>23 DEF UserClassify
<1>24. CASE Start \/ RecoverBegin \/ RecoverEnd
  <2>1. step' \in Step
    BY <1>24 DEF Start, RecoverBegin, RecoverEnd, Step, NoStep
  <2>2. worker' \in Worker
    BY <1>24 DEF Start, RecoverBegin, RecoverEnd, Worker
  <2> QED BY <1>24, <2>1, <2>2 DEF Start, RecoverBegin, RecoverEnd
<1>25. ASSUME NEW c \in CandidateId, Recover(c) PROVE TypeOK'
  BY <1>25 DEF Recover, RecoveredState, CandidateTo, Candidate
<1>26. CASE StepFails \/ Crash
  <2>1. worker' \in Worker /\ step' = NoStep /\ UNCHANGED tables /\ faults' = faults + 1 /\ faults < MaxFaults
    BY <1>26 DEF StepFails, Crash, Worker
  <2> QED BY <2>1
<1>27. CASE UNCHANGED vars
  BY <1>27 DEF vars
<1> QED
  BY <1>1, <1>2, <1>3, <1>6, <1>7, <1>8, <1>9, <1>10, <1>11, <1>12, <1>13, <1>14, <1>15, <1>16, <1>17, <1>18,
     <1>19, <1>20, <1>21, <1>22, <1>23, <1>24, <1>25, <1>26, <1>27
     DEF Next, UserStep, WorkerAcquires, StepRuns

-----------------------------------------------------------------------------
(* Structure *)

(* A step that inserts no row, ends no candidate's life and neither creates *)
(* a material nor gives one to a candidate.                                 *)
LEMMA SameStructure ==
  ASSUME Structure, UNCHANGED versions,
         \A d \in CandidateId :
           /\ candidates'[d].version = candidates[d].version
           /\ candidates'[d].material = candidates[d].material
           /\ Live(d)' <=> Live(d)
           /\ State(d)' \in Unsettled => State(d) \in Unsettled
           /\ State(d)' \in Busy \cup Settled => State(d) \in Busy \cup Settled,
         \A m \in MaterialId :
           (Exists(m)' <=> Exists(m)) /\ materials'[m].file = materials[m].file,
         TypeOK
  PROVE  Structure'
<1>0. \A d \in CandidateId : VersionOf(d)' = VersionOf(d)
  BY DEF VersionOf
<1>1. VersionRows'
  <2>1. \A v \in VersionId : LiveFor(v)' = LiveFor(v)
    BY DEF LiveFor
  <2> QED BY <2>1 DEF Structure, VersionRows
<1>2. CandidateRows'
  <2> SUFFICES ASSUME NEW c \in CandidateId PROVE CandidateRows!(c)'
    BY DEF CandidateRows
  <2>1. candidates[c].material \in MaterialId \cup {0}
    BY DEF TypeOK, Candidate
  <2> QED BY <1>0, <2>1 DEF Structure, CandidateRows
<1>3. MaterialRows'
  BY <1>0 DEF Structure, MaterialRows
<1>4. OneLiveCandidate'
  BY DEF Structure, OneLiveCandidate
<1>5. OneMaterialPerSource'
  BY DEF Structure, OneMaterialPerSource
<1> QED BY <1>1, <1>2, <1>3, <1>4, <1>5 DEF Structure

(* A file is confirmed, by the user or automatically: its first material.   *)
LEMMA StructureConfirm ==
  ASSUME TypeOK, Structure, UNCHANGED versions,
         NEW c \in CandidateId, State(c) \in Unsettled,
         NEW m \in MaterialId, ~Exists(m),
         NEW s \in {"AUTO_CONFIRMED", "CONFIRMED"},
         materials' = [materials EXCEPT ![m] = [file |-> VersionOf(c).file, status |-> "PENDING"]],
         candidates' = [candidates EXCEPT ![c].state = s, ![c].material = m]
  PROVE  Structure'
<1> USE DEF TypeOK
<1>1. /\ candidates'[c].state = s /\ candidates'[c].material = m
      /\ candidates'[c].version = candidates[c].version
      /\ \A d \in CandidateId : d # c => candidates'[d] = candidates[d]
  BY DEF Candidate
<1>2. /\ materials'[m].file = VersionOf(c).file /\ materials'[m].status = "PENDING"
      /\ \A n \in MaterialId : n # m => materials'[n] = materials[n]
  OBVIOUS
<1>3. \A d \in CandidateId : VersionOf(d)' = VersionOf(d) /\ (Live(d)' <=> Live(d))
  BY <1>1 DEF VersionOf, Live, State, NotLive, Unsettled
<1>4. VersionRows'
  <2>1. \A v \in VersionId : LiveFor(v)' = LiveFor(v)
    BY <1>1, <1>3 DEF LiveFor
  <2> QED BY <2>1 DEF Structure, VersionRows
<1>5. candidates[c].material = 0 /\ VersionOf(c).number = 1
  BY DEF Structure, CandidateRows
<1>6. \A d \in CandidateId : candidates[d].material # m
  BY DEF Structure, CandidateRows, MaterialId
<1>7. CandidateRows'
  <2> SUFFICES ASSUME NEW d \in CandidateId PROVE CandidateRows!(d)'
    BY DEF CandidateRows
  <2>1. CASE d = c
    BY <1>1, <1>2, <1>3, <2>1 DEF Structure, CandidateRows, Exists, State, Live, NotLive, Unsettled, Busy, Runnable, MaterialId
  <2>2. CASE d # c
    <3>1. candidates[d].material \in MaterialId \cup {0}
      BY DEF Candidate
    <3> QED BY <1>1, <1>2, <1>3, <1>6, <2>2, <3>1 DEF Structure, CandidateRows, Exists, State
  <2> QED BY <2>1, <2>2
<1>8. MaterialRows'
  BY <1>1, <1>2, <1>3, <1>5 DEF Structure, MaterialRows, Exists, MaterialId
<1>9. OneLiveCandidate'
  BY <1>1, <1>3 DEF Structure, OneLiveCandidate
<1>10. \A n \in MaterialId : Exists(n) => materials[n].file # VersionOf(c).file
  <2> SUFFICES ASSUME NEW n \in MaterialId, Exists(n), materials[n].file = VersionOf(c).file PROVE FALSE
    OBVIOUS
  <2>1. PICK d \in CandidateId : candidates[d].material = n /\ VersionOf(d).number = 1
    BY DEF Structure, MaterialRows
  <2>2. Live(d) /\ VersionOf(d).file = VersionOf(c).file
    BY <2>1 DEF Structure, CandidateRows, MaterialId
  <2>3. Live(c)
    BY DEF Live, Unsettled, NotLive
  <2>4. candidates[d].version = candidates[c].version
    BY <1>5, <2>1, <2>2, <2>3 DEF Structure, CandidateRows, VersionRows, VersionOf
  <2>5. d = c
    BY <2>2, <2>3, <2>4 DEF Structure, OneLiveCandidate
  <2> QED BY <1>5, <2>1, <2>5 DEF MaterialId
<1>11. OneMaterialPerSource'
  BY <1>2, <1>10 DEF Structure, OneMaterialPerSource, Exists
<1> QED BY <1>4, <1>7, <1>8, <1>9, <1>11 DEF Structure

(* A row is added for a file the library has: a candidate that is not live, *)
(* or the first live one of version 1.                                      *)
LEMMA StructureReceive ==
  ASSUME TypeOK, Structure, UNCHANGED <<versions, materials>>,
         NEW c \in CandidateId, State(c) = "NONE",
         candidates'[c].material = 0,
         \A d \in CandidateId : d # c => candidates'[d] = candidates[d],
         \/ candidates'[c].state \in NotLive
         \/ /\ candidates'[c].state = "RECEIVED" /\ candidates'[c].version \in VersionId
            /\ versions[candidates'[c].version].number > 0 /\ LiveFor(candidates'[c].version) = {}
  PROVE  Structure'
<1> USE DEF TypeOK
<1>1. \A d \in CandidateId : d # c => VersionOf(d)' = VersionOf(d) /\ State(d)' = State(d) /\ (Live(d)' <=> Live(d))
  BY DEF VersionOf, Live, State
<1>2. ~Live(c) /\ candidates[c].material = 0
  BY DEF Structure, CandidateRows, Live, NotLive
<1>3. VersionRows'
  <2>1. \A v \in VersionId : LiveFor(v) \subseteq LiveFor(v)'
    BY <1>1, <1>2 DEF LiveFor
  <2> QED BY <2>1 DEF Structure, VersionRows
<1>4. candidates'[c].state = "RECEIVED" => versions[candidates'[c].version].number = 1
  BY DEF Structure, VersionRows, Version, NotLive
<1>5. CandidateRows'
  <2> SUFFICES ASSUME NEW d \in CandidateId PROVE CandidateRows!(d)'
    BY DEF CandidateRows
  <2>1. CASE d = c
    BY <1>4, <2>1 DEF State, Live, NotLive, Unsettled, Busy, Runnable, Settled, VersionOf
  <2>2. CASE d # c
    BY <1>1, <2>2 DEF Structure, CandidateRows, Exists
  <2> QED BY <2>1, <2>2
<1>6. MaterialRows'
  BY <1>1, <1>2 DEF Structure, MaterialRows, Exists, MaterialId
<1>7. OneLiveCandidate'
  BY <1>1 DEF Structure, OneLiveCandidate, LiveFor, Live, State, NotLive
<1>8. OneMaterialPerSource'
  BY DEF Structure, OneMaterialPerSource, Exists
<1> QED BY <1>3, <1>5, <1>6, <1>7, <1>8 DEF Structure

(* A candidate without a material ends.                                     *)
LEMMA StructureDismiss ==
  ASSUME TypeOK, Structure, UNCHANGED <<versions, materials>>,
         NEW c \in CandidateId, State(c) \in {"NEEDS_REVIEW", "DUPLICATE", "UNSUPPORTED"},
         candidates' = CandidateTo(c, "DISMISSED")
  PROVE  Structure'
<1> USE DEF TypeOK
<1>1. /\ State(c)' = "DISMISSED" /\ \A d \in CandidateId : d # c => State(d)' = State(d)
      /\ \A d \in CandidateId : /\ candidates'[d].version = candidates[d].version
                                /\ candidates'[d].material = candidates[d].material
  BY DEF CandidateTo, State, Candidate
<1>2. \A d \in CandidateId : VersionOf(d)' = VersionOf(d)
  BY <1>1 DEF VersionOf
<1>3. candidates[c].material = 0 /\ (Live(c) => VersionOf(c).number = 1)
  BY DEF Structure, CandidateRows, Unsettled, Live, NotLive
<1>4. VersionRows'
  <2>1. \A v \in VersionId : versions[v].number > 1 => LiveFor(v) \subseteq LiveFor(v)'
    BY <1>1, <1>3 DEF LiveFor, Live, VersionOf
  <2> QED BY <2>1 DEF Structure, VersionRows
<1>5. CandidateRows'
  BY <1>1, <1>2, <1>3 DEF Structure, CandidateRows, Exists, Live, NotLive, Unsettled, Busy, Runnable, Settled
<1>6. MaterialRows'
  BY <1>1, <1>2 DEF Structure, MaterialRows, Exists
<1>7. OneLiveCandidate'
  BY <1>1 DEF Structure, OneLiveCandidate, Live, NotLive
<1>8. OneMaterialPerSource'
  BY DEF Structure, OneMaterialPerSource, Exists
<1> QED BY <1>4, <1>5, <1>6, <1>7, <1>8 DEF Structure

(* A new version is stored with its candidate: of a new source, to be       *)
(* classified, or of a material's source, confirmed onto that material.     *)
LEMMA StructureInsert ==
  ASSUME TypeOK, Structure,
         NEW v \in VersionId, versions[v].number = 0,
         \A w \in VersionId : w # v => versions'[w] = versions[w],
         NEW f \in FileId, versions'[v].file = f,
         NEW n \in Nat, n > 0, versions'[v].number = n,
         \A w \in VersionsOf(f) : versions[w].number < n,
         NEW c \in CandidateId, State(c) = "NONE",
         candidates'[c].version = v,
         \A d \in CandidateId : d # c => candidates'[d] = candidates[d],
         \A m \in MaterialId : (Exists(m)' <=> Exists(m)) /\ materials'[m].file = materials[m].file,
         candidates'[c].state \in {"RECEIVED", "CONFIRMED"},
         candidates'[c].state = "RECEIVED" => n = 1 /\ candidates'[c].material = 0,
         candidates'[c].state = "CONFIRMED" =>
           /\ candidates'[c].material \in MaterialId
           /\ Exists(candidates'[c].material) /\ materials[candidates'[c].material].file = f
  PROVE  Structure'
<1> USE DEF TypeOK
<1>1. /\ versions'[v].number = n /\ versions'[v].file = f
      /\ \A w \in VersionId : w # v => versions'[w] = versions[w]
  OBVIOUS
<1>2. \A d \in CandidateId : Live(d) => candidates[d].version # v
  BY DEF Structure, CandidateRows, VersionOf
<1>3. ~Live(c) /\ candidates[c].material = 0 /\ Live(c)'
  BY DEF Structure, CandidateRows, Live, State, NotLive
<1>4. \A d \in CandidateId : d # c => State(d)' = State(d) /\ (Live(d)' <=> Live(d))
  BY DEF Live, State
<1>5. \A d \in CandidateId : d # c /\ Live(d) => VersionOf(d)' = VersionOf(d) /\ candidates[d].version \in VersionId
  BY <1>1, <1>2 DEF VersionOf, Structure, CandidateRows
<1>6. VersionOf(c)'.number = n /\ VersionOf(c)'.file = f
  BY <1>1 DEF VersionOf
<1>7. VersionRows'
  <2>1. \A w \in VersionId : LiveFor(w) \subseteq LiveFor(w)'
    BY <1>3, <1>4 DEF LiveFor
  <2>2. c \in LiveFor(v)'
    BY <1>3 DEF LiveFor
  <2>3. ASSUME NEW w \in VersionId, versions'[w].number > 1 PROVE LiveFor(w)' # {}
    BY <1>1, <2>1, <2>2, <2>3 DEF Structure, VersionRows
  <2>4. ASSUME NEW w \in VersionId, versions'[w].number > 0 PROVE versions'[w].file \in FileId
    BY <1>1, <2>4 DEF Structure, VersionRows
  <2>5. ASSUME NEW w \in VersionId, NEW x \in VersionId, versions'[w].number > 0,
               versions'[w].number = versions'[x].number, versions'[w].file = versions'[x].file
        PROVE  w = x
    BY <1>1, <2>5 DEF Structure, VersionRows, VersionsOf
  <2> QED BY <2>3, <2>4, <2>5 DEF VersionRows
<1>8. CandidateRows'
  <2> SUFFICES ASSUME NEW d \in CandidateId PROVE CandidateRows!(d)'
    BY DEF CandidateRows
  <2>1. CASE d = c
    BY <1>3, <1>6, <2>1 DEF State, Live, NotLive, Unsettled, Busy, Runnable, Settled, MaterialId
  <2>2. CASE d # c
    <3>1. candidates[d].material \in MaterialId \cup {0}
      BY DEF Candidate
    <3>2. CASE Live(d)
      BY <1>4, <1>5, <2>2, <3>1, <3>2 DEF Structure, CandidateRows
    <3>3. CASE ~Live(d)
      BY <1>4, <2>2, <3>3 DEF Structure, CandidateRows, Live, NotLive, Unsettled, Busy, Runnable, Settled
    <3> QED BY <3>2, <3>3
  <2> QED BY <2>1, <2>2
<1>9. MaterialRows'
  <2> SUFFICES ASSUME NEW m \in MaterialId, Exists(m)
               PROVE  \E d \in CandidateId : candidates'[d].material = m /\ VersionOf(d)'.number = 1
    BY DEF MaterialRows
  <2>1. PICK d \in CandidateId : candidates[d].material = m /\ VersionOf(d).number = 1
    BY DEF Structure, MaterialRows
  <2>2. d # c /\ Live(d)
    BY <1>3, <2>1 DEF Structure, CandidateRows, MaterialId
  <2> QED BY <1>5, <2>1, <2>2
<1>10. OneLiveCandidate'
  BY <1>2, <1>4 DEF Structure, OneLiveCandidate
<1>11. OneMaterialPerSource'
  BY DEF Structure, OneMaterialPerSource
<1> QED BY <1>7, <1>8, <1>9, <1>10, <1>11 DEF Structure

(* Moving a candidate between two states of one of its two living classes.  *)
LEMMA StructureMove ==
  ASSUME TypeOK, Structure, UNCHANGED versions,
         NEW c \in CandidateId, NEW s,
         \/ State(c) \in Unsettled /\ s \in Unsettled
         \/ State(c) \in Busy \cup Settled /\ s \in Busy \cup Settled,
         \/ candidates' = CandidateTo(c, s)
         \/ \E why \in Reason : candidates' = [candidates EXCEPT ![c].state = s, ![c].reason = why],
         \A m \in MaterialId : (Exists(m)' <=> Exists(m)) /\ materials'[m].file = materials[m].file
  PROVE  Structure'
<1>1. \A d \in CandidateId :
        /\ candidates'[d].version = candidates[d].version /\ candidates'[d].material = candidates[d].material
        /\ State(d)' = IF d = c THEN s ELSE State(d)
  BY DEF TypeOK, CandidateTo, Candidate, State
<1>2. \A d \in CandidateId :
        /\ Live(d)' <=> Live(d)
        /\ State(d)' \in Unsettled => State(d) \in Unsettled
        /\ State(d)' \in Busy \cup Settled => State(d) \in Busy \cup Settled
  BY <1>1 DEF Live, NotLive, Unsettled, Busy, Runnable, Settled
<1> QED BY <1>1, <1>2, SameStructure

LEMMA StructureStep == IndInv /\ [Next]_vars => Structure'
<1> SUFFICES ASSUME IndInv, [Next]_vars PROVE Structure'
  OBVIOUS
<1>0. TypeOK /\ Structure /\ StepKnows
  BY DEF IndInv
<1> USE <1>0
<1>1. ASSUME UNCHANGED <<versions, candidates, materials>> PROVE Structure'
  <2>1. \A d \in CandidateId : (Live(d)' <=> Live(d)) /\ State(d)' = State(d)
    BY <1>1 DEF Live, State
  <2>2. \A m \in MaterialId : (Exists(m)' <=> Exists(m)) /\ materials'[m].file = materials[m].file
    BY <1>1 DEF Exists
  <2> QED BY <1>1, <2>1, <2>2, SameStructure
<1>2. \A m \in MaterialId : UNCHANGED materials => (Exists(m)' <=> Exists(m)) /\ materials'[m].file = materials[m].file
  BY DEF Exists
<1>3. \A m \in MaterialId : m # 0
  BY DEF MaterialId
<1>4. ASSUME NEW h \in Content, ReceiveNew(h) PROVE Structure'
  <2>1. PICK c \in CandidateId, v \in VersionId, f \in FileId :
          /\ NextCandidate(c) /\ NextVersion(v) /\ NextFile(f)
          /\ versions' = [versions EXCEPT ![v] = [file |-> f, number |-> 1, hash |-> h]]
          /\ candidates' = [candidates EXCEPT ![c] = [NoCandidate EXCEPT !.state = "RECEIVED", !.version = v]]
    BY <1>4 DEF ReceiveNew
  <2>2. State(c) = "NONE" /\ versions[v].number = 0
    BY <2>1 DEF NextCandidate, NextVersion
  <2>3. /\ candidates'[c].version = v /\ candidates'[c].state = "RECEIVED" /\ candidates'[c].material = 0
        /\ \A d \in CandidateId : d # c => candidates'[d] = candidates[d]
    BY <2>1 DEF TypeOK, NoCandidate
  <2>4. UNCHANGED materials
    BY <1>4 DEF ReceiveNew
  <2>5. /\ versions'[v].file = f /\ versions'[v].number = 1
        /\ \A w \in VersionId : w # v => versions'[w] = versions[w]
    BY <2>1 DEF TypeOK
  <2>6. \A w \in VersionsOf(f) : versions[w].number < 1
    BY <2>1 DEF NextFile
  <2>7. \A m \in MaterialId : (Exists(m)' <=> Exists(m)) /\ materials'[m].file = materials[m].file
    BY <1>2, <2>4
  <2> QED BY <2>2, <2>3, <2>5, <2>6, <2>7, StructureInsert
<1>5. ASSUME NEW h \in Content, ReceiveKnown(h) PROVE Structure'
  <2>1. PICK c \in CandidateId, v \in Stored(h) :
          /\ NextCandidate(c)
          /\ candidates' = [candidates EXCEPT ![c] =
               IF LiveFor(v) # {}
                 THEN [NoCandidate EXCEPT !.state = "DUPLICATE", !.version = v, !.reason = "DUPLICATE_CONTENT"]
                 ELSE [NoCandidate EXCEPT !.state = "RECEIVED", !.version = v]]
    BY <1>5 DEF ReceiveKnown
  <2>2. State(c) = "NONE" /\ v \in VersionId /\ versions[v].number > 0
    BY <2>1 DEF NextCandidate, Stored
  <2>3. /\ candidates'[c].material = 0 /\ candidates'[c].version = v
        /\ candidates'[c].state = IF LiveFor(v) # {} THEN "DUPLICATE" ELSE "RECEIVED"
        /\ \A d \in CandidateId : d # c => candidates'[d] = candidates[d]
    BY <2>1 DEF TypeOK, NoCandidate
  <2>4. UNCHANGED <<versions, materials>>
    BY <1>5 DEF ReceiveKnown
  <2> QED BY <2>2, <2>3, <2>4, StructureReceive DEF NotLive
<1>6. CASE ReceiveUnsupported
  <2>1. PICK c \in CandidateId :
          /\ NextCandidate(c)
          /\ candidates' = [candidates EXCEPT ![c] = [NoCandidate EXCEPT !.state = "UNSUPPORTED", !.reason = "UNSUPPORTED"]]
    BY <1>6 DEF ReceiveUnsupported
  <2>2. /\ State(c) = "NONE" /\ candidates'[c].material = 0 /\ candidates'[c].state = "UNSUPPORTED"
        /\ \A d \in CandidateId : d # c => candidates'[d] = candidates[d]
    BY <2>1 DEF TypeOK, NoCandidate, NextCandidate
  <2>3. UNCHANGED <<versions, materials>>
    BY <1>6 DEF ReceiveUnsupported
  <2> QED BY <2>2, <2>3, StructureReceive DEF NotLive
<1>7. ASSUME NEW c \in CandidateId, NEW b \in BOOLEAN, ClassifyBegin(c, b) PROVE Structure'
  BY <1>2, <1>7, StructureMove DEF ClassifyBegin, Unsettled
<1>8. CASE ClassifyAuto
  <2>1. step.candidate \in CandidateId /\ State(step.candidate) \in Unsettled
    BY <1>8 DEF ClassifyAuto, StepKnows, Unsettled
  <2>2. PICK m \in MaterialId :
          /\ NextMaterial(m)
          /\ materials' = [materials EXCEPT ![m] = [file |-> VersionOf(step.candidate).file, status |-> "PENDING"]]
          /\ candidates' = [candidates EXCEPT ![step.candidate].state = "AUTO_CONFIRMED", ![step.candidate].material = m]
    BY <1>8 DEF ClassifyAuto
  <2> QED BY <1>8, <2>1, <2>2, StructureConfirm DEF ClassifyAuto, NextMaterial, Exists
<1>9. ASSUME NEW c \in CandidateId, Confirm(c) PROVE Structure'
  <2>1. PICK m \in MaterialId :
          /\ NextMaterial(m)
          /\ materials' = [materials EXCEPT ![m] = [file |-> VersionOf(c).file, status |-> "PENDING"]]
          /\ candidates' = [candidates EXCEPT ![c].state = "CONFIRMED", ![c].material = m]
    BY <1>9 DEF Confirm
  <2>2. State(c) \in Unsettled /\ UNCHANGED versions
    BY <1>9 DEF Confirm, Unsettled
  <2> QED BY <2>1, <2>2, StructureConfirm DEF NextMaterial, Exists
<1>10. CASE ClassifyReview
  <2>1. step.candidate \in CandidateId /\ State(step.candidate) \in Unsettled
    BY <1>10 DEF ClassifyReview, StepKnows, Unsettled
  <2> QED BY <1>2, <1>10, <2>1, StructureMove DEF ClassifyReview, Unsettled
<1>11. ASSUME NEW c \in CandidateId, Dismiss(c) PROVE Structure'
  BY <1>11, StructureDismiss DEF Dismiss, MayMove, IntakeTransition
<1>12. ASSUME NEW c \in CandidateId, Retry(c) PROVE Structure'
  <2>1. State(c) \in Busy \cup Settled
    BY <1>12 DEF Retry, MayMove, IntakeTransition, Busy, Runnable, Settled
  <2> QED BY <1>2, <1>12, <2>1, StructureMove DEF Retry, Busy, Runnable
<1>13. CASE ReplaceCommit
  <2>1. /\ step.material \in MaterialId /\ Exists(step.material) /\ step.hash \in Content
        /\ UNCHANGED <<deleted, derivative, job, worker, faults>>
    BY <1>13 DEF ReplaceCommit, StepKnows
  <2> DEFINE f == materials[step.material].file
  <2>2. PICK v \in VersionId, u \in VersionsOf(f), c \in CandidateId :
       /\ NextVersion(v) /\ IsLatest(u) /\ NextCandidate(c)
       /\ versions' = [versions EXCEPT ![v] = [file |-> f, number |-> versions[u].number + 1, hash |-> step.hash]]
       /\ candidates' = [candidates EXCEPT ![c] =
            [NoCandidate EXCEPT !.state = "CONFIRMED", !.version = v,
                                !.material = step.material, !.replaces = step.material]]
    BY <1>13 DEF ReplaceCommit
  <2>3. State(c) = "NONE" /\ versions[v].number = 0
    BY <2>2 DEF NextCandidate, NextVersion
  <2>4. /\ candidates'[c].version = v /\ candidates'[c].state = "CONFIRMED" /\ candidates'[c].material = step.material
        /\ \A d \in CandidateId : d # c => candidates'[d] = candidates[d]
    BY <2>2 DEF TypeOK, NoCandidate
  <2>5. u \in VersionId /\ versions[u].number \in Nat /\ versions[u].number > 0 /\ f = versions[u].file
    BY DEF VersionsOf, TypeOK, Version
  <2>6. f \in FileId
    BY <2>5 DEF Structure, VersionRows
  <2>7. \A w \in VersionsOf(f) : versions[w].number < versions[u].number + 1
    BY <2>2, <2>5 DEF IsLatest, VersionsOf, TypeOK, Version
  <2>8. \A m \in MaterialId : (Exists(m)' <=> Exists(m)) /\ materials'[m].file = materials[m].file
    BY <1>13, <2>1 DEF ReplaceCommit, MaterialTo, Exists, TypeOK, Material
  <2> DEFINE n == versions[u].number + 1
  <2>9. n \in Nat /\ n > 0
    BY <2>5
  <2>10. /\ versions'[v].file = f /\ versions'[v].number = n
         /\ \A w \in VersionId : w # v => versions'[w] = versions[w]
    BY <2>2 DEF TypeOK
  <2>11. \A w \in VersionsOf(f) : versions[w].number < n
    BY <2>7
  <2>12. /\ candidates'[c].material \in MaterialId /\ Exists(candidates'[c].material)
         /\ materials[candidates'[c].material].file = f
    BY <2>1, <2>4
  <2> HIDE DEF f, n
  <2> QED BY <2>1, <2>3, <2>4, <2>6, <2>8, <2>9, <2>10, <2>11, <2>12, StructureInsert
<1>14. ASSUME NEW c \in CandidateId, ProcessDeleted(c) \/ ProcessSuperseded(c) PROVE Structure'
  <2>1. State(c) \in Busy /\ UNCHANGED <<versions, materials>>
    BY <1>14 DEF ProcessDeleted, ProcessSuperseded, Busy
  <2>2. \E why \in Reason : candidates' = [candidates EXCEPT ![c].state = "FAILED", ![c].reason = why]
    BY <1>14, Names DEF ProcessDeleted, ProcessSuperseded, CandidateFailed
  <2> QED BY <1>2, <2>1, <2>2, StructureMove DEF Settled
<1>15. CASE Claim
  <2>1. step.candidate \in CandidateId /\ State(step.candidate) \in Busy
    BY <1>15 DEF Claim, StepKnows
  <2>2. candidates[step.candidate].material \in MaterialId /\ Exists(candidates[step.candidate].material)
    BY <2>1 DEF Structure, CandidateRows, TypeOK, Candidate
  <2>3. \A m \in MaterialId : (Exists(m)' <=> Exists(m)) /\ materials'[m].file = materials[m].file
    BY <1>15, <2>2 DEF Claim, MaterialTo, Exists, TypeOK, Material
  <2>4. \E why \in Reason : candidates' = [candidates EXCEPT ![step.candidate].state = "PROCESSING", ![step.candidate].reason = why]
    BY <1>15, Names DEF Claim
  <2> QED BY <1>15, <2>1, <2>3, <2>4, StructureMove DEF Claim, Busy
<1>16. CASE Finish
  <2>1. step.candidate \in CandidateId /\ State(step.candidate) \in Busy /\ step.result \in RunStatus
    BY <1>16 DEF Finish, StepKnows
  <2>2. candidates[step.candidate].material \in MaterialId /\ Exists(candidates[step.candidate].material)
    BY <2>1 DEF Structure, CandidateRows, TypeOK, Candidate
  <2>3. \A m \in MaterialId : (Exists(m)' <=> Exists(m)) /\ materials'[m].file = materials[m].file
    BY <1>16, <2>1, <2>2 DEF Finish, MaterialTo, Exists, TypeOK, Material, RunStatus
  <2>4. FinalState(step.result) \in Settled
    BY <2>1 DEF FinalState, Settled, RunStatus
  <2>5. \/ candidates' = CandidateTo(step.candidate, FinalState(step.result))
        \/ \E why \in Reason : candidates' =
             [candidates EXCEPT ![step.candidate].state = FinalState(step.result), ![step.candidate].reason = why]
    BY <1>16, Names DEF Finish, CandidateFailed
  <2> QED BY <1>16, <2>1, <2>3, <2>4, <2>5, StructureMove DEF Finish
<1>17. ASSUME NEW c \in CandidateId, Recover(c) PROVE Structure'
  <2>1. CASE State(c) = "PROCESSING"
    BY <1>2, <1>17, <2>1, StructureMove DEF Recover, RecoveredState, Busy, Runnable
  <2>2. CASE State(c) # "PROCESSING"
    BY <1>2, <1>17, <2>2, StructureMove DEF Recover, RecoveredState, Orphans, Unsettled
  <2> QED BY <2>1, <2>2
<1>18. ASSUME NEW m \in MaterialId, NEW h \in Content, ReplaceBegin(m, h) PROVE Structure'
  BY <1>1, <1>18 DEF ReplaceBegin, tables
<1>19. ASSUME NEW m \in MaterialId, Delete(m) PROVE Structure'
  BY <1>1, <1>19 DEF Delete
<1>20. ASSUME NEW c \in CandidateId, ProcessBegin(c) \/ WorkerClassifySkip(c) PROVE Structure'
  BY <1>1, <1>20 DEF ProcessBegin, WorkerClassifySkip, tables
<1>21. CASE ReplaceRefused \/ JobStart \/ Normalize \/ RecoverBegin \/ RecoverEnd \/ Start \/ StepFails \/ Crash
  BY <1>1, <1>21 DEF ReplaceRefused, JobStart, Normalize, RecoverBegin, RecoverEnd, Start, StepFails, Crash, tables
<1>22. CASE PassMoves \/ UNCHANGED vars
  BY <1>1, <1>22 DEF PassMoves, PassBegin, PassProcess, PassEnd, vars, tables
<1> QED
  BY <1>4, <1>5, <1>6, <1>7, <1>8, <1>9, <1>10, <1>11, <1>12, <1>13, <1>14, <1>15, <1>16, <1>17, <1>18, <1>19,
     <1>20, <1>21, <1>22
     DEF Next, UserStep, WorkerAcquires, StepRuns, UserClassify, WorkerClassify
-----------------------------------------------------------------------------
(* What a step knows *)

(* A thread that holds no lock, or that recovers, relies on nothing.        *)
LEMMA KnowsNothing == ASSUME step'.pc \in {"idle", "recover"} PROVE StepKnows'
  BY DEF StepKnows

LEMMA KnowsStep == IndInv /\ [Next]_vars => StepKnows'
<1> SUFFICES ASSUME IndInv, [Next]_vars PROVE StepKnows'
  OBVIOUS
<1>0. TypeOK /\ Structure /\ StepKnows
  BY DEF IndInv
<1> USE <1>0
<1>1. ASSUME UNCHANGED <<versions, derivative, candidates, materials, step>> PROVE StepKnows'
  BY <1>1 DEF StepKnows, State, Exists, IsLatest, VersionsOf
<1>2. ASSUME LockFree, UNCHANGED step PROVE StepKnows'
  BY <1>2, KnowsNothing DEF LockFree
<1>3. ASSUME step' = NoStep PROVE StepKnows'
  BY <1>3, KnowsNothing DEF NoStep
<1>4. CASE UserStep
  <2>1. ASSUME NEW c \in CandidateId, UserClassify(c) PROVE StepKnows'
    <3>1. ClassifyBegin(c, FALSE)
      BY <2>1 DEF UserClassify
    <3>2. step'.pc = "classify" /\ step'.candidate = c
      BY <3>1 DEF ClassifyBegin, NoStep
    <3>3. State(c)' = "CLASSIFYING"
      BY <3>1 DEF ClassifyBegin, CandidateTo, State, TypeOK, Candidate
    <3> QED BY <3>2, <3>3 DEF StepKnows, State
  <2>2. ASSUME NEW m \in MaterialId, NEW h \in Content, ReplaceBegin(m, h) PROVE StepKnows'
    <3>1. step'.pc = "replace" /\ step'.material = m /\ step'.hash = h
      BY <2>2 DEF ReplaceBegin, NoStep
    <3>2. Exists(m)'
      BY <2>2 DEF ReplaceBegin, Exists, tables
    <3> QED BY <3>1, <3>2 DEF StepKnows, Exists
  <2>3. ASSUME NEW m \in MaterialId, Delete(m) PROVE StepKnows'
    BY <1>1, <2>3 DEF Delete
  <2> QED BY <1>2, <1>4, <2>1, <2>2, <2>3
          DEF UserStep, ReceiveNew, ReceiveKnown, ReceiveUnsupported, Confirm, Dismiss, Retry
<1>5. CASE WorkerAcquires
  <2>1. ASSUME NEW c \in CandidateId, WorkerClassify(c) PROVE StepKnows'
    <3>1. ClassifyBegin(c, TRUE)
      BY <2>1 DEF WorkerClassify
    <3>2. step'.pc = "classify" /\ step'.candidate = c
      BY <3>1 DEF ClassifyBegin, NoStep
    <3>3. State(c)' = "CLASSIFYING"
      BY <3>1 DEF ClassifyBegin, CandidateTo, State, TypeOK, Candidate
    <3> QED BY <3>2, <3>3 DEF StepKnows, State
  <2>2. ASSUME NEW c \in CandidateId, ProcessBegin(c) PROVE StepKnows'
    <3>1. step'.pc = "job" /\ step'.candidate = c
      BY <2>2 DEF ProcessBegin, NoStep
    <3>2. State(c) \in Busy /\ UNCHANGED <<candidates, versions>> /\ ~Superseded(candidates[c].version)
      BY <2>2 DEF ProcessBegin, Busy, tables
    <3>3. candidates[c].version \in VersionId /\ versions[candidates[c].version].number > 0
      BY <3>2 DEF Structure, CandidateRows, Live, NotLive, Busy, Runnable, VersionOf
    <3>4. IsLatest(candidates[c].version)
      BY <3>2, <3>3 DEF IsLatest, Superseded, VersionsOf, TypeOK, Version
    <3>5. IsLatest(candidates[c].version)' /\ State(c)' \in Busy
      BY <3>2, <3>4 DEF State, IsLatest, VersionsOf
    <3> QED BY <3>1, <3>5 DEF StepKnows, State
  <2>3. CASE RecoverBegin
    BY <2>3, KnowsNothing DEF RecoverBegin, NoStep
  <2>4. ASSUME NEW c \in CandidateId, WorkerClassifySkip(c) \/ ProcessDeleted(c) \/ ProcessSuperseded(c) PROVE StepKnows'
    BY <1>2, <2>4 DEF WorkerClassifySkip, ProcessDeleted, ProcessSuperseded, Turn
  <2> QED BY <1>5, <2>1, <2>2, <2>3, <2>4 DEF WorkerAcquires
<1>6. CASE JobStart \/ Claim
  <2>1. PICK c \in CandidateId : c = step.candidate /\ State(c) \in Busy /\ IsLatest(candidates[c].version)
    BY <1>6 DEF JobStart, Claim, StepKnows
  <2>2. step'.pc \in {"claim", "normalize"} /\ step'.candidate = c
    BY <1>6, <2>1 DEF JobStart, Claim, TypeOK, Step
  <2>3. UNCHANGED versions /\ candidates'[c].version = candidates[c].version
    BY <1>6, <2>1 DEF JobStart, Claim, TypeOK, Candidate
  <2>4. IsLatest(candidates[c].version)'
    BY <2>1, <2>3 DEF IsLatest, VersionsOf
  <2>5. State(c)' \in Busy /\ (step'.pc = "normalize" => State(c)' = "PROCESSING")
    BY <1>6, <2>1 DEF JobStart, Claim, State, TypeOK, Candidate, Step, Busy
  <2> QED BY <2>2, <2>4, <2>5 DEF StepKnows, State
<1>7. CASE Normalize
  <2>1. PICK c \in CandidateId :
          /\ c = step.candidate /\ State(c) \in Busy /\ IsLatest(candidates[c].version) /\ State(c) = "PROCESSING"
          /\ UNCHANGED <<versions, candidates>>
    BY <1>7 DEF Normalize, StepKnows
  <2>2. PICK v \in VersionId : v = candidates[c].version
    BY <2>1 DEF Structure, CandidateRows, Live, NotLive, Busy, Runnable
  <2>3. step'.pc = "finish" /\ step'.candidate = c
    BY <1>7, <2>1 DEF Normalize, TypeOK, Step
  <2>4. /\ step'.result \in RunStatus
        /\ step'.result = "READY" => derivative'[v] = "COMPLETE"
        /\ step'.result = "PARTIAL" => derivative'[v] = "PARTIAL"
    <3>1. CASE derivative[v] # "NONE"
      <4>1. /\ step' = [step EXCEPT !.pc = "finish", !.result = IF derivative[v] = "COMPLETE" THEN "READY" ELSE "PARTIAL"]
            /\ derivative' = derivative
        BY <1>7, <2>1, <2>2, <3>1 DEF Normalize
      <4>2. step'.result = IF derivative[v] = "COMPLETE" THEN "READY" ELSE "PARTIAL"
        BY <4>1 DEF TypeOK, Step
      <4>3. derivative[v] \in {"COMPLETE", "PARTIAL"}
        BY <2>2, <3>1 DEF TypeOK
      <4> QED BY <4>1, <4>2, <4>3, Names
    <3>2. CASE derivative[v] = "NONE"
      <4>1. PICK o \in NormalizeOutcome :
              derivative' = [derivative EXCEPT ![v] = o[2]] /\ step' = [step EXCEPT !.pc = "finish", !.result = o[1]]
        BY <1>7, <2>1, <2>2, <3>2 DEF Normalize
      <4>2. step'.result = o[1] /\ derivative'[v] = o[2]
        BY <2>2, <4>1 DEF TypeOK, Step
      <4> QED BY <4>2 DEF NormalizeOutcome, RunStatus
    <3> QED BY <3>1, <3>2
  <2>5. IsLatest(candidates[c].version)' /\ State(c)' = "PROCESSING" /\ State(c)' \in Busy
    BY <2>1 DEF State, IsLatest, VersionsOf
  <2>6. candidates'[c].version = v
    BY <2>1, <2>2
  <2> QED BY <2>3, <2>4, <2>5, <2>6 DEF StepKnows, State
<1>8. CASE ClassifyAuto \/ ClassifyReview \/ ReplaceCommit \/ ReplaceRefused \/ Finish \/ RecoverEnd \/ StepFails \/ Crash
  BY <1>3, <1>8 DEF ClassifyAuto, ClassifyReview, ReplaceCommit, ReplaceRefused, Finish, RecoverEnd, StepFails, Crash
<1>9. ASSUME NEW c \in CandidateId, Recover(c) PROVE StepKnows'
  BY <1>9, KnowsNothing DEF Recover
<1>10. CASE PassMoves \/ Start \/ UNCHANGED vars
  BY <1>1, <1>10 DEF PassMoves, PassBegin, PassProcess, PassEnd, Start, vars, tables
<1> QED
  BY <1>4, <1>5, <1>6, <1>7, <1>8, <1>9, <1>10 DEF Next, StepRuns

-----------------------------------------------------------------------------
(* The statuses *)

(* What StatusSpeaksOfLatest asks of a material and a version.              *)
Speaks(m, v) ==
  (Exists(m) /\ IsLatest(v) /\ versions[v].file = materials[m].file) =>
    /\ materials[m].status = "READY" => derivative[v] = "COMPLETE"
    /\ materials[m].status = "PARTIAL" => derivative[v] = "PARTIAL"

(* A material keeps its row or is put in a state that claims no evidence.   *)
LEMMA SameStatus ==
  ASSUME StatusSpeaksOfLatest, UNCHANGED <<versions, derivative>>,
         \A m \in MaterialId : materials'[m] = materials[m] \/ materials'[m].status \notin {"READY", "PARTIAL"}
  PROVE  StatusSpeaksOfLatest'
<1> SUFFICES ASSUME NEW m \in MaterialId, NEW v \in VersionId PROVE Speaks(m, v)'
  BY DEF StatusSpeaksOfLatest, Speaks
<1>1. IsLatest(v)' <=> IsLatest(v)
  BY DEF IsLatest, VersionsOf
<1> QED BY <1>1 DEF StatusSpeaksOfLatest, Speaks, Exists

(* A version is added to a source whose material, if any, claims nothing.   *)
LEMMA InsertStatus ==
  ASSUME TypeOK, StatusSpeaksOfLatest, UNCHANGED derivative,
         NEW v \in VersionId, versions[v].number = 0,
         NEW f \in FileId, versions'[v].file = f,
         \A w \in VersionId : w # v => versions'[w] = versions[w],
         \A m \in MaterialId :
           \/ materials'[m].status \notin {"READY", "PARTIAL"}
           \/ materials'[m] = materials[m] /\ materials[m].file # f
  PROVE  StatusSpeaksOfLatest'
<1> SUFFICES ASSUME NEW m \in MaterialId, NEW w \in VersionId, materials'[m].status \in {"READY", "PARTIAL"},
                    IsLatest(w)', versions'[w].file = materials'[m].file
             PROVE  Speaks(m, w)'
  BY DEF StatusSpeaksOfLatest, Speaks
<1>1. materials'[m] = materials[m] /\ materials[m].file # f
  OBVIOUS
<1>2. w # v /\ versions'[w] = versions[w] /\ versions[w].file # f
  BY <1>1
<1>3. IsLatest(w)
  <2>1. VersionsOf(versions[w].file) \subseteq VersionsOf(versions[w].file)'
    BY <1>2 DEF VersionsOf
  <2>2. \A x \in VersionsOf(versions[w].file) : x # v
    BY DEF VersionsOf, TypeOK, Version
  <2> QED BY <1>2, <2>1, <2>2 DEF IsLatest, VersionsOf
<1>4. Exists(m)
  BY <1>1 DEF Exists
<1> QED BY <1>1, <1>2, <1>3, <1>4 DEF StatusSpeaksOfLatest, Speaks

(* Two newest versions of a source are one.                                 *)
LEMMA OneLatest ==
  ASSUME TypeOK, VersionRows, NEW v \in VersionId, NEW w \in VersionId,
         IsLatest(v), IsLatest(w), versions[v].file = versions[w].file
  PROVE  v = w
<1>1. v \in VersionsOf(versions[w].file) /\ w \in VersionsOf(versions[v].file)
  BY DEF IsLatest, VersionsOf
<1>2. versions[v].number <= versions[w].number /\ versions[w].number <= versions[v].number
  BY <1>1 DEF IsLatest
<1>3. versions[v].number \in Nat /\ versions[w].number \in Nat
  BY DEF TypeOK, Version
<1>4. versions[v].number = versions[w].number
  BY <1>2, <1>3
<1> QED BY <1>4 DEF IsLatest, VersionRows

LEMMA StatusStep == IndInv /\ [Next]_vars => StatusSpeaksOfLatest'
<1> SUFFICES ASSUME IndInv, [Next]_vars PROVE StatusSpeaksOfLatest'
  OBVIOUS
<1>0. TypeOK /\ Structure /\ StepKnows /\ StatusSpeaksOfLatest
  BY DEF IndInv
<1> USE <1>0
<1>1. ASSUME UNCHANGED <<versions, derivative, materials>> PROVE StatusSpeaksOfLatest'
  BY <1>1, SameStatus
<1>2. ASSUME NEW h \in Content, ReceiveNew(h) PROVE StatusSpeaksOfLatest'
  <2>1. PICK v \in VersionId, f \in FileId :
          /\ NextVersion(v) /\ NextFile(f)
          /\ versions' = [versions EXCEPT ![v] = [file |-> f, number |-> 1, hash |-> h]]
    BY <1>2 DEF ReceiveNew
  <2>2. /\ versions[v].number = 0 /\ versions'[v].file = f
        /\ \A w \in VersionId : w # v => versions'[w] = versions[w]
    BY <2>1 DEF NextVersion, TypeOK
  <2>3. \A m \in MaterialId : Exists(m) => materials[m].file # f
    <3> SUFFICES ASSUME NEW m \in MaterialId, Exists(m) PROVE materials[m].file # f
      OBVIOUS
    <3>1. PICK c \in CandidateId : candidates[c].material = m
      BY DEF Structure, MaterialRows
    <3>2. candidates[c].version \in VersionsOf(materials[m].file)
      BY <3>1 DEF Structure, CandidateRows, VersionOf, VersionsOf, MaterialId
    <3> QED BY <2>1, <3>2 DEF NextFile
  <2>4. UNCHANGED <<materials, derivative>>
    BY <1>2 DEF ReceiveNew
  <2>5. \A m \in MaterialId :
           \/ materials'[m].status \notin {"READY", "PARTIAL"}
           \/ materials'[m] = materials[m] /\ materials[m].file # f
    BY <2>3, <2>4 DEF Exists
  <2> QED BY <2>2, <2>4, <2>5, InsertStatus
<1>3. CASE ReplaceCommit
  <2>1. step.material \in MaterialId /\ Exists(step.material)
    BY <1>3 DEF ReplaceCommit, StepKnows
  <2>2. PICK v \in VersionId, u \in VersionsOf(materials[step.material].file) :
          /\ NextVersion(v)
          /\ versions' = [versions EXCEPT ![v] =
               [file |-> materials[step.material].file, number |-> versions[u].number + 1, hash |-> step.hash]]
    BY <1>3 DEF ReplaceCommit
  <2>3. PICK f \in FileId : f = materials[step.material].file
    <3>1. u \in VersionId /\ versions[u].number > 0 /\ versions[u].file = materials[step.material].file
      BY DEF VersionsOf
    <3> QED BY <3>1 DEF Structure, VersionRows
  <2>4. /\ versions[v].number = 0 /\ versions'[v].file = f
        /\ \A w \in VersionId : w # v => versions'[w] = versions[w]
    BY <2>2, <2>3 DEF NextVersion, TypeOK
  <2>5. /\ UNCHANGED derivative /\ materials'[step.material].status = "PENDING"
        /\ \A m \in MaterialId : m # step.material => materials'[m] = materials[m]
    BY <1>3, <2>1 DEF ReplaceCommit, MaterialTo, TypeOK, Material
  <2>6. ASSUME NEW m \in MaterialId, materials'[m].status \in {"READY", "PARTIAL"}
        PROVE  materials'[m] = materials[m] /\ materials[m].file # f
    BY <2>1, <2>3, <2>5, <2>6 DEF Structure, OneMaterialPerSource, Exists
  <2> QED BY <2>4, <2>5, <2>6, InsertStatus
<1>4. ASSUME NEW c \in CandidateId, NEW m \in MaterialId, NEW g, UNCHANGED <<versions, derivative>>,
             materials' = [materials EXCEPT ![m] = [file |-> g, status |-> "PENDING"]]
      PROVE  StatusSpeaksOfLatest'
  <2>1. \A n \in MaterialId : materials'[n] = materials[n] \/ materials'[n].status \notin {"READY", "PARTIAL"}
    BY <1>4 DEF TypeOK
  <2> QED BY <1>4, <2>1, SameStatus
<1>5. CASE ClassifyAuto
  BY <1>5, <1>4 DEF ClassifyAuto, StepKnows
<1>6. ASSUME NEW c \in CandidateId, Confirm(c) PROVE StatusSpeaksOfLatest'
  BY <1>6, <1>4 DEF Confirm
<1>7. CASE Claim
  <2>1. /\ UNCHANGED <<versions, derivative>>
        /\ materials' = [materials EXCEPT ![candidates[step.candidate].material].status = "PROCESSING"]
    BY <1>7 DEF Claim, MaterialTo
  <2>2. \A n \in MaterialId : materials'[n] = materials[n] \/ materials'[n].status \notin {"READY", "PARTIAL"}
    BY <2>1 DEF TypeOK, Material
  <2> QED BY <2>1, <2>2, SameStatus
<1>8. ASSUME NEW c \in CandidateId, c = step.candidate,
             step.pc \in {"normalize", "finish"}
      PROVE  /\ candidates[c].version \in VersionId /\ IsLatest(candidates[c].version)
             /\ candidates[c].material \in MaterialId
             /\ materials[candidates[c].material].file = versions[candidates[c].version].file
  <2>1. State(c) \in Busy /\ IsLatest(candidates[c].version)
    BY <1>8 DEF StepKnows
  <2>2. Live(c) /\ candidates[c].material # 0
    BY <2>1 DEF Structure, CandidateRows, Live, NotLive, Busy, Runnable
  <2> QED BY <2>1, <2>2 DEF Structure, CandidateRows, VersionOf, TypeOK, Candidate
<1>9. CASE Normalize
  <2>1. PICK c \in CandidateId : c = step.candidate
    BY <1>9 DEF Normalize, StepKnows
  <2>2. PICK v \in VersionId : v = candidates[c].version
    BY <1>8, <1>9, <2>1 DEF Normalize
  <2>3. UNCHANGED <<versions, materials>>
    BY <1>9 DEF Normalize
  <2>4. \A w \in VersionId : derivative'[w] = derivative[w] \/ derivative[w] = "NONE"
    BY <1>9, <2>1, <2>2 DEF Normalize, TypeOK
  <2> SUFFICES ASSUME NEW m \in MaterialId, NEW w \in VersionId PROVE Speaks(m, w)'
    BY DEF StatusSpeaksOfLatest, Speaks
  <2>5. IsLatest(w)' <=> IsLatest(w)
    BY <2>3 DEF IsLatest, VersionsOf
  <2>6. Speaks(m, w)
    BY DEF StatusSpeaksOfLatest, Speaks
  <2> QED BY <2>3, <2>4, <2>5, <2>6 DEF Speaks, Exists
<1>10. CASE Finish
  <2>1. PICK c \in CandidateId : c = step.candidate
    BY <1>10 DEF Finish, StepKnows
  <2>2. PICK v \in VersionId, n \in MaterialId :
          /\ v = candidates[c].version /\ n = candidates[c].material
          /\ IsLatest(v) /\ materials[n].file = versions[v].file
    BY <1>8, <1>10, <2>1 DEF Finish
  <2>3. UNCHANGED <<versions, derivative>> /\ materials' = [materials EXCEPT ![n].status = step.result]
    BY <1>10, <2>1, <2>2 DEF Finish, MaterialTo
  <2>4. /\ step.result = "READY" => derivative[v] = "COMPLETE"
        /\ step.result = "PARTIAL" => derivative[v] = "PARTIAL"
    BY <1>10, <2>1, <2>2 DEF Finish, StepKnows
  <2> SUFFICES ASSUME NEW m \in MaterialId, NEW w \in VersionId PROVE Speaks(m, w)'
    BY DEF StatusSpeaksOfLatest, Speaks
  <2>5. IsLatest(w)' <=> IsLatest(w)
    BY <2>3 DEF IsLatest, VersionsOf
  <2>6. CASE m = n
    <3>1. materials'[m].status = step.result /\ materials'[m].file = materials[m].file
      BY <2>3, <2>6 DEF TypeOK, Material
    <3>2. IsLatest(w) /\ versions[w].file = materials[m].file => w = v
      BY <2>2, <2>6, OneLatest DEF Structure
    <3> QED BY <2>3, <2>4, <2>5, <3>1, <3>2 DEF Speaks
  <2>7. CASE m # n
    <3>1. materials'[m] = materials[m]
      BY <2>3, <2>7 DEF TypeOK
    <3>2. Speaks(m, w)
      BY DEF StatusSpeaksOfLatest, Speaks
    <3> QED BY <2>3, <2>5, <3>1, <3>2 DEF Speaks, Exists
  <2> QED BY <2>6, <2>7
<1>11. ASSUME NEW c \in CandidateId,
              \/ Dismiss(c) \/ Retry(c) \/ UserClassify(c) \/ WorkerClassify(c) \/ WorkerClassifySkip(c)
              \/ ProcessDeleted(c) \/ ProcessSuperseded(c) \/ ProcessBegin(c) \/ Recover(c)
       PROVE  StatusSpeaksOfLatest'
  BY <1>1, <1>11 DEF Dismiss, Retry, UserClassify, WorkerClassify, ClassifyBegin, WorkerClassifySkip, ProcessDeleted,
     ProcessSuperseded, ProcessBegin, Recover, tables
<1>12. ASSUME NEW m \in MaterialId, NEW h \in Content, ReplaceBegin(m, h) PROVE StatusSpeaksOfLatest'
  BY <1>1, <1>12 DEF ReplaceBegin, tables
<1>13. ASSUME NEW m \in MaterialId, Delete(m) PROVE StatusSpeaksOfLatest'
  BY <1>1, <1>13 DEF Delete
<1>14. ASSUME NEW h \in Content, ReceiveKnown(h) PROVE StatusSpeaksOfLatest'
  BY <1>1, <1>14 DEF ReceiveKnown
<1>15. CASE ReceiveUnsupported \/ ClassifyReview \/ ReplaceRefused \/ JobStart \/ RecoverBegin \/ RecoverEnd
  BY <1>1, <1>15 DEF ReceiveUnsupported, ClassifyReview, ReplaceRefused, JobStart, RecoverBegin, RecoverEnd, tables
<1>16. CASE PassMoves \/ Start \/ StepFails \/ Crash \/ UNCHANGED vars
  BY <1>1, <1>16 DEF PassMoves, PassBegin, PassProcess, PassEnd, Start, StepFails, Crash, vars, tables
<1> QED
  BY <1>2, <1>3, <1>5, <1>6, <1>7, <1>9, <1>10, <1>11, <1>12, <1>13, <1>14, <1>15, <1>16
     DEF Next, UserStep, WorkerAcquires, StepRuns

-----------------------------------------------------------------------------
(* The theorems *)

LEMMA IndInit == Init => IndInv
<1> SUFFICES ASSUME Init PROVE IndInv
  OBVIOUS
<1>1. TypeOK
  BY TypeInit
<1>2. /\ \A v \in VersionId : versions[v].number = 0
      /\ \A c \in CandidateId : State(c) = "NONE" /\ ~Live(c) /\ candidates[c].material = 0
      /\ \A m \in MaterialId : ~Exists(m)
      /\ step.pc = "idle"
  BY DEF Init, NoVersion, NoCandidate, NoMaterial, NoStep, State, Live, NotLive, Exists
<1>3. Structure
  BY <1>2 DEF Structure, VersionRows, CandidateRows, MaterialRows, OneLiveCandidate, OneMaterialPerSource,
     Unsettled, Busy, Runnable, Settled
<1>4. StepKnows
  BY <1>2 DEF StepKnows
<1>5. StatusSpeaksOfLatest
  BY <1>2 DEF StatusSpeaksOfLatest
<1> QED BY <1>1, <1>3, <1>4, <1>5 DEF IndInv

(* The inductive invariant holds in every behaviour of the intake: no       *)
(* interleaving of users, the worker, deletions and crashes breaks it.      *)
THEOREM Inductive == Spec => []IndInv
<1>1. Init => IndInv
  BY IndInit
<1>2. IndInv /\ [Next]_vars => IndInv'
  BY TypeStep, StructureStep, KnowsStep, StatusStep DEF IndInv
<1> QED BY <1>1, <1>2, PTL DEF Spec

(* Every row and every record keeps its type: the intake writes no state    *)
(* that the schema's CHECK constraints would refuse.                        *)
THEOREM TypeCorrect == Spec => []TypeOK
<1>1. IndInv => TypeOK
  BY DEF IndInv
<1> QED BY <1>1, Inductive, PTL

(* A status of a material is about the newest version of its file, whatever *)
(* is retried, replaced, deleted or interrupted: process() and replace().   *)
THEOREM StatusIsCurrent == Spec => []StatusSpeaksOfLatest
<1>1. IndInv => StatusSpeaksOfLatest
  BY DEF IndInv
<1> QED BY <1>1, Inductive, PTL

(* receive(), confirm() and replace() together make one material per source *)
(* file, which no index of the schema enforces.                             *)
THEOREM SourceHasOneMaterial == Spec => []OneMaterialPerSource
<1>1. IndInv => OneMaterialPerSource
  BY DEF IndInv, Structure
<1> QED BY <1>1, Inductive, PTL

(* receive() and replace() never violate the unique index of live candidates. *)
THEOREM VersionHasOneLiveCandidate == Spec => []OneLiveCandidate
<1>1. IndInv => OneLiveCandidate
  BY DEF IndInv, Structure
<1> QED BY <1>1, Inductive, PTL

-----------------------------------------------------------------------------
(* The work that waits, and the worker.                                     *)

(* The part of WorkInv that speaks of the tables only.                      *)
WorkTables == NoWorkLost /\ CandidateAgreesWithMaterial /\ JobsAreWorked /\ EvidenceHasMaterial

Waiting == {"PENDING", "PROCESSING"}

(* The disjointness of the classes of states.                               *)
LEMMA Classes ==
  /\ \A s \in Busy : s \notin Settled /\ s \notin Unsettled /\ s \notin NotLive
  /\ \A s \in Settled : s \notin Unsettled /\ s \notin NotLive
  /\ \A s \in Unsettled : s \notin NotLive
  /\ Runnable \subseteq Busy /\ "PROCESSING" \in Busy /\ "PROCESSING" \notin Runnable
  BY DEF Busy, Runnable, Settled, Unsettled, NotLive

(* Where a candidate that was confirmed stands: it has a version and the     *)
(* material of that version's source.                                       *)
LEMMA Confirmed ==
  ASSUME TypeOK, Structure, NEW c \in CandidateId, State(c) \in Busy \cup Settled
  PROVE  /\ Live(c) /\ candidates[c].version \in VersionId /\ versions[candidates[c].version].number > 0
         /\ versions[candidates[c].version].file \in FileId
         /\ candidates[c].material \in MaterialId /\ Exists(candidates[c].material)
         /\ materials[candidates[c].material].file = versions[candidates[c].version].file
<1>1. Live(c) /\ candidates[c].material # 0
  BY Classes DEF Structure, CandidateRows, Live
<1>2. candidates[c].version \in VersionId /\ versions[candidates[c].version].number > 0
  BY <1>1 DEF Structure, CandidateRows, VersionOf
<1>3. candidates[c].material \in MaterialId
  BY <1>1 DEF TypeOK, Candidate
<1> QED BY <1>1, <1>2, <1>3 DEF Structure, CandidateRows, VersionRows, VersionOf

(* A material has one candidate of its source's newest version.             *)
LEMMA OneForMaterial ==
  ASSUME TypeOK, Structure, NEW c \in CandidateId, NEW d \in CandidateId,
         State(c) \in Busy \cup Settled, State(d) \in Busy \cup Settled,
         candidates[c].material = candidates[d].material,
         IsLatest(candidates[c].version), IsLatest(candidates[d].version)
  PROVE  c = d
<1>1. versions[candidates[c].version].file = versions[candidates[d].version].file
  BY Confirmed
<1>2. candidates[c].version \in VersionId /\ candidates[d].version \in VersionId /\ Live(c) /\ Live(d)
  BY Confirmed
<1>3. candidates[c].version = candidates[d].version
  BY <1>1, <1>2, OneLatest DEF Structure
<1> QED BY <1>2, <1>3 DEF Structure, OneLiveCandidate

(* The version of a candidate that is not confirmed yet is the only one of  *)
(* its source, and the source has no material.                              *)
LEMMA UnsettledIsFirst ==
  ASSUME TypeOK, Structure, NEW c \in CandidateId, State(c) \in Unsettled
  PROVE  /\ candidates[c].version \in VersionId /\ VersionOf(c).number = 1 /\ VersionOf(c).file \in FileId
         /\ \A n \in MaterialId : Exists(n) => materials[n].file # VersionOf(c).file
         /\ IsLatest(candidates[c].version)
<1>1. /\ Live(c) /\ candidates[c].version \in VersionId /\ VersionOf(c).number = 1 /\ candidates[c].material = 0
      /\ VersionOf(c).file \in FileId
  <2>1. Live(c)
    BY Classes DEF Live
  <2> QED BY <2>1 DEF Structure, CandidateRows, VersionRows, VersionOf
<1>2. ASSUME NEW n \in MaterialId, Exists(n), materials[n].file = VersionOf(c).file PROVE FALSE
  <2>1. PICK d \in CandidateId : candidates[d].material = n /\ VersionOf(d).number = 1
    BY <1>2 DEF Structure, MaterialRows
  <2>2. Live(d) /\ VersionOf(d).file = VersionOf(c).file /\ candidates[d].version \in VersionId
    BY <1>2, <2>1 DEF Structure, CandidateRows, MaterialId
  <2>3. candidates[d].version = candidates[c].version
    BY <1>1, <2>1, <2>2 DEF Structure, VersionRows, VersionOf
  <2>4. d = c
    BY <1>1, <2>2, <2>3 DEF Structure, OneLiveCandidate
  <2> QED BY <1>1, <2>1, <2>4 DEF MaterialId
<1>3. ASSUME NEW w \in VersionsOf(VersionOf(c).file), versions[w].number > 1 PROVE FALSE
  <2>1. w \in VersionId /\ versions[w].file = VersionOf(c).file
    BY DEF VersionsOf
  <2>2. PICK d \in CandidateId : Live(d) /\ candidates[d].version = w
    BY <1>3, <2>1 DEF Structure, VersionRows, LiveFor
  <2>3. State(d) \notin Unsettled
    BY <1>3, <2>2 DEF Structure, CandidateRows, VersionOf
  <2>4. State(d) \in Busy \cup Settled
    BY <2>2, <2>3 DEF TypeOK, Candidate, CandidateState, Live, State
  <2> QED BY <1>2, <2>1, <2>2, <2>4, Confirmed
<1>4. IsLatest(candidates[c].version)
  BY <1>1, <1>3 DEF IsLatest, VersionOf, VersionsOf, TypeOK, Version
<1> QED BY <1>1, <1>2, <1>4

(* The candidate a run is about.                                            *)
LEMMA RunCandidate ==
  ASSUME IndInv, step.pc \in Running
  PROVE  /\ step.candidate \in CandidateId /\ State(step.candidate) \in Busy
         /\ IsLatest(candidates[step.candidate].version)
  BY DEF IndInv, StepKnows, Running

-----------------------------------------------------------------------------
(* The tables *)

(* Candidates move, materials and jobs stay: a busy candidate stays busy,   *)
(* or its source was deleted or superseded; none is settled otherwise.      *)
LEMMA QuietTables ==
  ASSUME IndInv, WorkTables, UNCHANGED <<versions, derivative, job, materials>>,
         \A f \in FileId : deleted[f] => deleted'[f],
         \A d \in CandidateId :
           \/ candidates'[d] = candidates[d]
           \/ State(d) \notin Busy /\ State(d)' \notin Settled
           \/ /\ State(d) \in Busy /\ candidates'[d].version = candidates[d].version
              /\ candidates'[d].material = candidates[d].material
              /\ \/ State(d)' \in Busy
                 \/ deleted[VersionOf(d).file] /\ candidates'[d].reason = "SOURCE_DELETED"
                 \/ ~IsLatest(candidates[d].version)
  PROVE  WorkTables'
<1>0. TypeOK /\ Structure
  BY DEF IndInv
<1>1. \A v \in VersionId : IsLatest(v)' <=> IsLatest(v)
  BY DEF IsLatest, VersionsOf
<1>2. ASSUME NEW d \in CandidateId, State(d) \in Busy, IsLatest(candidates[d].version),
             ~deleted'[VersionOf(d).file]
      PROVE  /\ State(d)' \in Busy /\ candidates'[d].version = candidates[d].version
             /\ candidates'[d].material = candidates[d].material
  <2>1. VersionOf(d).file \in FileId
    BY <1>0, <1>2, Confirmed DEF VersionOf
  <2> QED BY <1>2, <2>1 DEF State
<1>3. NoWorkLost'
  <2> SUFFICES ASSUME NEW m \in MaterialId, materials'[m].status \in Waiting, ~deleted'[materials'[m].file]
               PROVE  \E c \in CandidateId :
                        candidates'[c].material = m /\ State(c)' \in Busy /\ IsLatest(candidates[c].version)'
    BY DEF NoWorkLost, SourceDeleted, Waiting
  <2>0. Exists(m)
    BY DEF Exists, Waiting
  <2>1. materials[m].file \in FileId
    BY <1>0, <2>0 DEF Structure, MaterialRows, CandidateRows, VersionRows, VersionOf, MaterialId
  <2>2. PICK c \in CandidateId : candidates[c].material = m /\ State(c) \in Busy /\ IsLatest(candidates[c].version)
    BY <2>1 DEF WorkTables, NoWorkLost, SourceDeleted, Waiting
  <2>3. VersionOf(c).file = materials[m].file /\ candidates[c].version \in VersionId
    BY <1>0, <2>2, Confirmed DEF VersionOf
  <2> QED BY <1>1, <1>2, <2>2, <2>3
<1>4. CandidateAgreesWithMaterial'
  <2> SUFFICES ASSUME NEW c \in CandidateId, State(c)' \in Settled, IsLatest(candidates[c].version)',
                      candidates'[c].reason # "SOURCE_DELETED"
               PROVE  LET s == materials'[candidates'[c].material].status IN
                      CASE State(c)' = "FAILED" -> s \in {"FAILED", "NEEDS_REVIEW"}
                        [] OTHER -> s = State(c)'
    BY DEF CandidateAgreesWithMaterial
  <2>1. IsLatest(candidates'[c].version)
    BY DEF IsLatest, VersionsOf
  <2>2. candidates'[c] = candidates[c]
    BY <2>1, Classes DEF State
  <2> QED BY <2>1, <2>2 DEF WorkTables, CandidateAgreesWithMaterial, State
<1>5. JobsAreWorked'
  <2> SUFFICES ASSUME NEW v \in VersionId, job'[v] = "PROCESSING"
               PROVE  /\ versions'[v].number > 0
                      /\ ~deleted'[versions'[v].file] => IsLatest(v)' /\ \E c \in LiveFor(v)' : State(c)' \in Busy
    BY DEF JobsAreWorked
  <2>1. versions[v].number > 0 /\ versions[v].file \in FileId
    BY <1>0 DEF WorkTables, JobsAreWorked, Structure, VersionRows
  <2>2. ASSUME ~deleted'[versions[v].file]
        PROVE  IsLatest(v) /\ \E c \in LiveFor(v)' : State(c)' \in Busy
    <3>1. PICK c \in CandidateId : candidates[c].version = v /\ State(c) \in Busy /\ IsLatest(v)
      BY <2>1, <2>2 DEF WorkTables, JobsAreWorked, LiveFor
    <3>2. State(c)' \in Busy /\ candidates'[c].version = v
      BY <1>2, <2>2, <3>1 DEF VersionOf
    <3>3. Live(c)'
      BY <3>2, Classes DEF Live
    <3> QED BY <3>1, <3>2, <3>3 DEF LiveFor
  <2> QED BY <1>1, <2>1, <2>2
<1>6. EvidenceHasMaterial'
  BY <1>1 DEF WorkTables, EvidenceHasMaterial, Exists
<1> QED BY <1>3, <1>4, <1>5, <1>6 DEF WorkTables

(* A file is confirmed, by the user or automatically.                       *)
LEMMA ConfirmTables ==
  ASSUME IndInv, WorkTables, UNCHANGED <<deleted, versions, derivative, job>>,
         NEW c \in CandidateId, State(c) \in Unsettled,
         NEW m \in MaterialId, ~Exists(m),
         NEW s \in {"AUTO_CONFIRMED", "CONFIRMED"},
         materials' = [materials EXCEPT ![m] = [file |-> VersionOf(c).file, status |-> "PENDING"]],
         candidates' = [candidates EXCEPT ![c].state = s, ![c].material = m]
  PROVE  WorkTables'
<1>0. TypeOK /\ Structure
  BY DEF IndInv
<1>1. /\ State(c)' = s /\ candidates'[c].material = m /\ candidates'[c].version = candidates[c].version
      /\ \A d \in CandidateId : d # c => candidates'[d] = candidates[d] /\ State(d)' = State(d)
  BY <1>0 DEF TypeOK, Candidate, State
<1>2. /\ materials'[m].file = VersionOf(c).file /\ materials'[m].status = "PENDING"
      /\ \A n \in MaterialId : n # m => materials'[n] = materials[n]
  BY <1>0 DEF TypeOK
<1>3. \A v \in VersionId : IsLatest(v)' <=> IsLatest(v)
  BY DEF IsLatest, VersionsOf
<1>4. /\ IsLatest(candidates[c].version) /\ candidates[c].version \in VersionId
      /\ VersionOf(c).file = versions[candidates[c].version].file
  BY <1>0, UnsettledIsFirst DEF VersionOf
<1>5. State(c)' \in Busy /\ State(c) \notin Busy
  BY <1>1, Classes DEF Busy, Runnable
<1>6. NoWorkLost'
  <2> SUFFICES ASSUME NEW n \in MaterialId, materials'[n].status \in Waiting, ~deleted'[materials'[n].file]
               PROVE  \E d \in CandidateId :
                        candidates'[d].material = n /\ State(d)' \in Busy /\ IsLatest(candidates[d].version)'
    BY DEF NoWorkLost, SourceDeleted, Waiting
  <2>1. CASE n = m
    BY <1>1, <1>3, <1>4, <1>5, <2>1
  <2>2. CASE n # m
    <3>1. PICK d \in CandidateId : candidates[d].material = n /\ State(d) \in Busy /\ IsLatest(candidates[d].version)
      BY <1>2, <2>2 DEF WorkTables, NoWorkLost, SourceDeleted, Waiting
    <3>2. candidates[d].version \in VersionId
      BY <1>0, <3>1, Confirmed
    <3> QED BY <1>1, <1>3, <1>5, <3>1, <3>2
  <2> QED BY <2>1, <2>2
<1>7. CandidateAgreesWithMaterial'
  <2> SUFFICES ASSUME NEW d \in CandidateId, State(d)' \in Settled, IsLatest(candidates[d].version)',
                      candidates'[d].reason # "SOURCE_DELETED"
               PROVE  LET t == materials'[candidates'[d].material].status IN
                      CASE State(d)' = "FAILED" -> t \in {"FAILED", "NEEDS_REVIEW"}
                        [] OTHER -> t = State(d)'
    BY DEF CandidateAgreesWithMaterial
  <2>1. d # c /\ State(d) \in Settled /\ candidates'[d] = candidates[d]
    BY <1>1, <1>5, Classes
  <2>2. candidates[d].material # m /\ candidates[d].material \in MaterialId /\ candidates[d].version \in VersionId
    BY <1>0, <2>1, Confirmed
  <2>3. IsLatest(candidates[d].version)
    BY <1>3, <2>1, <2>2
  <2> QED BY <1>1, <1>2, <2>1, <2>2, <2>3 DEF WorkTables, CandidateAgreesWithMaterial
<1>8. JobsAreWorked'
  <2> SUFFICES ASSUME NEW v \in VersionId, job'[v] = "PROCESSING"
               PROVE  /\ versions'[v].number > 0
                      /\ ~deleted'[versions'[v].file] => IsLatest(v)' /\ \E d \in LiveFor(v)' : State(d)' \in Busy
    BY DEF JobsAreWorked
  <2>1. versions[v].number > 0
    BY DEF WorkTables, JobsAreWorked
  <2>2. ASSUME ~deleted[versions[v].file] PROVE IsLatest(v) /\ \E d \in LiveFor(v)' : State(d)' \in Busy
    <3>1. PICK d \in CandidateId : candidates[d].version = v /\ State(d) \in Busy /\ IsLatest(v)
      BY <2>2 DEF WorkTables, JobsAreWorked, LiveFor
    <3>2. State(d)' \in Busy /\ candidates'[d].version = v /\ Live(d)'
      BY <1>1, <1>5, <3>1, Classes DEF Live
    <3> QED BY <3>1, <3>2 DEF LiveFor
  <2> QED BY <1>3, <2>1, <2>2
<1>9. EvidenceHasMaterial'
  <2>1. ASSUME NEW v \in VersionId, derivative'[v] # "NONE"
        PROVE  versions'[v].number > 0 /\ \E n \in MaterialId : Exists(n)' /\ materials'[n].file = versions'[v].file
    <3>1. PICK n \in MaterialId : Exists(n) /\ materials[n].file = versions[v].file /\ versions[v].number > 0
      BY <2>1 DEF WorkTables, EvidenceHasMaterial
    <3> QED BY <1>2, <3>1 DEF Exists
  <2>2. ASSUME NEW n \in MaterialId, Exists(n)'
        PROVE  \E v \in VersionId : IsLatest(v)' /\ versions'[v].file = materials'[n].file
    <3>1. CASE n = m
      BY <1>2, <1>3, <1>4, <3>1
    <3>2. CASE n # m
      BY <1>2, <1>3, <2>2, <3>2 DEF WorkTables, EvidenceHasMaterial, Exists
    <3> QED BY <3>1, <3>2
  <2> QED BY <2>1, <2>2 DEF EvidenceHasMaterial
<1> QED BY <1>6, <1>7, <1>8, <1>9 DEF WorkTables

(* A version is added to a source: newer than all the source has.           *)
LEMMA NewestIsAdded ==
  ASSUME TypeOK, NEW v \in VersionId, versions[v].number = 0,
         \A w \in VersionId : w # v => versions'[w] = versions[w],
         versions'[v].number \in Nat, versions'[v].number > 0,
         \A w \in VersionsOf(versions'[v].file) : versions[w].number < versions'[v].number
  PROVE  /\ IsLatest(v)'
         /\ \A w \in VersionId : w # v => (IsLatest(w)' <=> IsLatest(w) /\ versions[w].file # versions'[v].file)
<1>1. \A g : VersionsOf(g)' = IF g = versions'[v].file THEN VersionsOf(g) \cup {v} ELSE VersionsOf(g)
  BY DEF VersionsOf
<1>2. \A g : VersionsOf(g) \subseteq VersionId /\ v \notin VersionsOf(g)
  BY DEF VersionsOf
<1>3. \A w \in VersionId : versions[w].number \in Nat
  BY DEF TypeOK, Version
<1>4. IsLatest(v)'
  BY <1>1, <1>2, <1>3 DEF IsLatest
<1>5. ASSUME NEW w \in VersionId, w # v PROVE IsLatest(w)' <=> IsLatest(w) /\ versions[w].file # versions'[v].file
  <2>1. versions'[w] = versions[w]
    BY <1>5
  <2>2. CASE versions[w].file = versions'[v].file
    <3>1. ASSUME IsLatest(w)' PROVE FALSE
      <4>1. versions[w].number > 0 /\ w \in VersionsOf(versions'[v].file)
        BY <2>1, <2>2, <3>1 DEF IsLatest, VersionsOf
      <4>2. v \in VersionsOf(versions[w].file)'
        BY <1>1, <2>2
      <4>3. versions'[v].number <= versions[w].number
        BY <2>1, <3>1, <4>2 DEF IsLatest
      <4> QED BY <1>3, <4>1, <4>3
    <3> QED BY <2>2, <3>1
  <2>3. CASE versions[w].file # versions'[v].file
    <3>1. VersionsOf(versions[w].file)' = VersionsOf(versions[w].file)
      BY <1>1, <2>1, <2>3
    <3>2. \A x \in VersionsOf(versions[w].file) : versions'[x] = versions[x]
      BY <1>2
    <3>3. (IsLatest(w))' <=> versions[w].number > 0 /\ \A x \in VersionsOf(versions[w].file) : versions'[x].number <= versions[w].number
      BY <2>1, <3>1 DEF IsLatest
    <3> QED BY <2>3, <3>2, <3>3 DEF IsLatest
  <2> QED BY <2>2, <2>3
<1> QED BY <1>4, <1>5

(* A version is added with its candidate: of a new source, or of the source *)
(* of a material that is not being worked on and waits from now on.         *)
LEMMA InsertTables ==
  ASSUME IndInv, WorkTables, UNCHANGED <<deleted, derivative, job>>,
         NEW v \in VersionId, versions[v].number = 0,
         \A w \in VersionId : w # v => versions'[w] = versions[w],
         versions'[v].number \in Nat, versions'[v].number > 0,
         NEW f \in FileId, versions'[v].file = f,
         \A w \in VersionsOf(f) : versions[w].number < versions'[v].number,
         NEW c \in CandidateId, State(c) = "NONE", candidates'[c].version = v,
         State(c)' \in {"RECEIVED", "CONFIRMED"},
         \A d \in CandidateId : d # c => candidates'[d] = candidates[d],
         \A n \in MaterialId :
           \/ materials'[n] = materials[n] /\ (Exists(n) => materials[n].file # f)
           \/ /\ Exists(n) /\ materials'[n].file = f /\ materials[n].file = f
              /\ materials'[n].status = "PENDING"
              /\ candidates'[c].material = n /\ State(c)' = "CONFIRMED"
              /\ \A d \in CandidateId : candidates[d].material = n => State(d) \notin Busy
  PROVE  WorkTables'
<1>0. TypeOK /\ Structure
  BY DEF IndInv
<1>1. /\ IsLatest(v)'
      /\ \A w \in VersionId : w # v => (IsLatest(w)' <=> IsLatest(w) /\ versions[w].file # f)
  BY <1>0, NewestIsAdded
<1>2. \A d \in CandidateId : d # c => State(d)' = State(d)
  BY DEF State
<1>3. \A d \in CandidateId : State(d) \in Busy \cup Settled => d # c /\ candidates[d].version # v
  BY <1>0, Confirmed, Classes DEF NotLive
<1>4. State(c)' \notin Settled /\ (State(c)' = "CONFIRMED" => State(c)' \in Busy)
  BY DEF Settled, Busy, Runnable
<1>5. \A n \in MaterialId : materials'[n].file = materials[n].file /\ (Exists(n)' <=> Exists(n))
  BY DEF Exists
<1>6. NoWorkLost'
  <2> SUFFICES ASSUME NEW n \in MaterialId, materials'[n].status \in Waiting, ~deleted'[materials'[n].file]
               PROVE  \E d \in CandidateId :
                        candidates'[d].material = n /\ State(d)' \in Busy /\ IsLatest(candidates[d].version)'
    BY DEF NoWorkLost, SourceDeleted, Waiting
  <2>1. CASE materials'[n] = materials[n] /\ (Exists(n) => materials[n].file # f)
    <3>1. PICK d \in CandidateId : candidates[d].material = n /\ State(d) \in Busy /\ IsLatest(candidates[d].version)
      BY <2>1 DEF WorkTables, NoWorkLost, SourceDeleted, Waiting
    <3>2. /\ d # c /\ candidates[d].version \in VersionId /\ candidates[d].version # v
          /\ versions[candidates[d].version].file = materials[n].file /\ Exists(n)
      BY <1>0, <1>3, <3>1, Confirmed
    <3>3. IsLatest(candidates[d].version)' /\ candidates'[d] = candidates[d]
      BY <1>1, <2>1, <3>1, <3>2
    <3> QED BY <1>2, <3>1, <3>2, <3>3
  <2>2. CASE candidates'[c].material = n /\ State(c)' = "CONFIRMED"
    BY <1>1, <1>4, <2>2
  <2> QED BY <2>1, <2>2
<1>7. CandidateAgreesWithMaterial'
  <2> SUFFICES ASSUME NEW d \in CandidateId, State(d)' \in Settled, IsLatest(candidates[d].version)',
                      candidates'[d].reason # "SOURCE_DELETED"
               PROVE  LET t == materials'[candidates'[d].material].status IN
                      CASE State(d)' = "FAILED" -> t \in {"FAILED", "NEEDS_REVIEW"}
                        [] OTHER -> t = State(d)'
    BY DEF CandidateAgreesWithMaterial
  <2>1. d # c
    BY <1>4
  <2>2. State(d)' = State(d) /\ candidates'[d] = candidates[d]
    BY <1>2, <2>1
  <2>3. /\ candidates[d].version \in VersionId /\ candidates[d].version # v
        /\ candidates[d].material \in MaterialId /\ Exists(candidates[d].material)
        /\ versions[candidates[d].version].file = materials[candidates[d].material].file
    BY <1>0, <1>3, <2>2, Confirmed
  <2>4. IsLatest(candidates[d].version) /\ materials[candidates[d].material].file # f
    BY <1>1, <2>2, <2>3
  <2>5. materials'[candidates[d].material] = materials[candidates[d].material]
    BY <2>3, <2>4
  <2> QED BY <2>2, <2>4, <2>5 DEF WorkTables, CandidateAgreesWithMaterial
<1>8. JobsAreWorked'
  <2> SUFFICES ASSUME NEW w \in VersionId, job'[w] = "PROCESSING"
               PROVE  /\ versions'[w].number > 0
                      /\ ~deleted'[versions'[w].file] => IsLatest(w)' /\ \E d \in LiveFor(w)' : State(d)' \in Busy
    BY DEF JobsAreWorked
  <2>1. versions[w].number > 0
    BY DEF WorkTables, JobsAreWorked
  <2>2. w # v /\ versions'[w] = versions[w]
    BY <2>1
  <2>3. ASSUME ~deleted[versions[w].file]
        PROVE  IsLatest(w)' /\ \E d \in LiveFor(w)' : State(d)' \in Busy
    <3>1. PICK d \in CandidateId : candidates[d].version = w /\ State(d) \in Busy /\ IsLatest(w)
      BY <2>3 DEF WorkTables, JobsAreWorked, LiveFor
    <3>2. d # c /\ candidates[d].material \in MaterialId /\ Exists(candidates[d].material)
          /\ materials[candidates[d].material].file = versions[w].file
      BY <1>0, <1>3, <3>1, Confirmed
    <3>3. versions[w].file # f
      BY <3>1, <3>2
    <3>4. State(d)' \in Busy /\ candidates'[d].version = w /\ Live(d)'
      BY <1>2, <3>1, <3>2, Classes DEF Live
    <3> QED BY <1>1, <2>2, <3>1, <3>3, <3>4 DEF LiveFor
  <2> QED BY <2>1, <2>2, <2>3
<1>9. EvidenceHasMaterial'
  <2>1. ASSUME NEW w \in VersionId, derivative'[w] # "NONE"
        PROVE  versions'[w].number > 0 /\ \E n \in MaterialId : Exists(n)' /\ materials'[n].file = versions'[w].file
    <3>1. PICK n \in MaterialId : Exists(n) /\ materials[n].file = versions[w].file /\ versions[w].number > 0
      BY <2>1 DEF WorkTables, EvidenceHasMaterial
    <3>2. versions'[w] = versions[w]
      BY <3>1
    <3> QED BY <1>5, <3>1, <3>2
  <2>2. ASSUME NEW n \in MaterialId, Exists(n)'
        PROVE  \E w \in VersionId : IsLatest(w)' /\ versions'[w].file = materials'[n].file
    <3>1. CASE materials[n].file = f
      BY <1>1, <1>5, <3>1
    <3>2. CASE materials[n].file # f
      <4>1. PICK w \in VersionId : IsLatest(w) /\ versions[w].file = materials[n].file
        BY <1>5, <2>2 DEF WorkTables, EvidenceHasMaterial
      <4>2. w # v /\ versions'[w] = versions[w]
        BY <4>1 DEF IsLatest
      <4> QED BY <1>1, <1>5, <3>2, <4>1, <4>2
    <3> QED BY <3>1, <3>2
  <2> QED BY <2>1, <2>2 DEF EvidenceHasMaterial
<1> QED BY <1>6, <1>7, <1>8, <1>9 DEF WorkTables

(* What a run reads: its candidate, the newest version and the material.    *)
LEMMA RunRows ==
  ASSUME IndInv, step.pc \in Running
  PROVE  \E c \in CandidateId, v \in VersionId, m \in MaterialId :
           /\ c = step.candidate /\ v = candidates[c].version /\ m = candidates[c].material
           /\ State(c) \in Busy /\ Live(c) /\ IsLatest(v) /\ Exists(m) /\ materials[m].file = versions[v].file
           /\ \A d \in CandidateId :
                (d # c /\ State(d) \in Busy \cup Settled) =>
                   candidates[d].version # v /\ (IsLatest(candidates[d].version) => candidates[d].material # m)
<1>0. TypeOK /\ Structure
  BY DEF IndInv
<1>1. PICK c \in CandidateId : c = step.candidate /\ State(c) \in Busy /\ IsLatest(candidates[c].version)
  BY RunCandidate
<1>2. /\ Live(c) /\ candidates[c].version \in VersionId /\ candidates[c].material \in MaterialId
      /\ Exists(candidates[c].material)
      /\ materials[candidates[c].material].file = versions[candidates[c].version].file
  BY <1>0, <1>1, Confirmed
<1>3. ASSUME NEW d \in CandidateId, d # c, State(d) \in Busy \cup Settled
      PROVE  /\ candidates[d].version # candidates[c].version
             /\ IsLatest(candidates[d].version) => candidates[d].material # candidates[c].material
  <2>1. Live(d)
    BY <1>0, <1>3, Confirmed
  <2> QED BY <1>0, <1>1, <1>2, <1>3, <2>1, OneForMaterial DEF Structure, OneLiveCandidate
<1> QED BY <1>1, <1>2, <1>3

(* _job_start, the claim, normalize_source_version and the final commit.    *)
LEMMA RunTables ==
  ASSUME IndInv, WorkInv, JobStart \/ Claim \/ Normalize \/ Finish
  PROVE  WorkTables'
<1>0. TypeOK /\ Structure /\ WorkTables /\ step.pc \in Running
  BY DEF IndInv, WorkInv, WorkTables, Running, JobStart, Claim, Normalize, Finish
<1>1. PICK c \in CandidateId, v \in VersionId, m \in MaterialId :
           /\ c = step.candidate /\ v = candidates[c].version /\ m = candidates[c].material
           /\ State(c) \in Busy /\ Live(c) /\ IsLatest(v) /\ Exists(m) /\ materials[m].file = versions[v].file
           /\ \A d \in CandidateId :
                (d # c /\ State(d) \in Busy \cup Settled) =>
                   candidates[d].version # v /\ (IsLatest(candidates[d].version) => candidates[d].material # m)
  BY <1>0, RunRows
<1>2. UNCHANGED <<deleted, versions>>
  BY DEF JobStart, Claim, Normalize, Finish
<1>3. \A w \in VersionId : IsLatest(w)' <=> IsLatest(w)
  BY <1>2 DEF IsLatest, VersionsOf
<1>4. /\ candidates'[c].version = v /\ candidates'[c].material = m
      /\ \A d \in CandidateId : d # c => candidates'[d] = candidates[d] /\ State(d)' = State(d)
  <2>1. CASE JobStart \/ Normalize
    BY <1>1, <2>1 DEF JobStart, Normalize, State
  <2>2. CASE Claim
    BY <1>0, <1>1, <2>2 DEF Claim, TypeOK, Candidate, State
  <2>3. CASE Finish
    BY <1>0, <1>1, <2>3 DEF Finish, CandidateTo, CandidateFailed, TypeOK, Candidate, State
  <2> QED BY <2>1, <2>2, <2>3
<1>5. /\ materials'[m].file = materials[m].file
      /\ \A n \in MaterialId : n # m => materials'[n] = materials[n]
  <2>1. CASE JobStart \/ Normalize
    BY <2>1 DEF JobStart, Normalize
  <2>2. CASE Claim \/ Finish
    <3>1. PICK status : materials' = [materials EXCEPT ![m].status = status]
      BY <1>1, <2>2 DEF Claim, Finish, MaterialTo
    <3> QED BY <1>0, <1>1, <3>1 DEF TypeOK, Material
  <2> QED BY <2>1, <2>2
<1>6. \/ State(c)' \in Busy /\ job'[v] \in {job[v], "PROCESSING"}
      \/ /\ State(c)' \in Settled /\ job'[v] \in Settled /\ materials'[m].status \notin Waiting
         /\ State(c)' = "FAILED" => materials'[m].status \in {"FAILED", "NEEDS_REVIEW"}
         /\ State(c)' # "FAILED" => materials'[m].status = State(c)'
  <2>1. CASE JobStart
    BY <1>0, <1>1, <2>1 DEF JobStart, State, TypeOK
  <2>2. CASE Claim
    <3>1. candidates' = [candidates EXCEPT ![c].state = "PROCESSING", ![c].reason = "NONE"] /\ UNCHANGED job
      BY <1>1, <2>2 DEF Claim
    <3>2. State(c)' = "PROCESSING"
      BY <1>0, <3>1 DEF State, TypeOK, Candidate
    <3> QED BY <3>1, <3>2, Classes
  <2>3. CASE Normalize
    BY <1>1, <2>3 DEF Normalize, State
  <2>4. CASE Finish
    <3>1. step.result \in RunStatus
      BY <2>4 DEF IndInv, StepKnows, Finish
    <3>2. State(c)' = FinalState(step.result)
      BY <1>0, <1>1, <2>4 DEF Finish, CandidateTo, CandidateFailed, State, TypeOK, Candidate
    <3>3. materials'[m].status = step.result /\ job'[v] = FinalState(step.result)
      BY <1>0, <1>1, <2>4 DEF Finish, MaterialTo, TypeOK, Material
    <3> QED BY <3>1, <3>2, <3>3 DEF RunStatus, FinalState, Settled, Waiting
  <2> QED BY <2>1, <2>2, <2>3, <2>4
<1>7. \A w \in VersionId : w # v => job'[w] = job[w] /\ derivative'[w] = derivative[w]
  BY <1>0, <1>1 DEF JobStart, Claim, Normalize, Finish, TypeOK
<1>8. NoWorkLost'
  <2> SUFFICES ASSUME NEW n \in MaterialId, materials'[n].status \in Waiting, ~deleted'[materials'[n].file]
               PROVE  \E d \in CandidateId :
                        candidates'[d].material = n /\ State(d)' \in Busy /\ IsLatest(candidates[d].version)'
    BY DEF NoWorkLost, SourceDeleted, Waiting
  <2>1. CASE n = m
    BY <1>1, <1>3, <1>4, <1>6, <2>1
  <2>2. CASE n # m
    <3>1. PICK d \in CandidateId : candidates[d].material = n /\ State(d) \in Busy /\ IsLatest(candidates[d].version)
      BY <1>0, <1>2, <1>5, <2>2 DEF WorkTables, NoWorkLost, SourceDeleted, Waiting
    <3>2. d # c /\ candidates[d].version \in VersionId
      BY <1>0, <1>1, <2>2, <3>1, Confirmed
    <3> QED BY <1>3, <1>4, <3>1, <3>2
  <2> QED BY <2>1, <2>2
<1>9. CandidateAgreesWithMaterial'
  <2> SUFFICES ASSUME NEW d \in CandidateId, State(d)' \in Settled, IsLatest(candidates[d].version)',
                      candidates'[d].reason # "SOURCE_DELETED"
               PROVE  LET t == materials'[candidates'[d].material].status IN
                      CASE State(d)' = "FAILED" -> t \in {"FAILED", "NEEDS_REVIEW"}
                        [] OTHER -> t = State(d)'
    BY DEF CandidateAgreesWithMaterial
  <2>1. CASE d = c
    BY <1>4, <1>6, <2>1, Classes
  <2>2. CASE d # c
    <3>1. candidates'[d] = candidates[d] /\ State(d)' = State(d)
      BY <1>4, <2>2
    <3>2. candidates[d].version \in VersionId /\ candidates[d].material \in MaterialId
      BY <1>0, <3>1, Confirmed
    <3>3. IsLatest(candidates[d].version) /\ candidates[d].material # m
      BY <1>1, <1>3, <2>2, <3>1, <3>2
    <3> QED BY <1>0, <1>5, <3>1, <3>2, <3>3 DEF WorkTables, CandidateAgreesWithMaterial
  <2> QED BY <2>1, <2>2
<1>10. JobsAreWorked'
  <2> SUFFICES ASSUME NEW w \in VersionId, job'[w] = "PROCESSING"
               PROVE  /\ versions'[w].number > 0
                      /\ ~deleted'[versions'[w].file] => IsLatest(w)' /\ \E d \in LiveFor(w)' : State(d)' \in Busy
    BY DEF JobsAreWorked
  <2>1. CASE w = v
    <3>1. State(c)' \in Busy
      BY <1>6, <2>1 DEF Settled
    <3>2. c \in LiveFor(w)'
      BY <1>4, <2>1, <3>1, Classes DEF LiveFor, Live
    <3>3. versions[v].number > 0
      BY <1>1 DEF IsLatest
    <3> QED BY <1>1, <1>2, <1>3, <2>1, <3>1, <3>2, <3>3
  <2>2. CASE w # v
    <3>1. versions[w].number > 0
      BY <1>0, <1>7, <2>2 DEF WorkTables, JobsAreWorked
    <3>2. ASSUME ~deleted[versions[w].file] PROVE IsLatest(w) /\ \E d \in LiveFor(w)' : State(d)' \in Busy
      <4>1. PICK d \in CandidateId : candidates[d].version = w /\ State(d) \in Busy /\ IsLatest(w)
        BY <1>0, <1>7, <2>2, <3>2 DEF WorkTables, JobsAreWorked, LiveFor
      <4>2. d # c
        BY <1>1, <2>2, <4>1
      <4>3. State(d)' \in Busy /\ candidates'[d].version = w /\ Live(d)'
        BY <1>4, <4>1, <4>2, Classes DEF Live
      <4> QED BY <4>1, <4>3 DEF LiveFor
    <3> QED BY <1>2, <1>3, <3>1, <3>2
  <2> QED BY <2>1, <2>2
<1>11. EvidenceHasMaterial'
  <2>1. \A n \in MaterialId : materials'[n].file = materials[n].file /\ (Exists(n)' <=> Exists(n))
    <3>1. Exists(m)'
      <4>1. CASE Claim
        BY <1>0, <1>1, <4>1 DEF Claim, MaterialTo, Exists, TypeOK, Material
      <4>2. CASE Finish
        <5>1. step.result \in RunStatus
          BY <4>2 DEF IndInv, StepKnows, Finish
        <5> QED BY <1>0, <1>1, <4>2, <5>1 DEF Finish, MaterialTo, Exists, TypeOK, Material, RunStatus
      <4>3. CASE JobStart \/ Normalize
        BY <1>1, <4>3 DEF JobStart, Normalize, Exists
      <4> QED BY <4>1, <4>2, <4>3
    <3> QED BY <1>1, <1>5, <3>1 DEF Exists
  <2>2. versions[v].number > 0
    BY <1>1 DEF IsLatest
  <2> QED BY <1>0, <1>1, <1>2, <1>3, <1>7, <2>1, <2>2 DEF WorkTables, EvidenceHasMaterial
<1> QED BY <1>8, <1>9, <1>10, <1>11 DEF WorkTables

LEMMA TablesStep == IndInv /\ WorkInv /\ [Next]_vars => WorkTables'
<1> SUFFICES ASSUME IndInv, WorkInv, [Next]_vars PROVE WorkTables'
  OBVIOUS
<1>0. TypeOK /\ Structure /\ StepKnows /\ WorkTables
  BY DEF IndInv, WorkInv, WorkTables
<1>1. ASSUME UNCHANGED <<versions, derivative, job, materials, candidates>>, \A f \in FileId : deleted[f] => deleted'[f]
      PROVE  WorkTables'
  BY <1>0, <1>1, QuietTables
<1>2. ASSUME NEW c \in CandidateId, State(c) \notin Busy, State(c)' \notin Settled,
             \A d \in CandidateId : d # c => candidates'[d] = candidates[d],
             UNCHANGED <<deleted, versions, derivative, job, materials>>
      PROVE  WorkTables'
  BY <1>0, <1>2, QuietTables
<1>3. ASSUME NEW c \in CandidateId, State(c) \in Busy, State(c)' \in Busy,
             candidates'[c].version = candidates[c].version, candidates'[c].material = candidates[c].material,
             \A d \in CandidateId : d # c => candidates'[d] = candidates[d],
             UNCHANGED <<deleted, versions, derivative, job, materials>>
      PROVE  WorkTables'
  BY <1>0, <1>3, QuietTables
<1>4. ASSUME NEW c \in CandidateId, NEW s, candidates' = CandidateTo(c, s)
      PROVE  /\ State(c)' = s /\ candidates'[c].version = candidates[c].version
             /\ candidates'[c].material = candidates[c].material
             /\ \A d \in CandidateId : d # c => candidates'[d] = candidates[d]
  BY <1>0, <1>4 DEF CandidateTo, State, TypeOK, Candidate
<1>5. ASSUME NEW c \in CandidateId, NEW s, s \in Unsettled \cup NotLive, State(c) \notin Busy, candidates' = CandidateTo(c, s),
             UNCHANGED <<deleted, versions, derivative, job, materials>>
      PROVE  WorkTables'
  BY <1>2, <1>4, <1>5, Classes
<1>6. ASSUME NEW h \in Content, ReceiveNew(h) PROVE WorkTables'
  <2>1. PICK c \in CandidateId, v \in VersionId, f \in FileId :
          /\ NextCandidate(c) /\ NextVersion(v) /\ NextFile(f)
          /\ versions' = [versions EXCEPT ![v] = [file |-> f, number |-> 1, hash |-> h]]
          /\ candidates' = [candidates EXCEPT ![c] = [NoCandidate EXCEPT !.state = "RECEIVED", !.version = v]]
    BY <1>6 DEF ReceiveNew
  <2>2. State(c) = "NONE" /\ versions[v].number = 0
    BY <2>1 DEF NextCandidate, NextVersion
  <2>3. /\ candidates'[c].version = v /\ State(c)' = "RECEIVED"
        /\ \A d \in CandidateId : d # c => candidates'[d] = candidates[d]
    BY <1>0, <2>1 DEF TypeOK, NoCandidate, State
  <2>4. UNCHANGED <<materials, deleted, derivative, job>>
    BY <1>6 DEF ReceiveNew
  <2>5. /\ versions'[v].file = f /\ versions'[v].number = 1
        /\ \A w \in VersionId : w # v => versions'[w] = versions[w]
    BY <1>0, <2>1 DEF TypeOK
  <2>6. \A w \in VersionsOf(f) : versions[w].number < 1
    BY <2>1 DEF NextFile
  <2>7. ASSUME NEW n \in MaterialId, Exists(n) PROVE materials[n].file # f
    <3>1. PICK d \in CandidateId : candidates[d].material = n
      BY <1>0, <2>7 DEF Structure, MaterialRows
    <3>2. candidates[d].version \in VersionsOf(materials[n].file)
      BY <1>0, <3>1 DEF Structure, CandidateRows, VersionOf, VersionsOf, MaterialId
    <3> QED BY <2>1, <3>2 DEF NextFile
  <2>8. \A n \in MaterialId : materials'[n] = materials[n] /\ (Exists(n) => materials[n].file # f)
    BY <2>4, <2>7
  <2> QED BY <1>0, <2>2, <2>3, <2>4, <2>5, <2>6, <2>8, InsertTables
<1>7. ASSUME NEW h \in Content, ReceiveKnown(h) PROVE WorkTables'
  <2>1. PICK c \in CandidateId, v \in Stored(h) :
          /\ NextCandidate(c)
          /\ candidates' = [candidates EXCEPT ![c] =
               IF LiveFor(v) # {}
                 THEN [NoCandidate EXCEPT !.state = "DUPLICATE", !.version = v, !.reason = "DUPLICATE_CONTENT"]
                 ELSE [NoCandidate EXCEPT !.state = "RECEIVED", !.version = v]]
    BY <1>7 DEF ReceiveKnown
  <2>2. State(c) = "NONE" /\ State(c)' \in {"DUPLICATE", "RECEIVED"}
    BY <1>0, <2>1 DEF NextCandidate, TypeOK, NoCandidate, State
  <2>3. \A d \in CandidateId : d # c => candidates'[d] = candidates[d]
    BY <1>0, <2>1 DEF TypeOK
  <2>4. State(c) \notin Busy /\ State(c)' \notin Settled
    BY <2>2 DEF Busy, Runnable, Settled
  <2> QED BY <1>2, <1>7, <2>3, <2>4 DEF ReceiveKnown
<1>8. CASE ReceiveUnsupported
  <2>1. PICK c \in CandidateId :
          /\ NextCandidate(c)
          /\ candidates' = [candidates EXCEPT ![c] = [NoCandidate EXCEPT !.state = "UNSUPPORTED", !.reason = "UNSUPPORTED"]]
    BY <1>8 DEF ReceiveUnsupported
  <2>2. State(c) = "NONE" /\ State(c)' = "UNSUPPORTED"
    BY <1>0, <2>1 DEF NextCandidate, TypeOK, NoCandidate, State
  <2>3. \A d \in CandidateId : d # c => candidates'[d] = candidates[d]
    BY <1>0, <2>1 DEF TypeOK
  <2>4. State(c) \notin Busy /\ State(c)' \notin Settled
    BY <2>2 DEF Busy, Runnable, Settled
  <2> QED BY <1>2, <1>8, <2>3, <2>4 DEF ReceiveUnsupported
<1>9. ASSUME NEW c \in CandidateId, NEW b \in BOOLEAN, ClassifyBegin(c, b) PROVE WorkTables'
  <2>1. State(c) \notin Busy /\ "CLASSIFYING" \in Unsettled
    BY <1>9 DEF ClassifyBegin, Busy, Runnable, Unsettled
  <2> QED BY <1>5, <1>9, <2>1 DEF ClassifyBegin
<1>10. CASE ClassifyAuto
  <2>1. step.candidate \in CandidateId /\ State(step.candidate) \in Unsettled
    BY <1>0, <1>10 DEF ClassifyAuto, StepKnows, Unsettled
  <2>2. PICK m \in MaterialId :
          /\ NextMaterial(m)
          /\ materials' = [materials EXCEPT ![m] = [file |-> VersionOf(step.candidate).file, status |-> "PENDING"]]
          /\ candidates' = [candidates EXCEPT ![step.candidate].state = "AUTO_CONFIRMED", ![step.candidate].material = m]
    BY <1>10 DEF ClassifyAuto
  <2> QED BY <1>0, <1>10, <2>1, <2>2, ConfirmTables DEF ClassifyAuto, NextMaterial, Exists
<1>11. ASSUME NEW c \in CandidateId, Confirm(c) PROVE WorkTables'
  <2>1. PICK m \in MaterialId :
          /\ NextMaterial(m)
          /\ materials' = [materials EXCEPT ![m] = [file |-> VersionOf(c).file, status |-> "PENDING"]]
          /\ candidates' = [candidates EXCEPT ![c].state = "CONFIRMED", ![c].material = m]
    BY <1>11 DEF Confirm
  <2>2. State(c) \in Unsettled /\ UNCHANGED <<deleted, versions, derivative, job>>
    BY <1>11 DEF Confirm, Unsettled
  <2> QED BY <1>0, <2>1, <2>2, ConfirmTables DEF NextMaterial, Exists
<1>12. CASE ClassifyReview
  <2>1. step.candidate \in CandidateId /\ State(step.candidate) \notin Busy /\ "NEEDS_REVIEW" \in Unsettled
    BY <1>0, <1>12 DEF ClassifyReview, StepKnows, Unsettled, Busy, Runnable
  <2> QED BY <1>5, <1>12, <2>1 DEF ClassifyReview
<1>13. ASSUME NEW c \in CandidateId, Dismiss(c) PROVE WorkTables'
  <2>1. State(c) \notin Busy /\ "DISMISSED" \in NotLive
    BY <1>13 DEF Dismiss, MayMove, IntakeTransition, Busy, Runnable, NotLive
  <2> QED BY <1>5, <1>13, <2>1 DEF Dismiss
<1>14. ASSUME NEW c \in CandidateId, Retry(c) PROVE WorkTables'
  <2>1. State(c)' = "QUEUED" /\ "QUEUED" \in Busy /\ "QUEUED" \notin Settled
    BY <1>4, <1>14 DEF Retry, Busy, Runnable, Settled
  <2> QED BY <1>2, <1>3, <1>4, <1>14, <2>1 DEF Retry
<1>15. CASE ReplaceCommit
  <2>1. /\ step.material \in MaterialId /\ Exists(step.material) /\ step.hash \in Content
        /\ \A d \in CandidateId : candidates[d].material = step.material => State(d) \notin Busy
    BY <1>0, <1>15 DEF ReplaceCommit, StepKnows, WorkInv, PassKnows
  <2> DEFINE f == materials[step.material].file
  <2>2. PICK v \in VersionId, u \in VersionsOf(f), c \in CandidateId :
       /\ NextVersion(v) /\ IsLatest(u) /\ NextCandidate(c)
       /\ versions' = [versions EXCEPT ![v] = [file |-> f, number |-> versions[u].number + 1, hash |-> step.hash]]
       /\ candidates' = [candidates EXCEPT ![c] =
            [NoCandidate EXCEPT !.state = "CONFIRMED", !.version = v,
                                !.material = step.material, !.replaces = step.material]]
    BY <1>15 DEF ReplaceCommit
  <2>3. State(c) = "NONE" /\ versions[v].number = 0
    BY <2>2 DEF NextCandidate, NextVersion
  <2>4. /\ candidates'[c].version = v /\ State(c)' = "CONFIRMED" /\ candidates'[c].material = step.material
        /\ \A d \in CandidateId : d # c => candidates'[d] = candidates[d]
    BY <1>0, <2>2 DEF TypeOK, NoCandidate, State
  <2>5. u \in VersionId /\ versions[u].number \in Nat /\ versions[u].number > 0 /\ f = versions[u].file
    BY <1>0 DEF VersionsOf, TypeOK, Version
  <2>6. f \in FileId
    BY <1>0, <2>5 DEF Structure, VersionRows
  <2>7. /\ versions'[v].file = f /\ versions'[v].number = versions[u].number + 1
        /\ \A w \in VersionId : w # v => versions'[w] = versions[w]
    BY <1>0, <2>2 DEF TypeOK
  <2>8. \A w \in VersionsOf(f) : versions[w].number < versions[u].number + 1
    BY <1>0, <2>2, <2>5 DEF IsLatest, VersionsOf, TypeOK, Version
  <2>9. /\ materials'[step.material].file = f /\ materials'[step.material].status = "PENDING"
        /\ \A n \in MaterialId : n # step.material => materials'[n] = materials[n]
    BY <1>0, <1>15, <2>1 DEF ReplaceCommit, MaterialTo, TypeOK, Material
  <2>10. \A n \in MaterialId : n # step.material /\ Exists(n) => materials[n].file # f
    BY <1>0, <2>1 DEF Structure, OneMaterialPerSource
  <2>11. UNCHANGED <<deleted, derivative, job>>
    BY <1>15 DEF ReplaceCommit
  <2>12. \A n \in MaterialId :
           \/ materials'[n] = materials[n] /\ (Exists(n) => materials[n].file # f)
           \/ /\ Exists(n) /\ materials'[n].file = f /\ materials[n].file = f
              /\ materials'[n].status = "PENDING"
              /\ candidates'[c].material = n /\ State(c)' = "CONFIRMED"
              /\ \A d \in CandidateId : candidates[d].material = n => State(d) \notin Busy
    BY <2>1, <2>4, <2>9, <2>10
  <2>13. /\ versions'[v].number \in Nat /\ versions'[v].number > 0
         /\ \A w \in VersionsOf(f) : versions[w].number < versions'[v].number
    BY <2>5, <2>7, <2>8
  <2> HIDE DEF f
  <2> QED BY <1>0, <2>3, <2>4, <2>6, <2>7, <2>11, <2>12, <2>13, InsertTables
<1>16. ASSUME NEW c \in CandidateId, ProcessDeleted(c) \/ ProcessSuperseded(c) PROVE WorkTables'
  <2>1. State(c) \in Busy /\ UNCHANGED <<deleted, versions, derivative, job, materials>>
    BY <1>16, Classes DEF ProcessDeleted, ProcessSuperseded
  <2>2. PICK why \in Reason :
          /\ candidates' = CandidateFailed(c, why)
          /\ (why = "SOURCE_DELETED" /\ deleted[VersionOf(c).file]) \/ Superseded(candidates[c].version)
    BY <1>16, Names DEF ProcessDeleted, ProcessSuperseded
  <2>3. /\ candidates'[c].version = candidates[c].version /\ candidates'[c].material = candidates[c].material
        /\ candidates'[c].reason = why /\ \A d \in CandidateId : d # c => candidates'[d] = candidates[d]
    BY <1>0, <2>2 DEF CandidateFailed, TypeOK, Candidate
  <2>4. candidates[c].version \in VersionId
    BY <1>0, <2>1, Confirmed
  <2>5. Superseded(candidates[c].version) => ~IsLatest(candidates[c].version)
    BY <1>0, <2>4 DEF Superseded, IsLatest, VersionsOf, TypeOK, Version
  <2> QED BY <1>0, <2>1, <2>2, <2>3, <2>5, QuietTables
<1>17. CASE JobStart \/ Claim \/ Normalize \/ Finish
  BY <1>17, RunTables
<1>18. ASSUME NEW c \in CandidateId, Recover(c) PROVE WorkTables'
  <2>1. CASE State(c) = "PROCESSING"
    <3>1. State(c)' = "QUEUED" /\ "QUEUED" \in Busy
      BY <1>4, <1>18, <2>1 DEF Recover, RecoveredState, Busy, Runnable
    <3> QED BY <1>3, <1>4, <1>18, <2>1, <3>1, Classes DEF Recover
  <2>2. CASE State(c) # "PROCESSING"
    <3>1. State(c) \notin Busy /\ "RECEIVED" \in Unsettled /\ candidates' = CandidateTo(c, "RECEIVED")
      BY <1>18, <2>2 DEF Recover, RecoveredState, Orphans, Busy, Runnable, Unsettled
    <3> QED BY <1>5, <1>18, <3>1 DEF Recover
  <2> QED BY <2>1, <2>2
<1>19. ASSUME NEW m \in MaterialId, Delete(m) PROVE WorkTables'
  BY <1>0, <1>1, <1>19 DEF Delete, TypeOK
<1>20. ASSUME NEW m \in MaterialId, NEW h \in Content, ReplaceBegin(m, h) PROVE WorkTables'
  BY <1>1, <1>20 DEF ReplaceBegin, tables
<1>21. ASSUME NEW c \in CandidateId, ProcessBegin(c) \/ WorkerClassifySkip(c) PROVE WorkTables'
  BY <1>1, <1>21 DEF ProcessBegin, WorkerClassifySkip, tables
<1>22. CASE ReplaceRefused \/ RecoverBegin \/ RecoverEnd \/ Start \/ StepFails \/ Crash
  BY <1>1, <1>22 DEF ReplaceRefused, RecoverBegin, RecoverEnd, Start, StepFails, Crash, tables
<1>23. CASE PassMoves \/ UNCHANGED vars
  BY <1>1, <1>23 DEF PassMoves, PassBegin, PassProcess, PassEnd, vars, tables
<1> QED
  BY <1>6, <1>7, <1>8, <1>9, <1>10, <1>11, <1>12, <1>13, <1>14, <1>15, <1>16, <1>17, <1>18, <1>19, <1>20, <1>21,
     <1>22, <1>23
     DEF Next, UserStep, WorkerAcquires, StepRuns, UserClassify, WorkerClassify

-----------------------------------------------------------------------------
(* The worker's list and the step that holds the lock *)

LEMMA ListStep == IndInv /\ WorkInv /\ [Next]_vars => PassListIsRunnable'
<1> SUFFICES ASSUME IndInv, WorkInv, [Next]_vars PROVE PassListIsRunnable'
  OBVIOUS
<1>0. TypeOK /\ Structure /\ StepKnows /\ PassKnows /\ PassListIsRunnable
  BY DEF IndInv, WorkInv
<1>1. ASSUME worker' = worker \/ (\E c \in CandidateId : worker' = Done(c)) \/ worker'.at # "process",
             \A d \in CandidateId : d \in worker'.todo /\ State(d) \in Runnable => State(d)' \in Runnable
      PROVE  PassListIsRunnable'
  <2>1. ASSUME NEW c \in CandidateId, worker' = Done(c)
        PROVE  worker'.at = worker.at /\ worker'.todo = worker.todo \ {c}
    BY <1>0, <2>1 DEF Done, TypeOK, Worker
  <2>2. worker'.at = "process" => worker.at = "process" /\ worker'.todo \subseteq worker.todo
    BY <1>1, <2>1
  <2>3. worker'.at = "process" => \A d \in worker'.todo : d \in CandidateId
    BY <1>0, <2>2 DEF TypeOK, Worker
  <2> QED BY <1>0, <1>1, <2>2, <2>3 DEF PassListIsRunnable
<1>2. ASSUME NEW c \in CandidateId, State(c) \notin Runnable,
             \A d \in CandidateId : d # c => candidates'[d] = candidates[d]
      PROVE  \A d \in CandidateId : State(d) \in Runnable => State(d)' \in Runnable
  BY <1>2 DEF State
<1>3. ASSUME UNCHANGED candidates
      PROVE  \A d \in CandidateId : State(d) \in Runnable => State(d)' \in Runnable
  BY <1>3 DEF State
<1>4. ASSUME NEW c \in CandidateId, NEW s, candidates' = CandidateTo(c, s)
      PROVE  State(c)' = s /\ \A d \in CandidateId : d # c => candidates'[d] = candidates[d]
  BY <1>0, <1>4 DEF CandidateTo, State, TypeOK, Candidate
<1>5. ASSUME \E h \in Content : ReceiveNew(h) \/ ReceiveKnown(h) PROVE PassListIsRunnable'
  <2>1. PICK c \in CandidateId :
          /\ NextCandidate(c) /\ UNCHANGED worker
          /\ \A d \in CandidateId : d # c => candidates'[d] = candidates[d]
    BY <1>0, <1>5 DEF ReceiveNew, ReceiveKnown, TypeOK
  <2>2. State(c) \notin Runnable
    BY <2>1 DEF NextCandidate, Runnable
  <2> QED BY <1>1, <1>2, <2>1, <2>2
<1>6. CASE ReceiveUnsupported \/ ReplaceCommit
  <2>1. PICK c \in CandidateId :
          /\ NextCandidate(c) /\ UNCHANGED worker
          /\ \A d \in CandidateId : d # c => candidates'[d] = candidates[d]
    BY <1>0, <1>6 DEF ReceiveUnsupported, ReplaceCommit, TypeOK
  <2>2. State(c) \notin Runnable
    BY <2>1 DEF NextCandidate, Runnable
  <2> QED BY <1>1, <1>2, <2>1, <2>2
<1>7. ASSUME NEW c \in CandidateId, UserClassify(c) \/ WorkerClassify(c) PROVE PassListIsRunnable'
  <2>1. State(c) \notin Runnable /\ candidates' = CandidateTo(c, "CLASSIFYING") /\ (worker' = worker \/ worker' = Done(c))
    BY <1>7 DEF UserClassify, WorkerClassify, ClassifyBegin, Runnable
  <2> QED BY <1>1, <1>2, <1>4, <2>1
<1>8. CASE ClassifyAuto \/ ClassifyReview
  <2>1. step.candidate \in CandidateId /\ State(step.candidate) \notin Runnable /\ UNCHANGED worker
    BY <1>0, <1>8 DEF ClassifyAuto, ClassifyReview, StepKnows, Runnable
  <2>2. \A d \in CandidateId : d # step.candidate => candidates'[d] = candidates[d]
    <3>1. CASE ClassifyAuto
      BY <1>0, <3>1 DEF ClassifyAuto, TypeOK
    <3>2. CASE ClassifyReview
      BY <1>4, <2>1, <3>2 DEF ClassifyReview
    <3> QED BY <1>8, <3>1, <3>2
  <2> QED BY <1>1, <1>2, <2>1, <2>2
<1>9. ASSUME NEW c \in CandidateId, Confirm(c) PROVE PassListIsRunnable'
  <2>1. State(c) \notin Runnable /\ UNCHANGED worker
    BY <1>9 DEF Confirm, Runnable
  <2>2. \A d \in CandidateId : d # c => candidates'[d] = candidates[d]
    BY <1>0, <1>9 DEF Confirm, TypeOK
  <2> QED BY <1>1, <1>2, <2>1, <2>2
<1>10. ASSUME NEW c \in CandidateId, Dismiss(c) PROVE PassListIsRunnable'
  <2>1. State(c) \notin Runnable /\ UNCHANGED worker /\ candidates' = CandidateTo(c, "DISMISSED")
    BY <1>10 DEF Dismiss, MayMove, IntakeTransition, Runnable
  <2> QED BY <1>1, <1>2, <1>4, <2>1
<1>11. ASSUME NEW c \in CandidateId, Retry(c) PROVE PassListIsRunnable'
  <2>1. UNCHANGED worker /\ candidates' = CandidateTo(c, "QUEUED") /\ "QUEUED" \in Runnable
    BY <1>11 DEF Retry, Runnable
  <2>2. \A d \in CandidateId : State(d) \in Runnable => State(d)' \in Runnable
    BY <1>4, <2>1 DEF State
  <2> QED BY <1>1, <2>1, <2>2
<1>12. ASSUME NEW c \in CandidateId, ProcessDeleted(c) \/ ProcessSuperseded(c) PROVE PassListIsRunnable'
  <2>1. worker' = Done(c) /\ \A d \in CandidateId : d # c => candidates'[d] = candidates[d]
    BY <1>0, <1>12 DEF ProcessDeleted, ProcessSuperseded, CandidateFailed, TypeOK
  <2>2. c \notin worker'.todo
    BY <1>0, <2>1 DEF Done, TypeOK, Worker
  <2> QED BY <1>1, <2>1, <2>2 DEF State
<1>13. CASE Claim
  <2>1. step.candidate \in CandidateId /\ step.candidate \notin worker'.todo /\ UNCHANGED worker
    BY <1>0, <1>13 DEF Claim, StepKnows, PassKnows, Running
  <2>2. \A d \in CandidateId : d # step.candidate => candidates'[d] = candidates[d]
    BY <1>0, <1>13 DEF Claim, TypeOK
  <2> QED BY <1>1, <2>1, <2>2 DEF State
<1>14. CASE Finish
  <2>1. step.candidate \in CandidateId /\ State(step.candidate) \notin Runnable /\ UNCHANGED worker
    BY <1>0, <1>14 DEF Finish, StepKnows, Runnable
  <2>2. \A d \in CandidateId : d # step.candidate => candidates'[d] = candidates[d]
    BY <1>0, <1>14, <2>1 DEF Finish, CandidateTo, CandidateFailed, TypeOK
  <2> QED BY <1>1, <1>2, <2>1, <2>2
<1>15. ASSUME NEW c \in CandidateId, Recover(c) PROVE PassListIsRunnable'
  <2>1. State(c) \notin Runnable /\ UNCHANGED worker /\ candidates' = CandidateTo(c, RecoveredState(c))
    BY <1>15 DEF Recover, Orphans, Runnable
  <2> QED BY <1>1, <1>2, <1>4, <2>1
<1>16. ASSUME NEW c \in CandidateId, ProcessBegin(c) \/ WorkerClassifySkip(c) PROVE PassListIsRunnable'
  <2>1. worker' = Done(c) /\ UNCHANGED candidates
    BY <1>16 DEF ProcessBegin, WorkerClassifySkip, tables
  <2> QED BY <1>1, <1>3, <2>1
<1>17. ASSUME NEW m \in MaterialId, Delete(m) \/ \E h \in Content : ReplaceBegin(m, h) PROVE PassListIsRunnable'
  BY <1>1, <1>3, <1>17 DEF Delete, ReplaceBegin, tables
<1>18. CASE ReplaceRefused \/ RecoverBegin \/ RecoverEnd \/ JobStart \/ Normalize
  <2>1. UNCHANGED candidates
    BY <1>18 DEF ReplaceRefused, RecoverBegin, RecoverEnd, JobStart, Normalize, tables
  <2>2. worker' = worker \/ worker'.at = "idle"
    <3>1. CASE RecoverEnd
      BY <3>1 DEF RecoverEnd
    <3>2. CASE ReplaceRefused \/ RecoverBegin \/ JobStart \/ Normalize
      BY <3>2 DEF ReplaceRefused, RecoverBegin, JobStart, Normalize
    <3> QED BY <1>18, <3>1, <3>2
  <2> QED BY <1>1, <1>3, <2>1, <2>2
<1>19. CASE Start \/ StepFails \/ Crash
  BY <1>1, <1>3, <1>19 DEF Start, StepFails, Crash, tables
<1>20. CASE PassMoves
  <2>1. CASE PassProcess
    BY <2>1 DEF PassProcess, PassListIsRunnable, ProcessList, State, tables
  <2> QED BY <1>1, <1>3, <1>20, <2>1 DEF PassMoves, PassBegin, PassEnd, tables
<1>21. CASE UNCHANGED vars
  BY <1>1, <1>3, <1>21 DEF vars, tables
<1> QED
  BY <1>5, <1>6, <1>7, <1>8, <1>9, <1>10, <1>11, <1>12, <1>13, <1>14, <1>15, <1>16, <1>17, <1>18, <1>19, <1>20, <1>21
     DEF Next, UserStep, WorkerAcquires, StepRuns

LEMMA PassStep == IndInv /\ WorkInv /\ [Next]_vars => PassKnows'
<1> SUFFICES ASSUME IndInv, WorkInv, [Next]_vars PROVE PassKnows'
  OBVIOUS
<1>0. TypeOK /\ Structure /\ StepKnows /\ PassKnows
  BY DEF IndInv, WorkInv
<1>1. ASSUME step'.pc \in {"idle", "recover", "classify"} PROVE PassKnows'
  BY <1>1 DEF PassKnows, Running
<1>2. ASSUME LockFree, UNCHANGED step PROVE PassKnows'
  BY <1>1, <1>2 DEF LockFree
<1>3. ASSUME step' = NoStep PROVE PassKnows'
  BY <1>1, <1>3 DEF NoStep
<1>4. ASSUME UNCHANGED <<versions, derivative, candidates, materials, step>>,
             worker' = worker \/ worker.at # "process" \/ ~step.byWorker
      PROVE  PassKnows'
  BY <1>0, <1>4 DEF PassKnows, Running, State
<1>5. CASE UserStep
  <2>1. ASSUME NEW c \in CandidateId, UserClassify(c) PROVE PassKnows'
    BY <1>1, <2>1 DEF UserClassify, ClassifyBegin, NoStep
  <2>2. ASSUME NEW m \in MaterialId, NEW h \in Content, ReplaceBegin(m, h) PROVE PassKnows'
    <3>1. step'.pc = "replace" /\ step'.material = m /\ UNCHANGED candidates
      BY <2>2 DEF ReplaceBegin, NoStep, tables
    <3>2. \A c \in CandidateId : candidates[c].material = m => State(c) \notin Busy
      BY <2>2 DEF ReplaceBegin
    <3> QED BY <3>1, <3>2 DEF PassKnows, Running, State
  <2>3. ASSUME NEW m \in MaterialId, Delete(m) PROVE PassKnows'
    BY <1>4, <2>3 DEF Delete
  <2> QED BY <1>2, <1>5, <2>1, <2>2, <2>3
          DEF UserStep, ReceiveNew, ReceiveKnown, ReceiveUnsupported, Confirm, Dismiss, Retry
<1>6. CASE WorkerAcquires
  <2>1. ASSUME NEW c \in CandidateId, WorkerClassify(c) PROVE PassKnows'
    BY <1>1, <2>1 DEF WorkerClassify, ClassifyBegin, NoStep
  <2>2. ASSUME NEW c \in CandidateId, ProcessBegin(c) PROVE PassKnows'
    <3>1. step'.pc = "job" /\ step'.candidate = c /\ step'.byWorker
      BY <2>2 DEF ProcessBegin, NoStep
    <3>2. worker'.at = "process" /\ c \notin worker'.todo
      BY <1>0, <2>2 DEF ProcessBegin, Turn, Done, TypeOK, Worker
    <3> QED BY <3>1, <3>2 DEF PassKnows
  <2>3. CASE RecoverBegin
    BY <1>1, <2>3 DEF RecoverBegin, NoStep
  <2>4. ASSUME NEW c \in CandidateId, WorkerClassifySkip(c) \/ ProcessDeleted(c) \/ ProcessSuperseded(c) PROVE PassKnows'
    BY <1>2, <2>4 DEF WorkerClassifySkip, ProcessDeleted, ProcessSuperseded, Turn
  <2> QED BY <1>6, <2>1, <2>2, <2>3, <2>4 DEF WorkerAcquires
<1>7. CASE JobStart
  <2>1. step.pc \in Running /\ step' = [step EXCEPT !.pc = "claim"] /\ UNCHANGED worker
    BY <1>7 DEF JobStart, Running
  <2>2. step'.pc = "claim" /\ step'.candidate = step.candidate /\ step'.byWorker = step.byWorker
    BY <1>0, <2>1 DEF TypeOK, Step
  <2> QED BY <1>0, <2>1, <2>2 DEF PassKnows
<1>8. CASE Claim
  <2>1. step.pc \in Running /\ step' = [step EXCEPT !.pc = "normalize"] /\ UNCHANGED worker
    BY <1>8 DEF Claim, Running
  <2>2. step'.pc = "normalize" /\ step'.candidate = step.candidate /\ step'.byWorker = step.byWorker
    BY <1>0, <2>1 DEF TypeOK, Step
  <2>3. PICK c \in CandidateId, m \in MaterialId : c = step.candidate /\ m = candidates[c].material
    BY <2>1, RunRows
  <2>4. /\ candidates' = [candidates EXCEPT ![c].state = "PROCESSING", ![c].reason = "NONE"]
        /\ materials' = [materials EXCEPT ![m].status = "PROCESSING"]
    BY <1>8, <2>3 DEF Claim, MaterialTo
  <2>5. candidates'[c].material = m
    BY <1>0, <2>3, <2>4 DEF TypeOK, Candidate
  <2>6. materials'[m].status = "PROCESSING"
    BY <1>0, <2>4 DEF TypeOK, Material
  <2> QED BY <1>0, <2>1, <2>2, <2>3, <2>5, <2>6 DEF PassKnows
<1>9. CASE Normalize
  <2>1. PICK c \in CandidateId, v \in VersionId :
          /\ c = step.candidate /\ v = candidates[c].version
          /\ step.pc \in Running /\ UNCHANGED <<worker, candidates, materials>>
    BY <1>9, RunRows DEF Normalize, Running
  <2>2. PICK r \in RunStatus :
          /\ step' = [step EXCEPT !.pc = "finish", !.result = r]
          /\ r \in Evidence!Allowed(derivative'[v])
    <3>1. CASE derivative[v] # "NONE"
      <4>1. derivative[v] \in {"COMPLETE", "PARTIAL"}
        BY <1>0, <3>1 DEF TypeOK
      <4>2. /\ step' = [step EXCEPT !.pc = "finish", !.result = IF derivative[v] = "COMPLETE" THEN "READY" ELSE "PARTIAL"]
            /\ derivative' = derivative
        BY <1>9, <2>1, <3>1 DEF Normalize
      <4>3. "READY" \in Evidence!Allowed("COMPLETE") /\ "PARTIAL" \in Evidence!Allowed("PARTIAL")
        BY DEF Evidence!Allowed
      <4>4. CASE derivative[v] = "COMPLETE"
        BY <4>2, <4>3, <4>4, Names
      <4>5. CASE derivative[v] = "PARTIAL"
        BY <4>2, <4>3, <4>5, Names
      <4> QED BY <4>1, <4>4, <4>5
    <3>2. CASE derivative[v] = "NONE"
      <4>1. PICK o \in NormalizeOutcome :
              derivative' = [derivative EXCEPT ![v] = o[2]] /\ step' = [step EXCEPT !.pc = "finish", !.result = o[1]]
        BY <1>9, <2>1, <3>2 DEF Normalize
      <4>2. derivative'[v] = o[2]
        BY <1>0, <4>1 DEF TypeOK
      <4>3. o[1] \in RunStatus /\ o[1] \in Evidence!Allowed(o[2])
        BY DEF NormalizeOutcome, RunStatus, Evidence!Allowed
      <4> QED BY <4>1, <4>2, <4>3
    <3> QED BY <3>1, <3>2
  <2>3. step'.pc = "finish" /\ step'.candidate = c /\ step'.byWorker = step.byWorker /\ step'.result = r
    BY <1>0, <2>1, <2>2 DEF TypeOK, Step
  <2>4. materials[candidates[c].material].status = "PROCESSING"
    BY <1>0, <1>9, <2>1 DEF PassKnows, Normalize
  <2> QED BY <1>0, <2>1, <2>2, <2>3, <2>4 DEF PassKnows
<1>10. CASE ClassifyAuto \/ ClassifyReview \/ ReplaceCommit \/ ReplaceRefused \/ Finish \/ RecoverEnd \/ StepFails \/ Crash
  BY <1>3, <1>10 DEF ClassifyAuto, ClassifyReview, ReplaceCommit, ReplaceRefused, Finish, RecoverEnd, StepFails, Crash
<1>11. ASSUME NEW c \in CandidateId, Recover(c) PROVE PassKnows'
  BY <1>1, <1>11 DEF Recover
<1>12. CASE PassMoves \/ Start \/ UNCHANGED vars
  BY <1>4, <1>12 DEF PassMoves, PassBegin, PassProcess, PassEnd, Start, vars, tables
<1> QED
  BY <1>5, <1>6, <1>7, <1>8, <1>9, <1>10, <1>11, <1>12 DEF Next, StepRuns

-----------------------------------------------------------------------------
(* The theorems *)

LEMMA WorkInit == Init => WorkInv
<1> SUFFICES ASSUME Init PROVE WorkInv
  OBVIOUS
<1>1. /\ \A v \in VersionId : derivative[v] = "NONE" /\ job[v] = "NONE"
      /\ \A c \in CandidateId : State(c) = "NONE"
      /\ \A m \in MaterialId : materials[m].status = "NONE"
      /\ step.pc = "idle" /\ worker.at = "down"
  BY DEF Init, NoCandidate, NoMaterial, NoStep, State
<1> QED BY <1>1
        DEF WorkInv, PassKnows, PassListIsRunnable, NoWorkLost, CandidateAgreesWithMaterial, JobsAreWorked,
            EvidenceHasMaterial, Exists, Running, Settled

(* The tables, the step and the worker's pass stay in agreement in every    *)
(* behaviour of the intake, whatever users, deletions and crashes interrupt. *)
THEOREM WorkInvariance == Spec => [](IndInv /\ WorkInv)
<1>1. Init => WorkInv
  BY WorkInit
<1>2. IndInv /\ WorkInv /\ [Next]_vars => WorkInv'
  BY TablesStep, ListStep, PassStep DEF WorkInv, WorkTables
<1> QED BY <1>1, <1>2, Inductive, PTL DEF Spec

(* No material waits for a run that nobody will start: classify(), confirm(), *)
(* replace(), process() and recover() leave it a busy candidate of the newest *)
(* version, whatever crash comes between two of their transactions.         *)
THEOREM WorkIsNeverLost == Spec => []NoWorkLost
<1>1. WorkInv => NoWorkLost
  BY DEF WorkInv
<1> QED BY <1>1, WorkInvariance, PTL

(* Candidates, materials, jobs and the worker's list tell one story: the     *)
(* final commit of process() writes them together, a job is left PROCESSING  *)
(* only while its candidate will run, and process() never meets a candidate *)
(* of its pass that is not ready.                                           *)
THEOREM RowsAlwaysAgree == Spec => []RowsAgree
<1>1. IndInv /\ WorkInv => RowsAgree
  BY DEF WorkInv, RowsAgree, JobsAreWorked, NoJobLeftRunning
<1> QED BY <1>1, WorkInvariance, PTL

(* Only a run of the newest version writes a result into a material, and it *)
(* settles its candidate in the same transaction.                           *)
LEMMA DecideStep ==
  ASSUME IndInv, Next, NEW m \in MaterialId,
         materials'[m].status # materials[m].status, materials'[m].status \in RunStatus
  PROVE  \E c \in CandidateId :
           /\ candidates[c].material = m /\ IsLatest(candidates[c].version)
           /\ State(c) = "PROCESSING" /\ State(c)' \in Settled
<1>0. TypeOK /\ Structure /\ StepKnows
  BY DEF IndInv
<1>1. Finish
  <2>1. "PENDING" \notin RunStatus /\ "PROCESSING" \notin RunStatus
    BY DEF RunStatus
  <2>2. ASSUME UNCHANGED materials PROVE FALSE
    BY <2>2
  <2>3. ASSUME NEW n, NEW s, s \notin RunStatus, materials' = [materials EXCEPT ![n].status = s] PROVE FALSE
    BY <1>0, <2>3 DEF TypeOK, Material
  <2>4. ASSUME NEW n, NEW g, materials' = [materials EXCEPT ![n] = [file |-> g, status |-> "PENDING"]] PROVE FALSE
    BY <1>0, <2>1, <2>4 DEF TypeOK
  <2>5. CASE ClassifyAuto
    BY <2>4, <2>5 DEF ClassifyAuto
  <2>6. ASSUME NEW c \in CandidateId, Confirm(c) PROVE FALSE
    BY <2>4, <2>6 DEF Confirm
  <2>7. CASE ReplaceCommit
    BY <2>1, <2>3, <2>7 DEF ReplaceCommit, MaterialTo
  <2>8. CASE Claim
    BY <2>1, <2>3, <2>8 DEF Claim, MaterialTo
  <2>9. CASE StepRuns
    BY <2>2, <2>5, <2>7, <2>8, <2>9 DEF StepRuns, ClassifyReview, ReplaceRefused, JobStart, Normalize, Recover, RecoverEnd, tables
  <2>10. CASE UserStep
    BY <2>2, <2>6, <2>10 DEF UserStep, ReceiveNew, ReceiveKnown, ReceiveUnsupported, UserClassify, ClassifyBegin, Dismiss,
       Retry, Delete, ReplaceBegin, tables
  <2>11. CASE WorkerAcquires
    BY <2>2, <2>11 DEF WorkerAcquires, RecoverBegin, WorkerClassify, ClassifyBegin, WorkerClassifySkip, ProcessDeleted,
       ProcessSuperseded, ProcessBegin, tables
  <2>12. CASE PassMoves \/ Start \/ StepFails \/ Crash
    BY <2>2, <2>12 DEF PassMoves, PassBegin, PassProcess, PassEnd, Start, StepFails, Crash, tables
  <2> QED BY <2>9, <2>10, <2>11, <2>12 DEF Next
<1>2. PICK c \in CandidateId :
        c = step.candidate /\ IsLatest(candidates[c].version) /\ State(c) = "PROCESSING" /\ step.result \in RunStatus
  BY <1>0, <1>1 DEF Finish, StepKnows
<1>3. candidates[c].material = m
  BY <1>0, <1>1, <1>2 DEF Finish, MaterialTo, TypeOK
<1>4. State(c)' = FinalState(step.result)
  BY <1>0, <1>1, <1>2 DEF Finish, CandidateTo, CandidateFailed, State, TypeOK, Candidate
<1>5. FinalState(step.result) \in Settled
  BY <1>2 DEF FinalState, Settled, RunStatus
<1> QED BY <1>2, <1>3, <1>4, <1>5

(* A run of a superseded version never decides a material's state.          *)
THEOREM SupersededRunsNeverDecide == Spec => SupersededNeverDecides
<1>1. IndInv /\ [Next]_vars =>
        [\A m \in MaterialId :
           (materials'[m].status # materials[m].status /\ materials'[m].status \in RunStatus) =>
             \E c \in CandidateId :
               /\ candidates[c].material = m /\ IsLatest(candidates[c].version)
               /\ State(c) = "PROCESSING" /\ State(c)' \in Settled]_vars
  BY DecideStep
<1> QED BY <1>1, Inductive, PTL DEF Spec, SupersededNeverDecides

-----------------------------------------------------------------------------
(* The refinement: what the specification of evidence sees of the tables.   *)

Statuses == [m \in MaterialId |-> materials[m].status]
Revisions == [m \in MaterialId |-> IF Exists(m) THEN versions[LatestOf(m)].number ELSE 0]
Grades == [m \in MaterialId |-> IF Exists(m) THEN derivative[LatestOf(m)] ELSE "NONE"]

(* A function that differs from another in one place.                       *)
LEMMA DiffersAt ==
  ASSUME NEW S, NEW f, NEW g, NEW m \in S, NEW e,
         f = [x \in S |-> f[x]], g = [x \in S |-> g[x]], g[m] = e, \A x \in S : x # m => g[x] = f[x]
  PROVE  g = [f EXCEPT ![m] = e]
  OBVIOUS

LEMMA SameFunction ==
  ASSUME NEW S, NEW f, NEW g,
         f = [x \in S |-> f[x]], g = [x \in S |-> g[x]], \A x \in S : g[x] = f[x]
  PROVE  g = f
  OBVIOUS

LEMMA AreFunctions ==
  /\ Statuses = [m \in MaterialId |-> Statuses[m]] /\ Revisions = [m \in MaterialId |-> Revisions[m]]
  /\ Grades = [m \in MaterialId |-> Grades[m]]
  BY DEF Statuses, Revisions, Grades

LEMMA AreFunctionsNext ==
  /\ Statuses' = [m \in MaterialId |-> Statuses'[m]] /\ Revisions' = [m \in MaterialId |-> Revisions'[m]]
  /\ Grades' = [m \in MaterialId |-> Grades'[m]]
  BY DEF Statuses, Revisions, Grades

(* LatestOf finds the newest version of a material's source.                *)
LatestIsFound ==
  IndInv => \A m \in MaterialId, v \in VersionId :
    IsLatest(v) /\ versions[v].file = materials[m].file => LatestOf(m) = v

LEMMA LatestFound == LatestIsFound
<1> SUFFICES ASSUME IndInv, NEW m \in MaterialId, NEW v \in VersionId, IsLatest(v), versions[v].file = materials[m].file
             PROVE  LatestOf(m) = v
  BY DEF LatestIsFound
<1>0. TypeOK /\ VersionRows
  BY DEF IndInv, Structure
<1>1. v \in VersionsOf(materials[m].file)
  BY DEF IsLatest, VersionsOf
<1>2. LatestOf(m) \in VersionsOf(materials[m].file) /\ IsLatest(LatestOf(m))
  BY <1>1 DEF LatestOf
<1>3. LatestOf(m) \in VersionId /\ versions[LatestOf(m)].file = versions[v].file
  BY <1>2 DEF VersionsOf
<1> QED BY <1>0, <1>2, <1>3, OneLatest

LEMMA LatestFoundNext == LatestIsFound'
  BY LatestFound, PTL

(* What the mapping says of a material with its newest version v.           *)
LEMMA Mapped ==
  ASSUME IndInv, NEW m \in MaterialId, Exists(m), NEW v \in VersionId, IsLatest(v), versions[v].file = materials[m].file
  PROVE  Revisions[m] = versions[v].number /\ Grades[m] = derivative[v]
<1>1. LatestOf(m) = v
  BY LatestFound DEF LatestIsFound
<1> QED BY <1>1 DEF Revisions, Grades

LEMMA MappedNext ==
  ASSUME IndInv', NEW m \in MaterialId, Exists(m)', NEW v \in VersionId, IsLatest(v)', versions'[v].file = materials'[m].file
  PROVE  Revisions'[m] = versions'[v].number /\ Grades'[m] = derivative'[v]
<1>1. LatestOf(m)' = v
  BY LatestFoundNext DEF LatestIsFound
<1> QED BY <1>1 DEF Revisions, Grades

(* The newest version of a material's source stays what it was.             *)
LEMMA SameEvidence ==
  ASSUME IndInv, IndInv', EvidenceHasMaterial, NEW m \in MaterialId,
         Exists(m)' <=> Exists(m), materials'[m].file = materials[m].file,
         \A v \in VersionId :
           (Exists(m) /\ IsLatest(v) /\ versions[v].file = materials[m].file) =>
              IsLatest(v)' /\ versions'[v] = versions[v] /\ derivative'[v] = derivative[v]
  PROVE  Revisions'[m] = Revisions[m] /\ Grades'[m] = Grades[m]
<1>1. CASE Exists(m)
  <2>1. PICK v \in VersionId : IsLatest(v) /\ versions[v].file = materials[m].file
    BY <1>1 DEF EvidenceHasMaterial
  <2>2. Revisions[m] = versions[v].number /\ Grades[m] = derivative[v]
    BY <1>1, <2>1, Mapped
  <2>3. Revisions'[m] = versions'[v].number /\ Grades'[m] = derivative'[v]
    BY <1>1, <2>1, MappedNext
  <2> QED BY <1>1, <2>1, <2>2, <2>3
<1>2. CASE ~Exists(m)
  BY <1>2 DEF Revisions, Grades
<1> QED BY <1>1, <1>2

(* A step of the tables that the specification of evidence does not see.    *)
LEMMA NotSeen ==
  ASSUME IndInv, IndInv', EvidenceHasMaterial,
         \A m \in MaterialId : materials'[m] = materials[m],
         \A v \in VersionId : derivative'[v] = derivative[v],
         \A m \in MaterialId, v \in VersionId :
           (Exists(m) /\ IsLatest(v) /\ versions[v].file = materials[m].file) => IsLatest(v)' /\ versions'[v] = versions[v]
  PROVE  UNCHANGED <<Statuses, Revisions, Grades>>
<1>1. \A m \in MaterialId : Statuses'[m] = Statuses[m]
  BY DEF Statuses
<1>2. \A m \in MaterialId : Exists(m)' <=> Exists(m)
  BY DEF Exists
<1>3. \A m \in MaterialId : Revisions'[m] = Revisions[m] /\ Grades'[m] = Grades[m]
  BY <1>2, SameEvidence
<1> QED BY <1>1, <1>3, AreFunctions, AreFunctionsNext, SameFunction

(* Confirming a file is Create.                                             *)
LEMMA ConfirmCreates ==
  ASSUME IndInv, WorkInv, IndInv', UNCHANGED <<versions, derivative>>,
         NEW c \in CandidateId, State(c) \in Unsettled,
         NEW m \in MaterialId, ~Exists(m),
         materials' = [materials EXCEPT ![m] = [file |-> VersionOf(c).file, status |-> "PENDING"]]
  PROVE  Evidence!Create(m)
<1>0. TypeOK /\ Structure /\ EvidenceHasMaterial
  BY DEF IndInv, WorkInv
<1>1. /\ candidates[c].version \in VersionId /\ IsLatest(candidates[c].version) /\ VersionOf(c).number = 1
      /\ VersionOf(c) = versions[candidates[c].version]
      /\ \A n \in MaterialId : Exists(n) => materials[n].file # VersionOf(c).file
  BY <1>0, UnsettledIsFirst DEF VersionOf
<1>2. /\ materials'[m].file = VersionOf(c).file /\ materials'[m].status = "PENDING"
      /\ \A n \in MaterialId : n # m => materials'[n] = materials[n]
  BY <1>0 DEF TypeOK
<1>3. \A v \in VersionId : IsLatest(v)' <=> IsLatest(v)
  BY DEF IsLatest, VersionsOf
<1>4. derivative[candidates[c].version] = "NONE"
  BY <1>0, <1>1 DEF EvidenceHasMaterial
<1>5. Revisions'[m] = 1 /\ Grades'[m] = "NONE"
  <2>1. Exists(m)'
    BY <1>2 DEF Exists
  <2> QED BY <1>1, <1>2, <1>3, <1>4, <2>1, MappedNext
<1>6. Grades[m] = "NONE" /\ Statuses[m] = "NONE" /\ Statuses'[m] = "PENDING"
  BY <1>2 DEF Grades, Statuses, Exists
<1>7. ASSUME NEW n \in MaterialId, n # m
      PROVE  Statuses'[n] = Statuses[n] /\ Revisions'[n] = Revisions[n] /\ Grades'[n] = Grades[n]
  <2>1. (Exists(n)' <=> Exists(n)) /\ materials'[n].file = materials[n].file
    BY <1>2, <1>7 DEF Exists
  <2> QED BY <1>0, <1>2, <1>3, <1>7, <2>1, SameEvidence DEF Statuses
<1>8. Statuses' = [Statuses EXCEPT ![m] = "PENDING"]
  BY <1>6, <1>7, AreFunctions, AreFunctionsNext, DiffersAt
<1>9. Revisions' = [Revisions EXCEPT ![m] = 1]
  BY <1>5, <1>7, AreFunctions, AreFunctionsNext, DiffersAt
<1>10. \A n \in MaterialId : Grades'[n] = Grades[n]
  BY <1>5, <1>6, <1>7
<1>11. Grades' = Grades
  BY <1>10, AreFunctions, AreFunctionsNext, SameFunction
<1> QED BY <1>6, <1>8, <1>9, <1>11 DEF Evidence!Create, Statuses, Revisions, Grades

(* replace() is Revise.                                                     *)
LEMMA ReplaceRevises ==
  ASSUME IndInv, WorkInv, IndInv', ReplaceCommit
  PROVE  \E m \in MaterialId : Evidence!Revise(m)
<1>0. TypeOK /\ Structure /\ StepKnows /\ EvidenceHasMaterial
  BY DEF IndInv, WorkInv
<1>1. PICK m \in MaterialId : m = step.material /\ Exists(m)
  BY <1>0 DEF ReplaceCommit, StepKnows
<1>2. PICK v \in VersionId, u \in VersionsOf(materials[m].file) :
       /\ NextVersion(v) /\ IsLatest(u)
       /\ versions' = [versions EXCEPT ![v] =
            [file |-> materials[m].file, number |-> versions[u].number + 1, hash |-> step.hash]]
  BY <1>1 DEF ReplaceCommit
<1>3. /\ u \in VersionId /\ versions[u].number \in Nat /\ versions[u].file = materials[m].file
      /\ versions[v].number = 0
  BY <1>0, <1>2 DEF VersionsOf, TypeOK, Version, NextVersion
<1>4. /\ versions'[v].file = materials[m].file /\ versions'[v].number = versions[u].number + 1
      /\ \A w \in VersionId : w # v => versions'[w] = versions[w]
  BY <1>0, <1>2 DEF TypeOK
<1>5. \A w \in VersionsOf(versions'[v].file) : versions[w].number < versions'[v].number
  BY <1>0, <1>2, <1>3, <1>4 DEF IsLatest, VersionsOf, TypeOK, Version
<1>6. versions'[v].number \in Nat /\ versions'[v].number > 0
  BY <1>3, <1>4
<1>7. /\ IsLatest(v)'
      /\ \A w \in VersionId : w # v => (IsLatest(w)' <=> IsLatest(w) /\ versions[w].file # versions'[v].file)
  BY <1>0, <1>3, <1>4, <1>5, <1>6, NewestIsAdded
<1>8. /\ UNCHANGED derivative /\ materials'[m].status = "PENDING" /\ materials'[m].file = materials[m].file
      /\ \A n \in MaterialId : n # m => materials'[n] = materials[n]
  BY <1>0, <1>1 DEF ReplaceCommit, MaterialTo, TypeOK, Material
<1>9. derivative[v] = "NONE"
  BY <1>0, <1>3 DEF EvidenceHasMaterial
<1>10. Revisions[m] = versions[u].number /\ Revisions'[m] = versions[u].number + 1 /\ Grades'[m] = "NONE"
  <2>1. Exists(m)'
    BY <1>8 DEF Exists
  <2>2. Revisions[m] = versions[u].number
    BY <1>1, <1>2, <1>3, Mapped
  <2>3. Revisions'[m] = versions'[v].number /\ Grades'[m] = derivative'[v]
    BY <1>4, <1>7, <1>8, <2>1, MappedNext
  <2> QED BY <1>4, <1>8, <1>9, <2>2, <2>3
<1>11. materials[m].status \notin {"NONE", "PROCESSING"}
  BY <1>1 DEF ReplaceCommit, ReplaceAccepted, StatusTransition
<1>12. Statuses[m] \notin {"NONE", "PROCESSING"} /\ Statuses'[m] = "PENDING"
  BY <1>8, <1>11 DEF Statuses
<1>13. ASSUME NEW n \in MaterialId, n # m
       PROVE  Statuses'[n] = Statuses[n] /\ Revisions'[n] = Revisions[n] /\ Grades'[n] = Grades[n]
  <2>1. (Exists(n)' <=> Exists(n)) /\ materials'[n] = materials[n]
    BY <1>8, <1>13 DEF Exists
  <2>2. Exists(n) => materials[n].file # materials[m].file
    BY <1>0, <1>1, <1>13 DEF Structure, OneMaterialPerSource
  <2>3. \A w \in VersionId :
          (Exists(n) /\ IsLatest(w) /\ versions[w].file = materials[n].file) =>
             IsLatest(w)' /\ versions'[w] = versions[w] /\ derivative'[w] = derivative[w]
    <3>1. ~IsLatest(v)
      BY <1>3 DEF IsLatest
    <3> QED BY <1>4, <1>7, <1>8, <2>2, <3>1
  <2> QED BY <1>0, <2>1, <2>3, SameEvidence DEF Statuses
<1>14. Statuses' = [Statuses EXCEPT ![m] = "PENDING"]
  BY <1>12, <1>13, AreFunctions, AreFunctionsNext, DiffersAt
<1>15. Revisions' = [Revisions EXCEPT ![m] = Revisions[m] + 1]
  BY <1>10, <1>13, AreFunctions, AreFunctionsNext, DiffersAt
<1>16. Grades' = [Grades EXCEPT ![m] = "NONE"]
  BY <1>10, <1>13, AreFunctions, AreFunctionsNext, DiffersAt
<1>17. Evidence!Revise(m)
  BY <1>12, <1>14, <1>15, <1>16 DEF Evidence!Revise, Statuses, Revisions, Grades
<1> QED BY <1>17

(* The claim is Begin, storing derivatives is Store and the final commit is *)
(* Decide, of the material the run is about.                                *)
LEMMA RunDecides ==
  ASSUME IndInv, WorkInv, IndInv', Claim \/ Normalize \/ Finish
  PROVE  Evidence!Next \/ UNCHANGED <<Statuses, Revisions, Grades>>
<1>0. TypeOK /\ Structure /\ StepKnows /\ PassKnows /\ EvidenceHasMaterial /\ step.pc \in Running
  BY DEF IndInv, WorkInv, Running, Claim, Normalize, Finish
<1>1. PICK c \in CandidateId, v \in VersionId, m \in MaterialId :
           /\ c = step.candidate /\ v = candidates[c].version /\ m = candidates[c].material
           /\ IsLatest(v) /\ Exists(m) /\ materials[m].file = versions[v].file
  BY <1>0, RunRows
<1>2. UNCHANGED versions
  BY DEF Claim, Normalize, Finish
<1>3. \A w \in VersionId : IsLatest(w)' <=> IsLatest(w)
  BY <1>2 DEF IsLatest, VersionsOf
<1>4. Statuses[m] = materials[m].status /\ Statuses'[m] = materials'[m].status /\ Grades[m] = derivative[v]
  BY <1>1, Mapped DEF Statuses
<1>5. ASSUME UNCHANGED derivative, NEW s, s # "NONE", materials' = [materials EXCEPT ![m].status = s]
      PROVE  Statuses' = [Statuses EXCEPT ![m] = s] /\ Revisions' = Revisions /\ Grades' = Grades
  <2>1. /\ materials'[m].file = materials[m].file /\ materials'[m].status = s
        /\ \A n \in MaterialId : n # m => materials'[n] = materials[n]
    BY <1>0, <1>5 DEF TypeOK, Material
  <2>2. \A n \in MaterialId : (Exists(n)' <=> Exists(n)) /\ materials'[n].file = materials[n].file
    BY <1>1, <1>5, <2>1 DEF Exists
  <2>3. \A n \in MaterialId : Revisions'[n] = Revisions[n] /\ Grades'[n] = Grades[n]
    BY <1>0, <1>2, <1>3, <1>5, <2>2, SameEvidence
  <2>4. \A n \in MaterialId : n # m => Statuses'[n] = Statuses[n]
    BY <2>1 DEF Statuses
  <2>5. Statuses' = [Statuses EXCEPT ![m] = s]
    BY <1>4, <2>1, <2>4, AreFunctions, AreFunctionsNext, DiffersAt
  <2>6. Revisions' = Revisions /\ Grades' = Grades
    BY <2>3, AreFunctions, AreFunctionsNext, SameFunction
  <2> QED BY <2>5, <2>6
<1>6. CASE Claim
  <2>1. UNCHANGED derivative /\ materials' = [materials EXCEPT ![m].status = "PROCESSING"]
    BY <1>1, <1>6 DEF Claim, MaterialTo
  <2>2. Statuses' = [Statuses EXCEPT ![m] = "PROCESSING"] /\ Revisions' = Revisions /\ Grades' = Grades
    BY <1>5, <2>1
  <2>3. Statuses[m] # "NONE"
    BY <1>1, <1>4 DEF Exists
  <2>4. Evidence!Begin(m)
    BY <2>2, <2>3 DEF Evidence!Begin, Statuses, Revisions, Grades
  <2> QED BY <2>4 DEF Evidence!Next
<1>7. CASE Finish
  <2>1. /\ UNCHANGED derivative /\ materials' = [materials EXCEPT ![m].status = step.result]
        /\ step.result \in RunStatus
    BY <1>0, <1>1, <1>7 DEF Finish, MaterialTo, StepKnows
  <2>2. step.result # "NONE"
    BY <2>1 DEF RunStatus
  <2>3. Statuses' = [Statuses EXCEPT ![m] = step.result] /\ Revisions' = Revisions /\ Grades' = Grades
    BY <1>5, <2>1, <2>2
  <2>4. Statuses[m] = "PROCESSING" /\ step.result \in Evidence!Allowed(Grades[m])
    BY <1>0, <1>1, <1>4, <1>7 DEF PassKnows, Finish
  <2>5. Evidence!Decide(m)
    BY <2>3, <2>4 DEF Evidence!Decide, Statuses, Revisions, Grades
  <2> QED BY <2>5 DEF Evidence!Next
<1>8. CASE Normalize
  <2>1. UNCHANGED materials /\ \A n \in MaterialId : Exists(n)' <=> Exists(n)
    BY <1>8 DEF Normalize, Exists
  <2>2. CASE \A w \in VersionId : derivative'[w] = derivative[w]
    BY <1>0, <1>2, <1>3, <2>1, <2>2, NotSeen
  <2>3. CASE ~\A w \in VersionId : derivative'[w] = derivative[w]
    <3>1. derivative[v] = "NONE"
      BY <1>1, <1>8, <2>3 DEF Normalize
    <3>2. PICK g \in {"NONE", "PARTIAL", "COMPLETE"} : derivative' = [derivative EXCEPT ![v] = g]
      <4>1. PICK outcome \in NormalizeOutcome : derivative' = [derivative EXCEPT ![v] = outcome[2]]
        BY <1>1, <1>8, <3>1 DEF Normalize
      <4>2. outcome[2] \in {"NONE", "PARTIAL", "COMPLETE"}
        BY <4>1 DEF NormalizeOutcome
      <4> QED BY <4>1, <4>2
    <3>3. g \in {"COMPLETE", "PARTIAL"} /\ derivative'[v] = g /\ \A w \in VersionId : w # v => derivative'[w] = derivative[w]
      BY <1>0, <2>3, <3>1, <3>2 DEF TypeOK
    <3>4. ASSUME NEW n \in MaterialId, n # m PROVE Revisions'[n] = Revisions[n] /\ Grades'[n] = Grades[n]
      <4>1. Exists(n) => materials[n].file # versions[v].file
        BY <1>0, <1>1, <3>4 DEF Structure, OneMaterialPerSource
      <4> QED BY <1>0, <1>2, <1>3, <2>1, <3>3, <4>1, SameEvidence
    <3>5. Revisions[m] = versions[v].number /\ Revisions'[m] = versions'[v].number /\ Grades'[m] = g
      BY <1>1, <1>2, <1>3, <2>1, <3>3, Mapped, MappedNext
    <3>6. \A n \in MaterialId : Statuses'[n] = Statuses[n] /\ Revisions'[n] = Revisions[n]
      BY <1>2, <2>1, <3>4, <3>5 DEF Statuses
    <3>7. Statuses' = Statuses /\ Revisions' = Revisions
      BY <3>6, AreFunctions, AreFunctionsNext, SameFunction
    <3>8. Grades' = [Grades EXCEPT ![m] = g]
      BY <3>4, <3>5, AreFunctions, AreFunctionsNext, DiffersAt
    <3>9. Statuses[m] = "PROCESSING" /\ Grades[m] = "NONE"
      BY <1>0, <1>1, <1>4, <1>8, <3>1 DEF PassKnows, Normalize
    <3>10. Evidence!Store(m)
      BY <3>3, <3>7, <3>8, <3>9 DEF Evidence!Store, Statuses, Revisions, Grades
    <3> QED BY <3>10 DEF Evidence!Next
  <2> QED BY <2>2, <2>3
<1> QED BY <1>6, <1>7, <1>8

LEMMA EvidenceInit == Init => Evidence!Init
<1> SUFFICES ASSUME Init PROVE Evidence!Init
  OBVIOUS
<1>1. \A m \in MaterialId : materials[m].status = "NONE" /\ ~Exists(m)
  BY DEF Init, NoMaterial, Exists
<1>2. \A m \in MaterialId : Statuses[m] = "NONE" /\ Revisions[m] = 0 /\ Grades[m] = "NONE"
  BY <1>1 DEF Statuses, Revisions, Grades
<1>3. /\ Statuses = [m \in MaterialId |-> "NONE"] /\ Revisions = [m \in MaterialId |-> 0]
      /\ Grades = [m \in MaterialId |-> "NONE"]
  BY <1>2, AreFunctions
<1> QED BY <1>3 DEF Evidence!Init, Statuses, Revisions, Grades

(* What a step does that the specification of evidence allows.              *)
SeenStep == Evidence!Next \/ UNCHANGED <<Statuses, Revisions, Grades>>

LEMMA EvidenceStep ==
  ASSUME IndInv, WorkInv, IndInv', [Next]_vars
  PROVE  SeenStep
<1>0. TypeOK /\ Structure /\ StepKnows /\ EvidenceHasMaterial
  BY DEF IndInv, WorkInv
<1>1. ASSUME UNCHANGED <<versions, derivative, materials>> PROVE SeenStep
  <2>1. \A v \in VersionId : IsLatest(v)' <=> IsLatest(v)
    BY <1>1 DEF IsLatest, VersionsOf
  <2> QED BY <1>0, <1>1, <2>1, NotSeen DEF SeenStep
<1>2. ASSUME NEW h \in Content, ReceiveNew(h) PROVE SeenStep
  <2>1. PICK v \in VersionId, f \in FileId :
          /\ NextVersion(v) /\ NextFile(f)
          /\ versions' = [versions EXCEPT ![v] = [file |-> f, number |-> 1, hash |-> h]]
    BY <1>2 DEF ReceiveNew
  <2>2. /\ versions'[v].file = f /\ versions'[v].number = 1 /\ versions[v].number = 0
        /\ \A w \in VersionId : w # v => versions'[w] = versions[w]
    BY <1>0, <2>1 DEF TypeOK, NextVersion
  <2>3. \A w \in VersionsOf(f) : versions[w].number < 1
    BY <2>1 DEF NextFile
  <2>4. \A w \in VersionId : w # v => (IsLatest(w)' <=> IsLatest(w) /\ versions[w].file # f)
    BY <1>0, <2>2, <2>3, NewestIsAdded
  <2>5. ASSUME NEW w \in VersionId, IsLatest(w) PROVE w # v /\ versions[w].file # f
    BY <2>1, <2>2, <2>5 DEF IsLatest, NextFile, VersionsOf
  <2>6. UNCHANGED <<materials, derivative>>
    BY <1>2 DEF ReceiveNew
  <2> QED BY <1>0, <2>2, <2>4, <2>5, <2>6, NotSeen DEF SeenStep
<1>3. ASSUME NEW c \in CandidateId, Confirm(c) PROVE SeenStep
  <2>1. PICK m \in MaterialId :
          NextMaterial(m) /\ materials' = [materials EXCEPT ![m] = [file |-> VersionOf(c).file, status |-> "PENDING"]]
    BY <1>3 DEF Confirm
  <2>2. State(c) \in Unsettled /\ UNCHANGED <<versions, derivative>> /\ ~Exists(m)
    BY <1>3, <2>1 DEF Confirm, Unsettled, NextMaterial, Exists
  <2>3. Evidence!Create(m)
    BY <2>1, <2>2, ConfirmCreates
  <2> QED BY <2>3 DEF SeenStep, Evidence!Next
<1>4. CASE ClassifyAuto
  <2>1. step.candidate \in CandidateId /\ State(step.candidate) \in Unsettled /\ UNCHANGED <<versions, derivative>>
    BY <1>0, <1>4 DEF ClassifyAuto, StepKnows, Unsettled
  <2>2. PICK m \in MaterialId :
          /\ NextMaterial(m)
          /\ materials' = [materials EXCEPT ![m] = [file |-> VersionOf(step.candidate).file, status |-> "PENDING"]]
    BY <1>4 DEF ClassifyAuto
  <2>3. Evidence!Create(m)
    BY <2>1, <2>2, ConfirmCreates DEF NextMaterial, Exists
  <2> QED BY <2>3 DEF SeenStep, Evidence!Next
<1>5. CASE ReplaceCommit
  BY <1>5, ReplaceRevises DEF SeenStep, Evidence!Next
<1>6. CASE Claim \/ Normalize \/ Finish
  BY <1>6, RunDecides DEF SeenStep
<1>7. ASSUME NEW c \in CandidateId,
             \/ Dismiss(c) \/ Retry(c) \/ UserClassify(c) \/ WorkerClassify(c) \/ WorkerClassifySkip(c)
             \/ ProcessDeleted(c) \/ ProcessSuperseded(c) \/ ProcessBegin(c) \/ Recover(c)
      PROVE  SeenStep
  BY <1>1, <1>7 DEF Dismiss, Retry, UserClassify, WorkerClassify, ClassifyBegin, WorkerClassifySkip, ProcessDeleted,
     ProcessSuperseded, ProcessBegin, Recover, tables
<1>8. ASSUME NEW m \in MaterialId, NEW h \in Content, ReplaceBegin(m, h) PROVE SeenStep
  BY <1>1, <1>8 DEF ReplaceBegin, tables
<1>9. ASSUME NEW m \in MaterialId, Delete(m) PROVE SeenStep
  BY <1>1, <1>9 DEF Delete
<1>10. ASSUME NEW h \in Content, ReceiveKnown(h) PROVE SeenStep
  BY <1>1, <1>10 DEF ReceiveKnown
<1>11. CASE ReceiveUnsupported \/ ClassifyReview \/ ReplaceRefused \/ JobStart \/ RecoverBegin \/ RecoverEnd
  <2>1. UNCHANGED <<versions, derivative, materials>>
    BY <1>11 DEF ReceiveUnsupported, ClassifyReview, ReplaceRefused, JobStart, RecoverBegin, RecoverEnd, tables
  <2> QED BY <1>1, <2>1
<1>12. CASE PassMoves \/ Start \/ StepFails \/ Crash \/ UNCHANGED vars
  <2>1. UNCHANGED <<versions, derivative, materials>>
    BY <1>12 DEF PassMoves, PassBegin, PassProcess, PassEnd, Start, StepFails, Crash, vars, tables
  <2> QED BY <1>1, <2>1
<1>13. SeenStep
  <2>1. CASE UserStep
    BY <1>2, <1>3, <1>7, <1>8, <1>9, <1>10, <1>11, <2>1 DEF UserStep
  <2>2. CASE WorkerAcquires
    BY <1>7, <1>11, <2>2 DEF WorkerAcquires
  <2>3. CASE StepRuns
    BY <1>4, <1>5, <1>6, <1>7, <1>11, <2>3 DEF StepRuns
  <2> QED BY <1>12, <2>1, <2>2, <2>3 DEF Next
<1> QED BY <1>13

(* Every step of the intake is a step of MaterialEvidence or changes        *)
(* nothing it speaks of: confirm() and the automatic classification create, *)
(* replace() revises, the claim begins, normalize_source_version() stores   *)
(* and the final commit of process() decides.                               *)
THEOREM ImplementsMaterialEvidence == Spec => ImplementsEvidence
<1>1. IndInv /\ WorkInv /\ IndInv' /\ [Next]_vars => [Evidence!Next]_(Evidence!vars)
  <2> SUFFICES ASSUME IndInv, WorkInv, IndInv', [Next]_vars PROVE [Evidence!Next]_(Evidence!vars)
    OBVIOUS
  <2>1. UNCHANGED <<Statuses, Revisions, Grades>> => UNCHANGED Evidence!vars
    BY DEF Evidence!vars, Statuses, Revisions, Grades
  <2> QED BY <2>1, EvidenceStep DEF SeenStep
<1> QED BY <1>1, EvidenceInit, WorkInvariance, PTL DEF Spec, ImplementsEvidence, Evidence!Spec

=============================================================================
