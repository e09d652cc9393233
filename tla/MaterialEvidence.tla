-------------------------- MODULE MaterialEvidence --------------------------
(***************************************************************************)
(* What the intake promises about one library: a material's status speaks   *)
(* of the evidence stored for its current revision and of nothing else      *)
(* (design I3 and I5).  A revision starts without evidence and PENDING; a   *)
(* run moves it to PROCESSING, may store complete or partial evidence once, *)
(* and ends with a status that evidence allows.                             *)
(***************************************************************************)
EXTENDS Naturals

CONSTANT MaterialId

VARIABLES status, revision, evidence

vars == <<status, revision, evidence>>

Init ==
  /\ status = [m \in MaterialId |-> "NONE"]
  /\ revision = [m \in MaterialId |-> 0]
  /\ evidence = [m \in MaterialId |-> "NONE"]

(* A first file is confirmed as the material m.                             *)
Create(m) ==
  /\ status[m] = "NONE"
  /\ status' = [status EXCEPT ![m] = "PENDING"]
  /\ revision' = [revision EXCEPT ![m] = 1]
  /\ UNCHANGED evidence

(* New content: nothing is known about it yet.                              *)
Revise(m) ==
  /\ status[m] \notin {"NONE", "PROCESSING"}
  /\ status' = [status EXCEPT ![m] = "PENDING"]
  /\ revision' = [revision EXCEPT ![m] = @ + 1]
  /\ evidence' = [evidence EXCEPT ![m] = "NONE"]

Begin(m) ==
  /\ status[m] # "NONE"
  /\ status' = [status EXCEPT ![m] = "PROCESSING"]
  /\ UNCHANGED <<revision, evidence>>

(* Stored once for a revision and never replaced.                           *)
Store(m) ==
  /\ status[m] = "PROCESSING" /\ evidence[m] = "NONE"
  /\ evidence' \in { [evidence EXCEPT ![m] = grade] : grade \in {"COMPLETE", "PARTIAL"} }
  /\ UNCHANGED <<status, revision>>

(* The statuses a run over evidence of this grade may end with.             *)
Allowed(grade) ==
  CASE grade = "COMPLETE" -> {"READY"}
    [] grade = "PARTIAL"  -> {"PARTIAL", "NEEDS_REVIEW"}
    [] OTHER              -> {"NEEDS_REVIEW", "FAILED"}

Decide(m) ==
  /\ status[m] = "PROCESSING"
  /\ status' \in { [status EXCEPT ![m] = s] : s \in Allowed(evidence[m]) }
  /\ UNCHANGED <<revision, evidence>>

Next == \E m \in MaterialId : Create(m) \/ Revise(m) \/ Begin(m) \/ Store(m) \/ Decide(m)

Spec == Init /\ [][Next]_vars

=============================================================================
