-------------------------- MODULE TranscriptIngest --------------------------
(***************************************************************************)
(* The first version's worker tick (orchestration/runner.py) with the      *)
(* transcript pipeline as its handler (ingestion/transcript_ingest.py):    *)
(* a job per content hash of one transcript, made idempotent by its key    *)
(* (orchestration/jobs.py), with the bounded retry of                      *)
(* orchestration/retry.py.  The state store, Drive and Notion are outside  *)
(* the repository: a call of theirs may fail before or after it took       *)
(* effect, and the process may die between two calls.                      *)
(*                                                                         *)
(* What is abstracted.  A version is its hash and whether its              *)
(* normalization is whole or partial.  What the store does beyond its      *)
(* keys is open: it may refuse to move a job to PROCESSING, and may hand   *)
(* out again a job whose worker died.  The normalization itself, the       *)
(* entity's allocation and the adaptation to the collaborators' signatures *)
(* (_call_data) are left out.                                              *)
(***************************************************************************)
EXTENDS Naturals, FiniteSets

CONSTANTS
  Hash,           \* the versions of the transcript
  Partial,        \* those whose normalization is partial
  NoHash,
  MaxAttempts,    \* DEFAULT_MAX_ATTEMPTS
  MaxCall         \* bound on claims and direct calls

(* The limit is a positive number (retry.py).                              *)
ASSUME TranscriptAssumption == Partial \subseteq Hash /\ MaxAttempts \in Nat \ {0} /\ MaxCall \in Nat

VARIABLES
  jobs,        \* the job of each hash: status and attempt_count
  published,   \* the version that the derivative in Drive has, and all it ever had
  notion,      \* the version the Session page names, and the status it shows for each
  records,     \* the processing records
  versions,    \* the registered source versions
  tick,        \* what the holder of the worker lock does
  calls
transcriptVars == <<jobs, published, notion, records, versions, tick, calls>>

Finished == {"READY", "PARTIAL"}
Outcome(h) == IF h \in Partial THEN "PARTIAL" ELSE "READY"

(* SourceUnavailableError is the pipeline's own; the rest are providers'.  *)
Error == {"source", "unavailable", "rate limited", "policy", "other"}

NoTick == [at |-> "idle"]

TranscriptInit ==
  /\ jobs = [h \in Hash |-> [status |-> "none", attempts |-> 0]]
  /\ published = [now |-> NoHash, ever |-> {}]
  /\ notion = [now |-> NoHash, shown |-> [h \in Hash |-> "none"]]
  /\ records = {} /\ versions = {}
  /\ tick = NoTick /\ calls = 0

outside == <<published, notion, records, versions>>
Proceeds(place) == tick' = [tick EXCEPT !.at = place]

-----------------------------------------------------------------------------
(* The runner.                                                             *)

(* discover: a job for a version that has none (create_job by key).        *)
Discover(h) ==
  /\ tick = NoTick /\ jobs[h].status = "none"
  /\ jobs' = [jobs EXCEPT ![h].status = "PENDING"]
  /\ UNCHANGED <<outside, tick, calls>>

Takes(h, claimed, attempts) ==
  tick' = [at |-> "begin", hash |-> h, claimed |-> claimed, attempts |-> attempts, error |-> "none",
          wasDone |-> jobs[h].status \in Finished]

(* claim_job, of a job that waits or that a dead worker left.              *)
Claim(h) ==
  /\ tick = NoTick /\ jobs[h].status \in {"PENDING", "PROCESSING"} /\ calls < MaxCall
  /\ jobs' = [jobs EXCEPT ![h] = [status |-> "PROCESSING", attempts |-> @.attempts + 1]]
  /\ Takes(h, TRUE, jobs[h].attempts + 1)
  /\ calls' = calls + 1
  /\ UNCHANGED outside

(* The pipeline called directly, under the worker lock, for any version.   *)
Call(h) ==
  /\ tick = NoTick /\ calls < MaxCall
  /\ Takes(h, FALSE, 0)
  /\ calls' = calls + 1
  /\ UNCHANGED <<outside, jobs>>

-----------------------------------------------------------------------------
(* ingest_transcript for tick.hash.                                        *)

H == tick.hash
Raised(e) == tick' = [tick EXCEPT !.at = "raised", !.error = e]

AlreadyDone_Never(h) == FALSE
AlreadyDone(h) == jobs[h].status \in Finished

(* The idempotency boundary: a job that is done only has its version       *)
(* registered again.                                                       *)
FindDone ==
  /\ tick.at = "begin" /\ AlreadyDone(H)
  /\ versions' = versions \cup {H}
  /\ Proceeds("return")
  /\ UNCHANGED <<jobs, published, notion, records, calls>>

(* _create_processing_job: by its key, and confirmed to be PROCESSING.     *)
CreateJob ==
  /\ tick.at = "begin" /\ ~AlreadyDone(H)
  /\ jobs' = [jobs EXCEPT ![H].status = "PROCESSING"]
  /\ Proceeds("version")
  /\ UNCHANGED <<outside, calls>>

(* The job cannot be brought to PROCESSING: nothing is staged, and it is   *)
(* not marked failed either.                                               *)
CreateJobFails ==
  /\ tick.at = "begin" /\ ~AlreadyDone(H)
  /\ tick' = [tick EXCEPT !.at = "refused", !.error = "source"]
  /\ UNCHANGED <<outside, jobs, calls>>

RegisterVersion ==
  /\ tick.at = "version"
  /\ versions' = versions \cup {H} /\ Proceeds("stage")
  /\ UNCHANGED <<jobs, published, notion, records, calls>>

(* The staged derivative, validated.                                       *)
Stage ==
  /\ tick.at = "stage" /\ Proceeds("publish")
  /\ UNCHANGED <<outside, jobs, calls>>

(* A provider's call is answered, or raises although it took effect.       *)
Then(place) == Proceeds(place) \/ \E e \in Error : Raised(e)

Publish ==
  /\ tick.at = "publish"
  /\ published' = [now |-> H, ever |-> published.ever \cup {H}]
  /\ Then("notion")
  /\ UNCHANGED <<jobs, notion, records, versions, calls>>

UpdateNotion ==
  /\ tick.at = "notion"
  /\ notion' = [now |-> H, shown |-> [notion.shown EXCEPT ![H] = Outcome(H)]]
  /\ Then("record")
  /\ UNCHANGED <<jobs, published, records, versions, calls>>

Record ==
  /\ tick.at = "record"
  /\ records' = records \cup {H}
  /\ Then("complete")
  /\ UNCHANGED <<jobs, published, notion, versions, calls>>

(* complete_job comes last.                                                *)
Complete ==
  /\ tick.at = "complete"
  /\ jobs' = [jobs EXCEPT ![H].status = Outcome(H)]
  /\ Then("return")
  /\ UNCHANGED <<outside, calls>>

(* Any call raises before it took effect; a staged derivative that does    *)
(* not validate is "other".                                                *)
StepFails ==
  /\ tick.at \in {"version", "stage", "publish", "notion", "record", "complete"}
  /\ \E e \in Error : Raised(e)
  /\ UNCHANGED <<outside, jobs, calls>>

(* _fail_job: what it raises is swallowed, so the job may stay as it is;   *)
(* and the store may let a job that was completed after all be failed.     *)
FailJob ==
  /\ tick.at = "raised"
  /\ jobs' \in {jobs, [jobs EXCEPT ![H].status = "FAILED"]}
  /\ Proceeds("refused")
  /\ UNCHANGED <<outside, calls>>

-----------------------------------------------------------------------------
(* The runner again.                                                       *)

(* The runner's own classes, and should_retry.                             *)
Retryable == {"unavailable", "rate limited"}
ShouldRetry(e, attempts) == e \in Retryable /\ attempts < MaxAttempts

Settle ==
  /\ tick.at = "refused" /\ tick.claimed
  /\ LET failed == IF jobs[H].status = "PROCESSING" THEN "FAILED" ELSE jobs[H].status
     IN jobs' = [jobs EXCEPT ![H].status =
          IF failed \notin Finished /\ ShouldRetry(tick.error, tick.attempts) THEN "PENDING" ELSE failed]
  /\ tick' = NoTick
  /\ UNCHANGED <<outside, calls>>

Return ==
  /\ tick.at = "return" \/ (tick.at = "refused" /\ ~tick.claimed)
  /\ tick' = NoTick
  /\ UNCHANGED <<outside, jobs, calls>>

(* The process dies, and its lock with it.                                 *)
WorkerDies == tick # NoTick /\ tick' = NoTick /\ UNCHANGED <<outside, jobs, calls>>

TranscriptNext ==
  \/ \E h \in Hash : Discover(h) \/ Claim(h) \/ Call(h)
  \/ FindDone \/ CreateJob \/ CreateJobFails \/ RegisterVersion \/ Stage
  \/ Publish \/ UpdateNotion \/ Record \/ Complete \/ StepFails \/ FailJob
  \/ Settle \/ Return \/ WorkerDies

TranscriptSpec == TranscriptInit /\ [][TranscriptNext]_transcriptVars

-----------------------------------------------------------------------------
(* A job is done last: whatever failed, was retried or died before, a job  *)
(* that is READY or PARTIAL has its version registered, its derivative     *)
(* published, the Session page updated with the same status and a record;  *)
(* each of these only after the one before.  A version whose job was done  *)
(* when a call began is not published by it again, and a job waits for     *)
(* another attempt only while it has one left.                             *)
ReadyComesLast ==
  /\ \A h \in Hash :
       /\ jobs[h].status \in Finished => h \in records /\ jobs[h].status = notion.shown[h]
       /\ h \in records => notion.shown[h] = Outcome(h)
       /\ notion.shown[h] # "none" => h \in published.ever
       /\ h \in published.ever => h \in versions
       /\ jobs[h].status = "PENDING" => jobs[h].attempts < MaxAttempts
  /\ tick.at \in {"notion", "record", "complete"} => ~tick.wasDone

=============================================================================
