--------------------------- MODULE CredentialJournal ---------------------------
(***************************************************************************)
(* The records of settings/journal.py for credential operations: the plans *)
(* of effects of each kind of operation and branch, what makes a record    *)
(* and a change of it valid, and how an interrupted operation is compared  *)
(* with the stores to choose its repair.                                   *)
(*                                                                         *)
(* What is abstracted.  A state id is a keyed digest of what a slot holds, *)
(* the same in every slot of a role, and digests do not collide: a secret  *)
(* is its own id.  The post-state of a resolved effect is not kept: it is  *)
(* the intended one when verified and the pre-state when not applied.      *)
(* Sequence numbers, labels and next actions are left out.  `new', what    *)
(* the operation is to leave in the active slot, and `was' of an operation *)
(* other than a replacement are the specification's own: no step reads     *)
(* them.                                                                   *)
(***************************************************************************)
EXTENDS ConfigStore, Sequences

CONSTANTS
    Secrets,     \* credentials the user may save
    Absent       \* what a slot holds when it holds nothing

ASSUME SecretsAssumption == Absent \notin Secrets

VARIABLES
    store,     \* the slots of each role, shared by the user's workspaces
    journal    \* the record of each credential operation

Slots == {"active", "staged", "backup"}
Kinds == {"enrollment", "replacement", "forget", "detach"}

\* ACTION_SCHEMAS: the mutually exclusive sequences of effects.
Branches(kind) ==
    CASE kind = "enrollment"  -> {"primary", "abandon"}
      [] kind = "replacement" -> {"primary", "restore", "reject"}
      [] OTHER                -> {"primary"}

\* A faulty form: the staged copy is left to the next operation.
Plan_Uncleaned(kind, branch) ==
    CASE branch \in {"abandon", "reject"} -> <<"credential_stage", "staged_delete">>
      [] branch = "primary" /\ kind = "enrollment" ->
           <<"credential_stage", "config_commit", "credential_promote">>
      [] branch \in {"primary", "restore"} /\ kind = "replacement" ->
           <<"credential_stage", "credential_backup", "credential_promote", "config_commit",
             "backup_delete">>
      [] OTHER -> <<"config_detach">>

\* A faulty form: the backup is taken after the promotion.
Plan_LateBackup(kind, branch) ==
    IF branch = "abandon" \/ kind = "enrollment"
    THEN <<"credential_stage", "config_commit", "credential_promote">>
    ELSE <<"credential_stage", "credential_promote", "credential_backup", "config_commit">>

\* A faulty form: the restore branch removes the backup without restoring it.
Plan_Unrestored(kind, branch) ==
    CASE branch = "restore" -> <<"credential_stage", "credential_backup", "credential_promote",
                                 "staging_cleanup">>
      [] OTHER -> <<"credential_stage", "credential_backup", "credential_promote", "config_commit">>

Plan(kind, branch) ==
    CASE branch \in {"abandon", "reject"} -> <<"credential_stage", "staged_delete">>
      [] branch = "restore" -> <<"credential_stage", "credential_backup", "credential_promote",
                                 "credential_restore", "backup_delete", "staging_cleanup">>
      [] branch = "primary" /\ kind = "enrollment" ->
           <<"credential_stage", "config_commit", "credential_promote", "staging_cleanup">>
      [] branch = "primary" /\ kind = "replacement" ->
           <<"credential_stage", "credential_backup", "credential_promote", "config_commit",
             "backup_delete", "staging_cleanup">>
      [] kind = "forget" -> <<"config_detach", "credential_delete">>
      [] OTHER -> <<"config_detach">>

Deletes == {"backup_delete", "credential_delete", "staged_delete", "staging_cleanup"}

StoreOf(e) ==
    CASE e \in {"credential_stage", "staged_delete", "staging_cleanup"} -> "staged"
      [] e \in {"credential_backup", "backup_delete"} -> "backup"
      [] e \in {"config_commit", "config_detach"} -> "config"
      [] OTHER -> "active"

NoRecord == [phase |-> "none"]
Record(w, r, kind, before, after, was, new) ==
    [ws |-> w, role |-> r, kind |-> kind, branch |-> "primary", phase |-> "prepare",
     eff |-> <<>>, orig |-> before, cand |-> after, was |-> was, new |-> new]

Exists(op)     == journal[op] \notin {NoRecord, Past}
Unresolved(op) == Exists(op) /\ journal[op].phase \notin Terminal
Resolved(op)   == Exists(op) /\ journal[op].phase \in Terminal

Planned(rec)    == Plan(rec.kind, rec.branch)
Begun(rec, e)   == e \in DOMAIN rec.eff
Done(rec, e)    == Begun(rec, e) /\ rec.eff[e].st = "verified"
Intended(rec,e) == Begun(rec, e) /\ rec.eff[e].st = "intent"
AllDone(rec)    == \A i \in DOMAIN Planned(rec) : Done(rec, Planned(rec)[i])
NextEffect(rec) == Planned(rec)[CHOOSE i \in DOMAIN Planned(rec) :
                       /\ ~Done(rec, Planned(rec)[i])
                       /\ \A j \in 1 .. i - 1 : Done(rec, Planned(rec)[j])]

\* StoreResolver.observe
Observe(rec, s) == IF s = "config" THEN config[rec.ws] ELSE store[rec.role][s]

-----------------------------------------------------------------------------
(* validate_record and validate_transition                                 *)

\* What a branch other than the first must have proved when it was chosen.
Proof(rec, branch) ==
    CASE branch = "abandon" -> [config |-> rec.orig, staged |-> rec.eff["credential_stage"].post]
      [] branch = "restore" -> [config |-> rec.orig,
                                active |-> rec.eff["credential_promote"].post,
                                backup |-> rec.eff["credential_backup"].post]
      [] branch = "reject"  -> [config |-> rec.orig, active |-> rec.was, backup |-> Absent]

\* What must be read again before an effect of such a branch.
Guards(rec, e) ==
    CASE rec.branch = "restore" /\ e = "credential_restore" ->
           [config |-> rec.orig, backup |-> rec.eff["credential_backup"].post]
      [] rec.branch = "restore" /\ e = "backup_delete" ->
           [config |-> rec.orig, active |-> rec.eff["credential_restore"].post]
      [] rec.branch = "restore" /\ e = "staging_cleanup" ->
           [config |-> rec.orig, active |-> rec.eff["credential_restore"].post, backup |-> Absent]
      [] rec.branch = "abandon" /\ e = "staged_delete" -> [config |-> rec.orig]
      [] rec.branch = "reject" /\ e = "staged_delete" ->
           [config |-> rec.orig, active |-> rec.was, backup |-> Absent]
      [] OTHER -> <<>>

Shows(rec, expected) == \A s \in DOMAIN expected : Observe(rec, s) = expected[s]

\* The effects a branch needs verified, and those it may not find begun.
Needs(branch) ==
    CASE branch = "restore" -> {"credential_stage", "credential_backup", "credential_promote"}
      [] branch = "primary" -> {}
      [] OTHER -> {"credential_stage"}
Forbids(branch) ==
    CASE branch = "abandon" -> {"credential_promote"}
      [] branch = "reject"  -> {"credential_backup", "credential_promote", "config_commit"}
      [] OTHER -> {}

Links ==
    {<<"credential_promote", "post", "credential_stage", "post">>,
     <<"credential_promote", "pre",  "credential_backup", "post">>,
     <<"credential_restore", "pre",  "credential_promote", "post">>,
     <<"credential_restore", "post", "credential_backup", "post">>,
     <<"backup_delete",      "pre",  "credential_backup", "post">>,
     <<"staged_delete",      "pre",  "credential_stage", "post">>,
     <<"staging_cleanup",    "pre",  "credential_stage", "post">>}

ValidRecord(rec) ==
    LET plan == Planned(rec)
        inPlan == {plan[i] : i \in DOMAIN plan}
    IN  /\ rec.orig # rec.cand
        /\ \A e \in DOMAIN rec.eff :
              /\ (e \in inPlan) = (rec.eff[e].st # "not_applied")
              /\ StoreOf(e) = "config" => rec.eff[e].pre = rec.orig /\ rec.eff[e].post = rec.cand
              /\ e = "credential_backup" => rec.eff[e].pre = Absent
              /\ e \in Deletes => rec.eff[e].post = Absent
        /\ \A e \in Needs(rec.branch) : Done(rec, e)
        /\ \A e \in Forbids(rec.branch) : ~Begun(rec, e)
        /\ \A l \in Links : Begun(rec, l[1]) /\ Begun(rec, l[3])
                              => rec.eff[l[1]][l[2]] = rec.eff[l[3]][l[4]]
        /\ \A i \in DOMAIN plan : Begun(rec, plan[i]) => \A j \in 1 .. i - 1 : Done(rec, plan[j])
        /\ rec.phase \in {"complete", "completed_then_superseded"} => AllDone(rec)
        /\ rec.phase = "resolved_without_change" => \A e \in DOMAIN rec.eff : ~Done(rec, e)

ValidChange(old, new) ==
    /\ ValidRecord(new)
    /\ old.phase \notin Terminal
    /\ \A f \in {"ws", "role", "kind", "orig", "cand", "was"} : new[f] = old[f]
    /\ new.phase = old.phase \/ new.phase \in Transitions(old.phase)
    /\ \A e \in DOMAIN old.eff :
          /\ Begun(new, e)
          /\ new.eff[e].pre = old.eff[e].pre /\ new.eff[e].post = old.eff[e].post
          /\ old.eff[e].st # "intent" => new.eff[e] = old.eff[e]
    /\ IF new.branch = old.branch
       THEN \A e \in DOMAIN new.eff :
              new.eff[e].st = "not_applied" => Begun(old, e) /\ old.eff[e] = new.eff[e]
       ELSE /\ old.branch = "primary" /\ new.branch \in Branches(old.kind)
            /\ DOMAIN new.eff = DOMAIN old.eff
            /\ \A e \in DOMAIN old.eff :
                  new.eff[e] = old.eff[e] \/ (Intended(old, e) /\ new.eff[e].st = "not_applied")

-----------------------------------------------------------------------------
(* Comparing an interrupted operation with the stores                      *)

\* The last effect begun on each store, in the order of the plan.
LastOn(rec) ==
    LET plan  == Planned(rec)
        begun == {i \in DOMAIN plan : Begun(rec, plan[i])}
        lasts == {i \in begun : \A j \in begun :
                     StoreOf(plan[j]) = StoreOf(plan[i]) => j <= i}
    IN  {plan[i] : i \in lasts}

\* _check_store_evidence, before an effect on the store `except'.
Evidence(rec, except) ==
    \A e \in LastOn(rec) : StoreOf(e) # except => Observe(rec, StoreOf(e)) = rec.eff[e].post

\* recovery_choices
Choices(rec) ==
    LET plan == Planned(rec)
        rest == {plan[i] : i \in {j \in DOMAIN plan : \E k \in 1 .. j : ~Done(rec, plan[k])}}
        primary == rec.branch = "primary"
    IN  {"resume"}
        \cup {x \in {"leave"} :
                /\ primary
                /\ CASE rec.kind = "enrollment" ->
                          /\ Done(rec, "credential_stage")
                          /\ ~Done(rec, "config_commit")
                          /\ ~Begun(rec, "credential_promote")
                     [] rec.kind = "replacement" ->
                          /\ Done(rec, "credential_stage")
                          /\ \A e \in {"credential_backup", "credential_promote", "config_commit"} :
                                ~Begun(rec, e)
                     [] OTHER -> TRUE}
        \cup {x \in {"restore"} :
                /\ primary /\ rec.kind = "replacement"
                /\ Done(rec, "credential_promote") /\ ~Done(rec, "config_commit")}
        \cup {x \in {"retry_delete"} : rest # {} /\ rest \subseteq Deletes}

\* enrollment_recovery_action
EnrollmentAction(rec) ==
    LET gen    == Observe(rec, "config")
        staged == Observe(rec, "staged")
        active == Observe(rec, "active")
    IN  IF rec.branch = "abandon"
        THEN IF /\ gen = rec.orig
                /\ \/ staged = rec.eff["credential_stage"].post
                   \/ Intended(rec, "staged_delete") /\ staged = Absent
                /\ active = Absent
             THEN "continue_abandon" ELSE "manual_review"
        ELSE IF gen = rec.cand /\ Begun(rec, "config_commit")
        THEN "continue_commit"
        ELSE IF /\ gen = rec.orig
                /\ ~Begun(rec, "credential_promote")
                /\ Done(rec, "credential_stage")
                /\ staged = rec.eff["credential_stage"].post
        THEN "abandon"
        ELSE "manual_review"

\* replacement_recovery_action
ReplacementAction(rec) ==
    LET gen    == Observe(rec, "config")
        active == Observe(rec, "active")
        backup == Observe(rec, "backup")
        eff    == rec.eff
    IN  IF rec.branch = "restore"
        THEN IF gen # rec.orig THEN "manual_review"
             ELSE IF ~Begun(rec, "credential_restore") \/ Intended(rec, "credential_restore")
             THEN IF /\ \/ active = eff["credential_promote"].post
                        \/ /\ Begun(rec, "credential_restore")
                           /\ active = eff["credential_restore"].post
                     /\ backup = eff["credential_backup"].post
                  THEN "continue_restore" ELSE "manual_review"
             ELSE IF /\ Done(rec, "credential_restore") /\ active = eff["credential_restore"].post
                     /\ \/ backup = eff["credential_backup"].post
                        \/ Intended(rec, "backup_delete") /\ backup = Absent
             THEN "continue_restore" ELSE "manual_review"
        ELSE IF Done(rec, "credential_promote")
        THEN IF active # eff["credential_promote"].post THEN "manual_review"
             ELSE IF gen = rec.orig /\ ~Done(rec, "config_commit") THEN "restore_backup"
             ELSE IF gen = rec.cand THEN "continue_commit"
             ELSE "manual_review"
        ELSE IF gen # rec.orig THEN "manual_review"
        ELSE IF Begun(rec, "credential_promote")
        THEN IF active = eff["credential_promote"].post THEN "verify:credential_promote"
             ELSE IF active = eff["credential_promote"].pre THEN "resume:credential_promote"
             ELSE "manual_review"
        ELSE "resume_before_promotion"

\* _require_live_recovery: the part every kind shares, and the part of each kind.
StoresAgree(rec) ==
    \A e \in LastOn(rec) :
        LET now == Observe(rec, StoreOf(e)) IN
        CASE rec.eff[e].st = "verified"    -> now = rec.eff[e].post
          [] rec.eff[e].st = "intent"      -> now \in {rec.eff[e].pre, rec.eff[e].post}
          [] rec.eff[e].st = "not_applied" -> now = rec.eff[e].pre
          [] OTHER                         -> FALSE

EnrollmentIsLive(rec, action) ==
    LET decision ==
          IF Intended(rec, "credential_stage")
          THEN IF /\ rec.branch = "primary"
                  /\ Observe(rec, "config") = rec.orig
                  /\ Observe(rec, "staged") = rec.eff["credential_stage"].post
                  /\ Observe(rec, "active") = Absent
                  /\ ~Begun(rec, "credential_promote")
               THEN "stage_intent" ELSE "manual_review"
          ELSE IF /\ rec.branch = "abandon" /\ Done(rec, "staged_delete")
                  /\ Observe(rec, "staged") = Absent /\ Observe(rec, "active") = Absent
                  /\ Observe(rec, "config") = rec.orig
          THEN "continue_abandon"
          ELSE EnrollmentAction(rec)
    IN  /\ decision # "manual_review"
        /\ action = "leave" => decision = IF rec.branch = "primary" THEN "abandon"
                                          ELSE "continue_abandon"

ReplacementIsLive(rec, action) ==
    LET decision ==
          IF /\ rec.branch = "restore"
             /\ Done(rec, "credential_restore") /\ Done(rec, "backup_delete")
             /\ Observe(rec, "backup") = Absent
             /\ Observe(rec, "active") = rec.eff["credential_restore"].post
             /\ Observe(rec, "config") = rec.orig
          THEN "continue_restore"
          ELSE ReplacementAction(rec)
    IN  /\ rec.branch \in {"primary", "reject"} /\ ~Begun(rec, "credential_promote")
             => Observe(rec, "active") = rec.was
        /\ ~Begun(rec, "credential_backup") => Observe(rec, "backup") = Absent
        /\ decision # "manual_review"
        /\ action = "restore" => decision = IF rec.branch = "primary" THEN "restore_backup"
                                            ELSE "continue_restore"
        /\ action = "leave" => decision = "resume_before_promotion"

IsLive(rec, action) ==
    /\ Observe(rec, "config") \in {rec.orig, rec.cand}
    /\ StoresAgree(rec)
    /\ rec.kind = "enrollment"  => EnrollmentIsLive(rec, action)
    /\ rec.kind = "replacement" => ReplacementIsLive(rec, action)
=============================================================================
