-------------------------- MODULE CredentialProperties -------------------------
(***************************************************************************)
(* What the credential operations and the reviewed changes of the          *)
(* configuration must keep true through any interleaving and any crash.    *)
(***************************************************************************)
EXTENDS CredentialSaga

\* At most one operation on the pair is unfinished, in whichever workspace it was started
\* and however it was interrupted (the reservation of settings/credential_admission.py);
\* and a secret in a staging or backup slot belongs to that operation, which will remove
\* it: a finished one, also one that was refused, undone or repaired after a crash, leaves
\* no copy behind.
NoCopyLeft ==
    /\ \A op, other \in Ops : Unresolved(op) /\ Unresolved(other) => op = other
    /\ \A r \in Roles, s \in {"staged", "backup"} :
          store[r][s] # Absent => \E op \in Ops : Unresolved(op) /\ journal[op].role = r

\* Until the configuration has taken the new credential, the old one of a replacement is
\* in the active slot or in the backup: it can be restored.
OldSurvives ==
    \A op \in Ops :
        LET rec == journal[op] IN
        Unresolved(op) /\ rec.kind = "replacement" /\ ~Done(rec, "config_commit")
            => rec.was \in {store[rec.role].active, store[rec.role].backup}

\* The two purposes never share a credential, whatever was saved, restored or left
\* unfinished for either of them in any workspace (_separate).
PurposesApart ==
    \A r, p \in Roles : r # p /\ store[r].active # Absent => store[r].active # store[p].active

\* Every change of a record that a handler makes is one that the validator accepts, so
\* that the record of an interrupted operation can always be read back and continued.
ChangesAreValid ==
    [][\A op \in Ops : journal'[op] # journal[op] =>
          IF Exists(op) THEN ValidChange(journal[op], journal'[op])
                        ELSE ValidRecord(journal'[op])]_vars

\* After a crash anywhere, when nothing but the operation itself has touched the stores
\* and the configuration, at least one of the repairs that the user is offered is
\* accepted.  Three interruptions leave nothing to choose: a reservation without a
\* record, a record whose secret was never staged, and a readback that differed.
Undisturbed(op) ==
    LET rec == journal[op] IN
    /\ ~temp /\ pair \in {op, NoOp}
    /\ rec.phase # "repair_required"
    /\ config[rec.ws] \in {rec.orig, rec.cand}
    /\ rec.kind \in {"enrollment", "replacement"} =>
          Done(rec, "credential_stage") \/ store[rec.role].staged # Absent
CrashIsRecoverable ==
    \A op \in Ops :
        act = Idle /\ Unresolved(op) /\ Undisturbed(op)
            => /\ AdmitsRecovery(op)
               /\ \E action \in Choices(journal[op]) : IsLive(journal[op], action)

\* What the configuration selects is there, unless an operation is unfinished or another
\* workspace has forgotten the credential that both share.
SelectedIsStored ==
    \A w \in Workspaces, r \in Roles :
        config[w].source[r] = "managed" /\ store[r].active = Absent
            => \E op \in Ops : /\ Exists(op) /\ journal[op].role = r
                               /\ Unresolved(op) \/ (journal[op].kind = "forget" /\ journal[op].ws # w)

\* A write of the configuration replaces what was reviewed or an edit by hand that came
\* after the last look: never what another reviewed change or operation has written.
ReviewedOnly ==
    [][\A w \in Workspaces :
          config'[w] # config[w] /\ config'[w].zone # HandZone
              => \/ \E a \in Applies : /\ editor[a] = "intent" /\ editor'[a] = "written"
                                       /\ config[w] = applies[a].orig \/ config[w].zone = HandZone
                 \/ /\ act.at = "intended"
                    /\ (config[w] = R.orig \/ config[w].zone = HandZone)]_vars

Atomic == INSTANCE AtomicCredential WITH
    Values <- Secrets \cup {Absent},
    cred <- [r \in Roles |->
               IF \E op \in Ops : Unresolved(op) /\ journal[op].role = r
               THEN journal[CHOOSE op \in Ops : Unresolved(op) /\ journal[op].role = r].was
               ELSE store[r].active],
    change <- [op \in Ops |->
                 IF ~Exists(op) THEN [state |-> "none"]
                 ELSE [state |-> IF Unresolved(op) THEN "pending"
                                 ELSE IF journal[op].branch = "primary" THEN "applied" ELSE "undone",
                       role |-> journal[op].role, new |-> journal[op].new]]

\* The operations implement an atomic change: through stages, backups, crashes and
\* repairs, a role's credential is the old one until the operation ends, and then the new
\* one exactly when the operation was not undone.
ImplementsAtomicCredential == Atomic!Spec

\* The slots of the store: no copy without an operation, no shared secret, nothing missing
\* that the configuration selects.
StoresAreSound == NoCopyLeft /\ PurposesApart /\ SelectedIsStored

\* An operation interrupted anywhere can be finished or undone.
RepairIsPossible == OldSurvives /\ CrashIsRecoverable

\* Journal and configuration change only as the validator and the review allow.
WritesAreAllowed == ChangesAreValid /\ ReviewedOnly

-----------------------------------------------------------------------------
(* Why they hold: the inductive invariant.  A record of the journal is a   *)
(* script: what an effect finds and leaves is determined by the record's   *)
(* configurations, by the credential the role had (was) and by the one it  *)
(* is to have (new).  Only the one unfinished operation touches the slots  *)
(* of its role, so that at every moment, a crash included, the journal     *)
(* tells what they hold, and the configuration but for its zone.           *)

Values  == Secrets \cup {Absent}
Effects == {"credential_stage", "credential_backup", "credential_promote", "credential_restore",
            "credential_delete", "config_commit", "config_detach", "backup_delete",
            "staged_delete", "staging_cleanup"}

\* The script: what an effect finds and what it leaves.
Found(rec, e) ==
    CASE e \in {"config_commit", "config_detach"}       -> rec.orig
      [] e \in {"credential_stage", "credential_backup"} -> Absent
      [] e \in {"credential_promote", "credential_delete", "backup_delete"} -> rec.was
      [] OTHER -> rec.new
Left(rec, e) ==
    CASE e \in {"config_commit", "config_detach"}         -> rec.cand
      [] e \in {"credential_stage", "credential_promote"}   -> rec.new
      [] e \in {"credential_backup", "credential_restore"}  -> rec.was
      [] OTHER -> Absent

Entry == [st   : {"intent", "verified", "mismatch", "not_applied"},
          pre  : Values \cup Config,
          post : Values \cup Config]
IsRecord(rec) ==
    /\ rec = [ws |-> rec.ws, role |-> rec.role, kind |-> rec.kind, branch |-> rec.branch,
              phase |-> rec.phase, eff |-> rec.eff, orig |-> rec.orig, cand |-> rec.cand,
              was |-> rec.was, new |-> rec.new]
    /\ rec.ws \in Workspaces /\ rec.role \in Roles /\ rec.kind \in Kinds
    /\ rec.phase \in {"prepare", "effect_intent", "committed", "repair_required", "complete"}
    /\ rec.orig \in Config /\ rec.cand \in Config /\ rec.was \in Values /\ rec.new \in Values
    /\ DOMAIN rec.eff \subseteq Effects
    /\ \A e \in DOMAIN rec.eff : rec.eff[e] \in Entry
ApplyType ==
    [ws : Workspaces,
     phase : {"prepare", "candidate_validated", "locked", "effect_intent", "committed",
              "repair_required"} \cup Terminal,
     orig : Config, cand : Config,
     effect : {"none", "intent", "verified", "readback_mismatch"}]
Starter ==
    [at : {"admitted", "reserve", "join", "create", "step", "intended", "performed", "verify",
           "continue", "release", "unreserve"},
     op : Ops, ws : Workspaces, role : Roles, want : Wants, value : Secrets, gen : Config,
     proved : BOOLEAN, kind : Kinds \cup {"none"}, locked : BOOLEAN]
Repairer ==
    [at : {"recover", "maintain", "continue", "step", "intended", "performed", "release",
           "unreserve"},
     op : Ops, ws : Workspaces, role : Roles,
     action : {"resume", "restore", "leave", "retry_delete"}, locked : {TRUE}]

\* Every variable has its type.
TypeOK ==
    /\ config \in [Workspaces -> Config]
    /\ holder \in [Workspaces -> 0 .. MaxApply + 2]
    /\ applies \in [Applies -> {NoApply, Past} \cup ApplyType]
    /\ editor \in [Applies -> {"out", "begun", "validated", "locked", "intent", "written", "recorded"}]
    /\ store \in [Roles -> [Slots -> Values]]
    /\ journal = [op \in Ops |-> journal[op]]
    /\ \A op \in Ops : Exists(op) => IsRecord(journal[op])
    /\ pair \in Ops \cup {NoOp}
    /\ slot \in [Roles -> {NoMarker} \cup [op : Ops, schema : {1, 2}]]
    /\ temp \in BOOLEAN
    /\ act \in {Idle} \cup Starter \cup Repairer

\* Two configurations that may differ in their zone only.
Same(c, d) == c.source = d.source /\ c.revision = d.revision

\* A change that has looked under the lock still holds it; nobody but a hand has edited
\* the file since, and what the change writes differs in the zone only.
Editing ==
    \A a \in Applies :
        /\ editor[a] # "out" => applies[a] \in ApplyType
        /\ applies[a] \in ApplyType =>
              /\ Same(applies[a].cand, applies[a].orig)
              /\ editor[a] \in {"locked", "intent", "written", "recorded"} => holder[applies[a].ws] = a
              /\ editor[a] \in {"locked", "intent"} => Same(config[applies[a].ws], applies[a].orig)
              /\ editor[a] = "intent" =>
                    config[applies[a].ws] = applies[a].orig \/ config[applies[a].ws].zone = HandZone

\* What a record says of the operation itself.
WellFormed(op, rec) ==
    /\ rec.branch \in Branches(rec.kind)
    /\ rec.cand.revision = [rec.orig.revision EXCEPT ![rec.role] = op]
    /\ rec.orig.revision[rec.role] # op
    /\ rec.cand.source = [rec.orig.source EXCEPT
         ![rec.role] = IF rec.kind \in {"forget", "detach"} THEN "none" ELSE "managed"]
    /\ CASE rec.kind = "enrollment"  -> rec.was = Absent /\ rec.new \in Secrets
         [] rec.kind = "replacement" -> rec.was \in Secrets /\ rec.new \in Secrets
         [] rec.kind = "forget"      -> rec.new = Absent
         [] OTHER                    -> rec.new = rec.was

\* What it says of its effects: they follow the plan one after the other, an effect that
\* the branch has dropped is a commit that was not performed, and only a configuration
\* that somebody edited is read back different.
InPlan(rec, e) == \E i \in DOMAIN Planned(rec) : Planned(rec)[i] = e
InOrder(rec) ==
    \A i \in DOMAIN Planned(rec) :
        Begun(rec, Planned(rec)[i]) => \A j \in 1 .. i - 1 : Done(rec, Planned(rec)[j])
Scripted(rec) ==
    /\ \A e \in DOMAIN rec.eff :
          /\ rec.eff[e].pre = Found(rec, e) /\ rec.eff[e].post = Left(rec, e)
          /\ InPlan(rec, e) <=> rec.eff[e].st # "not_applied"
          /\ rec.eff[e].st = "not_applied" => e = "config_commit" /\ rec.branch # "primary"
          /\ rec.eff[e].st = "mismatch" => StoreOf(e) = "config" /\ rec.phase = "repair_required"
          /\ rec.eff[e].st = "intent" => rec.phase = "effect_intent"
    /\ InOrder(rec)
    /\ \A e \in Needs(rec.branch) : Done(rec, e)
    /\ rec.branch = "reject" => ~Begun(rec, "config_commit")
    /\ rec.phase = "prepare" => DOMAIN rec.eff = {}
    /\ rec.phase # "prepare" => DOMAIN rec.eff # {}
    /\ rec.phase = "repair_required" => \E e \in DOMAIN rec.eff : rec.eff[e].st = "mismatch"
    /\ rec.phase = "complete" => AllDone(rec)

RecordsHold ==
    \A op \in Ops : Exists(op) => WellFormed(op, journal[op]) /\ Scripted(journal[op])

\* No configuration names an operation that has not been recorded.
RevisionsAreKnown ==
    \A op \in Ops, w \in Workspaces, r \in Roles :
        journal[op] = NoRecord => config[w].revision[r] # op

OneUnresolved ==
    \A op, other \in Ops : Unresolved(op) /\ Unresolved(other) => op = other

\* What a slot or the configuration may hold after an effect, given what it may before.
Through(rec, e, held) ==
    IF ~Begun(rec, e) THEN held
    ELSE CASE rec.eff[e].st = "intent"      -> {Found(rec, e), Left(rec, e)}
           [] rec.eff[e].st = "not_applied" -> {Found(rec, e)}
           [] OTHER                         -> {Left(rec, e)}

Slotted(rec) ==
    /\ store[rec.role].staged \in Through(rec, "staged_delete",
                                    Through(rec, "staging_cleanup",
                                      Through(rec, "credential_stage", {Absent})))
    /\ store[rec.role].backup \in Through(rec, "backup_delete",
                                    Through(rec, "credential_backup", {Absent}))
    /\ store[rec.role].active \in Through(rec, "credential_delete",
                                    Through(rec, "credential_restore",
                                      Through(rec, "credential_promote", {rec.was})))
Configured(rec) ==
    \E c \in Through(rec, "config_detach", Through(rec, "config_commit", {rec.orig})) :
        Same(config[rec.ws], c)

\* Another workspace has forgotten the credential that both share.
Forgotten(w, r) ==
    \E op \in Ops : Exists(op) /\ journal[op].role = r /\ journal[op].kind = "forget" /\ journal[op].ws # w

\* An unfinished operation: its reservation, what the stores hold, the other purpose, and
\* what the configurations select should it be undone.
Tracked ==
    \A op \in Ops : Unresolved(op) =>
        LET rec == journal[op] IN
        /\ slot[rec.role].op = op
        /\ pair = op \/ (pair = NoOp /\ slot[rec.role].schema = 1)
        /\ Slotted(rec)
        /\ Configured(rec)
        /\ \A p \in Roles \ {rec.role} :
              /\ slot[p] = NoMarker
              /\ rec.was # Absent => rec.was # store[p].active
              /\ Begun(rec, "credential_promote") => rec.new # store[p].active
        /\ \A w \in Workspaces :
              /\ (IF w = rec.ws THEN rec.orig ELSE config[w]).source[rec.role] = "managed"
              /\ rec.was = Absent
              => Forgotten(w, rec.role)

\* A role without one: no copies, and what is selected is there.
AtRest ==
    \A r \in Roles :
        (\A op \in Ops : ~(Unresolved(op) /\ journal[op].role = r)) =>
            /\ store[r].staged = Absent /\ store[r].backup = Absent
            /\ \A w \in Workspaces :
                  config[w].source[r] = "managed" /\ store[r].active = Absent => Forgotten(w, r)

\* The worker is alone: nothing but its own operation is unfinished, and that one only
\* from the record on.
Alone ==
    act # Idle =>
        /\ \A op \in Ops \ {act.op} : ~Unresolved(op)
        /\ act.at \in {"admitted", "reserve", "join", "create"} => journal[act.op] = NoRecord
        /\ act.at \notin {"admitted", "reserve", "join", "create"} =>
              /\ Exists(act.op)
              /\ act.ws = R.ws /\ act.role = R.role
        /\ act.at \in {"release", "unreserve"} => Resolved(act.op)

\* From the admission to the record: what was reserved, and what was found acceptable.
Starting ==
    /\ act.at = "admitted" => act.op \notin Reserved
    /\ act.at \in {"admitted", "reserve", "join", "create"} => ~act.locked
    /\ act.at \in {"reserve", "join", "create"} =>
          /\ holder[act.ws] = Saga
          /\ Same(config[act.ws], act.gen)
          /\ \A p \in Roles \ {act.role} : slot[p] = NoMarker
          /\ slot[act.role] = IF act.at = "reserve" THEN NoMarker ELSE [op |-> act.op, schema |-> 2]
          /\ pair = IF act.at = "create" THEN act.op ELSE NoOp
          /\ act.kind = KindOf(act)
          /\ act.kind = "forget" => act.gen.source[act.role] = "managed"
          /\ act.kind \in {"enrollment", "replacement"} =>
                \A p \in Roles \ {act.role} : act.value # store[p].active

\* From the record on: the operation has the pair and nothing was read back different.
Owning ==
    act.at \in {"step", "intended", "performed", "verify", "continue"} =>
        Unresolved(act.op) /\ pair = act.op /\ R.phase # "repair_required"

\* The worker has the lock of the configuration, except for the first effect.
Holding ==
    act.at \in {"step", "intended", "performed"} /\ act.locked => holder[act.ws] = Saga
Staging ==
    act.at \in {"step", "intended", "performed", "verify"} /\ ~act.locked =>
        /\ act \in Starter /\ act.value = R.new
        /\ R.branch = "primary" /\ R.kind \in {"enrollment", "replacement"}
        /\ act.at # "verify" => ~Done(R, "credential_stage")
Verifying ==
    act.at = "verify" => ~act.locked /\ Done(R, "credential_stage")

\* A credential that is still to be promoted is not the one of the other purpose.
Promoting ==
    /\ act.at \in {"step", "intended", "performed"} /\ act.locked
    /\ R.branch = "primary" /\ R.kind \in {"enrollment", "replacement"}
    /\ store[act.role].staged # Absent
    => \A p \in Roles \ {act.role} : R.new # store[p].active

\* What is intended is the next effect; what is performed can be read back.
Intending ==
    act.at \in {"intended", "performed"} =>
        /\ Intended(R, NextEffect(R)) /\ ~AllDone(R)
        /\ act.locked => NextEffect(R) # "credential_stage"
Replacing ==
    act.at = "intended" /\ StoreOf(NextEffect(R)) = "config" =>
        config[act.ws] = R.orig \/ config[act.ws].zone = HandZone
Performing ==
    act.at = "performed" =>
        IF StoreOf(NextEffect(R)) = "config" THEN Same(config[act.ws], R.cand)
        ELSE Observe(R, StoreOf(NextEffect(R))) = Left(R, NextEffect(R))

Working ==
    Owning /\ Holding /\ Staging /\ Verifying /\ Promoting /\ Intending /\ Replacing /\ Performing

\* A repair: what was inspected is still so.
Repairing ==
    act.at = "maintain" =>
        /\ holder[act.ws] = Saga
        /\ Unresolved(act.op) => R.phase # "repair_required"
        /\ Unresolved(act.op) /\ R.branch = "primary" =>
              /\ act.action = "restore" => R.kind = "replacement" /\ Done(R, "credential_promote")
              /\ act.action = "leave" => /\ R.kind \in {"enrollment", "replacement"}
                                         /\ Done(R, "credential_stage")

IndInv ==
    /\ TypeOK /\ Editing
    /\ RecordsHold /\ RevisionsAreKnown /\ OneUnresolved /\ PurposesApart
    /\ Tracked /\ AtRest
    /\ Alone /\ Starting /\ Working /\ Repairing

=============================================================================
