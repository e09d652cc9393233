---------------------------- MODULE CredentialSaga -----------------------------
(***************************************************************************)
(* One credential operation at a time on the pair of roles of a provider:  *)
(* the admission that reserves the pair for the user                       *)
(* (settings/credential_admission.py), the transactions over the secret    *)
(* stores and the configuration (settings/credential_service.py) and their *)
(* recovery after a crash, beside the reviewed changes of ConfigStore.     *)
(*                                                                         *)
(* Whoever works on the pair holds its lock, the locks of both slots, the  *)
(* role's and the record's; one that fails to get one gives up at once.    *)
(* There is then at most one worker, `act'.  It may die, or end with an    *)
(* exception, between any two writes: both free its locks and leave the    *)
(* rest as it is.                                                          *)
(*                                                                         *)
(* What is abstracted.  The credential's own checks and the provider's     *)
(* answer are a choice.  The fresh proof of a Google grant is one step     *)
(* between two looks at the configuration.  Markers name the operation     *)
(* only: the paths they repeat are those of its workspace.                 *)
(***************************************************************************)
EXTENDS CredentialJournal

CONSTANT NoOp     \* no operation

ASSUME SagaAssumption ==
    /\ NoOp \notin Ops
    /\ \E r, p \in Roles : r # p /\ Roles = {r, p}

VARIABLES
    pair,    \* the operation that has the pair reserved
    slot,    \* the operation that has each role's slot reserved, and the marker's schema
    temp,    \* a temporary file of an unfinished reservation is there
    act      \* the worker that holds the pair

sagaVars == <<store, journal, pair, slot, temp, act>>
vars     == <<configVars, sagaVars>>

NoMarker == [op |-> NoOp, schema |-> 0]
Idle     == [at |-> "idle"]

Goto(where) == act' = [act EXCEPT !.at = where]
Quit        == act' = Idle
Write(op, new) == journal' = [journal EXCEPT ![op] = new]
Lock(w)     == holder[w] = Free /\ holder' = [holder EXCEPT ![w] = Saga]
Peer(r)     == CHOOSE p \in Roles : p # r
Reserved    == {op \in Ops : pair = op \/ \E r \in Roles : slot[r].op = op}

\* An operation of a release that reserved its slot only, not the pair: a first secret
\* was staged when that release went away.
Staged(w, r, v) ==
    [Record(w, r, "enrollment", config[w],
            [config[w] EXCEPT !.source[r] = "managed", !.revision[r] = 1], Absent, v)
       EXCEPT !.phase = "committed",
              !.eff = [credential_stage |-> [st |-> "verified", pre |-> Absent, post |-> v]]]

Fresh ==
    /\ journal \in [Ops -> {NoRecord, Past}]
    /\ slot = [r \in Roles |-> NoMarker]
    /\ \A r \in Roles : store[r].staged = Absent

Upgraded ==
    \E w \in Workspaces, r \in Roles :
        /\ store[r].active = Absent /\ store[r].staged # Absent
        /\ store[Peer(r)].staged = Absent
        /\ store[Peer(r)].active # store[r].staged
        /\ journal \in {[op \in Ops |-> IF op = 1 THEN Staged(w, r, store[r].staged) ELSE rec] :
                          rec \in {NoRecord, Past}}
        /\ slot = [q \in Roles |-> IF q = r THEN [op |-> 1, schema |-> 1] ELSE NoMarker]

SagaInit ==
    /\ ConfigInit
    /\ store \in [Roles -> [active : Secrets \cup {Absent}, staged : Secrets \cup {Absent},
                             backup : {Absent}]]
    /\ \A r \in Roles :
          store[r].active # Absent => store[r].active # store[Peer(r)].active
    /\ \A w \in Workspaces, r \in Roles :
          config[w].source[r] = "managed" => store[r].active # Absent
    /\ pair = NoOp
    /\ temp = FALSE
    /\ act = Idle
    /\ Fresh \/ Upgraded

-----------------------------------------------------------------------------
(* Admission                                                               *)

\* Another unresolved operation that this workspace's journal shows.
OthersPending(w, op) ==
    \E o \in Ops \ {op} : Unresolved(o) /\ journal[o].ws = w

\* Every file of a reservation can be read and belongs to a record.
Recognized == ~temp

\* A new operation may start when everything that names another is resolved.  A slot
\* that a release cut short has left without its pair is not for it to clear.
AdmitsNew(w) ==
    /\ Recognized
    /\ pair # NoOp => Resolved(pair) /\ slot[journal[pair].role].op = pair
    /\ \A r \in Roles : slot[r] # NoMarker =>
          Resolved(slot[r].op) /\ (pair # NoOp \/ slot[r].schema = 1)
    /\ ~OthersPending(w, NoOp)

AdmitsRecovery(op) ==
    LET r == journal[op].role IN
    /\ Recognized
    /\ pair \notin {NoOp, op} => Resolved(pair) /\ slot[r] = [op |-> op, schema |-> 1]
    /\ pair # NoOp => slot[journal[pair].role].op = pair
    /\ slot[Peer(r)] # NoMarker => Resolved(slot[Peer(r)].op)
    /\ ~OthersPending(journal[op].ws, op)
    /\ pair # op =>
         CASE slot[r].op = op /\ slot[r].schema = 1 -> TRUE
           [] slot[r].op = op /\ slot[r].schema # 1 -> Resolved(op) /\ slot[Peer(r)] = NoMarker
           [] OTHER -> /\ Resolved(op) /\ pair = NoOp
                       /\ \A q \in Roles : slot[q] = NoMarker

\* The pair first, then the slots.
RetirePair ==
    /\ act.at \in {"admitted", "maintain"}
    /\ pair \notin {NoOp, act.op}
    /\ pair' = NoOp
    /\ UNCHANGED <<store, journal, slot, temp, act, holder>>

RetireSlot(r) ==
    /\ act.at \in {"admitted", "maintain"}
    /\ pair \in {NoOp, act.op}
    /\ slot[r].op \notin {NoOp, act.op}
    /\ slot' = [slot EXCEPT ![r] = NoMarker]
    /\ UNCHANGED <<store, journal, pair, temp, act, holder>>

Cleared == pair \in {NoOp, act.op} /\ \A r \in Roles : slot[r].op \in {NoOp, act.op}

Start(op, w, r, want, v) ==
    /\ act = Idle
    /\ journal[op] = NoRecord /\ op \notin Reserved
    /\ \A o \in 1 .. op - 1 : Exists(o) \/ o \in Reserved
    /\ AdmitsNew(w)
    /\ act' = [at |-> "admitted", op |-> op, ws |-> w, role |-> r, want |-> want, value |-> v,
               gen |-> config[w], proved |-> FALSE, kind |-> "none", locked |-> FALSE]
    /\ UNCHANGED <<store, journal, pair, slot, temp, holder>>

-----------------------------------------------------------------------------
(* save, save_google_oauth and forget, up to the record                    *)

Separate(w, r, v) ==
    LET p == Peer(r) IN
    /\ config[w].source[p] = "managed" => store[p].active # Absent
    /\ store[p].active # v

Acceptable(a) ==
    /\ config[a.ws] = a.gen
    /\ CASE a.want = "forget" -> config[a.ws].source[a.role] = "managed"
         [] a.want = "detach" -> config[a.ws].source[a.role] = "external"
         [] OTHER -> /\ Separate(a.ws, a.role, a.value)
                     /\ a.want = "replace" => /\ config[a.ws].source[a.role] = "managed"
                                              /\ store[a.role].active # Absent
                     /\ store[a.role].staged = Absent
                     /\ store[a.role].backup = Absent

\* The snapshot of a Google grant, and its proof at the provider outside the lock.
Prove ==
    /\ act.at = "admitted" /\ Cleared
    /\ act.want \in {"save", "replace"} /\ ~act.proved
    /\ holder[act.ws] = Free
    /\ Acceptable(act)
    /\ act' = [act EXCEPT !.proved = TRUE]
    /\ UNCHANGED <<store, journal, pair, slot, temp, holder>>

KindOf(a) ==
    IF a.want \in {"forget", "detach"} THEN a.want
    ELSE IF store[a.role].active = Absent THEN "enrollment" ELSE "replacement"

Begin ==
    /\ act.at = "admitted" /\ Cleared
    /\ holder[act.ws] = Free
    /\ IF Acceptable(act)
       THEN /\ Lock(act.ws)
            /\ act' = [act EXCEPT !.at = "reserve", !.kind = KindOf(act)]
       ELSE Quit /\ UNCHANGED holder
    /\ UNCHANGED <<store, journal, pair, slot, temp>>

PublishSlot ==
    /\ act.at = "reserve"
    /\ slot' = [slot EXCEPT ![act.role] = [op |-> act.op, schema |-> 2]]
    /\ Goto("join")
    /\ UNCHANGED <<store, journal, pair, temp, holder>>

PublishPair ==
    /\ act.at = "join"
    /\ pair' = act.op
    /\ Goto("create")
    /\ UNCHANGED <<store, journal, slot, temp, holder>>

Candidate(a) ==
    [config[a.ws] EXCEPT
        !.source[a.role]   = IF a.want \in {"forget", "detach"} THEN "none" ELSE "managed",
        !.revision[a.role] = a.op]

Wanted(a) == CASE a.kind = "forget" -> Absent
               [] a.kind = "detach" -> store[a.role].active
               [] OTHER             -> a.value

CreateRecord ==
    /\ act.at = "create"
    /\ Write(act.op, Record(act.ws, act.role, act.kind, act.gen, Candidate(act),
                            store[act.role].active, Wanted(act)))
    /\ Unlock(act.ws)
    /\ Goto(IF act.kind \in {"forget", "detach"} THEN "continue" ELSE "step")
    /\ UNCHANGED <<store, pair, slot, temp>>

-----------------------------------------------------------------------------
(* run_effect: an intent, the effect, and what is read back                *)

R == journal[act.op]

\* What an effect that has not begun expects and intends, from the stores as they are.
Pre(rec, e) ==
    CASE StoreOf(e) = "config" -> rec.orig
      [] e \in {"credential_stage", "credential_backup"} -> Absent
      [] OTHER -> Observe(rec, StoreOf(e))
Post(rec, e) ==
    CASE StoreOf(e) = "config"    -> rec.cand
      [] e = "credential_stage"   -> act.value
      [] e = "credential_backup"  -> Observe(rec, "active")
      [] e = "credential_promote" -> Observe(rec, "staged")
      [] e = "credential_restore" -> Observe(rec, "backup")
      [] OTHER                    -> Absent

With(rec, e, st) == [rec EXCEPT !.eff[e].st = st]
Begins(rec, e)   ==
    [rec EXCEPT !.phase = "effect_intent",
                !.eff = [d \in DOMAIN @ \cup {e} |->
                           IF d = e THEN [st |-> "intent", pre |-> Pre(rec, e), post |-> Post(rec, e)]
                           ELSE @[d]]]

\* The stage of a save runs before its verification, without the configuration's lock; the
\* others in _continue, with it, after the evidence of the other stores is checked.
Intend ==
    /\ act.at = "step" /\ ~AllDone(R)
    /\ LET e == NextEffect(R) IN
       /\ act.locked => e # "credential_stage"
       /\ IF /\ Shows(R, Guards(R, e))
             /\ act.locked => Evidence(R, StoreOf(e))
             /\ IF Begun(R, e)
                THEN Intended(R, e) /\ Observe(R, StoreOf(e)) \in {R.eff[e].pre, R.eff[e].post}
                ELSE Observe(R, StoreOf(e)) = Pre(R, e)
          THEN /\ IF Begun(R, e) THEN UNCHANGED journal ELSE Write(act.op, Begins(R, e))
               /\ Goto(IF Begun(R, e) /\ Observe(R, StoreOf(e)) = R.eff[e].post
                       THEN "performed" ELSE "intended")
               /\ UNCHANGED holder
          ELSE /\ Quit
               /\ IF act.locked THEN Unlock(act.ws) ELSE UNCHANGED holder
               /\ UNCHANGED journal
    /\ UNCHANGED <<config, store, pair, slot, temp>>

Perform ==
    /\ act.at = "intended"
    /\ LET e == NextEffect(R) IN
       IF StoreOf(e) = "config"
       THEN config' = [config EXCEPT ![act.ws] = R.cand] /\ UNCHANGED store
       ELSE store' = [store EXCEPT ![act.role][StoreOf(e)] = R.eff[e].post] /\ UNCHANGED config
    /\ Goto("performed")
    /\ UNCHANGED <<journal, pair, slot, temp, holder>>

RecordEffect ==
    /\ act.at = "performed"
    /\ LET e == NextEffect(R) IN
       IF Observe(R, StoreOf(e)) = R.eff[e].post
       THEN /\ Write(act.op, [With(R, e, "verified") EXCEPT !.phase = "committed"])
            /\ Goto(IF e = "credential_stage" THEN "verify" ELSE "step")
            /\ UNCHANGED holder
       ELSE /\ Write(act.op, [With(R, e, "mismatch") EXCEPT !.phase = "repair_required"])
            /\ Quit
            /\ IF act.locked THEN Unlock(act.ws) ELSE UNCHANGED holder
    /\ UNCHANGED <<config, store, pair, slot, temp>>

Complete ==
    /\ act.at = "step" /\ AllDone(R)
    /\ IF Evidence(R, "none")
       THEN /\ Write(act.op, [R EXCEPT !.phase = "complete"])
            /\ Goto("release")
       ELSE Quit /\ UNCHANGED journal
    /\ Unlock(act.ws)
    /\ UNCHANGED <<config, store, pair, slot, temp>>

\* switch_branch: an intent on the configuration that the proof shows was not performed.
Switched(rec, branch) ==
    [rec EXCEPT !.branch = branch,
                !.eff = [e \in DOMAIN @ |->
                           IF e \in {Plan(rec.kind, branch)[i] : i \in DOMAIN Plan(rec.kind, branch)}
                           THEN @[e] ELSE [@[e] EXCEPT !.st = "not_applied"]]]

MaySwitch(rec, branch) ==
    LET plan == Plan(rec.kind, branch) IN
    /\ rec.branch = "primary"
    /\ Shows(rec, Proof(rec, branch))
    /\ \A e \in DOMAIN rec.eff : \/ e \in {plan[i] : i \in DOMAIN plan}
                                 \/ /\ e = "config_commit" /\ branch # "reject"
                                    /\ Intended(rec, e)

UndoBranch(kind) == IF kind = "enrollment" THEN "abandon" ELSE "reject"

Verify(ok) ==
    /\ act.at = "verify"
    /\ IF ok /\ Separate(act.ws, act.role, store[act.role].staged)
       THEN Goto("continue") /\ UNCHANGED <<journal, holder>>
       ELSE IF MaySwitch(R, UndoBranch(R.kind))
       THEN /\ Lock(act.ws)
            /\ Write(act.op, Switched(R, UndoBranch(R.kind)))
            /\ act' = [act EXCEPT !.at = "step", !.locked = TRUE]
       ELSE /\ holder[act.ws] = Free
            /\ Quit /\ UNCHANGED <<journal, holder>>
    /\ UNCHANGED <<config, store, pair, slot, temp>>

\* The head of _continue, under the configuration's lock again.
Continue ==
    /\ act.at = "continue"
    /\ holder[act.ws] = Free
    /\ IF /\ config[act.ws] \in {R.orig, IF R.branch = "primary" THEN R.cand ELSE R.orig}
          /\ R.branch = "primary" /\ R.kind \in {"enrollment", "replacement"}
                /\ store[act.role].staged # Absent
                => Separate(act.ws, act.role, store[act.role].staged)
       THEN /\ Lock(act.ws)
            /\ act' = [act EXCEPT !.at = "step", !.locked = TRUE]
       ELSE Quit /\ UNCHANGED holder
    /\ UNCHANGED <<config, store, journal, pair, slot, temp>>

ReleasePair ==
    /\ act.at = "release"
    /\ pair = act.op
    /\ pair' = NoOp
    /\ Goto("unreserve")
    /\ UNCHANGED <<config, store, journal, slot, temp, holder>>

ReleaseSlot ==
    /\ act.at = "unreserve"
    /\ slot' = [slot EXCEPT ![act.role] = NoMarker]
    /\ Quit
    /\ UNCHANGED <<config, store, journal, pair, temp, holder>>

-----------------------------------------------------------------------------
(* recover                                                                 *)

Recover(op, action) ==
    /\ act = Idle
    /\ Exists(op)
    /\ Unresolved(op) => action \in Choices(journal[op])
    /\ AdmitsRecovery(op)
    /\ act' = [at |-> "recover", op |-> op, ws |-> journal[op].ws, role |-> journal[op].role,
               action |-> action, locked |-> TRUE]
    /\ UNCHANGED <<config, store, journal, pair, slot, temp, holder>>

\* Everything is looked at under all the locks before a marker is touched.
Inspect ==
    /\ act.at = "recover"
    /\ IF \/ Resolved(act.op)
          \/ /\ act.action \in Choices(R)
             /\ IsLive(R, act.action)
             /\ ~(act.action = "leave" /\ R.kind \in {"forget", "detach"})
       THEN Lock(act.ws) /\ Goto("maintain")
       ELSE holder[act.ws] = Free /\ Quit /\ UNCHANGED holder
    /\ UNCHANGED <<config, store, journal, pair, slot, temp>>

\* The marker of the older form joins the pair.
Bridge ==
    /\ act.at = "maintain" /\ Cleared
    /\ pair = NoOp /\ slot[act.role] = [op |-> act.op, schema |-> 1]
    /\ pair' = act.op
    /\ UNCHANGED <<config, store, journal, slot, temp, act, holder>>

\* A release that a crash cut short is finished.
Finish ==
    /\ act.at = "maintain" /\ Cleared
    /\ Resolved(act.op)
    /\ IF pair = act.op
       THEN Goto("release") /\ UNCHANGED slot
       ELSE /\ slot[act.role].schema # 1
            /\ slot' = [slot EXCEPT ![act.role] = NoMarker]
            /\ Quit
    /\ Unlock(act.ws)
    /\ UNCHANGED <<config, store, journal, pair, temp>>

Maintained == act.at = "maintain" /\ Cleared /\ pair = act.op /\ Unresolved(act.op)

\* A staged secret whose record was not made: no effect is performed again.
RecoverStage ==
    /\ Maintained
    /\ Intended(R, "credential_stage")
    /\ IF store[act.role].staged = R.eff["credential_stage"].post
       THEN /\ Write(act.op, [With(R, "credential_stage", "verified") EXCEPT !.phase = "committed"])
            /\ UNCHANGED <<act, holder>>
       ELSE Quit /\ Unlock(act.ws) /\ UNCHANGED journal
    /\ UNCHANGED <<config, store, pair, slot, temp>>

RecoverSwitch ==
    LET branch == IF act.action = "restore" THEN "restore" ELSE UndoBranch(R.kind) IN
    /\ Maintained
    /\ ~Intended(R, "credential_stage")
    /\ R.branch = "primary" /\ act.action \in {"restore", "leave"}
    /\ IF IsLive(R, act.action) /\ MaySwitch(R, branch)
       THEN /\ Write(act.op, Switched(R, branch))
            /\ UNCHANGED <<act, holder>>
       ELSE Quit /\ Unlock(act.ws) /\ UNCHANGED journal
    /\ UNCHANGED <<config, store, pair, slot, temp>>

RecoverVerify(ok) ==
    /\ Maintained
    /\ ~Intended(R, "credential_stage")
    /\ R.branch # "primary" \/ act.action \notin {"restore", "leave"}
    /\ IF /\ IsLive(R, act.action)
          /\ R.branch = "primary" /\ R.kind \in {"enrollment", "replacement"} =>
               IF store[act.role].staged # Absent
               THEN ok /\ Separate(act.ws, act.role, store[act.role].staged)
               ELSE Begun(R, "staging_cleanup")
       THEN Goto("continue")
       ELSE Quit
    /\ Unlock(act.ws)
    /\ UNCHANGED <<config, store, journal, pair, slot, temp>>

-----------------------------------------------------------------------------

\* The worker dies or raises: its locks are freed, a marker it was publishing may be
\* there or not, and so may the temporary file of it.
Leave ==
    /\ act # Idle
    /\ Quit
    /\ holder' = [w \in Workspaces |-> IF holder[w] = Saga THEN Free ELSE holder[w]]
    /\ temp' \in IF act.at \in {"reserve", "join", "create", "maintain"} THEN BOOLEAN ELSE {temp}
    /\ UNCHANGED <<config, store, journal, pair, slot>>

Wants == {"save", "replace", "forget", "detach"}

AdmissionStep ==
    \/ \E op \in Ops, w \in Workspaces, r \in Roles, want \in Wants, v \in Secrets :
          Start(op, w, r, want, v)
    \/ RetirePair \/ (\E r \in Roles : RetireSlot(r))
    \/ Prove \/ Begin \/ PublishSlot \/ PublishPair \/ CreateRecord

EffectStep ==
    \/ Intend \/ Perform \/ RecordEffect \/ Complete
    \/ \E ok \in BOOLEAN : Verify(ok)
    \/ Continue \/ ReleasePair \/ ReleaseSlot

RecoverStep ==
    \/ \E op \in Ops, action \in {"resume", "restore", "leave", "retry_delete"} :
          Recover(op, action)
    \/ Inspect \/ Bridge \/ Finish \/ RecoverStage \/ RecoverSwitch
    \/ \E ok \in BOOLEAN : RecoverVerify(ok)

SagaStep ==
    /\ (AdmissionStep /\ UNCHANGED config) \/ EffectStep \/ RecoverStep \/ Leave
    /\ UNCHANGED <<applies, editor>>

Next == SagaStep \/ (ConfigNext /\ UNCHANGED sagaVars)

Spec == SagaInit /\ [][Next]_vars
=============================================================================
