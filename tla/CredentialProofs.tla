--------------------------- MODULE CredentialProofs ---------------------------
(***************************************************************************)
(* For any number of workspaces, secrets, operations and reviewed changes:  *)
(* the slots are sound, an interrupted operation can be finished or undone, *)
(* journal and configuration change only as validator and review allow, and *)
(* the operations implement an atomic change of a role's credential.        *)
(*                                                                          *)
(* The argument: IndInv is inductive.  A record is a script (Good): its     *)
(* branch says which effects there are and in which order, and what each    *)
(* finds and leaves follows from the record alone.  At any moment slots and *)
(* configuration fit the record of the one unfinished operation (Fits):     *)
(* they hold what the last effect begun on them has found or left.  So a    *)
(* worker reads from the stores what the script says (FoundIs), what it     *)
(* records is again a script, and after a crash the journal alone tells     *)
(* what may be there.                                                       *)
(*                                                                          *)
(* A record is replaced in a few forms only; the definitions that name them *)
(* (InPhase, HavingEff, Mark, SwitchedEffects, Changed, Sourced, At,        *)
(* Locked) are those of the model under a name of their own.                *)
(***************************************************************************)
EXTENDS CredentialProperties, TLAPS

-----------------------------------------------------------------------------
(* The plans, as sets: which effects a branch has, and which of them come   *)
(* before one.                                                              *)

Shaped(rec) ==
    \/ rec.kind = "enrollment" /\ rec.branch \in {"primary", "abandon"}
    \/ rec.kind = "replacement" /\ rec.branch \in {"primary", "restore", "reject"}
    \/ rec.kind \in {"forget", "detach"} /\ rec.branch = "primary"

Effect(rec, e) ==
    \/ e = "credential_stage" /\ rec.kind \in {"enrollment", "replacement"}
    \/ e = "staged_delete" /\ rec.branch \in {"abandon", "reject"}
    \/ e = "credential_promote" /\ rec.kind \in {"enrollment", "replacement"} /\ rec.branch \in {"primary", "restore"}
    \/ e \in {"credential_backup", "backup_delete"} /\ rec.kind = "replacement" /\ rec.branch \in {"primary", "restore"}
    \/ e = "credential_restore" /\ rec.branch = "restore"
    \/ e = "staging_cleanup" /\ rec.kind \in {"enrollment", "replacement"} /\ rec.branch \in {"primary", "restore"}
    \/ e = "config_commit" /\ rec.kind \in {"enrollment", "replacement"} /\ rec.branch = "primary"
    \/ e = "config_detach" /\ rec.kind \in {"forget", "detach"}
    \/ e = "credential_delete" /\ rec.kind = "forget"

Precedes(rec, d, e) ==
    \/ d = "credential_stage" /\ e \notin {"credential_stage", "config_detach", "credential_delete"}
    \/ d = "credential_backup" /\ rec.kind = "replacement"
         /\ e \in {"credential_promote", "config_commit", "credential_restore", "backup_delete", "staging_cleanup"}
    \/ d = "credential_promote" /\ rec.kind = "replacement"
         /\ e \in {"config_commit", "credential_restore", "backup_delete", "staging_cleanup"}
    \/ d = "credential_restore" /\ rec.branch = "restore" /\ e \in {"backup_delete", "staging_cleanup"}
    \/ d = "backup_delete" /\ rec.kind = "replacement" /\ e = "staging_cleanup"
    \/ d = "config_commit" /\ rec.kind = "replacement" /\ rec.branch = "primary"
         /\ e \in {"backup_delete", "staging_cleanup"}
    \/ d = "config_commit" /\ rec.kind = "enrollment" /\ e \in {"credential_promote", "staging_cleanup"}
    \/ d = "credential_promote" /\ rec.kind = "enrollment" /\ e = "staging_cleanup"
    \/ d = "config_detach" /\ e = "credential_delete"

\* What the lemmas below need of the sequence: it has each effect once, and what comes
\* before one is what Precedes says.
Listed(rec) ==
    /\ \E n \in 1 .. 6 : DOMAIN Planned(rec) = 1 .. n
    /\ \A i \in DOMAIN Planned(rec) :
          /\ Planned(rec)[i] \in Effects /\ Effect(rec, Planned(rec)[i])
          /\ \A j \in DOMAIN Planned(rec) :
                /\ j < i <=> Precedes(rec, Planned(rec)[j], Planned(rec)[i])
                /\ Planned(rec)[j] = Planned(rec)[i] => j = i
    /\ \A e : Effect(rec, e) => \E i \in DOMAIN Planned(rec) : Planned(rec)[i] = e

\* The effects of each branch, in their order.
LEMMA PlansListed ==
  ASSUME NEW rec, Shaped(rec)
  PROVE  Listed(rec)
<1>1. CASE rec.branch \in {"abandon", "reject"}
  <2>1. Planned(rec) = <<"credential_stage", "staged_delete">>
    BY <1>1 DEF Shaped, Planned, Plan
  <2>2. DOMAIN Planned(rec) = 1 .. 2
    BY <2>1
  <2>3. /\ Planned(rec)[1] = "credential_stage"
        /\ Planned(rec)[2] = "staged_delete"
    BY <2>1
  <2> HIDE <2>1
  <2>4. \A i \in 1 .. 2 : i = 1 \/ i = 2
    OBVIOUS
  <2>5. \A i, j \in 1 .. 2 :
          /\ Planned(rec)[i] \in Effects /\ Effect(rec, Planned(rec)[i])
          /\ j < i <=> Precedes(rec, Planned(rec)[j], Planned(rec)[i])
          /\ Planned(rec)[j] = Planned(rec)[i] => j = i
    BY <1>1, <2>3, <2>4 DEF Shaped, Effect, Precedes, Effects
  <2>6. \A e : Effect(rec, e) => \E i \in 1 .. 2 : Planned(rec)[i] = e
    BY <1>1, <2>3 DEF Shaped, Effect
  <2> QED BY <2>2, <2>5, <2>6 DEF Listed
<1>2. CASE rec.branch = "restore"
  <2>1. Planned(rec) = <<"credential_stage", "credential_backup", "credential_promote", "credential_restore", "backup_delete", "staging_cleanup">>
    BY <1>2 DEF Shaped, Planned, Plan
  <2>2. DOMAIN Planned(rec) = 1 .. 6
    BY <2>1
  <2>3. /\ Planned(rec)[1] = "credential_stage"
        /\ Planned(rec)[2] = "credential_backup"
        /\ Planned(rec)[3] = "credential_promote"
        /\ Planned(rec)[4] = "credential_restore"
        /\ Planned(rec)[5] = "backup_delete"
        /\ Planned(rec)[6] = "staging_cleanup"
    BY <2>1
  <2> HIDE <2>1
  <2>4. \A i \in 1 .. 6 : i = 1 \/ i = 2 \/ i = 3 \/ i = 4 \/ i = 5 \/ i = 6
    OBVIOUS
  <2>5. \A i, j \in 1 .. 6 :
          /\ Planned(rec)[i] \in Effects /\ Effect(rec, Planned(rec)[i])
          /\ j < i <=> Precedes(rec, Planned(rec)[j], Planned(rec)[i])
          /\ Planned(rec)[j] = Planned(rec)[i] => j = i
    BY <1>2, <2>3, <2>4 DEF Shaped, Effect, Precedes, Effects
  <2>6. \A e : Effect(rec, e) => \E i \in 1 .. 6 : Planned(rec)[i] = e
    BY <1>2, <2>3 DEF Shaped, Effect
  <2> QED BY <2>2, <2>5, <2>6 DEF Listed
<1>3. CASE rec.branch = "primary" /\ rec.kind = "enrollment"
  <2>1. Planned(rec) = <<"credential_stage", "config_commit", "credential_promote", "staging_cleanup">>
    BY <1>3 DEF Shaped, Planned, Plan
  <2>2. DOMAIN Planned(rec) = 1 .. 4
    BY <2>1
  <2>3. /\ Planned(rec)[1] = "credential_stage"
        /\ Planned(rec)[2] = "config_commit"
        /\ Planned(rec)[3] = "credential_promote"
        /\ Planned(rec)[4] = "staging_cleanup"
    BY <2>1
  <2> HIDE <2>1
  <2>4. \A i \in 1 .. 4 : i = 1 \/ i = 2 \/ i = 3 \/ i = 4
    OBVIOUS
  <2>5. \A i, j \in 1 .. 4 :
          /\ Planned(rec)[i] \in Effects /\ Effect(rec, Planned(rec)[i])
          /\ j < i <=> Precedes(rec, Planned(rec)[j], Planned(rec)[i])
          /\ Planned(rec)[j] = Planned(rec)[i] => j = i
    BY <1>3, <2>3, <2>4 DEF Shaped, Effect, Precedes, Effects
  <2>6. \A e : Effect(rec, e) => \E i \in 1 .. 4 : Planned(rec)[i] = e
    BY <1>3, <2>3 DEF Shaped, Effect
  <2> QED BY <2>2, <2>5, <2>6 DEF Listed
<1>4. CASE rec.branch = "primary" /\ rec.kind = "replacement"
  <2>1. Planned(rec) = <<"credential_stage", "credential_backup", "credential_promote", "config_commit", "backup_delete", "staging_cleanup">>
    BY <1>4 DEF Shaped, Planned, Plan
  <2>2. DOMAIN Planned(rec) = 1 .. 6
    BY <2>1
  <2>3. /\ Planned(rec)[1] = "credential_stage"
        /\ Planned(rec)[2] = "credential_backup"
        /\ Planned(rec)[3] = "credential_promote"
        /\ Planned(rec)[4] = "config_commit"
        /\ Planned(rec)[5] = "backup_delete"
        /\ Planned(rec)[6] = "staging_cleanup"
    BY <2>1
  <2> HIDE <2>1
  <2>4. \A i \in 1 .. 6 : i = 1 \/ i = 2 \/ i = 3 \/ i = 4 \/ i = 5 \/ i = 6
    OBVIOUS
  <2>5. \A i, j \in 1 .. 6 :
          /\ Planned(rec)[i] \in Effects /\ Effect(rec, Planned(rec)[i])
          /\ j < i <=> Precedes(rec, Planned(rec)[j], Planned(rec)[i])
          /\ Planned(rec)[j] = Planned(rec)[i] => j = i
    BY <1>4, <2>3, <2>4 DEF Shaped, Effect, Precedes, Effects
  <2>6. \A e : Effect(rec, e) => \E i \in 1 .. 6 : Planned(rec)[i] = e
    BY <1>4, <2>3 DEF Shaped, Effect
  <2> QED BY <2>2, <2>5, <2>6 DEF Listed
<1>5. CASE rec.kind = "forget"
  <2>1. Planned(rec) = <<"config_detach", "credential_delete">>
    BY <1>5 DEF Shaped, Planned, Plan
  <2>2. DOMAIN Planned(rec) = 1 .. 2
    BY <2>1
  <2>3. /\ Planned(rec)[1] = "config_detach"
        /\ Planned(rec)[2] = "credential_delete"
    BY <2>1
  <2> HIDE <2>1
  <2>4. \A i \in 1 .. 2 : i = 1 \/ i = 2
    OBVIOUS
  <2>5. \A i, j \in 1 .. 2 :
          /\ Planned(rec)[i] \in Effects /\ Effect(rec, Planned(rec)[i])
          /\ j < i <=> Precedes(rec, Planned(rec)[j], Planned(rec)[i])
          /\ Planned(rec)[j] = Planned(rec)[i] => j = i
    BY <1>5, <2>3, <2>4 DEF Shaped, Effect, Precedes, Effects
  <2>6. \A e : Effect(rec, e) => \E i \in 1 .. 2 : Planned(rec)[i] = e
    BY <1>5, <2>3 DEF Shaped, Effect
  <2> QED BY <2>2, <2>5, <2>6 DEF Listed
<1>6. CASE rec.kind = "detach"
  <2>1. Planned(rec) = <<"config_detach">>
    BY <1>6 DEF Shaped, Planned, Plan
  <2>2. DOMAIN Planned(rec) = 1 .. 1
    BY <2>1
  <2>3. Planned(rec)[1] = "config_detach"
    BY <2>1
  <2> HIDE <2>1
  <2>4. \A i \in 1 .. 1 : i = 1
    OBVIOUS
  <2>5. \A i, j \in 1 .. 1 :
          /\ Planned(rec)[i] \in Effects /\ Effect(rec, Planned(rec)[i])
          /\ j < i <=> Precedes(rec, Planned(rec)[j], Planned(rec)[i])
          /\ Planned(rec)[j] = Planned(rec)[i] => j = i
    BY <1>6, <2>3, <2>4 DEF Shaped, Effect, Precedes, Effects
  <2>6. \A e : Effect(rec, e) => \E i \in 1 .. 1 : Planned(rec)[i] = e
    BY <1>6, <2>3 DEF Shaped, Effect
  <2> QED BY <2>2, <2>5, <2>6 DEF Listed
<1> QED BY <1>1, <1>2, <1>3, <1>4, <1>5, <1>6 DEF Shaped

\* The plan of a branch, its order, its end and the effect that comes next.
LEMMA Ordered ==
  ASSUME NEW rec, Shaped(rec)
  PROVE  /\ \A e : InPlan(rec, e) <=> Effect(rec, e)
         /\ InOrder(rec) <=>
               \A d, e : Effect(rec, d) /\ Effect(rec, e) /\ Precedes(rec, d, e) /\ Begun(rec, e) => Done(rec, d)
         /\ AllDone(rec) <=> \A e : Effect(rec, e) => Done(rec, e)
<1>1. Listed(rec)
  BY PlansListed
<1>2. \A e : InPlan(rec, e) <=> Effect(rec, e)
  BY <1>1 DEF Listed, InPlan
<1> DEFINE Ordering ==
             \A d, e : Effect(rec, d) /\ Effect(rec, e) /\ Precedes(rec, d, e) /\ Begun(rec, e) => Done(rec, d)
<1>3. InOrder(rec) <=> Ordering
  <2>1. ASSUME InOrder(rec)
        PROVE  Ordering
    <3>1. SUFFICES ASSUME NEW d, NEW e, Effect(rec, d), Effect(rec, e), Precedes(rec, d, e), Begun(rec, e)
                   PROVE  Done(rec, d)
      OBVIOUS
    <3>2. PICK i \in DOMAIN Planned(rec), j \in DOMAIN Planned(rec) : Planned(rec)[i] = e /\ Planned(rec)[j] = d
      BY <1>1, <3>1 DEF Listed
    <3>3. j < i
      BY <1>1, <3>1, <3>2 DEF Listed
    <3>4. j \in 1 .. i - 1
      BY <1>1, <3>2, <3>3 DEF Listed
    <3> QED BY <2>1, <3>1, <3>2, <3>4 DEF InOrder
  <2>2. ASSUME Ordering
        PROVE  InOrder(rec)
    <3>1. ASSUME NEW i \in DOMAIN Planned(rec), Begun(rec, Planned(rec)[i]), NEW j \in 1 .. i - 1
          PROVE  Done(rec, Planned(rec)[j])
      <4>1. j \in DOMAIN Planned(rec) /\ j < i
        BY <1>1, <3>1 DEF Listed
      <4> QED BY <1>1, <2>2, <3>1, <4>1 DEF Listed
    <3> QED BY <3>1 DEF InOrder
  <2> QED BY <2>1, <2>2
<1>4. AllDone(rec) <=> \A e : Effect(rec, e) => Done(rec, e)
  BY <1>1 DEF Listed, AllDone
<1> QED BY <1>2, <1>3, <1>4

\* The next effect is one of the branch, not done, and all before it are done.
LEMMA NextIs ==
  ASSUME NEW rec, Shaped(rec), ~AllDone(rec)
  PROVE  /\ Effect(rec, NextEffect(rec)) /\ NextEffect(rec) \in Effects /\ ~Done(rec, NextEffect(rec))
         /\ \A d : Effect(rec, d) /\ Precedes(rec, d, NextEffect(rec)) => Done(rec, d)
<1> DEFINE plan == Planned(rec)
           D(i) == Done(rec, Planned(rec)[i])
           Least(i) == i \in DOMAIN plan /\ ~D(i) /\ \A j \in 1 .. i - 1 : D(j)
<1>1. Listed(rec)
  BY PlansListed
<1>2. PICK n \in 1 .. 6 : DOMAIN plan = 1 .. n
  BY <1>1 DEF Listed
<1>3. \E i \in 1 .. n : ~D(i)
  BY <1>2 DEF AllDone
<1>4. \E i \in 1 .. n : Least(i)
  <2> HIDE DEF D, plan
  <2>1. CASE ~D(1)
    BY <1>2, <2>1, Least(1)
  <2>2. CASE D(1) /\ ~D(2) /\ 2 <= n
    BY <1>2, <2>2, Least(2)
  <2>3. CASE D(1) /\ D(2) /\ ~D(3) /\ 3 <= n
    BY <1>2, <2>3, Least(3)
  <2>4. CASE D(1) /\ D(2) /\ D(3) /\ ~D(4) /\ 4 <= n
    BY <1>2, <2>4, Least(4)
  <2>5. CASE D(1) /\ D(2) /\ D(3) /\ D(4) /\ ~D(5) /\ 5 <= n
    BY <1>2, <2>5, Least(5)
  <2>6. CASE D(1) /\ D(2) /\ D(3) /\ D(4) /\ D(5) /\ ~D(6) /\ 6 <= n
    BY <1>2, <2>6, Least(6)
  <2> QED BY <1>3, <2>1, <2>2, <2>3, <2>4, <2>5, <2>6
<1>5. NextEffect(rec) = plan[CHOOSE i \in DOMAIN plan : ~D(i) /\ \A j \in 1 .. i - 1 : D(j)]
  BY DEF NextEffect
<1>6. PICK i : Least(i) /\ NextEffect(rec) = plan[i]
  BY <1>2, <1>4, <1>5
<1>7. \A j \in DOMAIN plan : j < i => D(j)
  BY <1>2, <1>6
<1> QED BY <1>1, <1>6, <1>7 DEF Listed

\* And the only such effect.
LEMMA IsNext ==
  ASSUME NEW rec, Shaped(rec), NEW e, Effect(rec, e), ~Done(rec, e),
         \A d : Effect(rec, d) /\ Precedes(rec, d, e) => Done(rec, d)
  PROVE  ~AllDone(rec) /\ NextEffect(rec) = e
<1> DEFINE plan == Planned(rec)
           D(i) == Done(rec, Planned(rec)[i])
           Least(i) == i \in DOMAIN plan /\ ~D(i) /\ \A j \in 1 .. i - 1 : D(j)
<1>1. Listed(rec)
  BY PlansListed
<1>2. PICK n \in 1 .. 6 : DOMAIN plan = 1 .. n
  BY <1>1 DEF Listed
<1>3. PICK k \in 1 .. n : plan[k] = e
  BY <1>1, <1>2 DEF Listed
<1>4. Least(k)
  <2>1. \A j \in 1 .. k - 1 : D(j)
    BY <1>1, <1>2, <1>3 DEF Listed
  <2> QED BY <1>2, <1>3, <2>1
<1>5. NextEffect(rec) = plan[CHOOSE i \in DOMAIN plan : ~D(i) /\ \A j \in 1 .. i - 1 : D(j)]
  BY DEF NextEffect
<1>6. PICK i : Least(i) /\ NextEffect(rec) = plan[i]
  BY <1>4, <1>5
<1>7. i = k
  BY <1>2, <1>3, <1>4, <1>6
<1> QED BY <1>3, <1>4, <1>6, <1>7 DEF AllDone

-----------------------------------------------------------------------------
(* Records.                                                                 *)

\* Scripted, in terms of the sets.
Script(rec) ==
    /\ \A e \in DOMAIN rec.eff :
          /\ rec.eff[e].pre = Found(rec, e) /\ rec.eff[e].post = Left(rec, e)
          /\ Effect(rec, e) <=> rec.eff[e].st # "not_applied"
          /\ rec.eff[e].st = "not_applied" => e = "config_commit" /\ rec.branch # "primary"
          /\ rec.eff[e].st = "mismatch" => StoreOf(e) = "config" /\ rec.phase = "repair_required"
          /\ rec.eff[e].st = "intent" => rec.phase = "effect_intent"
    /\ \A d, e : Effect(rec, d) /\ Effect(rec, e) /\ Precedes(rec, d, e) /\ Begun(rec, e) => Done(rec, d)
    /\ rec.branch # "primary" => Done(rec, "credential_stage")
    /\ rec.branch = "restore" => Done(rec, "credential_backup") /\ Done(rec, "credential_promote")
    /\ rec.branch = "reject" => ~Begun(rec, "config_commit")
    /\ rec.phase = "prepare" => DOMAIN rec.eff = {}
    /\ rec.phase # "prepare" => DOMAIN rec.eff # {}
    /\ rec.phase = "repair_required" => \E e \in DOMAIN rec.eff : rec.eff[e].st = "mismatch"
    /\ rec.phase = "complete" => \A e : Effect(rec, e) => Done(rec, e)

\* What a branch needs verified.
LEMMA NeedsAre ==
  ASSUME NEW rec, Shaped(rec)
  PROVE  (\A e \in Needs(rec.branch) : Done(rec, e)) <=>
           /\ rec.branch # "primary" => Done(rec, "credential_stage")
           /\ rec.branch = "restore" => Done(rec, "credential_backup") /\ Done(rec, "credential_promote")
<1>1. CASE rec.branch = "primary"
  <2>1. Needs(rec.branch) = {}
    BY <1>1 DEF Needs
  <2> QED BY <1>1, <2>1
<1>2. CASE rec.branch = "restore"
  <2>1. Needs(rec.branch) = {"credential_stage", "credential_backup", "credential_promote"}
    BY <1>2 DEF Needs
  <2> QED BY <1>2, <2>1
<1>3. CASE rec.branch \in {"abandon", "reject"}
  <2>1. Needs(rec.branch) = {"credential_stage"}
    BY <1>3 DEF Needs
  <2> QED BY <1>3, <2>1
<1> QED BY <1>1, <1>2, <1>3 DEF Shaped

\* The two ways to say that a record is a script agree.
LEMMA ScriptIs ==
  ASSUME NEW rec, Shaped(rec)
  PROVE  Scripted(rec) <=> Script(rec)
<1>1. /\ \A e : InPlan(rec, e) <=> Effect(rec, e)
      /\ InOrder(rec) <=>
           \A d, e : Effect(rec, d) /\ Effect(rec, e) /\ Precedes(rec, d, e) /\ Begun(rec, e) => Done(rec, d)
      /\ AllDone(rec) <=> \A e : Effect(rec, e) => Done(rec, e)
  BY Ordered
<1>2. (\A e \in Needs(rec.branch) : Done(rec, e)) <=>
        /\ rec.branch # "primary" => Done(rec, "credential_stage")
        /\ rec.branch = "restore" => Done(rec, "credential_backup") /\ Done(rec, "credential_promote")
  BY NeedsAre
<1> QED BY <1>1, <1>2 DEF Scripted, Script

\* The branches of each kind.
LEMMA BranchesAre ==
  ASSUME NEW rec, rec.kind \in Kinds
  PROVE  rec.branch \in Branches(rec.kind) <=> Shaped(rec)
<1>1. CASE rec.kind = "enrollment"
  <2>1. Branches(rec.kind) = {"primary", "abandon"}
    BY <1>1 DEF Branches
  <2> QED BY <1>1, <2>1 DEF Shaped
<1>2. CASE rec.kind = "replacement"
  <2>1. Branches(rec.kind) = {"primary", "restore", "reject"}
    BY <1>2 DEF Branches
  <2> QED BY <1>2, <2>1 DEF Shaped
<1>3. CASE rec.kind \in {"forget", "detach"}
  <2>1. Branches(rec.kind) = {"primary"}
    BY <1>3 DEF Branches
  <2> QED BY <1>3, <2>1 DEF Shaped
<1> QED BY <1>1, <1>2, <1>3 DEF Kinds

\* A record that the invariant allows.
Good(op, rec) == IsRecord(rec) /\ WellFormed(op, rec) /\ Scripted(rec)

\* A good record is a script on a branch of its kind.
LEMMA GoodIs ==
  ASSUME NEW op, NEW rec
  PROVE  /\ Good(op, rec) => Shaped(rec) /\ Script(rec)
         /\ IsRecord(rec) /\ WellFormed(op, rec) /\ Script(rec) => Good(op, rec)
<1>1. IsRecord(rec) /\ WellFormed(op, rec) => Shaped(rec)
  BY BranchesAre DEF IsRecord, WellFormed
<1> QED BY <1>1, ScriptIs DEF Good

\* The store of each effect.
LEMMA StoresAre ==
  /\ \A e \in {"credential_stage", "staged_delete", "staging_cleanup"} : StoreOf(e) = "staged"
  /\ \A e \in {"credential_backup", "backup_delete"} : StoreOf(e) = "backup"
  /\ \A e \in {"config_commit", "config_detach"} : StoreOf(e) = "config"
  /\ \A e \in {"credential_promote", "credential_restore", "credential_delete"} : StoreOf(e) = "active"
BY DEF StoreOf

\* What each effect finds and leaves.
LEMMA ScriptsAre ==
  ASSUME NEW rec
  PROVE  /\ \A e \in {"config_commit", "config_detach"} : Found(rec, e) = rec.orig /\ Left(rec, e) = rec.cand
         /\ Found(rec, "credential_stage") = Absent /\ Left(rec, "credential_stage") = rec.new
         /\ Found(rec, "credential_backup") = Absent /\ Left(rec, "credential_backup") = rec.was
         /\ Found(rec, "credential_promote") = rec.was /\ Left(rec, "credential_promote") = rec.new
         /\ Found(rec, "credential_restore") = rec.new /\ Left(rec, "credential_restore") = rec.was
         /\ Found(rec, "credential_delete") = rec.was /\ Left(rec, "credential_delete") = Absent
         /\ Found(rec, "backup_delete") = rec.was /\ Left(rec, "backup_delete") = Absent
         /\ \A e \in {"staged_delete", "staging_cleanup"} : Found(rec, e) = rec.new /\ Left(rec, e) = Absent
BY DEF Found, Left

\* Such a record is one the validator accepts.
LEMMA GoodIsValid ==
  ASSUME NEW op, NEW rec, Good(op, rec)
  PROVE  ValidRecord(rec)
<1>1. Shaped(rec) /\ Script(rec) /\ IsRecord(rec) /\ WellFormed(op, rec) /\ Scripted(rec)
  BY GoodIs DEF Good
<1>2. rec.orig # rec.cand
  <2>1. rec.cand.revision[rec.role] = op
    BY <1>1 DEF WellFormed, IsRecord, Config
  <2> QED BY <1>1, <2>1 DEF WellFormed
<1>3. ASSUME NEW e \in DOMAIN rec.eff
      PROVE  /\ (e \in {Planned(rec)[i] : i \in DOMAIN Planned(rec)}) = (rec.eff[e].st # "not_applied")
             /\ StoreOf(e) = "config" => rec.eff[e].pre = rec.orig /\ rec.eff[e].post = rec.cand
             /\ e = "credential_backup" => rec.eff[e].pre = Absent
             /\ e \in Deletes => rec.eff[e].post = Absent
  <2>1. InPlan(rec, e) <=> rec.eff[e].st # "not_applied"
    BY <1>1, <1>3 DEF Scripted
  <2>2. rec.eff[e].pre = Found(rec, e) /\ rec.eff[e].post = Left(rec, e) /\ e \in Effects
    BY <1>1, <1>3 DEF Scripted, IsRecord
  <2>3. StoreOf(e) = "config" => e \in {"config_commit", "config_detach"}
    BY <2>2, StoresAre DEF Effects
  <2> QED BY <2>1, <2>2, <2>3, ScriptsAre DEF InPlan, Deletes
<1>4. \A e \in Needs(rec.branch) : Done(rec, e)
  BY <1>1 DEF Scripted
<1>5. \A e \in Forbids(rec.branch) : ~Begun(rec, e)
  <2>1. \A e : Begun(rec, e) => Effect(rec, e) \/ e = "config_commit"
    BY <1>1 DEF Script, Begun
  <2>2. CASE rec.branch = "abandon"
    <3>1. Forbids(rec.branch) = {"credential_promote"}
      BY <2>2 DEF Forbids
    <3> QED BY <2>1, <2>2, <3>1 DEF Effect
  <2>3. CASE rec.branch = "reject"
    <3>1. Forbids(rec.branch) = {"credential_backup", "credential_promote", "config_commit"}
      BY <2>3 DEF Forbids
    <3> QED BY <1>1, <2>1, <2>3, <3>1 DEF Effect, Script
  <2>4. CASE rec.branch \in {"primary", "restore"}
    <3>1. Forbids(rec.branch) = {}
      BY <2>4 DEF Forbids
    <3> QED BY <3>1
  <2> QED BY <1>1, <2>2, <2>3, <2>4 DEF Shaped
<1>6. \A l \in Links : Begun(rec, l[1]) /\ Begun(rec, l[3]) => rec.eff[l[1]][l[2]] = rec.eff[l[3]][l[4]]
  <2>1. \A e \in DOMAIN rec.eff : rec.eff[e]["pre"] = Found(rec, e) /\ rec.eff[e]["post"] = Left(rec, e)
    BY <1>1 DEF Scripted
  <2> QED BY <2>1, ScriptsAre DEF Links, Begun
<1>7. \A i \in DOMAIN Planned(rec) : Begun(rec, Planned(rec)[i]) => \A j \in 1 .. i - 1 : Done(rec, Planned(rec)[j])
  BY <1>1 DEF Scripted, InOrder
<1>8. rec.phase \in {"complete", "completed_then_superseded"} => AllDone(rec)
  BY <1>1 DEF Scripted, IsRecord
<1>9. rec.phase # "resolved_without_change"
  BY <1>1 DEF IsRecord
<1> QED BY <1>2, <1>3, <1>4, <1>5, <1>6, <1>7, <1>8, <1>9 DEF ValidRecord

\* What a change of a record keeps.
Keeps(rec, new) ==
    /\ new.ws = rec.ws /\ new.role = rec.role /\ new.kind = rec.kind
    /\ new.orig = rec.orig /\ new.cand = rec.cand /\ new.was = rec.was /\ new.new = rec.new

Follows(op, rec, new) == Good(op, new) /\ ValidChange(rec, new) /\ Keeps(rec, new)

\* The phases that the worker goes through follow one another.
LEMMA TransitionsAre ==
  /\ "effect_intent" \in Transitions("prepare") /\ "effect_intent" \in Transitions("committed")
  /\ {"committed", "repair_required", "complete"} \subseteq Transitions("effect_intent")
  /\ "complete" \in Transitions("committed")
<1>1. Transitions("prepare") = {"candidate_validated", "effect_intent", "resolved_without_change", "repair_required"}
  BY DEF Transitions
<1>2. Transitions("effect_intent") = {"committed", "repair_required", "complete", "resolved_without_change"}
  BY DEF Transitions
<1>3. Transitions("committed") =
        {"effect_intent", "readback", "complete", "repair_required", "completed_then_superseded"}
  BY DEF Transitions
<1> QED BY <1>1, <1>2, <1>3

\* A record with another branch, another phase and other effects.
Recast(rec, branch, phase, eff) ==
    [ws |-> rec.ws, role |-> rec.role, kind |-> rec.kind, branch |-> branch, phase |-> phase,
     eff |-> eff, orig |-> rec.orig, cand |-> rec.cand, was |-> rec.was, new |-> rec.new]

InPhase(rec, p)    == [rec EXCEPT !.phase = p]
InBranch(rec, b)   == [rec EXCEPT !.branch = b]
HavingEff(rec, f)  == [rec EXCEPT !.eff = f]

\* The changes of the handlers are of that form.
LEMMA Rewritten ==
  ASSUME NEW rec, IsRecord(rec), NEW p, NEW b, NEW f
  PROVE  /\ rec = Recast(rec, rec.branch, rec.phase, rec.eff)
         /\ InPhase(rec, p) = Recast(rec, rec.branch, p, rec.eff) /\ InPhase(rec, p).eff = rec.eff
         /\ HavingEff(InPhase(rec, p), f) = Recast(rec, rec.branch, p, f)
         /\ InPhase(HavingEff(rec, f), p) = Recast(rec, rec.branch, p, f)
         /\ InBranch(rec, b).eff = rec.eff
         /\ HavingEff(InBranch(rec, b), f) = Recast(rec, b, rec.phase, f)
<1>1. rec = Recast(rec, rec.branch, rec.phase, rec.eff)
  BY DEF IsRecord, Recast
<1>2. InPhase(Recast(rec, rec.branch, rec.phase, rec.eff), p) = Recast(rec, rec.branch, p, rec.eff)
  BY DEF Recast, InPhase
<1>3. InBranch(Recast(rec, rec.branch, rec.phase, rec.eff), b) = Recast(rec, b, rec.phase, rec.eff)
  BY DEF Recast, InBranch
<1>4. HavingEff(Recast(rec, rec.branch, p, rec.eff), f) = Recast(rec, rec.branch, p, f)
  BY DEF Recast, HavingEff
<1>5. HavingEff(Recast(rec, b, rec.phase, rec.eff), f) = Recast(rec, b, rec.phase, f)
  BY DEF Recast, HavingEff
<1>6. HavingEff(Recast(rec, rec.branch, rec.phase, rec.eff), f) = Recast(rec, rec.branch, rec.phase, f)
  BY DEF Recast, HavingEff
<1>7. InPhase(Recast(rec, rec.branch, rec.phase, f), p) = Recast(rec, rec.branch, p, f)
  BY DEF Recast, InPhase
<1>8. Recast(rec, rec.branch, p, rec.eff).eff = rec.eff /\ Recast(rec, b, rec.phase, rec.eff).eff = rec.eff
  BY DEF Recast
<1> QED BY <1>1, <1>2, <1>3, <1>4, <1>5, <1>6, <1>7, <1>8

\* Such a record is a record.
LEMMA RecastIsRecord ==
  ASSUME NEW rec, IsRecord(rec), NEW p, NEW b, NEW f,
         p \in {"prepare", "effect_intent", "committed", "repair_required", "complete"},
         DOMAIN f \subseteq Effects, \A e \in DOMAIN f : f[e] \in Entry
  PROVE  /\ IsRecord(Recast(rec, b, p, f)) /\ Keeps(rec, Recast(rec, b, p, f))
         /\ Recast(rec, b, p, f).phase = p /\ Recast(rec, b, p, f).branch = b
         /\ Recast(rec, b, p, f).eff = f
<1> DEFINE new == Recast(rec, b, p, f)
<1>1. Keeps(rec, new) /\ new.phase = p /\ new.branch = b /\ new.eff = f
  BY DEF Keeps, Recast
<1>2. new = [ws |-> new.ws, role |-> new.role, kind |-> new.kind, branch |-> new.branch,
             phase |-> new.phase, eff |-> new.eff, orig |-> new.orig, cand |-> new.cand,
             was |-> new.was, new |-> new.new]
  BY DEF Recast
<1> HIDE DEF new
<1>3. IsRecord(new)
  BY <1>1, <1>2 DEF IsRecord, Keeps
<1> QED BY <1>1, <1>3 DEF new

\* A record that keeps what it is stays well formed on another branch of its kind.
LEMMA KeptWellFormed ==
  ASSUME NEW op, NEW rec, NEW new, Keeps(rec, new), IsRecord(rec), WellFormed(op, rec), Shaped(new)
  PROVE  WellFormed(op, new)
BY BranchesAre DEF Keeps, WellFormed, IsRecord

\* What an effect finds and leaves does not depend on the phase, and its place in the plan only on the branch.
LEMMA KeptScripts ==
  ASSUME NEW rec, NEW new, Keeps(rec, new)
  PROVE  /\ \A e : Found(new, e) = Found(rec, e) /\ Left(new, e) = Left(rec, e)
         /\ new.branch = rec.branch =>
              /\ Shaped(new) <=> Shaped(rec)
              /\ \A e : Effect(new, e) <=> Effect(rec, e)
              /\ \A d, e : Precedes(new, d, e) <=> Precedes(rec, d, e)
BY DEF Keeps, Found, Left, Shaped, Effect, Precedes

\* An effect of the record is one of the plan, and its state is its own.
LEMMA Entries ==
  ASSUME NEW op, NEW rec, Good(op, rec)
  PROVE  /\ Shaped(rec) /\ Script(rec)
         /\ DOMAIN rec.eff \subseteq Effects
         /\ \A e \in DOMAIN rec.eff :
               /\ rec.eff[e] \in Entry
               /\ rec.eff[e].st \in {"intent", "verified", "mismatch", "not_applied"}
         /\ \A e : Done(rec, e) => Effect(rec, e) /\ Begun(rec, e)
         /\ \A e : Intended(rec, e) => Effect(rec, e) /\ Begun(rec, e) /\ rec.phase = "effect_intent"
         /\ \A e : Begun(rec, e) => Effect(rec, e) \/ e = "config_commit"
<1>1. Shaped(rec) /\ Script(rec)
  BY GoodIs
<1>2. /\ DOMAIN rec.eff \subseteq Effects
      /\ \A e \in DOMAIN rec.eff : rec.eff[e] \in Entry
  BY DEF Good, IsRecord
<1> QED BY <1>1, <1>2 DEF Script, Begun, Done, Intended, Entry

\* What a script says is a value of a slot or a configuration.
LEMMA ScriptTyped ==
  ASSUME NEW rec, IsRecord(rec), NEW e \in Effects
  PROVE  Found(rec, e) \in Values \cup Config /\ Left(rec, e) \in Values \cup Config
BY ScriptsAre DEF IsRecord, Values, Effects

\* The intent of the next effect.
LEMMA BeginsGood ==
  ASSUME NEW op, NEW rec, Good(op, rec), rec.phase \notin {"repair_required", "complete"}, ~AllDone(rec),
         NEW e, e = NextEffect(rec), ~Begun(rec, e),
         Pre(rec, e) = Found(rec, e), Post(rec, e) = Left(rec, e)
  PROVE  /\ Follows(op, rec, Begins(rec, e))
         /\ Begins(rec, e).phase = "effect_intent" /\ Begins(rec, e).branch = rec.branch
         /\ DOMAIN Begins(rec, e).eff = DOMAIN rec.eff \cup {e}
         /\ \A d \in DOMAIN rec.eff : Begins(rec, e).eff[d] = rec.eff[d]
         /\ Intended(Begins(rec, e), e)
         /\ ~AllDone(Begins(rec, e)) /\ NextEffect(Begins(rec, e)) = e
<1> DEFINE new == Begins(rec, e)
           f == [d \in DOMAIN rec.eff \cup {e} |->
                   IF d = e THEN [st |-> "intent", pre |-> Pre(rec, e), post |-> Post(rec, e)]
                   ELSE rec.eff[d]]
<1>1. Shaped(rec) /\ Script(rec) /\ IsRecord(rec) /\ WellFormed(op, rec)
  BY Entries DEF Good
<1>2. /\ Effect(rec, e) /\ e \in Effects /\ ~Done(rec, e)
      /\ \A d : Effect(rec, d) /\ Precedes(rec, d, e) => Done(rec, d)
  BY <1>1, NextIs
<1>3. /\ DOMAIN f = DOMAIN rec.eff \cup {e}
      /\ f[e] = [st |-> "intent", pre |-> Found(rec, e), post |-> Left(rec, e)]
      /\ \A d \in DOMAIN rec.eff : f[d] = rec.eff[d]
  BY DEF Begun
<1>4. /\ DOMAIN f \subseteq Effects
      /\ \A d \in DOMAIN f : f[d] \in Entry
  <2>1. f[e] \in Entry
    BY <1>1, <1>2, <1>3, ScriptTyped DEF Entry
  <2> QED BY <1>2, <1>3, <2>1, Entries
<1>5. new = Recast(rec, rec.branch, "effect_intent", f)
  <2>1. InPhase(rec, "effect_intent").eff = rec.eff
    BY <1>1, Rewritten
  <2>2. new = HavingEff(InPhase(rec, "effect_intent"), f)
    BY <2>1 DEF Begins, InPhase, HavingEff
  <2> HIDE DEF f, new
  <2> QED BY <1>1, <2>2, Rewritten
<1> HIDE DEF f, new
<1>6. IsRecord(new) /\ Keeps(rec, new) /\ new.phase = "effect_intent" /\ new.branch = rec.branch /\ new.eff = f
  BY <1>1, <1>4, <1>5, RecastIsRecord
<1>7. /\ \A d : Found(new, d) = Found(rec, d) /\ Left(new, d) = Left(rec, d)
      /\ Shaped(new)
      /\ \A d : Effect(new, d) <=> Effect(rec, d)
      /\ \A c, d : Precedes(new, c, d) <=> Precedes(rec, c, d)
  BY <1>1, <1>6, KeptScripts
<1>8. /\ \A d : Begun(new, d) <=> Begun(rec, d) \/ d = e
      /\ \A d : Done(new, d) <=> Done(rec, d)
      /\ Intended(new, e)
  BY <1>2, <1>3, <1>6 DEF Begun, Done, Intended
<1>9. Script(new)
  <2>1. ASSUME NEW d \in DOMAIN new.eff
        PROVE  /\ new.eff[d].pre = Found(new, d) /\ new.eff[d].post = Left(new, d)
               /\ Effect(new, d) <=> new.eff[d].st # "not_applied"
               /\ new.eff[d].st = "not_applied" => d = "config_commit" /\ new.branch # "primary"
               /\ new.eff[d].st = "mismatch" => StoreOf(d) = "config" /\ new.phase = "repair_required"
               /\ new.eff[d].st = "intent" => new.phase = "effect_intent"
    <3>1. CASE d = e
      BY <1>2, <1>3, <1>6, <1>7, <3>1
    <3>2. CASE d # e
      <4>1. d \in DOMAIN rec.eff /\ new.eff[d] = rec.eff[d]
        BY <1>3, <1>6, <3>2
      <4> QED BY <1>1, <1>6, <1>7, <4>1 DEF Script
    <3> QED BY <3>1, <3>2
  <2>2. \A c, d : Effect(new, c) /\ Effect(new, d) /\ Precedes(new, c, d) /\ Begun(new, d) => Done(new, c)
    BY <1>1, <1>2, <1>7, <1>8 DEF Script
  <2>3. e = "config_commit" => rec.branch # "reject"
    BY <1>2 DEF Effect
  <2>4. DOMAIN new.eff # {}
    BY <1>3, <1>6
  <2> QED BY <1>1, <1>6, <1>8, <2>1, <2>2, <2>3, <2>4 DEF Script
<1>10. Good(op, new)
  BY <1>1, <1>6, <1>7, <1>9, KeptWellFormed, GoodIs
<1>11. ValidChange(rec, new)
  <2>1. ValidRecord(new)
    BY <1>10, GoodIsValid
  <2>2. rec.phase \notin Terminal
    BY <1>1 DEF IsRecord, Terminal
  <2>3. new.phase = rec.phase \/ new.phase \in Transitions(rec.phase)
    BY <1>1, <1>6, TransitionsAre DEF IsRecord
  <2>4. \A d \in DOMAIN rec.eff : Begun(new, d) /\ new.eff[d] = rec.eff[d]
    BY <1>3, <1>6, <1>8 DEF Begun
  <2>5. \A d \in DOMAIN new.eff : new.eff[d].st = "not_applied" => Begun(rec, d) /\ rec.eff[d] = new.eff[d]
    BY <1>3, <1>6 DEF Begun
  <2>6. \A x \in {"ws", "role", "kind", "orig", "cand", "was"} : new[x] = rec[x]
    BY <1>6 DEF Keeps
  <2> QED BY <1>6, <2>1, <2>2, <2>3, <2>4, <2>5, <2>6 DEF ValidChange
<1>12. ~AllDone(new) /\ NextEffect(new) = e
  BY <1>2, <1>7, <1>8, IsNext
<1> QED BY <1>3, <1>6, <1>8, <1>10, <1>11, <1>12 DEF Follows, new

\* One effect at a time is intended, and it is the next one.
LEMMA OneIntent ==
  ASSUME NEW op, NEW rec, Good(op, rec), NEW e, Intended(rec, e)
  PROVE  /\ ~AllDone(rec) /\ NextEffect(rec) = e
         /\ \A d : Intended(rec, d) => d = e
         /\ \A d \in DOMAIN rec.eff : rec.eff[d].st # "mismatch"
<1>1. /\ Shaped(rec) /\ Script(rec) /\ Effect(rec, e) /\ Begun(rec, e) /\ ~Done(rec, e)
      /\ rec.phase = "effect_intent"
  BY Entries DEF Intended, Done
<1>2. \A d : Effect(rec, d) /\ Precedes(rec, d, e) => Done(rec, d)
  BY <1>1 DEF Script
<1>3. ~AllDone(rec) /\ NextEffect(rec) = e
  BY <1>1, <1>2, IsNext
<1>4. ASSUME NEW d, Intended(rec, d)
      PROVE  d = e
  <2>1. Effect(rec, d) /\ Begun(rec, d) /\ ~Done(rec, d)
    BY <1>4, Entries DEF Intended, Done
  <2>2. \A c : Effect(rec, c) /\ Precedes(rec, c, d) => Done(rec, c)
    BY <1>1, <2>1 DEF Script
  <2> QED BY <1>1, <1>3, <2>1, <2>2, IsNext
<1>5. \A d \in DOMAIN rec.eff : rec.eff[d].st # "mismatch"
  BY <1>1 DEF Script
<1> QED BY <1>3, <1>4, <1>5

\* A record with one effect in another state, and in another phase.
MarkedEffects(rec, e, st) == [rec.eff EXCEPT ![e].st = st]
Mark(rec, e, st, p) == [With(rec, e, st) EXCEPT !.phase = p]

\* The effects after one was marked.
LEMMA Marked ==
  ASSUME NEW rec, IsRecord(rec), NEW e \in DOMAIN rec.eff, NEW p \in {"committed", "repair_required"},
         NEW st \in {"intent", "verified", "mismatch", "not_applied"}
  PROVE  /\ Mark(rec, e, st, p) = Recast(rec, rec.branch, p, MarkedEffects(rec, e, st))
         /\ DOMAIN MarkedEffects(rec, e, st) = DOMAIN rec.eff
         /\ MarkedEffects(rec, e, st)[e] = [st |-> st, pre |-> rec.eff[e].pre, post |-> rec.eff[e].post]
         /\ MarkedEffects(rec, e, st)[e] \in Entry
         /\ \A d \in DOMAIN rec.eff : d # e => MarkedEffects(rec, e, st)[d] = rec.eff[d]
<1> DEFINE f == [rec.eff EXCEPT ![e].st = st]
<1>1. rec.eff[e] \in Entry
  BY DEF IsRecord
<1>2. f[e] = [rec.eff[e] EXCEPT !.st = st]
  OBVIOUS
<1>3. [rec.eff[e] EXCEPT !.st = st] = [st |-> st, pre |-> rec.eff[e].pre, post |-> rec.eff[e].post]
  BY <1>1 DEF Entry
<1>4. f[e] \in Entry
  BY <1>1, <1>2, <1>3 DEF Entry
<1>5. DOMAIN f = DOMAIN rec.eff /\ \A d \in DOMAIN rec.eff : d # e => f[d] = rec.eff[d]
  OBVIOUS
<1>6. f = MarkedEffects(rec, e, st)
  BY DEF MarkedEffects
<1>7. Mark(rec, e, st, p) = InPhase(HavingEff(rec, f), p)
  BY DEF Mark, With, InPhase, HavingEff
<1> HIDE DEF f
<1>8. Mark(rec, e, st, p) = Recast(rec, rec.branch, p, f)
  BY <1>1, <1>7, Rewritten
<1> QED BY <1>2, <1>3, <1>4, <1>5, <1>6, <1>8

\* An intended effect is read back: as intended, or different.
LEMMA MarkedGood ==
  ASSUME NEW op, NEW rec, Good(op, rec), NEW e, Intended(rec, e), NEW p, NEW st,
         \/ st = "verified" /\ p = "committed"
         \/ st = "mismatch" /\ p = "repair_required" /\ StoreOf(e) = "config"
  PROVE  LET new == Mark(rec, e, st, p) IN
         /\ Follows(op, rec, new)
         /\ new.phase = p /\ new.branch = rec.branch
         /\ DOMAIN new.eff = DOMAIN rec.eff
         /\ new.eff[e].st = st
         /\ \A d \in DOMAIN rec.eff : d # e => new.eff[d] = rec.eff[d]
<1> DEFINE new == Mark(rec, e, st, p)
           f == MarkedEffects(rec, e, st)
<1>1. /\ Shaped(rec) /\ Script(rec) /\ IsRecord(rec) /\ WellFormed(op, rec)
      /\ Effect(rec, e) /\ e \in DOMAIN rec.eff /\ rec.phase = "effect_intent"
  BY Entries DEF Good, Begun
<1>0. st \in {"intent", "verified", "mismatch", "not_applied"} /\ p \in {"committed", "repair_required"}
  OBVIOUS
<1>2. /\ new = Recast(rec, rec.branch, p, f)
      /\ DOMAIN f = DOMAIN rec.eff
      /\ f[e] = [st |-> st, pre |-> rec.eff[e].pre, post |-> rec.eff[e].post]
      /\ f[e] \in Entry
      /\ \A d \in DOMAIN rec.eff : d # e => f[d] = rec.eff[d]
  <2>1. Mark(rec, e, st, p) = Recast(rec, rec.branch, p, MarkedEffects(rec, e, st))
    BY ZenonT(40), <1>0, <1>1, Marked
  <2>2. /\ DOMAIN MarkedEffects(rec, e, st) = DOMAIN rec.eff
        /\ MarkedEffects(rec, e, st)[e] \in Entry
        /\ \A d \in DOMAIN rec.eff : d # e => MarkedEffects(rec, e, st)[d] = rec.eff[d]
    BY ZenonT(40), <1>0, <1>1, Marked
  <2>3. MarkedEffects(rec, e, st)[e] = [st |-> st, pre |-> rec.eff[e].pre, post |-> rec.eff[e].post]
    BY <1>0, <1>1, Marked
  <2> QED BY <2>1, <2>2, <2>3
<1> HIDE DEF new, f
<1>3. IsRecord(new) /\ Keeps(rec, new) /\ new.phase = p /\ new.branch = rec.branch /\ new.eff = f
  <2>1. DOMAIN f \subseteq Effects /\ \A d \in DOMAIN f : f[d] \in Entry
    BY <1>1, <1>2 DEF IsRecord
  <2> QED BY <1>1, <1>2, <2>1, RecastIsRecord
<1>4. /\ \A d : Found(new, d) = Found(rec, d) /\ Left(new, d) = Left(rec, d)
      /\ Shaped(new)
      /\ \A d : Effect(new, d) <=> Effect(rec, d)
      /\ \A c, d : Precedes(new, c, d) <=> Precedes(rec, c, d)
  BY <1>1, <1>3, KeptScripts
<1>5. /\ \A d : Begun(new, d) <=> Begun(rec, d)
      /\ \A d : Done(rec, d) => Done(new, d)
      /\ \A d : Done(new, d) => Done(rec, d) \/ d = e
  BY <1>1, <1>2, <1>3 DEF Begun, Done, Intended
<1>6. \A d \in DOMAIN rec.eff : d # e => rec.eff[d].st \notin {"intent", "mismatch"}
  BY OneIntent DEF Intended, Begun
<1>7. Script(new)
  <2>1. ASSUME NEW d \in DOMAIN new.eff
        PROVE  /\ new.eff[d].pre = Found(new, d) /\ new.eff[d].post = Left(new, d)
               /\ Effect(new, d) <=> new.eff[d].st # "not_applied"
               /\ new.eff[d].st = "not_applied" => d = "config_commit" /\ new.branch # "primary"
               /\ new.eff[d].st = "mismatch" => StoreOf(d) = "config" /\ new.phase = "repair_required"
               /\ new.eff[d].st = "intent" => new.phase = "effect_intent"
    <3>1. CASE d = e
      BY <1>1, <1>2, <1>3, <1>4, <3>1 DEF Script
    <3>2. CASE d # e
      <4>1. d \in DOMAIN rec.eff /\ new.eff[d] = rec.eff[d]
        BY <1>2, <1>3, <3>2
      <4> QED BY <1>1, <1>3, <1>4, <1>6, <3>2, <4>1 DEF Script
    <3> QED BY <3>1, <3>2
  <2>2. \A c, d : Effect(new, c) /\ Effect(new, d) /\ Precedes(new, c, d) /\ Begun(new, d) => Done(new, c)
    BY <1>1, <1>4, <1>5 DEF Script
  <2>4. DOMAIN new.eff # {}
    BY <1>1, <1>2, <1>3
  <2>5. p = "repair_required" => new.eff[e].st = "mismatch" /\ e \in DOMAIN new.eff
    BY <1>1, <1>2, <1>3
  <2> QED BY <1>1, <1>3, <1>5, <2>1, <2>2, <2>4, <2>5 DEF Script
<1>8. Good(op, new)
  BY <1>1, <1>3, <1>4, <1>7, KeptWellFormed, GoodIs
<1>9. ValidChange(rec, new)
  <2>1. ValidRecord(new)
    BY <1>8, GoodIsValid
  <2>2. rec.phase \notin Terminal
    BY <1>1 DEF Terminal
  <2>3. new.phase = rec.phase \/ new.phase \in Transitions(rec.phase)
    BY <1>1, <1>3, TransitionsAre
  <2>4. \A d \in DOMAIN rec.eff :
          /\ Begun(new, d) /\ new.eff[d].pre = rec.eff[d].pre /\ new.eff[d].post = rec.eff[d].post
          /\ rec.eff[d].st # "intent" => new.eff[d] = rec.eff[d]
    BY <1>2, <1>3, <1>5 DEF Begun, Intended
  <2>5. \A d \in DOMAIN new.eff : new.eff[d].st = "not_applied" => Begun(rec, d) /\ rec.eff[d] = new.eff[d]
    BY <1>2, <1>3 DEF Begun
  <2>6. \A x \in {"ws", "role", "kind", "orig", "cand", "was"} : new[x] = rec[x]
    BY <1>3 DEF Keeps
  <2> QED BY <1>3, <2>1, <2>2, <2>3, <2>4, <2>5, <2>6 DEF ValidChange
<1> QED BY <1>2, <1>3, <1>8, <1>9 DEF Follows, new

\* The effects of a branch, as the switch looks them up.
LEMMA PlanHas ==
  ASSUME NEW rec, NEW b, NEW p, NEW f, Shaped(Recast(rec, b, p, f))
  PROVE  \A e : e \in {Plan(rec.kind, b)[i] : i \in DOMAIN Plan(rec.kind, b)} <=> Effect(Recast(rec, b, p, f), e)
<1>1. Planned(Recast(rec, b, p, f)) = Plan(rec.kind, b)
  BY DEF Recast, Planned
<1>2. \A e : InPlan(Recast(rec, b, p, f), e) <=> Effect(Recast(rec, b, p, f), e)
  BY Ordered
<1> QED BY <1>1, <1>2 DEF InPlan

\* The switch to another branch: the operation is to be undone.  What MaySwitch asks of
\* the effects, and what the record must have proved.
Undoable(rec, branch) ==
    /\ rec.branch = "primary" /\ rec.phase # "complete" /\ Done(rec, "credential_stage")
    /\ \/ rec.kind = "enrollment" /\ branch = "abandon"
       \/ rec.kind = "replacement" /\ branch = "reject"
       \/ rec.kind = "replacement" /\ branch = "restore" /\ Done(rec, "credential_promote")
    /\ \A e \in DOMAIN rec.eff :
          \/ e \in {Plan(rec.kind, branch)[i] : i \in DOMAIN Plan(rec.kind, branch)}
          \/ e = "config_commit" /\ branch # "reject" /\ Intended(rec, e)

SwitchedEffects(rec, branch) ==
    [e \in DOMAIN rec.eff |->
       IF e \in {Plan(rec.kind, branch)[i] : i \in DOMAIN Plan(rec.kind, branch)}
       THEN rec.eff[e] ELSE [rec.eff[e] EXCEPT !.st = "not_applied"]]

\* The effects after the switch: a commit that was not performed, and the others as they were.
LEMMA SwitchedIs ==
  ASSUME NEW op, NEW rec, Good(op, rec), NEW branch, Undoable(rec, branch)
  PROVE  /\ Switched(rec, branch) = Recast(rec, branch, rec.phase, SwitchedEffects(rec, branch))
         /\ Shaped(Switched(rec, branch))
         /\ DOMAIN SwitchedEffects(rec, branch) = DOMAIN rec.eff
         /\ Begun(rec, "config_commit") =>
               /\ Intended(rec, "config_commit") /\ branch # "reject"
               /\ SwitchedEffects(rec, branch)["config_commit"].st = "not_applied"
               /\ SwitchedEffects(rec, branch)["config_commit"].pre = rec.eff["config_commit"].pre
               /\ SwitchedEffects(rec, branch)["config_commit"].post = rec.eff["config_commit"].post
               /\ SwitchedEffects(rec, branch)["config_commit"] \in Entry
         /\ \A e \in DOMAIN rec.eff \ {"config_commit"} :
               /\ SwitchedEffects(rec, branch)[e] = rec.eff[e]
               /\ Effect(Switched(rec, branch), e)
<1> DEFINE f == SwitchedEffects(rec, branch)
           new == Recast(rec, branch, rec.phase, f)
           inPlan == {Plan(rec.kind, branch)[i] : i \in DOMAIN Plan(rec.kind, branch)}
<1>1. IsRecord(rec)
  BY DEF Good
<1>2. Switched(rec, branch) = new
  <2>1. InBranch(rec, branch).eff = rec.eff
    BY <1>1, Rewritten
  <2>2. Switched(rec, branch) = HavingEff(InBranch(rec, branch), f)
    BY <2>1 DEF Switched, InBranch, HavingEff, SwitchedEffects
  <2> HIDE DEF f
  <2> QED BY <1>1, <2>2, Rewritten
<1>3. Shaped(new)
  BY DEF Undoable, Shaped, Recast
<1>4. \A e : e \in inPlan <=> Effect(new, e)
  BY <1>3, PlanHas
<1>5. ~Effect(new, "config_commit")
  BY DEF Effect, Undoable, Recast
<1>6. DOMAIN f = DOMAIN rec.eff
  BY DEF SwitchedEffects
<1>7. ASSUME Begun(rec, "config_commit")
      PROVE  /\ Intended(rec, "config_commit") /\ branch # "reject"
             /\ f["config_commit"].st = "not_applied"
             /\ f["config_commit"].pre = rec.eff["config_commit"].pre
             /\ f["config_commit"].post = rec.eff["config_commit"].post
             /\ f["config_commit"] \in Entry
  <2>1. "config_commit" \notin inPlan
    BY <1>4, <1>5
  <2>2. Intended(rec, "config_commit") /\ branch # "reject"
    BY <1>7, <2>1 DEF Undoable, Begun
  <2>3. f["config_commit"] = [rec.eff["config_commit"] EXCEPT !.st = "not_applied"]
    BY <1>7, <2>1 DEF SwitchedEffects, Begun
  <2>4. rec.eff["config_commit"] \in Entry
    BY <1>1, <1>7 DEF IsRecord, Begun
  <2>5. [rec.eff["config_commit"] EXCEPT !.st = "not_applied"] =
           [st |-> "not_applied", pre |-> rec.eff["config_commit"].pre, post |-> rec.eff["config_commit"].post]
    BY <2>4 DEF Entry
  <2>6. [st |-> "not_applied", pre |-> rec.eff["config_commit"].pre, post |-> rec.eff["config_commit"].post] \in Entry
    BY <2>4 DEF Entry
  <2> QED BY <2>2, <2>3, <2>5, <2>6
<1>8. ASSUME NEW e \in DOMAIN rec.eff \ {"config_commit"}
      PROVE  f[e] = rec.eff[e] /\ Effect(new, e)
  <2>1. e \in inPlan /\ Effect(new, e)
    BY <1>4, <1>8 DEF Undoable
  <2>2. f[e] = rec.eff[e]
    BY <1>8, <2>1 DEF SwitchedEffects
  <2> QED BY <2>1, <2>2
<1> HIDE DEF f, new
<1>9. Shaped(Switched(rec, branch)) /\ \A e : Effect(Switched(rec, branch), e) <=> Effect(new, e)
  BY <1>2, <1>3
<1> QED BY <1>2, <1>6, <1>7, <1>8, <1>9 DEF f, new

\* The record of an operation that is to be undone.
LEMMA SwitchedGood ==
  ASSUME NEW op, NEW rec, Good(op, rec), NEW branch, Undoable(rec, branch)
  PROVE  LET new == Switched(rec, branch) IN
         /\ Follows(op, rec, new)
         /\ new.phase = rec.phase /\ new.branch = branch
         /\ DOMAIN new.eff = DOMAIN rec.eff
         /\ \A e \in DOMAIN rec.eff : e # "config_commit" => new.eff[e] = rec.eff[e]
         /\ Begun(rec, "config_commit") =>
               Intended(rec, "config_commit") /\ new.eff["config_commit"].st = "not_applied"
<1> DEFINE f == SwitchedEffects(rec, branch)
           new == Switched(rec, branch)
<1>1. /\ Shaped(rec) /\ Script(rec) /\ IsRecord(rec) /\ WellFormed(op, rec)
      /\ rec.branch = "primary" /\ rec.phase # "complete" /\ Done(rec, "credential_stage")
      /\ rec.kind \in {"enrollment", "replacement"}
  BY Entries DEF Good, Undoable
<1>2. /\ new = Recast(rec, branch, rec.phase, f)
      /\ Shaped(new)
      /\ DOMAIN f = DOMAIN rec.eff
      /\ Begun(rec, "config_commit") =>
            /\ Intended(rec, "config_commit") /\ branch # "reject"
            /\ f["config_commit"].st = "not_applied"
            /\ f["config_commit"].pre = rec.eff["config_commit"].pre
            /\ f["config_commit"].post = rec.eff["config_commit"].post
            /\ f["config_commit"] \in Entry
      /\ \A e \in DOMAIN rec.eff \ {"config_commit"} : f[e] = rec.eff[e] /\ Effect(new, e)
  BY SwitchedIs
<1> HIDE DEF f, new
<1>3. IsRecord(new) /\ Keeps(rec, new) /\ new.phase = rec.phase /\ new.branch = branch /\ new.eff = f
  <2>1. ASSUME NEW e \in DOMAIN f
        PROVE  f[e] \in Entry
    <3>1. rec.eff[e] \in Entry
      BY <1>1, <1>2, <2>1 DEF IsRecord
    <3> QED BY <1>2, <2>1, <3>1 DEF Begun
  <2>2. DOMAIN f \subseteq Effects
    BY <1>1, <1>2 DEF IsRecord
  <2>3. rec.phase \in {"prepare", "effect_intent", "committed", "repair_required", "complete"}
    BY <1>1 DEF IsRecord
  <2> QED BY <1>1, <1>2, <2>1, <2>2, <2>3, RecastIsRecord
<1>4. \A d : Found(new, d) = Found(rec, d) /\ Left(new, d) = Left(rec, d)
  BY <1>3, KeptScripts
<1>5. ~Effect(new, "config_commit") /\ new.kind = rec.kind /\ new.branch # "primary"
  BY <1>1, <1>3 DEF Effect, Undoable, Keeps
<1>6. \A d : Begun(rec, d) => Effect(rec, d) /\ rec.eff[d].st # "not_applied"
  BY <1>1 DEF Script, Begun, Effect
<1>7. /\ \A d : Begun(new, d) <=> Begun(rec, d)
      /\ \A d : d # "config_commit" => (Done(new, d) <=> Done(rec, d))
      /\ ~Done(rec, "config_commit")
  BY <1>2, <1>3 DEF Begun, Done, Intended
<1>8. Script(new)
  <2>1. ASSUME NEW d \in DOMAIN new.eff
        PROVE  /\ new.eff[d].pre = Found(new, d) /\ new.eff[d].post = Left(new, d)
               /\ Effect(new, d) <=> new.eff[d].st # "not_applied"
               /\ new.eff[d].st = "not_applied" => d = "config_commit" /\ new.branch # "primary"
               /\ new.eff[d].st = "mismatch" => StoreOf(d) = "config" /\ new.phase = "repair_required"
               /\ new.eff[d].st = "intent" => new.phase = "effect_intent"
    <3>0. d \in DOMAIN rec.eff /\ rec.eff[d].pre = Found(new, d) /\ rec.eff[d].post = Left(new, d)
      BY <1>1, <1>2, <1>3, <1>4, <2>1 DEF Script
    <3>1. CASE d = "config_commit"
      BY <1>2, <1>3, <1>5, <3>0, <3>1 DEF Begun
    <3>2. CASE d # "config_commit"
      <4>1. new.eff[d] = rec.eff[d] /\ Effect(new, d)
        BY <1>2, <1>3, <3>0, <3>2
      <4>2. rec.eff[d].st # "not_applied"
        BY <1>6, <3>0 DEF Begun
      <4>3. /\ rec.eff[d].st = "mismatch" => StoreOf(d) = "config" /\ rec.phase = "repair_required"
            /\ rec.eff[d].st = "intent" => rec.phase = "effect_intent"
        BY <1>1, <3>0 DEF Script
      <4> QED BY <1>3, <3>0, <4>1, <4>2, <4>3
    <3> QED BY <3>1, <3>2
  <2>2. ASSUME NEW c, NEW d, Effect(new, c), Effect(new, d), Precedes(new, c, d), Begun(new, d)
        PROVE  Done(new, c)
    <3>1. Effect(rec, d) /\ Begun(rec, d) /\ d # "config_commit" /\ c # "config_commit"
      BY <1>5, <1>6, <1>7, <2>2
    <3>2. d \notin {"backup_delete", "staging_cleanup"}
      <4>1. d \in {"backup_delete", "staging_cleanup"} =>
              /\ rec.kind = "enrollment" \/ rec.kind = "replacement"
              /\ Effect(rec, "config_commit") /\ Precedes(rec, "config_commit", d)
        BY <1>1, <3>1 DEF Effect, Precedes
      <4> QED BY <1>1, <1>7, <3>1, <4>1 DEF Script
    <3>3. Effect(rec, c) /\ Precedes(rec, c, d)
      BY <1>1, <1>5, <2>2, <3>1, <3>2 DEF Effect, Precedes
    <3> QED BY <1>1, <1>7, <3>1, <3>3 DEF Script
  <2>3. branch = "restore" => Done(rec, "credential_backup") /\ Done(rec, "credential_promote")
    <3>1. SUFFICES ASSUME branch = "restore"
                   PROVE  Done(rec, "credential_backup") /\ Done(rec, "credential_promote")
      OBVIOUS
    <3>2. Done(rec, "credential_promote") /\ rec.kind = "replacement"
      BY <3>1 DEF Undoable
    <3>3. /\ Effect(rec, "credential_backup") /\ Effect(rec, "credential_promote")
          /\ Precedes(rec, "credential_backup", "credential_promote")
      BY <1>1, <3>2 DEF Effect, Precedes
    <3> QED BY <1>1, <3>2, <3>3 DEF Script, Done
  <2>4. branch = "reject" => ~Begun(new, "config_commit")
    BY <1>2, <1>7 DEF Begun
  <2>5. branch = "restore" => Done(new, "credential_backup") /\ Done(new, "credential_promote")
    BY <1>7, <2>3
  <2>6. Done(new, "credential_stage")
    BY <1>1, <1>7
  <2>7. /\ new.phase = "prepare" => DOMAIN new.eff = {}
        /\ new.phase # "prepare" => DOMAIN new.eff # {}
        /\ new.phase # "complete"
    BY <1>1, <1>2, <1>3 DEF Script
  <2>8. rec.phase # "repair_required"
    <3>1. ASSUME NEW d \in DOMAIN rec.eff, rec.eff[d].st = "mismatch"
          PROVE  FALSE
      <4>1. d \in {"config_commit", "config_detach"}
        BY <1>1, <3>1, StoresAre DEF Script, IsRecord, Effects
      <4>2. d = "config_commit"
        BY <1>1, <1>6, <4>1 DEF Effect, Begun
      <4> QED BY <1>2, <3>1, <4>2 DEF Begun, Intended
    <3> QED BY <1>1, <3>1 DEF Script
  <2> QED BY <1>3, <2>1, <2>2, <2>4, <2>5, <2>6, <2>7, <2>8 DEF Script
<1>9. Good(op, new)
  BY <1>1, <1>2, <1>3, <1>8, KeptWellFormed, GoodIs
<1>10. ValidChange(rec, new)
  <2>1. ValidRecord(new)
    BY <1>9, GoodIsValid
  <2>2. rec.phase \notin Terminal
    BY <1>1 DEF Terminal, IsRecord
  <2>3. ASSUME NEW d \in DOMAIN rec.eff
        PROVE  /\ Begun(new, d) /\ new.eff[d].pre = rec.eff[d].pre /\ new.eff[d].post = rec.eff[d].post
               /\ rec.eff[d].st # "intent" => new.eff[d] = rec.eff[d]
               /\ new.eff[d] = rec.eff[d] \/ (Intended(rec, d) /\ new.eff[d].st = "not_applied")
    <3>1. CASE d = "config_commit"
      BY <1>2, <1>3, <1>7, <2>3, <3>1 DEF Begun, Intended
    <3>2. CASE d # "config_commit"
      BY <1>2, <1>3, <1>7, <2>3, <3>2 DEF Begun
    <3> QED BY <3>1, <3>2
  <2>4. \A x \in {"ws", "role", "kind", "orig", "cand", "was"} : new[x] = rec[x]
    BY <1>3 DEF Keeps
  <2>5. new.branch # rec.branch
    BY <1>1, <1>3 DEF Undoable
  <2>6. new.branch \in Branches(rec.kind)
    BY <1>3, <1>5, <1>9 DEF Good, WellFormed
  <2>7. DOMAIN new.eff = DOMAIN rec.eff
    BY <1>2, <1>3
  <2> QED BY <1>1, <1>3, <2>1, <2>2, <2>3, <2>4, <2>5, <2>6, <2>7 DEF ValidChange
<1>11. Follows(op, rec, new)
  BY <1>3, <1>9, <1>10 DEF Follows
<1>12. Begun(rec, "config_commit") =>
         Intended(rec, "config_commit") /\ new.eff["config_commit"].st = "not_applied"
  BY <1>2, <1>3 DEF Begun
<1> QED BY <1>2, <1>3, <1>11, <1>12 DEF new

\* The end: every effect of the branch is done.
LEMMA CompletedGood ==
  ASSUME NEW op, NEW rec, Good(op, rec), AllDone(rec), rec.phase \notin {"repair_required", "complete"}
  PROVE  /\ Follows(op, rec, InPhase(rec, "complete"))
         /\ InPhase(rec, "complete").phase = "complete"
         /\ InPhase(rec, "complete").branch = rec.branch
         /\ InPhase(rec, "complete").eff = rec.eff
<1> DEFINE new == InPhase(rec, "complete")
<1>1. Shaped(rec) /\ Script(rec) /\ IsRecord(rec) /\ WellFormed(op, rec)
  BY Entries DEF Good
<1>2. \A e : Effect(rec, e) => Done(rec, e)
  BY <1>1, Ordered
<1>3. Done(rec, "credential_stage") \/ Done(rec, "config_detach")
  BY <1>1, <1>2 DEF Shaped, Effect
<1>4. new = Recast(rec, rec.branch, "complete", rec.eff)
  BY <1>1, Rewritten
<1> HIDE DEF new
<1>5. /\ IsRecord(new) /\ Keeps(rec, new) /\ new.phase = "complete" /\ new.branch = rec.branch
      /\ new.eff = rec.eff
  BY <1>1, <1>4, RecastIsRecord DEF IsRecord
<1>6. /\ \A d : Found(new, d) = Found(rec, d) /\ Left(new, d) = Left(rec, d)
      /\ Shaped(new)
      /\ \A d : Effect(new, d) <=> Effect(rec, d)
      /\ \A c, d : Precedes(new, c, d) <=> Precedes(rec, c, d)
  BY <1>1, <1>5, KeptScripts
<1>7. \A d : Done(new, d) <=> Done(rec, d)
  BY <1>5 DEF Done, Begun
<1>8. Script(new)
  <2>1. ASSUME NEW d \in DOMAIN rec.eff
        PROVE  rec.eff[d].st \notin {"intent", "mismatch"}
    <3>1. rec.eff[d].st # "not_applied" => rec.eff[d].st = "verified"
      BY <1>1, <1>2, <2>1 DEF Script, Done
    <3> QED BY <3>1
  <2>2. DOMAIN rec.eff # {}
    BY <1>3 DEF Done, Begun
  <2>3. ASSUME NEW d \in DOMAIN new.eff
        PROVE  /\ new.eff[d].pre = Found(new, d) /\ new.eff[d].post = Left(new, d)
               /\ Effect(new, d) <=> new.eff[d].st # "not_applied"
               /\ new.eff[d].st = "not_applied" => d = "config_commit" /\ new.branch # "primary"
               /\ new.eff[d].st \notin {"intent", "mismatch"}
    BY <1>1, <1>5, <1>6, <2>1, <2>3 DEF Script
  <2>4. \A c, d : Effect(new, c) /\ Effect(new, d) /\ Precedes(new, c, d) /\ Begun(new, d) => Done(new, c)
    BY <1>2, <1>6, <1>7
  <2>5. /\ new.branch # "primary" => Done(new, "credential_stage")
        /\ new.branch = "restore" => Done(new, "credential_backup") /\ Done(new, "credential_promote")
        /\ new.branch = "reject" => ~Begun(new, "config_commit")
    BY <1>1, <1>5, <1>7 DEF Script, Begun
  <2> QED BY <1>2, <1>5, <1>6, <1>7, <2>2, <2>3, <2>4, <2>5 DEF Script
<1>9. Good(op, new)
  BY <1>1, <1>5, <1>6, <1>8, KeptWellFormed, GoodIs
<1>10. ValidChange(rec, new)
  <2>1. ValidRecord(new)
    BY <1>9, GoodIsValid
  <2>2. rec.phase \in {"effect_intent", "committed"}
    BY <1>1, <1>3 DEF IsRecord, Script, Done, Begun
  <2>3. rec.phase \notin Terminal
    BY <2>2 DEF Terminal
  <2>4. new.phase \in Transitions(rec.phase)
    BY <1>5, <2>2, TransitionsAre
  <2>5. \A d \in DOMAIN rec.eff : Begun(new, d)
    BY <1>5 DEF Begun
  <2>6. \A x \in {"ws", "role", "kind", "orig", "cand", "was"} : new[x] = rec[x]
    BY <1>5 DEF Keeps
  <2> QED BY <1>5, <2>1, <2>3, <2>4, <2>5, <2>6 DEF ValidChange, Begun
<1> QED BY <1>5, <1>9, <1>10 DEF Follows, new

-----------------------------------------------------------------------------
(* The configurations and the reviewed changes.                             *)

\* Another zone is a configuration that is the same but for the zone.
LEMMA ZonedSame ==
  ASSUME NEW c \in Config, NEW z \in Zones \cup {HandZone}
  PROVE  [c EXCEPT !.zone = z] \in Config /\ Same([c EXCEPT !.zone = z], c) /\ [c EXCEPT !.zone = z].zone = z
BY DEF Config, Same

\* The records of changes that are, each with what it never changes.
ApplyTyped == applies \in [Applies -> {NoApply, Past} \cup ApplyType]

\* The records of changes are told from what is none, and their fields are all there is.
LEMMA ApplyIs ==
  /\ NoApply \notin ApplyType /\ Past \notin ApplyType /\ NoApply # Past
  /\ \A r \in ApplyType : r = [ws |-> r.ws, phase |-> r.phase, orig |-> r.orig, cand |-> r.cand, effect |-> r.effect]
BY DEF NoApply, Past, ApplyType

Phases == {"prepare", "candidate_validated", "locked", "effect_intent", "committed",
           "repair_required"} \cup Terminal
Changed(r, p, e) == [r EXCEPT !.phase = p, !.effect = e]

\* A change's record after a step of the change.
LEMMA ChangedIs ==
  ASSUME NEW r \in ApplyType, NEW p \in Phases, NEW e \in {"none", "intent", "verified", "readback_mismatch"}
  PROVE  /\ Changed(r, p, e) \in ApplyType
         /\ Changed(r, p, e).ws = r.ws /\ Changed(r, p, e).orig = r.orig /\ Changed(r, p, e).cand = r.cand
         /\ Changed(r, p, r.effect) = [r EXCEPT !.phase = p]
BY DEF ApplyType, Phases, Changed

\* A step of one change: what the others and the holders of a lock see of it.
EditKept(a) ==
    /\ ApplyTyped'
    /\ \A b \in Applies \ {a} : applies'[b] = applies[b] /\ editor'[b] = editor[b]

Places == {"out", "begun", "validated", "locked", "intent", "written", "recorded"}
Holders == 0 .. MaxApply + 2

ConfigTyped ==
    /\ config \in [Workspaces -> Config]
    /\ holder \in [Workspaces -> Holders]
    /\ ApplyTyped
    /\ editor \in [Applies -> Places]

EditingOf(a) ==
    /\ editor[a] # "out" => applies[a] \in ApplyType
    /\ applies[a] \in ApplyType =>
          /\ Same(applies[a].cand, applies[a].orig)
          /\ editor[a] \in {"locked", "intent", "written", "recorded"} => holder[applies[a].ws] = a
          /\ editor[a] \in {"locked", "intent"} => Same(config[applies[a].ws], applies[a].orig)
          /\ editor[a] = "intent" =>
                config[applies[a].ws] = applies[a].orig \/ config[applies[a].ws].zone = HandZone

\* What whoever holds a lock sees of a step of another: an edit by hand at most.
Seen(w) == /\ Same(config'[w], config[w])
           /\ config'[w] = config[w] \/ config'[w].zone = HandZone
ConfigGoesOn ==
    /\ ConfigTyped'
    /\ \A w \in Workspaces : Same(config'[w], config[w])
    /\ \A w \in Workspaces : holder[w] = Saga => holder'[w] = Saga /\ Seen(w)

\* A change that is not of this step.
LEMMA OtherEdits ==
  ASSUME ConfigTyped, Editing, NEW b \in Applies, applies'[b] = applies[b], editor'[b] = editor[b],
         \A w \in Workspaces : holder[w] = b => holder'[w] = b /\ Seen(w)
  PROVE  EditingOf(b)'
BY DEF ConfigTyped, ApplyTyped, Editing, EditingOf, Seen, Same, ApplyType

\* The operation that holds a configuration's lock is not one of the changes.
LEMMA SagaIs ==
  /\ \A a \in Applies : a \in Holders /\ a # Free /\ a # Saga /\ a # Other
  /\ Free \in Holders /\ Saga \in Holders /\ Saga # Free /\ Other # Free /\ Other # Saga
BY ConfigAssumption DEF Applies, Free, Saga, Other, Holders

\* A step of a change that writes no configuration.
LEMMA QuietEdit ==
  ASSUME ConfigTyped, Editing, NEW a \in Applies, EditKept(a), UNCHANGED config,
         holder' \in [Workspaces -> Holders], editor' \in [Applies -> Places],
         \A w \in Workspaces : holder[w] \notin {Free, a} => holder'[w] = holder[w],
         EditingOf(a)'
  PROVE  ConfigGoesOn /\ Editing'
<1>1. \A w \in Workspaces : Same(config'[w], config[w]) /\ Seen(w)
  BY DEF Same, Seen
<1>2. ConfigTyped'
  BY DEF ConfigTyped, EditKept
<1>3. ConfigGoesOn
  BY <1>1, <1>2, SagaIs DEF ConfigGoesOn, ConfigTyped
<1>4. ASSUME NEW b \in Applies
      PROVE  EditingOf(b)'
  <2>1. CASE b # a
    <3>1. \A w \in Workspaces : holder[w] = b => holder'[w] = b /\ Seen(w)
      BY <1>1, <2>1, SagaIs DEF ConfigTyped
    <3> QED BY <2>1, <3>1, OtherEdits DEF EditKept
  <2> QED BY <2>1
<1>5. Editing'
  BY <1>4 DEF Editing, EditingOf
<1> QED BY <1>3, <1>5

\* The record of a change moves to another phase, or notes its effect.
LEMMA PhaseIs ==
  ASSUME ConfigTyped, NEW a \in Applies, applies[a] \in ApplyType,
         NEW p \in Phases, NEW e \in {"none", "intent", "verified", "readback_mismatch"},
         applies' = [applies EXCEPT ![a] = Changed(applies[a], p, e)]
  PROVE  /\ ApplyTyped' /\ applies'[a] \in ApplyType
         /\ applies'[a].ws = applies[a].ws /\ applies'[a].orig = applies[a].orig
         /\ applies'[a].cand = applies[a].cand
         /\ \A b \in Applies \ {a} : applies'[b] = applies[b]
<1>1. Changed(applies[a], p, e) \in ApplyType
  BY ChangedIs
<1>2. /\ Changed(applies[a], p, e).ws = applies[a].ws /\ Changed(applies[a], p, e).orig = applies[a].orig
      /\ Changed(applies[a], p, e).cand = applies[a].cand
  BY ChangedIs
<1>3. /\ applies'[a] = Changed(applies[a], p, e)
      /\ \A b \in Applies \ {a} : applies'[b] = applies[b]
  BY DEF ConfigTyped, ApplyTyped
<1>4. ApplyTyped'
  <2> HIDE DEF Changed
  <2> QED BY <1>1 DEF ConfigTyped, ApplyTyped
<1> QED BY <1>1, <1>2, <1>3, <1>4

\* The two forms in which a step writes a change's record.
LEMMA PhaseForms ==
  ASSUME ConfigTyped, NEW a \in Applies, applies[a] \in ApplyType, NEW p \in Phases,
         NEW e \in {"none", "intent", "verified", "readback_mismatch"}
  PROVE  /\ Phase(a, p) => applies' = [applies EXCEPT ![a] = Changed(applies[a], p, applies[a].effect)]
         /\ [applies EXCEPT ![a].phase = p, ![a].effect = e] = [applies EXCEPT ![a] = Changed(applies[a], p, e)]
         /\ applies[a].effect \in {"none", "intent", "verified", "readback_mismatch"}
         /\ applies[a].phase \in Phases
BY DEF Phase, Changed, ApplyType, ConfigTyped, ApplyTyped, Phases

\* What a change of the phase leaves as it was.
LEMMA PhaseMoves ==
  ASSUME ConfigTyped, NEW a \in Applies, applies[a] \in ApplyType, NEW p \in Phases, Phase(a, p)
  PROVE  /\ ApplyTyped' /\ applies'[a] \in ApplyType
         /\ applies'[a].ws = applies[a].ws /\ applies'[a].orig = applies[a].orig
         /\ applies'[a].cand = applies[a].cand
         /\ \A b \in Applies \ {a} : applies'[b] = applies[b]
<1>1. applies[a].effect \in {"none", "intent", "verified", "readback_mismatch"}
  BY DEF ApplyType
<1>2. applies' = [applies EXCEPT ![a] = Changed(applies[a], p, applies[a].effect)]
  BY <1>1, PhaseForms
<1> QED BY <1>1, <1>2, PhaseIs

\* Every step of the reviewed changes, and an edit by hand: they respect the locks.
LEMMA ConfigSteps ==
  ASSUME ConfigTyped, Editing, ConfigNext
  PROVE  ConfigGoesOn /\ Editing'
<1>1. \A a \in Applies : EditingOf(a)
  BY DEF Editing, EditingOf
<1>2. \A a \in Applies : editor[a] # "out" => applies[a] \in ApplyType /\ applies[a].ws \in Workspaces
  BY <1>1 DEF EditingOf, ApplyType
<1>3. ASSUME NEW a \in Applies, NEW w \in Workspaces, NEW z \in Zones, ApplyBegin(a, w, z)
      PROVE  ConfigGoesOn /\ Editing'
  <2> DEFINE r == Apply(w, config[w], [config[w] EXCEPT !.zone = z])
  <2>1. config[w] \in Config /\ [config[w] EXCEPT !.zone = z] \in Config
    BY ZonedSame DEF ConfigTyped
  <2>2. r \in ApplyType /\ Same(r.cand, r.orig)
    BY <2>1, ZonedSame DEF Apply, ApplyType, ConfigTyped
  <2>3. applies' = [applies EXCEPT ![a] = r] /\ editor' = [editor EXCEPT ![a] = "begun"] /\ UNCHANGED <<config, holder>>
    BY <1>3 DEF ApplyBegin, Moves
  <2> HIDE DEF r
  <2>4. applies'[a] = r /\ editor'[a] = "begun"
    BY <2>3 DEF ConfigTyped, ApplyTyped
  <2>5. EditKept(a) /\ editor' \in [Applies -> Places]
    BY <2>2, <2>3 DEF ConfigTyped, ApplyTyped, EditKept, Places
  <2>6. EditingOf(a)'
    BY <2>2, <2>4 DEF EditingOf
  <2> QED BY <2>3, <2>5, <2>6, QuietEdit DEF ConfigTyped
<1>4. ASSUME NEW a \in Applies, ApplyValidated(a)
      PROVE  ConfigGoesOn /\ Editing'
  <2>1. applies[a] \in ApplyType
    BY <1>2, <1>4 DEF ApplyValidated
  <2>2. UNCHANGED <<config, holder>>
    BY <1>4 DEF ApplyValidated
  <2>3. \/ Phase(a, "candidate_validated") /\ Moves(a, "validated")
        \/ UNCHANGED applies /\ Moves(a, "out")
    BY <1>4 DEF ApplyValidated
  <2>4. EditKept(a) /\ applies'[a] \in ApplyType /\ applies'[a].orig = applies[a].orig /\ applies'[a].cand = applies[a].cand
    <3>1. "candidate_validated" \in Phases
      BY DEF Phases
    <3>2. \A b \in Applies \ {a} : editor'[b] = editor[b]
      BY <2>3 DEF Moves, ConfigTyped
    <3>3. CASE Phase(a, "candidate_validated")
      BY <2>1, <3>1, <3>2, <3>3, PhaseMoves DEF EditKept
    <3>4. CASE UNCHANGED applies
      BY <2>1, <3>2, <3>4 DEF EditKept, ConfigTyped, ApplyTyped
    <3> QED BY <2>3, <3>3, <3>4
  <2>5. editor' \in [Applies -> Places] /\ editor'[a] \in {"validated", "out"}
    BY <2>3 DEF Moves, ConfigTyped, Places
  <2>6. EditingOf(a)'
    BY <1>1, <2>1, <2>4, <2>5 DEF EditingOf
  <2> QED BY <2>2, <2>4, <2>5, <2>6, QuietEdit DEF ConfigTyped
<1>5. ASSUME NEW a \in Applies, ApplyTimesOut(a)
      PROVE  ConfigGoesOn /\ Editing'
  <2>1. applies[a] \in ApplyType
    BY <1>2, <1>5 DEF ApplyTimesOut
  <2>2. UNCHANGED <<config, holder>> /\ Phase(a, "resolved_without_change") /\ Moves(a, "out")
    BY <1>5 DEF ApplyTimesOut
  <2>4. EditKept(a) /\ applies'[a] \in ApplyType /\ applies'[a].orig = applies[a].orig /\ applies'[a].cand = applies[a].cand
    <3>1. "resolved_without_change" \in Phases
      BY DEF Phases, Terminal
    <3>2. \A b \in Applies \ {a} : editor'[b] = editor[b]
      BY <2>2 DEF Moves, ConfigTyped
    <3> QED BY <2>1, <2>2, <3>1, <3>2, PhaseMoves DEF EditKept
  <2>5. editor' \in [Applies -> Places] /\ editor'[a] = "out"
    BY <2>2 DEF Moves, ConfigTyped, Places
  <2>6. EditingOf(a)'
    BY <1>1, <2>1, <2>4, <2>5 DEF EditingOf
  <2> QED BY <2>2, <2>4, <2>5, <2>6, QuietEdit DEF ConfigTyped
<1>6. ASSUME NEW a \in Applies, ApplyLock(a)
      PROVE  ConfigGoesOn /\ Editing'
  <2>1. applies[a] \in ApplyType /\ applies[a].ws \in Workspaces
    BY <1>2, <1>6 DEF ApplyLock
  <2>2. /\ UNCHANGED config /\ holder[applies[a].ws] = Free
        /\ \/ /\ holder' = [holder EXCEPT ![applies[a].ws] = a]
              /\ config[applies[a].ws] = applies[a].orig
              /\ Phase(a, "locked") /\ Moves(a, "locked")
           \/ UNCHANGED holder /\ Phase(a, "resolved_without_change") /\ Moves(a, "out")
    BY <1>6 DEF ApplyLock
  <2>3. /\ EditKept(a) /\ applies'[a] \in ApplyType /\ applies'[a].ws = applies[a].ws
        /\ applies'[a].orig = applies[a].orig /\ applies'[a].cand = applies[a].cand
    <3>1. PICK q \in {"locked", "resolved_without_change"} : Phase(a, q)
      BY <2>2
    <3>2. {"locked", "resolved_without_change"} \subseteq Phases
      BY DEF Phases, Terminal
    <3>3. \A b \in Applies \ {a} : editor'[b] = editor[b]
      BY <2>2 DEF Moves, ConfigTyped
    <3> QED BY <2>1, <3>1, <3>2, <3>3, PhaseMoves DEF EditKept
  <2>4. /\ editor' \in [Applies -> Places] /\ holder' \in [Workspaces -> Holders]
        /\ \A w \in Workspaces : holder[w] \notin {Free, a} => holder'[w] = holder[w]
        /\ \/ editor'[a] = "locked" /\ holder'[applies[a].ws] = a /\ config[applies[a].ws] = applies[a].orig
           \/ editor'[a] = "out"
    BY <2>1, <2>2, SagaIs DEF Moves, ConfigTyped, Places
  <2>5. EditingOf(a)'
    BY <1>1, <2>1, <2>2, <2>3, <2>4 DEF EditingOf, Same
  <2> QED BY <2>2, <2>3, <2>4, <2>5, QuietEdit
<1>7. ASSUME NEW a \in Applies, ApplyIntent(a)
      PROVE  ConfigGoesOn /\ Editing'
  <2>1. applies[a] \in ApplyType /\ applies[a].ws \in Workspaces
    BY <1>2, <1>7 DEF ApplyIntent
  <2>2. /\ UNCHANGED <<config, holder>> /\ editor[a] = "locked" /\ config[applies[a].ws] = applies[a].orig
        /\ applies' = [applies EXCEPT ![a].phase = "effect_intent", ![a].effect = "intent"]
        /\ Moves(a, "intent")
    BY <1>7 DEF ApplyIntent
  <2>3. "effect_intent" \in Phases
    BY DEF Phases
  <2>4. applies' = [applies EXCEPT ![a] = Changed(applies[a], "effect_intent", "intent")]
    BY <2>1, <2>2, <2>3, PhaseForms
  <2>5. /\ EditKept(a) /\ applies'[a] \in ApplyType /\ applies'[a].ws = applies[a].ws
        /\ applies'[a].orig = applies[a].orig /\ applies'[a].cand = applies[a].cand
    <3>1. \A b \in Applies \ {a} : editor'[b] = editor[b]
      BY <2>2 DEF Moves, ConfigTyped
    <3> QED BY <2>1, <2>3, <2>4, <3>1, PhaseIs DEF EditKept
  <2>6. editor' \in [Applies -> Places] /\ editor'[a] = "intent"
    BY <2>2 DEF Moves, ConfigTyped, Places
  <2>7. EditingOf(a)'
    BY <1>1, <2>1, <2>2, <2>5, <2>6 DEF EditingOf
  <2> QED BY <2>2, <2>5, <2>6, <2>7, QuietEdit DEF ConfigTyped
<1>8. ASSUME NEW a \in Applies, ApplyReplace(a)
      PROVE  ConfigGoesOn /\ Editing'
  <2>1. applies[a] \in ApplyType /\ applies[a].ws \in Workspaces /\ applies[a].cand \in Config
    BY <1>2, <1>8 DEF ApplyReplace, ApplyType
  <2>2. /\ config' = [config EXCEPT ![applies[a].ws] = applies[a].cand]
        /\ editor[a] = "intent" /\ Moves(a, "written") /\ UNCHANGED <<holder, applies>>
    BY <1>8 DEF ApplyReplace
  <2>3. /\ holder[applies[a].ws] = a /\ Same(applies[a].cand, applies[a].orig)
        /\ Same(config[applies[a].ws], applies[a].orig)
    BY <1>1, <2>1, <2>2 DEF EditingOf
  <2>4. ConfigTyped'
    BY <2>1, <2>2 DEF ConfigTyped, Moves, Places, ApplyTyped
  <2>5. /\ \A w \in Workspaces \ {applies[a].ws} : config'[w] = config[w]
        /\ config'[applies[a].ws] = applies[a].cand
    BY <2>1, <2>2 DEF ConfigTyped
  <2>6. \A w \in Workspaces : Same(config'[w], config[w])
    BY <2>3, <2>5 DEF Same
  <2>7. \A w \in Workspaces : holder[w] # a => holder'[w] = holder[w] /\ Seen(w)
    BY <2>2, <2>3, <2>5, <2>6 DEF Seen
  <2>8. ConfigGoesOn
    BY <2>2, <2>4, <2>6, <2>7, SagaIs DEF ConfigGoesOn
  <2>9. ASSUME NEW b \in Applies
        PROVE  EditingOf(b)'
    <3>1. CASE b # a
      <4>1. editor'[b] = editor[b] /\ applies'[b] = applies[b]
        BY <2>2, <3>1 DEF Moves, ConfigTyped
      <4>2. \A w \in Workspaces : holder[w] = b => holder'[w] = b /\ Seen(w)
        BY <2>7, <3>1
      <4> QED BY <4>1, <4>2, OtherEdits
    <3>2. CASE b = a
      <4>1. editor'[a] = "written"
        BY <2>2 DEF Moves, ConfigTyped
      <4> QED BY <1>1, <2>1, <2>2, <2>3, <3>2, <4>1 DEF EditingOf
    <3> QED BY <3>1, <3>2
  <2>10. Editing'
    BY <2>9 DEF Editing, EditingOf
  <2> QED BY <2>8, <2>10
<1>9. ASSUME NEW a \in Applies, ApplyRecord(a)
      PROVE  ConfigGoesOn /\ Editing'
  <2>1. applies[a] \in ApplyType /\ applies[a].ws \in Workspaces
    BY <1>2, <1>9 DEF ApplyRecord
  <2>2. /\ UNCHANGED config /\ editor[a] = "written"
        /\ \/ /\ UNCHANGED holder /\ Moves(a, "recorded")
              /\ applies' = [applies EXCEPT ![a].phase = "committed", ![a].effect = "verified"]
           \/ /\ Unlock(applies[a].ws) /\ Moves(a, "out")
              /\ applies' = [applies EXCEPT ![a].phase = "repair_required", ![a].effect = "readback_mismatch"]
    BY <1>9 DEF ApplyRecord
  <2>3. holder[applies[a].ws] = a
    BY <1>1, <2>1, <2>2 DEF EditingOf
  <2>4. {"committed", "repair_required"} \subseteq Phases
    BY DEF Phases
  <2>5. \/ applies' = [applies EXCEPT ![a] = Changed(applies[a], "committed", "verified")]
        \/ applies' = [applies EXCEPT ![a] = Changed(applies[a], "repair_required", "readback_mismatch")]
    BY <2>1, <2>2, <2>4, PhaseForms
  <2>6. /\ EditKept(a) /\ applies'[a] \in ApplyType /\ applies'[a].ws = applies[a].ws
        /\ applies'[a].orig = applies[a].orig /\ applies'[a].cand = applies[a].cand
    <3>1. \A b \in Applies \ {a} : editor'[b] = editor[b]
      BY <2>2 DEF Moves, ConfigTyped
    <3> QED BY <2>1, <2>4, <2>5, <3>1, PhaseIs DEF EditKept
  <2>7. /\ editor' \in [Applies -> Places] /\ holder' \in [Workspaces -> Holders]
        /\ \A w \in Workspaces : holder[w] \notin {Free, a} => holder'[w] = holder[w]
        /\ \/ editor'[a] = "recorded" /\ UNCHANGED holder
           \/ editor'[a] = "out"
    BY <2>1, <2>2, <2>3, SagaIs DEF Moves, ConfigTyped, Places, Unlock
  <2>8. EditingOf(a)'
    BY <1>1, <2>1, <2>2, <2>3, <2>6, <2>7 DEF EditingOf
  <2> QED BY <2>2, <2>6, <2>7, <2>8, QuietEdit
<1>10. ASSUME NEW a \in Applies, ApplyFinish(a)
      PROVE  ConfigGoesOn /\ Editing'
  <2>1. applies[a] \in ApplyType /\ applies[a].ws \in Workspaces
    BY <1>2, <1>10 DEF ApplyFinish
  <2>2. /\ UNCHANGED config /\ editor[a] = "recorded" /\ Phase(a, "complete") /\ Moves(a, "out")
        /\ Unlock(applies[a].ws)
    BY <1>10 DEF ApplyFinish
  <2>3. holder[applies[a].ws] = a
    BY <1>1, <2>1, <2>2 DEF EditingOf
  <2>4. EditKept(a) /\ applies'[a] \in ApplyType /\ applies'[a].orig = applies[a].orig /\ applies'[a].cand = applies[a].cand
    <3>1. "complete" \in Phases
      BY DEF Phases, Terminal
    <3>2. \A b \in Applies \ {a} : editor'[b] = editor[b]
      BY <2>2 DEF Moves, ConfigTyped
    <3> QED BY <2>1, <2>2, <3>1, <3>2, PhaseMoves DEF EditKept
  <2>5. /\ editor' \in [Applies -> Places] /\ editor'[a] = "out" /\ holder' \in [Workspaces -> Holders]
        /\ \A w \in Workspaces : holder[w] \notin {Free, a} => holder'[w] = holder[w]
    BY <2>1, <2>2, <2>3, SagaIs DEF Moves, ConfigTyped, Places, Unlock
  <2>6. EditingOf(a)'
    BY <1>1, <2>1, <2>4, <2>5 DEF EditingOf
  <2> QED BY <2>2, <2>4, <2>5, <2>6, QuietEdit
<1>11. ASSUME NEW a \in Applies, ApplyEnds(a)
      PROVE  ConfigGoesOn /\ Editing'
  <2>1. /\ UNCHANGED <<config, applies>> /\ Moves(a, "out")
        /\ holder' = [w \in Workspaces |-> IF holder[w] = a THEN Free ELSE holder[w]]
    BY <1>11 DEF ApplyEnds
  <2>2. EditKept(a)
    BY <2>1 DEF EditKept, Moves, ConfigTyped, ApplyTyped
  <2>3. /\ editor' \in [Applies -> Places] /\ editor'[a] = "out" /\ holder' \in [Workspaces -> Holders]
        /\ \A w \in Workspaces : holder[w] \notin {Free, a} => holder'[w] = holder[w]
    BY <2>1, SagaIs DEF Moves, ConfigTyped, Places
  <2>4. EditingOf(a)'
    BY <1>1, <2>1, <2>3 DEF EditingOf
  <2> QED BY <2>1, <2>2, <2>3, <2>4, QuietEdit
<1>12. ASSUME NEW a \in Applies, NEW action \in {"resume", "leave"}, RecoverApply(a, action)
       PROVE  ConfigGoesOn /\ Editing'
  <2>1. applies[a] \in ApplyType /\ editor[a] \in {"out", "begun"}
    BY <1>12 DEF RecoverApply, ConfigTyped, ApplyTyped
  <2>2. Outcome(a, action) \in Phases
    <3>1. Outcome(a, action) \in Terminal \cup {applies[a].phase, "repair_required"}
      BY DEF Outcome, Terminal
    <3> QED BY <2>1, <3>1, PhaseForms DEF Phases, ApplyType
  <2>3. PICK q \in Phases, f \in {"none", "intent", "verified", "readback_mismatch"} :
           applies' = [applies EXCEPT ![a].phase = q, ![a].effect = f]
    <3>1. applies[a].effect \in {"none", "intent", "verified", "readback_mismatch"}
      BY <2>1 DEF ApplyType
    <3> QED BY <1>12, <2>2, <3>1 DEF RecoverApply
  <2>4. q \in Phases /\ f \in {"none", "intent", "verified", "readback_mismatch"}
    OBVIOUS
  <2>5. /\ applies' = [applies EXCEPT ![a] = Changed(applies[a], q, f)]
        /\ UNCHANGED <<config, holder, editor>>
    <3>1. [applies EXCEPT ![a].phase = q, ![a].effect = f] = [applies EXCEPT ![a] = Changed(applies[a], q, f)]
      BY <2>1, <2>4 DEF Changed, ConfigTyped, ApplyTyped, ApplyType
    <3>2. UNCHANGED <<config, holder, editor>>
      BY <1>12 DEF RecoverApply
    <3> QED BY <2>3, <3>1, <3>2
  <2>7. EditKept(a) /\ applies'[a] \in ApplyType /\ applies'[a].orig = applies[a].orig /\ applies'[a].cand = applies[a].cand
    <3>1. /\ ApplyTyped' /\ applies'[a] \in ApplyType /\ applies'[a].orig = applies[a].orig
          /\ applies'[a].cand = applies[a].cand /\ \A b \in Applies \ {a} : applies'[b] = applies[b]
      BY <2>1, <2>4, <2>5, PhaseIs
    <3> QED BY <2>5, <3>1 DEF EditKept
  <2>6. EditingOf(a)'
    BY <1>1, <2>1, <2>5, <2>7 DEF EditingOf
  <2> QED BY <2>5, <2>6, <2>7, QuietEdit DEF ConfigTyped
<1>13. ASSUME NEW w \in Workspaces, HandEdit(w)
       PROVE  ConfigGoesOn /\ Editing'
  <2>1. config' = [config EXCEPT ![w].zone = HandZone] /\ UNCHANGED <<holder, applies, editor>>
    BY <1>13 DEF HandEdit
  <2>2. /\ config' \in [Workspaces -> Config]
        /\ \A x \in Workspaces : Seen(x)
    <3>1. config[w] \in Config /\ [config[w] EXCEPT !.zone = HandZone] \in Config
      BY ZonedSame DEF ConfigTyped
    <3>2. /\ Same([config[w] EXCEPT !.zone = HandZone], config[w])
          /\ [config[w] EXCEPT !.zone = HandZone].zone = HandZone
      BY <3>1, ZonedSame
    <3>3. config'[w] = [config[w] EXCEPT !.zone = HandZone] /\ \A x \in Workspaces \ {w} : config'[x] = config[x]
      BY <2>1 DEF ConfigTyped
    <3>4. config' \in [Workspaces -> Config]
      BY <2>1, <3>1 DEF ConfigTyped
    <3> QED BY <3>2, <3>3, <3>4 DEF Seen, Same
  <2>3. ConfigGoesOn
    BY <2>1, <2>2 DEF ConfigGoesOn, ConfigTyped, ApplyTyped, Seen
  <2>4. \A b \in Applies : EditingOf(b)'
    BY <2>1, <2>2, OtherEdits
  <2>5. Editing'
    BY <2>4 DEF Editing, EditingOf
  <2> QED BY <2>3, <2>5
<1> QED BY <1>3, <1>4, <1>5, <1>6, <1>7, <1>8, <1>9, <1>10, <1>11, <1>12, <1>13 DEF ConfigNext, ApplyStep

-----------------------------------------------------------------------------
(* The invariant in parts.                                                  *)

SagaTyped ==
    /\ store \in [Roles -> [Slots -> Values]]
    /\ journal = [op \in Ops |-> journal[op]]
    /\ \A op \in Ops : Exists(op) => IsRecord(journal[op])
    /\ pair \in Ops \cup {NoOp}
    /\ slot \in [Roles -> {NoMarker} \cup [op : Ops, schema : {1, 2}]]
    /\ temp \in BOOLEAN
    /\ act \in {Idle} \cup Starter \cup Repairer

\* The types of the configurations and of the operations make up TypeOK.
LEMMA TypeIs == TypeOK <=> ConfigTyped /\ SagaTyped
BY DEF TypeOK, ConfigTyped, SagaTyped, ApplyTyped, Holders, Places

\* And so after a step.
LEMMA TypeIsLater == TypeOK' <=> ConfigTyped' /\ SagaTyped'
BY DEF TypeOK, ConfigTyped, SagaTyped, ApplyTyped, Holders, Places

\* The worker: nobody, one that saves or forgets, or one that repairs.
LEMMA ActIs ==
  ASSUME SagaTyped
  PROVE  /\ act = Idle \/ act \in Starter \/ act \in Repairer
         /\ act = Idle <=> act.at = "idle"
         /\ act # Idle => act.op \in Ops /\ act.ws \in Workspaces /\ act.role \in Roles /\ act.locked \in BOOLEAN
         /\ act.at \in {"admitted", "reserve", "join", "create", "verify"} => act \in Starter
         /\ act.at \in {"recover", "maintain"} => act \in Repairer
<1>1. CASE act = Idle
  <2>1. act.at = "idle"
    BY <1>1 DEF Idle
  <2> QED BY <1>1, <2>1
<1>2. CASE act \in Starter
  <2>1. act.at \in {"admitted", "reserve", "join", "create", "step", "intended", "performed", "verify",
                    "continue", "release", "unreserve"}
    BY <1>2 DEF Starter
  <2>2. act # Idle
    BY <2>1 DEF Idle
  <2>3. act.op \in Ops /\ act.ws \in Workspaces /\ act.role \in Roles /\ act.locked \in BOOLEAN
    BY <1>2 DEF Starter
  <2> QED BY <1>2, <2>1, <2>2, <2>3
<1>3. CASE act \in Repairer
  <2>1. act.at \in {"recover", "maintain", "continue", "step", "intended", "performed", "release",
                    "unreserve"}
    BY <1>3 DEF Repairer
  <2>2. act # Idle
    BY <2>1 DEF Idle
  <2>3. act.op \in Ops /\ act.ws \in Workspaces /\ act.role \in Roles /\ act.locked \in BOOLEAN
    BY <1>3 DEF Repairer
  <2> QED BY <1>3, <2>1, <2>2, <2>3
<1> QED BY <1>1, <1>2, <1>3 DEF SagaTyped

\* An unfinished operation: its markers, and what the stores hold.
Marks(op) ==
    LET r == journal[op].role IN
    /\ slot[r].op = op
    /\ pair = op \/ (pair = NoOp /\ slot[r].schema = 1)
    /\ \A p \in Roles \ {r} : slot[p] = NoMarker
Apart(op) ==
    LET rec == journal[op] IN
    \A p \in Roles \ {rec.role} :
       /\ rec.was # Absent => rec.was # store[p].active
       /\ Begun(rec, "credential_promote") => rec.new # store[p].active
Selects(op) ==
    LET rec == journal[op] IN
    \A w \in Workspaces :
       (IF w = rec.ws THEN rec.orig ELSE config[w]).source[rec.role] = "managed" /\ rec.was = Absent
       => Forgotten(w, rec.role)

\* What is tracked of the unfinished operation, part by part.
LEMMA TrackedIs ==
  Tracked <=> \A op \in Ops : Unresolved(op) =>
                /\ Marks(op) /\ Slotted(journal[op]) /\ Configured(journal[op])
                /\ Apart(op) /\ Selects(op)
BY DEF Tracked, Marks, Apart, Selects

\* And so after a step.
LEMMA TrackedIsLater ==
  Tracked' <=> \A op \in Ops : Unresolved(op)' =>
                /\ Marks(op)' /\ Slotted(journal[op])' /\ Configured(journal[op])'
                /\ Apart(op)' /\ Selects(op)'
BY DEF Tracked, Marks, Apart, Selects

\* A record is neither none nor the record of an earlier time, and its phase tells whether it is finished.
LEMMA RecordIs ==
  ASSUME NEW rec, IsRecord(rec)
  PROVE  /\ rec # NoRecord /\ rec # Past
         /\ rec.phase \in Terminal <=> rec.phase = "complete"
<1>1. rec.phase \in {"prepare", "effect_intent", "committed", "repair_required", "complete"}
  BY DEF IsRecord
<1> QED BY <1>1 DEF NoRecord, Past, Terminal

\* The record of an operation that is there.
LEMMA RecordGood ==
  ASSUME SagaTyped, RecordsHold, NEW op \in Ops, Exists(op)
  PROVE  /\ Good(op, journal[op]) /\ IsRecord(journal[op])
         /\ journal[op].ws \in Workspaces /\ journal[op].role \in Roles
         /\ Unresolved(op) <=> journal[op].phase # "complete"
         /\ Resolved(op) <=> journal[op].phase = "complete"
<1>1. IsRecord(journal[op])
  BY DEF SagaTyped
<1>2. Good(op, journal[op])
  BY <1>1 DEF Good, RecordsHold
<1> QED BY <1>1, <1>2, RecordIs DEF Unresolved, Resolved, IsRecord

\* To differ in the zone only is an equivalence.
LEMMA SameIs ==
  /\ \A c : Same(c, c)
  /\ \A c, d, e : Same(c, d) /\ Same(d, e) => Same(c, e)
  /\ \A c, d : Same(c, d) => Same(d, c)
BY DEF Same

\* Without the lock of the configuration the worker does the first effect only.
LEMMA StageFirst ==
  ASSUME NEW op, NEW rec, Good(op, rec), rec.branch = "primary", rec.kind \in {"enrollment", "replacement"},
         ~Done(rec, "credential_stage")
  PROVE  ~AllDone(rec) /\ NextEffect(rec) = "credential_stage"
<1>1. Shaped(rec)
  BY Entries
<1>2. Effect(rec, "credential_stage")
  BY DEF Effect
<1>3. \A d : ~(Effect(rec, d) /\ Precedes(rec, d, "credential_stage"))
  BY DEF Effect, Precedes
<1> QED BY <1>1, <1>2, <1>3, IsNext

\* The worker without the configuration's lock is staging a secret.
LEMMA Unlocked ==
  ASSUME SagaTyped, RecordsHold, Working, act.at \in {"step", "intended", "performed"}, ~act.locked
  PROVE  /\ ~AllDone(R) /\ NextEffect(R) = "credential_stage" /\ StoreOf(NextEffect(R)) = "staged"
         /\ act \in Starter /\ act.value = R.new
<1>1. act.op \in Ops /\ Exists(act.op)
  BY ActIs DEF Working, Owning, Unresolved, Idle
<1>2. Good(act.op, R)
  BY <1>1, RecordGood DEF R
<1>3. /\ R.branch = "primary" /\ R.kind \in {"enrollment", "replacement"} /\ ~Done(R, "credential_stage")
      /\ act \in Starter /\ act.value = R.new
  BY DEF Working, Staging
<1> QED BY <1>2, <1>3, StageFirst, StoresAre

\* The reviewed changes and the edits by hand keep what the operations rely on.
LEMMA ConfigKeeps ==
  ASSUME IndInv, ConfigNext, UNCHANGED sagaVars
  PROVE  IndInv'
<1>1. ConfigTyped /\ SagaTyped
  BY TypeIs DEF IndInv
<1>2. ConfigGoesOn /\ Editing'
  BY <1>1, ConfigSteps DEF IndInv
<1>3. UNCHANGED <<store, journal, pair, slot, temp, act>>
  BY DEF sagaVars
<1>4. TypeOK'
  <2>1. SagaTyped'
    BY <1>1, <1>3 DEF SagaTyped, Exists
  <2> QED BY <1>2, <2>1, TypeIsLater DEF ConfigGoesOn
<1>5. \A w \in Workspaces : config'[w].source = config[w].source /\ config'[w].revision = config[w].revision
  BY <1>2 DEF ConfigGoesOn, Same
<1>6. RecordsHold'
  BY <1>3 DEF IndInv, RecordsHold, Exists
<1>7. RevisionsAreKnown'
  BY <1>3, <1>5 DEF IndInv, RevisionsAreKnown
<1>8. OneUnresolved'
  BY <1>3 DEF IndInv, OneUnresolved, Unresolved, Exists
<1>9. PurposesApart'
  BY <1>3 DEF IndInv, PurposesApart
<1>10. Tracked'
  <2>1. ASSUME NEW op \in Ops, Unresolved(op)'
        PROVE  /\ Marks(op)' /\ Slotted(journal[op])' /\ Configured(journal[op])'
               /\ Apart(op)' /\ Selects(op)'
    <3>1. Unresolved(op)
      BY <1>3, <2>1 DEF Unresolved, Exists
    <3>2. Marks(op) /\ Slotted(journal[op]) /\ Configured(journal[op]) /\ Apart(op) /\ Selects(op)
      BY <3>1, TrackedIs DEF IndInv
    <3>3. journal[op].ws \in Workspaces
      BY <1>1, <3>1, RecordGood DEF IndInv, Unresolved
    <3>4. Configured(journal[op])'
      BY <1>3, <1>5, <3>2, <3>3 DEF Configured, Same
    <3>5. Selects(op)'
      BY <1>3, <1>5, <3>2, <3>3 DEF Selects, Forgotten, Exists
    <3> QED BY <1>3, <3>2, <3>4, <3>5 DEF Marks, Slotted, Apart
  <2> QED BY <2>1, TrackedIsLater
<1>11. AtRest'
  BY <1>3, <1>5 DEF IndInv, AtRest, Forgotten, Unresolved, Exists
<1>12. Alone'
  BY <1>3 DEF IndInv, Alone, Unresolved, Resolved, Exists, R
<1>13. Starting'
  <2>1. act.at \in {"reserve", "join", "create"} => act.ws \in Workspaces
    BY <1>1, ActIs
  <2> QED BY <1>2, <1>3, <2>1, SameIs DEF IndInv, Starting, Reserved, KindOf, ConfigGoesOn
<1>14. Working'
  <2>1. act.at \in {"step", "intended", "performed", "verify", "continue"} => act.ws \in Workspaces
    BY <1>1, ActIs
  <2>2. Owning' /\ Staging' /\ Verifying' /\ Promoting' /\ Intending'
    BY <1>3 DEF IndInv, Working, Owning, Staging, Verifying, Promoting, Intending, Unresolved, Exists, R
  <2>3. Holding'
    BY <1>2, <1>3, <2>1 DEF IndInv, Working, Holding, ConfigGoesOn
  <2>4. Replacing'
    <3>1. SUFFICES ASSUME act.at = "intended", StoreOf(NextEffect(R)) = "config"
                   PROVE  config'[act.ws] = R.orig \/ config'[act.ws].zone = HandZone
      BY <1>3 DEF Replacing, R
    <3>2. act.locked
      BY <1>1, <3>1, Unlocked DEF IndInv
    <3>3. holder[act.ws] = Saga /\ (config[act.ws] = R.orig \/ config[act.ws].zone = HandZone)
      BY <3>1, <3>2 DEF IndInv, Working, Holding, Replacing
    <3> QED BY <1>2, <2>1, <3>1, <3>3 DEF ConfigGoesOn, Seen
  <2>5. Performing'
    <3>1. act.at = "performed" => Same(config'[act.ws], config[act.ws])
      BY <1>2, <2>1 DEF ConfigGoesOn
    <3> QED BY <1>3, <3>1, SameIs DEF IndInv, Working, Performing, R, Observe
  <2> QED BY <2>2, <2>3, <2>4, <2>5 DEF Working
<1>15. Repairing'
  <2>1. act.at = "maintain" => act.ws \in Workspaces
    BY <1>1, ActIs
  <2> QED BY <1>2, <1>3, <2>1 DEF IndInv, Repairing, ConfigGoesOn, Unresolved, Exists, R
<1> QED BY <1>2, <1>4, <1>6, <1>7, <1>8, <1>9, <1>10, <1>11, <1>12, <1>13, <1>14, <1>15 DEF IndInv

-----------------------------------------------------------------------------
(* What the stores hold while an operation is unfinished.                   *)

StagedFits(rec, v) ==
    /\ v \in {Absent, rec.new}
    /\ Done(rec, "credential_stage") /\ ~Begun(rec, "staging_cleanup") /\ ~Begun(rec, "staged_delete")
         => v = rec.new
    /\ ~Begun(rec, "credential_stage") \/ Done(rec, "staging_cleanup") \/ Done(rec, "staged_delete")
         => v = Absent
BackupFits(rec, v) ==
    /\ v \in {Absent, rec.was}
    /\ Done(rec, "credential_backup") /\ ~Begun(rec, "backup_delete") => v = rec.was
    /\ ~Begun(rec, "credential_backup") \/ Done(rec, "backup_delete") => v = Absent
ActiveFits(rec, v) ==
    /\ \/ v = rec.was
       \/ v = rec.new /\ Begun(rec, "credential_promote")
       \/ v = Absent /\ Begun(rec, "credential_delete")
    /\ Done(rec, "credential_promote") /\ ~Begun(rec, "credential_restore") => v = rec.new
    /\ Done(rec, "credential_restore") => v = rec.was
    /\ Done(rec, "credential_delete") => v = Absent
ConfigFits(rec, c) ==
    /\ \/ Same(c, rec.orig)
       \/ Same(c, rec.cand) /\ (Begun(rec, "config_commit") \/ Begun(rec, "config_detach"))
    /\ Done(rec, "config_commit") \/ Done(rec, "config_detach") => Same(c, rec.cand)
    /\ \A e \in DOMAIN rec.eff :
          /\ rec.eff[e].st = "mismatch" => Same(c, rec.cand)
          /\ rec.eff[e].st = "not_applied" => Same(c, rec.orig)

\* One effect passed through: its state decides.
LEMMA ThroughIs ==
  ASSUME NEW op, NEW rec, Good(op, rec), NEW e, NEW held
  PROVE  /\ ~Begun(rec, e) => Through(rec, e, held) = held
         /\ Intended(rec, e) => Through(rec, e, held) = {Found(rec, e), Left(rec, e)}
         /\ Done(rec, e) => Through(rec, e, held) = {Left(rec, e)}
         /\ Begun(rec, e) /\ rec.eff[e].st = "mismatch" => Through(rec, e, held) = {Left(rec, e)}
         /\ Begun(rec, e) /\ rec.eff[e].st = "not_applied" => Through(rec, e, held) = {Found(rec, e)}
BY DEF Through, Intended, Done

\* An effect on a slot is intended or done; on the configuration it may also have been
\* read back different, or dropped.
LEMMA StatesAre ==
  ASSUME NEW op, NEW rec, Good(op, rec), NEW e, Begun(rec, e)
  PROVE  /\ e \notin {"config_commit", "config_detach"} => Intended(rec, e) \/ Done(rec, e)
         /\ Intended(rec, e) => ~Done(rec, e)
         /\ Intended(rec, e) \/ Done(rec, e) \/ rec.eff[e].st = "mismatch" \/ rec.eff[e].st = "not_applied"
<1>1. Script(rec) /\ e \in DOMAIN rec.eff /\ e \in Effects /\ rec.eff[e].st \in {"intent", "verified", "mismatch", "not_applied"}
  BY Entries DEF Begun
<1>2. e \notin {"config_commit", "config_detach"} => StoreOf(e) # "config"
  BY <1>1, StoresAre DEF Effects
<1> QED BY <1>1, <1>2 DEF Script, Intended, Done, Begun

\* The order of the effects on one store.
LEMMA InTurn ==
  ASSUME NEW op, NEW rec, Good(op, rec)
  PROVE  /\ Begun(rec, "staging_cleanup") \/ Begun(rec, "staged_delete") => Done(rec, "credential_stage")
         /\ ~(Begun(rec, "staging_cleanup") /\ Begun(rec, "staged_delete"))
         /\ Begun(rec, "backup_delete") => Done(rec, "credential_backup")
         /\ Begun(rec, "credential_restore") => Done(rec, "credential_promote") /\ Done(rec, "credential_backup")
         /\ Begun(rec, "credential_delete") => ~Begun(rec, "credential_promote") /\ ~Begun(rec, "credential_restore")
         /\ Begun(rec, "credential_promote") /\ rec.kind = "replacement" => Done(rec, "credential_backup")
         /\ Begun(rec, "config_detach") => ~Begun(rec, "config_commit")
<1>1. Shaped(rec) /\ Script(rec)
  BY Entries
<1>2. \A e : Begun(rec, e) => Effect(rec, e) \/ e = "config_commit"
  BY Entries
<1>3. Begun(rec, "config_commit") => rec.kind \in {"enrollment", "replacement"}
  <2>1. SUFFICES ASSUME Begun(rec, "config_commit"), rec.kind \in {"forget", "detach"}
                 PROVE  FALSE
    BY <1>1 DEF Shaped
  <2>2. ~Effect(rec, "config_commit") /\ rec.branch = "primary"
    BY <1>1, <2>1 DEF Effect, Shaped
  <2> QED BY <1>1, <2>1, <2>2 DEF Script, Begun
<1>4. \A d, e : Effect(rec, d) /\ Effect(rec, e) /\ Precedes(rec, d, e) /\ Begun(rec, e) => Done(rec, d)
  BY <1>1 DEF Script
<1> QED BY <1>1, <1>2, <1>3, <1>4 DEF Effect, Precedes, Shaped

\* What the invariant says of the stores, in terms of what has begun and what is done.
LEMMA StagedIs ==
  ASSUME NEW op, NEW rec, Good(op, rec), NEW v
  PROVE  v \in Through(rec, "staged_delete", Through(rec, "staging_cleanup", Through(rec, "credential_stage", {Absent})))
         <=> StagedFits(rec, v)
<1> DEFINE first == Through(rec, "credential_stage", {Absent})
           second == Through(rec, "staging_cleanup", first)
           third == Through(rec, "staged_delete", second)
<1>0. \A e \in {"credential_stage", "staging_cleanup", "staged_delete"} : Begun(rec, e) =>
         (Intended(rec, e) /\ ~Done(rec, e)) \/ (Done(rec, e) /\ ~Intended(rec, e))
  BY StatesAre DEF Intended, Done
<1>1. /\ ~Begun(rec, "credential_stage") => first = {Absent}
      /\ Intended(rec, "credential_stage") => first = {Absent, rec.new}
      /\ Done(rec, "credential_stage") => first = {rec.new}
  BY ThroughIs, ScriptsAre
<1> HIDE DEF first
<1>2. /\ ~Begun(rec, "staging_cleanup") => second = first
      /\ Intended(rec, "staging_cleanup") => second = {rec.new, Absent}
      /\ Done(rec, "staging_cleanup") => second = {Absent}
  BY ThroughIs, ScriptsAre
<1> HIDE DEF second
<1>3. /\ ~Begun(rec, "staged_delete") => third = second
      /\ Intended(rec, "staged_delete") => third = {rec.new, Absent}
      /\ Done(rec, "staged_delete") => third = {Absent}
  BY ThroughIs, ScriptsAre
<1> HIDE DEF third
<1>4. v \in third <=> StagedFits(rec, v)
  BY <1>0, <1>1, <1>2, <1>3, InTurn DEF StagedFits, Done
<1> QED BY <1>4 DEF third, second, first

\* What the backup may hold, from the state of the effects on it.
LEMMA BackupIs ==
  ASSUME NEW op, NEW rec, Good(op, rec), NEW v
  PROVE  v \in Through(rec, "backup_delete", Through(rec, "credential_backup", {Absent}))
         <=> BackupFits(rec, v)
<1> DEFINE first == Through(rec, "credential_backup", {Absent})
           second == Through(rec, "backup_delete", first)
<1>0. \A e \in {"credential_backup", "backup_delete"} : Begun(rec, e) =>
         (Intended(rec, e) /\ ~Done(rec, e)) \/ (Done(rec, e) /\ ~Intended(rec, e))
  BY StatesAre DEF Intended, Done
<1>1. /\ ~Begun(rec, "credential_backup") => first = {Absent}
      /\ Intended(rec, "credential_backup") => first = {Absent, rec.was}
      /\ Done(rec, "credential_backup") => first = {rec.was}
  BY ThroughIs, ScriptsAre
<1> HIDE DEF first
<1>2. /\ ~Begun(rec, "backup_delete") => second = first
      /\ Intended(rec, "backup_delete") => second = {rec.was, Absent}
      /\ Done(rec, "backup_delete") => second = {Absent}
  BY ThroughIs, ScriptsAre
<1> HIDE DEF second
<1>4. v \in second <=> BackupFits(rec, v)
  BY <1>0, <1>1, <1>2, InTurn DEF BackupFits, Done
<1> QED BY <1>4 DEF second, first

\* What the active slot may hold.
LEMMA ActiveIs ==
  ASSUME NEW op, NEW rec, Good(op, rec), NEW v
  PROVE  v \in Through(rec, "credential_delete", Through(rec, "credential_restore", Through(rec, "credential_promote", {rec.was})))
         <=> ActiveFits(rec, v)
<1> DEFINE first == Through(rec, "credential_promote", {rec.was})
           second == Through(rec, "credential_restore", first)
           third == Through(rec, "credential_delete", second)
<1>0. \A e \in {"credential_promote", "credential_restore", "credential_delete"} : Begun(rec, e) =>
         (Intended(rec, e) /\ ~Done(rec, e)) \/ (Done(rec, e) /\ ~Intended(rec, e))
  BY StatesAre DEF Intended, Done
<1>1. /\ ~Begun(rec, "credential_promote") => first = {rec.was}
      /\ Intended(rec, "credential_promote") => first = {rec.was, rec.new}
      /\ Done(rec, "credential_promote") => first = {rec.new}
  BY ThroughIs, ScriptsAre
<1> HIDE DEF first
<1>2. /\ ~Begun(rec, "credential_restore") => second = first
      /\ Intended(rec, "credential_restore") => second = {rec.new, rec.was}
      /\ Done(rec, "credential_restore") => second = {rec.was}
  BY ThroughIs, ScriptsAre
<1> HIDE DEF second
<1>3. /\ ~Begun(rec, "credential_delete") => third = second
      /\ Intended(rec, "credential_delete") => third = {rec.was, Absent}
      /\ Done(rec, "credential_delete") => third = {Absent}
  BY ThroughIs, ScriptsAre
<1> HIDE DEF third
<1>4. v \in third <=> ActiveFits(rec, v)
  BY <1>0, <1>1, <1>2, <1>3, InTurn DEF ActiveFits, Done, Intended
<1> QED BY <1>4 DEF third, second, first

\* What the configuration may be, but for its zone.
LEMMA ConfigIs ==
  ASSUME NEW op, NEW rec, Good(op, rec), NEW c
  PROVE  (\E d \in Through(rec, "config_detach", Through(rec, "config_commit", {rec.orig})) : Same(c, d))
         <=> ConfigFits(rec, c)
<1> DEFINE first == Through(rec, "config_commit", {rec.orig})
           second == Through(rec, "config_detach", first)
<1>1. /\ ~Begun(rec, "config_commit") => first = {rec.orig}
      /\ Intended(rec, "config_commit") => first = {rec.orig, rec.cand}
      /\ Done(rec, "config_commit") => first = {rec.cand}
      /\ Begun(rec, "config_commit") /\ rec.eff["config_commit"].st = "mismatch" => first = {rec.cand}
      /\ Begun(rec, "config_commit") /\ rec.eff["config_commit"].st = "not_applied" => first = {rec.orig}
  BY ThroughIs, ScriptsAre
<1> HIDE DEF first
<1>2. /\ ~Begun(rec, "config_detach") => second = first
      /\ Intended(rec, "config_detach") => second = {rec.orig, rec.cand}
      /\ Done(rec, "config_detach") => second = {rec.cand}
      /\ Begun(rec, "config_detach") /\ rec.eff["config_detach"].st = "mismatch" => second = {rec.cand}
  BY ThroughIs, ScriptsAre
<1> HIDE DEF second
<1>3. \A e \in DOMAIN rec.eff :
         /\ rec.eff[e].st = "mismatch" => e \in {"config_commit", "config_detach"}
         /\ rec.eff[e].st = "not_applied" => e = "config_commit"
  <2>1. Script(rec) /\ DOMAIN rec.eff \subseteq Effects
    BY Entries
  <2> QED BY <2>1, StoresAre DEF Script, Effects
<1>4. \A e \in {"config_commit", "config_detach"} : Begun(rec, e) =>
         \/ Intended(rec, e) \/ Done(rec, e)
         \/ rec.eff[e].st = "mismatch" \/ rec.eff[e].st = "not_applied"
  BY StatesAre
<1>5. ~(Begun(rec, "config_detach") /\ Begun(rec, "config_commit"))
  BY InTurn
<1> DEFINE was(x) == Same(c, x)
           some == \E d \in second : was(d)
<1>6. /\ second = {rec.orig} => (some <=> was(rec.orig))
      /\ second = {rec.cand} => (some <=> was(rec.cand))
      /\ second = {rec.orig, rec.cand} => (some <=> was(rec.orig) \/ was(rec.cand))
  OBVIOUS
<1> DEFINE o == was(rec.orig)
           n == was(rec.cand)
<1>7. ConfigFits(rec, c) <=>
        /\ o \/ (n /\ (Begun(rec, "config_commit") \/ Begun(rec, "config_detach")))
        /\ Done(rec, "config_commit") \/ Done(rec, "config_detach") => n
        /\ \A e \in DOMAIN rec.eff : (rec.eff[e].st = "mismatch" => n) /\ (rec.eff[e].st = "not_applied" => o)
  BY DEF ConfigFits
<1> HIDE DEF was, some, o, n
<1>8. (\A e \in DOMAIN rec.eff : (rec.eff[e].st = "mismatch" => n) /\ (rec.eff[e].st = "not_applied" => o)) <=>
        /\ Begun(rec, "config_commit") /\ rec.eff["config_commit"].st = "mismatch" => n
        /\ Begun(rec, "config_detach") /\ rec.eff["config_detach"].st = "mismatch" => n
        /\ Begun(rec, "config_commit") /\ rec.eff["config_commit"].st = "not_applied" => o
  BY <1>3 DEF Begun
<1>9. \A e \in {"config_commit", "config_detach"} :
        /\ Intended(rec, e) => ~Done(rec, e) /\ rec.eff[e].st \notin {"mismatch", "not_applied"}
        /\ Done(rec, e) => Begun(rec, e) /\ rec.eff[e].st \notin {"mismatch", "not_applied"}
        /\ Begun(rec, e) /\ rec.eff[e].st = "mismatch" => ~Done(rec, e)
        /\ Begun(rec, e) /\ rec.eff[e].st = "not_applied" => ~Done(rec, e)
  BY DEF Intended, Done
<1>10. ~(Begun(rec, "config_detach") /\ rec.eff["config_detach"].st = "not_applied")
  BY <1>3 DEF Begun
<1>11. some <=> ConfigFits(rec, c)
  <2>1. CASE Begun(rec, "config_detach")
    BY <1>2, <1>4, <1>5, <1>6, <1>7, <1>8, <1>9, <1>10, <2>1 DEF o, n
  <2>2. CASE ~Begun(rec, "config_detach")
    BY <1>1, <1>2, <1>4, <1>6, <1>7, <1>8, <1>9, <2>2 DEF o, n
  <2> QED BY <2>1, <2>2
<1> QED BY <1>11 DEF some, was, second, first

\* The slots and the configuration fit the record.
Fits(rec) ==
    /\ StagedFits(rec, store[rec.role].staged)
    /\ BackupFits(rec, store[rec.role].backup)
    /\ ActiveFits(rec, store[rec.role].active)
    /\ ConfigFits(rec, config[rec.ws])

\* Slots and configuration fit the record just when they hold what its effects may have left.
LEMMA FitsIs ==
  ASSUME NEW op, NEW rec, Good(op, rec)
  PROVE  Slotted(rec) /\ Configured(rec) <=> Fits(rec)
BY StagedIs, BackupIs, ActiveIs, ConfigIs DEF Slotted, Configured, Fits

\* And so after a step.
LEMMA FitsIsLater ==
  ASSUME NEW op, NEW rec, Good(op, rec)
  PROVE  Slotted(rec)' /\ Configured(rec)' <=> Fits(rec)'
BY StagedIs, BackupIs, ActiveIs, ConfigIs DEF Slotted, Configured, Fits

\* What the next effect finds, and what it is to leave, as the worker reads it from the
\* stores, is what the script says.
LEMMA FoundIs ==
  ASSUME NEW op, NEW rec, Good(op, rec), Fits(rec), ~AllDone(rec), NEW e, e = NextEffect(rec), ~Begun(rec, e),
         e = "credential_stage" => act.value = rec.new
  PROVE  Pre(rec, e) = Found(rec, e) /\ Post(rec, e) = Left(rec, e)
<1>1. Shaped(rec) /\ Script(rec) /\ IsRecord(rec)
  BY Entries DEF Good
<1>2. /\ Effect(rec, e) /\ e \in Effects
      /\ \A d : Effect(rec, d) /\ Precedes(rec, d, e) => Done(rec, d)
  BY <1>1, NextIs
<1>3. \A d : Effect(rec, d) /\ Precedes(rec, e, d) => ~Begun(rec, d)
  BY <1>1, <1>2 DEF Script, Done
<1>4. \A d : Begun(rec, d) => Effect(rec, d) \/ d = "config_commit"
  BY Entries
<1>5. CASE e \in {"config_commit", "config_detach"}
  BY <1>5, StoresAre, ScriptsAre DEF Pre, Post
<1>6. CASE e = "credential_stage"
  BY <1>6, StoresAre, ScriptsAre DEF Pre, Post
<1>7. CASE e = "credential_backup"
  <2>1. ~Begun(rec, "credential_promote") /\ ~Begun(rec, "credential_delete")
    BY <1>1, <1>2, <1>3, <1>4, <1>7 DEF Effect, Precedes
  <2>2. store[rec.role].active = rec.was
    BY <2>1 DEF Fits, ActiveFits
  <2> QED BY <1>7, <2>2, StoresAre, ScriptsAre DEF Pre, Post, Observe
<1>8. CASE e = "credential_promote"
  <2>1. ~Begun(rec, "credential_delete") /\ ~Begun(rec, "staging_cleanup") /\ ~Begun(rec, "staged_delete")
        /\ Done(rec, "credential_stage")
    BY <1>1, <1>2, <1>3, <1>4, <1>8 DEF Effect, Precedes, Shaped
  <2>2. store[rec.role].active = rec.was /\ store[rec.role].staged = rec.new
    BY <1>8, <2>1 DEF Fits, ActiveFits, StagedFits
  <2> QED BY <1>8, <2>2, StoresAre, ScriptsAre DEF Pre, Post, Observe
<1>9. CASE e = "credential_restore"
  <2>1. ~Begun(rec, "backup_delete") /\ Done(rec, "credential_backup") /\ Done(rec, "credential_promote")
    BY <1>1, <1>2, <1>3, <1>4, <1>9 DEF Effect, Precedes, Shaped
  <2>2. store[rec.role].active = rec.new /\ store[rec.role].backup = rec.was
    BY <1>9, <2>1 DEF Fits, ActiveFits, BackupFits
  <2> QED BY <1>9, <2>2, StoresAre, ScriptsAre DEF Pre, Post, Observe
<1>10. CASE e = "credential_delete"
  <2>1. ~Begun(rec, "credential_promote")
    BY <1>1, <1>2, <1>4, <1>10 DEF Effect
  <2>2. store[rec.role].active = rec.was
    BY <1>10, <2>1 DEF Fits, ActiveFits
  <2> QED BY <1>10, <2>2, StoresAre, ScriptsAre DEF Pre, Post, Observe
<1>11. CASE e = "backup_delete"
  <2>1. Done(rec, "credential_backup")
    BY <1>1, <1>2, <1>11 DEF Effect, Precedes
  <2>2. store[rec.role].backup = rec.was
    BY <1>11, <2>1 DEF Fits, BackupFits
  <2> QED BY <1>11, <2>2, StoresAre, ScriptsAre DEF Pre, Post, Observe
<1>12. CASE e \in {"staging_cleanup", "staged_delete"}
  <2>1. Done(rec, "credential_stage") /\ ~Begun(rec, "staging_cleanup") /\ ~Begun(rec, "staged_delete")
    BY <1>1, <1>2, <1>4, <1>12 DEF Effect, Precedes, Shaped
  <2>2. store[rec.role].staged = rec.new
    BY <2>1 DEF Fits, StagedFits
  <2> QED BY <1>12, <2>2, StoresAre, ScriptsAre DEF Pre, Post, Observe
<1> QED BY <1>2, <1>5, <1>6, <1>7, <1>8, <1>9, <1>10, <1>11, <1>12 DEF Effects

\* An intent changes nothing, and neither does the end.
LEMMA FitsCarried ==
  ASSUME NEW rec, NEW new, Keeps(rec, new), Fits(rec),
         \A d : Begun(rec, d) => Begun(new, d) /\ new.eff[d] = rec.eff[d],
         \A d : Begun(new, d) => Begun(rec, d) \/ Intended(new, d)
  PROVE  Fits(new)
<1>1. \A d : Done(new, d) <=> Done(rec, d)
  BY DEF Done, Intended
<1>2. \A d \in DOMAIN new.eff : new.eff[d].st \in {"mismatch", "not_applied"} =>
         d \in DOMAIN rec.eff /\ rec.eff[d].st = new.eff[d].st
  BY DEF Begun, Intended
<1>3. new.ws = rec.ws /\ new.role = rec.role /\ new.orig = rec.orig /\ new.cand = rec.cand
      /\ new.was = rec.was /\ new.new = rec.new
  BY DEF Keeps
<1>4. StagedFits(new, store[new.role].staged)
  BY <1>1, <1>3 DEF Fits, StagedFits
<1>5. BackupFits(new, store[new.role].backup)
  BY <1>1, <1>3 DEF Fits, BackupFits
<1>6. ActiveFits(new, store[new.role].active)
  BY <1>1, <1>3 DEF Fits, ActiveFits
<1>7. ConfigFits(new, config[new.ws])
  BY <1>1, <1>2, <1>3 DEF Fits, ConfigFits
<1> QED BY <1>4, <1>5, <1>6, <1>7 DEF Fits

\* What is read back is noted.
HoldsLeft(rec, e) ==
    IF StoreOf(e) = "config" THEN Same(config[rec.ws], rec.cand)
    ELSE store[rec.role][StoreOf(e)] = Left(rec, e)

\* An effect that was read back: what it left is what fits the record from now on.
LEMMA FitsMarked ==
  ASSUME NEW op, NEW rec, Good(op, rec), NEW e, Intended(rec, e), NEW new, Keeps(rec, new), Fits(rec),
         DOMAIN new.eff = DOMAIN rec.eff, \A d \in DOMAIN rec.eff : d # e => new.eff[d] = rec.eff[d],
         \/ new.eff[e].st = "verified"
         \/ new.eff[e].st = "mismatch" /\ StoreOf(e) = "config",
         HoldsLeft(rec, e)
  PROVE  Fits(new)
<1>1. /\ \A d : Begun(new, d) <=> Begun(rec, d)
      /\ \A d : Done(rec, d) => Done(new, d)
      /\ \A d : Done(new, d) => Done(rec, d) \/ d = e
  BY DEF Begun, Done, Intended
<1>2. \A d \in DOMAIN new.eff : /\ new.eff[d].st = "not_applied" => rec.eff[d].st = "not_applied"
                                /\ new.eff[d].st = "mismatch" => rec.eff[d].st = "mismatch" \/ (d = e /\ StoreOf(e) = "config")
  OBVIOUS
<1>3. new.ws = rec.ws /\ new.role = rec.role /\ new.orig = rec.orig /\ new.cand = rec.cand
      /\ new.was = rec.was /\ new.new = rec.new
  BY DEF Keeps
<1>4. e \in Effects /\ Begun(rec, e) /\ ~Done(rec, e)
  BY Entries DEF Intended, Done, Begun
<1>5. StagedFits(new, store[new.role].staged)
  <2>1. e = "credential_stage" => store[rec.role].staged = rec.new
    BY StoresAre, ScriptsAre DEF HoldsLeft
  <2>2. e \in {"staging_cleanup", "staged_delete"} => store[rec.role].staged = Absent
    BY StoresAre, ScriptsAre DEF HoldsLeft
  <2> QED BY <1>1, <1>3, <1>4, <2>1, <2>2, InTurn DEF Fits, StagedFits
<1>6. BackupFits(new, store[new.role].backup)
  <2>1. e = "credential_backup" => store[rec.role].backup = rec.was
    BY StoresAre, ScriptsAre DEF HoldsLeft
  <2>2. e = "backup_delete" => store[rec.role].backup = Absent
    BY StoresAre, ScriptsAre DEF HoldsLeft
  <2> QED BY <1>1, <1>3, <1>4, <2>1, <2>2, InTurn DEF Fits, BackupFits
<1>7. ActiveFits(new, store[new.role].active)
  <2>1. e = "credential_promote" => store[rec.role].active = rec.new
    BY StoresAre, ScriptsAre DEF HoldsLeft
  <2>2. e = "credential_restore" => store[rec.role].active = rec.was
    BY StoresAre, ScriptsAre DEF HoldsLeft
  <2>3. e = "credential_delete" => store[rec.role].active = Absent
    BY StoresAre, ScriptsAre DEF HoldsLeft
  <2> QED BY <1>1, <1>3, <1>4, <2>1, <2>2, <2>3, InTurn DEF Fits, ActiveFits
<1>8. ConfigFits(new, config[new.ws])
  <2>1. StoreOf(e) = "config" => Same(config[rec.ws], rec.cand) /\ e \in {"config_commit", "config_detach"}
    BY <1>4, StoresAre DEF HoldsLeft, Effects
  <2>2. e \in {"config_commit", "config_detach"} => StoreOf(e) = "config"
    BY StoresAre
  <2>3. \A d \in DOMAIN rec.eff : rec.eff[d].st = "not_applied" => ~(StoreOf(e) = "config")
    <3>1. ASSUME NEW d \in DOMAIN rec.eff, rec.eff[d].st = "not_applied", StoreOf(e) = "config"
          PROVE  FALSE
      <4>1. d = "config_commit" /\ Begun(rec, d)
        BY <3>1, Entries DEF Script, Begun
      <4>2. e = "config_detach"
        BY <2>1, <3>1, <4>1 DEF Intended
      <4> QED BY <1>4, <4>1, <4>2, InTurn
    <3> QED BY <3>1
  <2> QED BY <1>1, <1>2, <1>3, <2>1, <2>2, <2>3 DEF Fits, ConfigFits
<1> QED BY <1>5, <1>6, <1>7, <1>8 DEF Fits

\* The commit that was not performed is dropped.
LEMMA FitsSwitched ==
  ASSUME NEW rec, NEW new, Keeps(rec, new), Fits(rec), Same(config[rec.ws], rec.orig),
         DOMAIN new.eff = DOMAIN rec.eff,
         \A d \in DOMAIN rec.eff : d # "config_commit" => new.eff[d] = rec.eff[d],
         Begun(rec, "config_commit") => Intended(rec, "config_commit") /\ new.eff["config_commit"].st = "not_applied"
  PROVE  Fits(new)
<1>1. /\ \A d : Begun(new, d) <=> Begun(rec, d)
      /\ \A d : Done(rec, d) <=> Done(new, d)
  BY DEF Begun, Done, Intended
<1>2. \A d \in DOMAIN new.eff : new.eff[d].st = "mismatch" => rec.eff[d].st = "mismatch"
  BY DEF Begun
<1>3. new.ws = rec.ws /\ new.role = rec.role /\ new.orig = rec.orig /\ new.cand = rec.cand
      /\ new.was = rec.was /\ new.new = rec.new
  BY DEF Keeps
<1>4. ConfigFits(new, config[new.ws])
  BY <1>1, <1>2, <1>3 DEF Fits, ConfigFits
<1> QED BY <1>1, <1>3, <1>4 DEF Fits, StagedFits, BackupFits, ActiveFits

-----------------------------------------------------------------------------
(* The steps of the worker that change no slot, configuration or record.    *)

\* A reviewed change does not see what the worker does with a lock of its own.
LEMMA EditsStay ==
  ASSUME ConfigTyped, Editing, UNCHANGED <<config, applies, editor>>,
         holder' \in [Workspaces -> Holders],
         \A w \in Workspaces : holder[w] \in Applies => holder'[w] = holder[w]
  PROVE  ConfigTyped' /\ Editing'
<1>1. ConfigTyped'
  BY DEF ConfigTyped, ApplyTyped
<1>2. Editing'
  BY DEF Editing, ConfigTyped, ApplyType
<1> QED BY <1>1, <1>2

\* The worker takes a lock that is free.
LEMMA LockIs ==
  ASSUME ConfigTyped, NEW w \in Workspaces, Lock(w)
  PROVE  /\ holder' \in [Workspaces -> Holders] /\ holder'[w] = Saga
         /\ \A x \in Workspaces : holder[x] \in Applies => holder'[x] = holder[x]
BY SagaIs DEF Lock, ConfigTyped

\* The worker gives back a lock that it holds.
LEMMA UnlockIs ==
  ASSUME ConfigTyped, NEW w \in Workspaces, holder[w] = Saga, Unlock(w)
  PROVE  /\ holder' \in [Workspaces -> Holders]
         /\ \A x \in Workspaces : holder[x] \in Applies => holder'[x] = holder[x]
BY SagaIs DEF Unlock, ConfigTyped

MarkersTyped ==
    /\ pair \in Ops \cup {NoOp}
    /\ slot \in [Roles -> {NoMarker} \cup [op : Ops, schema : {1, 2}]]
    /\ temp \in BOOLEAN

\* A step that writes neither slot nor configuration nor record keeps what is said of them.
LEMMA Steady ==
  ASSUME IndInv, UNCHANGED <<config, store, journal, applies, editor>>,
         holder' \in [Workspaces -> Holders],
         \A w \in Workspaces : holder[w] \in Applies => holder'[w] = holder[w],
         MarkersTyped', act' \in {Idle} \cup Starter \cup Repairer,
         \A op \in Ops : Unresolved(op) => Marks(op)',
         Alone', Starting', Working', Repairing'
  PROVE  IndInv'
<1>1. ConfigTyped /\ SagaTyped
  BY TypeIs DEF IndInv
<1>2. ConfigTyped' /\ Editing'
  BY <1>1, EditsStay DEF IndInv
<1>3. TypeOK'
  <2>1. SagaTyped'
    BY <1>1 DEF SagaTyped, Exists, MarkersTyped
  <2> QED BY <1>2, <2>1, TypeIsLater
<1>4. RecordsHold' /\ RevisionsAreKnown' /\ OneUnresolved' /\ PurposesApart'
  BY DEF IndInv, RecordsHold, RevisionsAreKnown, OneUnresolved, PurposesApart, Exists, Unresolved
<1>5. Tracked'
  <2>1. ASSUME NEW op \in Ops, Unresolved(op)'
        PROVE  /\ Marks(op)' /\ Slotted(journal[op])' /\ Configured(journal[op])'
               /\ Apart(op)' /\ Selects(op)'
    <3>1. Unresolved(op)
      BY <2>1 DEF Unresolved, Exists
    <3>2. Slotted(journal[op]) /\ Configured(journal[op]) /\ Apart(op) /\ Selects(op)
      BY <3>1, TrackedIs DEF IndInv
    <3> QED BY <3>1, <3>2 DEF Slotted, Configured, Apart, Selects, Forgotten, Exists
  <2> QED BY <2>1, TrackedIsLater
<1>6. AtRest'
  BY DEF IndInv, AtRest, Forgotten, Unresolved, Exists
<1> QED BY <1>2, <1>3, <1>4, <1>5, <1>6 DEF IndInv

\* Nobody at work.
LEMMA IdleHolds ==
  ASSUME act' = Idle
  PROVE  act' \in {Idle} \cup Starter \cup Repairer /\ Alone' /\ Starting' /\ Working' /\ Repairing'
<1>1. act'.at = "idle"
  BY DEF Idle
<1>2. Alone' /\ Starting' /\ Repairing'
  BY <1>1 DEF Alone, Starting, Repairing
<1>3. Working'
  BY <1>1 DEF Working, Owning, Holding, Staging, Verifying, Promoting, Intending, Replacing, Performing
<1> QED BY <1>2, <1>3

\* The worker goes on to another place.
At(a, where) == [a EXCEPT !.at = where]
StarterPlaces  == {"admitted", "reserve", "join", "create", "step", "intended", "performed", "verify",
                   "continue", "release", "unreserve"}
RepairerPlaces == {"recover", "maintain", "continue", "step", "intended", "performed", "release",
                   "unreserve"}

\* A worker that saves or forgets goes on.
LEMMA StarterGoes ==
  ASSUME NEW a \in Starter, NEW where \in StarterPlaces
  PROVE  /\ At(a, where) \in Starter /\ At(a, where).at = where
         /\ At(a, where).op = a.op /\ At(a, where).ws = a.ws /\ At(a, where).role = a.role
         /\ At(a, where).want = a.want /\ At(a, where).value = a.value /\ At(a, where).gen = a.gen
         /\ At(a, where).proved = a.proved /\ At(a, where).kind = a.kind /\ At(a, where).locked = a.locked
BY DEF Starter, StarterPlaces, At

\* A worker that repairs goes on.
LEMMA RepairerGoes ==
  ASSUME NEW a \in Repairer, NEW where \in RepairerPlaces
  PROVE  /\ At(a, where) \in Repairer /\ At(a, where).at = where
         /\ At(a, where).op = a.op /\ At(a, where).ws = a.ws /\ At(a, where).role = a.role
         /\ At(a, where).action = a.action /\ At(a, where).locked = a.locked
BY DEF Repairer, RepairerPlaces, At

\* Either goes on.
LEMMA WorkerGoes ==
  ASSUME SagaTyped, act # Idle, NEW where \in StarterPlaces \cap RepairerPlaces
  PROVE  /\ At(act, where) \in Starter \cup Repairer /\ At(act, where).at = where
         /\ At(act, where).op = act.op /\ At(act, where).ws = act.ws /\ At(act, where).role = act.role
         /\ At(act, where).locked = act.locked
         /\ act \in Starter => At(act, where) \in Starter /\ At(act, where).value = act.value
BY StarterGoes, RepairerGoes, ActIs

\* There are two roles.
LEMMA PeerIs ==
  ASSUME NEW r \in Roles
  PROVE  Peer(r) \in Roles /\ Peer(r) # r /\ \A p \in Roles : p # r => p = Peer(r)
BY SagaAssumption DEF Peer

\* The parts of the invariant that most steps use.
LEMMA Parts ==
  ASSUME IndInv
  PROVE  /\ ConfigTyped /\ SagaTyped /\ MarkersTyped
         /\ \A op \in Ops : Unresolved(op) =>
               /\ Marks(op) /\ Slotted(journal[op]) /\ Configured(journal[op])
               /\ Apart(op) /\ Selects(op)
BY TypeIs, TrackedIs DEF IndInv, SagaTyped, MarkersTyped

\* A slot that no operation names has no marker.
LEMMA MarkerIs ==
  ASSUME MarkersTyped, NEW r \in Roles
  PROVE  /\ slot[r].op = NoOp <=> slot[r] = NoMarker
         /\ slot[r] # NoMarker => slot[r].op \in Ops
<1>1. NoMarker.op = NoOp
  BY DEF NoMarker
<1>2. slot[r] = NoMarker \/ slot[r].op \in Ops
  BY DEF MarkersTyped
<1> QED BY <1>1, <1>2, SagaAssumption

\* Who is admitted finds nothing else unfinished.
LEMMA NewIsAlone ==
  ASSUME IndInv, NEW w \in Workspaces, AdmitsNew(w)
  PROVE  \A op \in Ops : ~Unresolved(op)
<1>1. SUFFICES ASSUME NEW op \in Ops, Unresolved(op)
               PROVE  FALSE
  OBVIOUS
<1>2. Marks(op) /\ MarkersTyped /\ journal[op].role \in Roles
  BY <1>1, Parts, RecordGood DEF IndInv, Unresolved
<1>3. slot[journal[op].role].op = op
  BY <1>2 DEF Marks
<1>4. slot[journal[op].role] # NoMarker
  BY <1>2, <1>3, SagaAssumption DEF NoMarker
<1> QED BY <1>1, <1>2, <1>3, <1>4 DEF AdmitsNew, Resolved, Unresolved

\* Who may repair finds nothing else unfinished.
LEMMA RecoveryIsAlone ==
  ASSUME IndInv, NEW op \in Ops, Exists(op), AdmitsRecovery(op)
  PROVE  \A other \in Ops \ {op} : ~Unresolved(other)
<1>1. SUFFICES ASSUME NEW other \in Ops \ {op}, Unresolved(other)
               PROVE  FALSE
  OBVIOUS
<1> DEFINE r == journal[op].role
           q == journal[other].role
<1>2. Marks(other) /\ MarkersTyped /\ q \in Roles /\ r \in Roles
  BY <1>1, Parts, RecordGood DEF IndInv, Unresolved
<1>3. slot[q].op = other /\ slot[q] # NoMarker /\ pair # op
  BY <1>1, <1>2, SagaAssumption DEF Marks, NoMarker
<1>4. ~Resolved(other)
  BY <1>1 DEF Resolved, Unresolved
<1>5. CASE q = r
  <2>1. slot[r].op # op
    BY <1>1, <1>3, <1>5
  <2>2. slot[r] = NoMarker
    BY <1>2, <1>3, <2>1 DEF AdmitsRecovery
  <2> QED BY <1>3, <1>5, <2>2
<1>6. CASE q # r
  <2>1. q = Peer(r)
    BY <1>2, <1>6, PeerIs
  <2> QED BY <1>3, <1>4, <2>1 DEF AdmitsRecovery
<1> QED BY <1>5, <1>6

\* Before its record the worker's operation is no operation yet.
LEMMA BeforeRecord ==
  ASSUME Alone, act.at \in {"admitted", "reserve", "join", "create"}
  PROVE  \A op \in Ops : ~Unresolved(op)
<1>1. act # Idle
  BY DEF Idle
<1> QED BY <1>1 DEF Alone, Unresolved, Exists

\* A worker is admitted.
LEMMA StartKeeps ==
  ASSUME IndInv, NEW op \in Ops, NEW w \in Workspaces, NEW r \in Roles, NEW want \in Wants, NEW v \in Secrets,
         Start(op, w, r, want, v), UNCHANGED <<config, applies, editor>>
  PROVE  IndInv'
<1>1. /\ journal[op] = NoRecord /\ op \notin Reserved /\ AdmitsNew(w)
      /\ act' = [at |-> "admitted", op |-> op, ws |-> w, role |-> r, want |-> want, value |-> v,
                 gen |-> config[w], proved |-> FALSE, kind |-> "none", locked |-> FALSE]
      /\ UNCHANGED <<store, journal, pair, slot, temp, holder>>
  BY DEF Start
<1>2. ConfigTyped /\ SagaTyped /\ MarkersTyped
  BY Parts
<1>3. \A o \in Ops : ~Unresolved(o)
  BY <1>1, NewIsAlone
<1>4. act' \in Starter /\ act'.at = "admitted" /\ act'.op = op
  BY <1>1, <1>2 DEF Starter, ConfigTyped
<1>5. Alone'
  BY <1>1, <1>3, <1>4 DEF Alone, Unresolved, Exists
<1>6. Starting'
  BY <1>1, <1>4 DEF Starting, Reserved
<1>7. Working' /\ Repairing'
  BY <1>4 DEF Repairing, Working, Owning, Holding, Staging, Verifying, Promoting, Intending, Replacing, Performing
<1> QED BY <1>1, <1>2, <1>3, <1>4, <1>5, <1>6, <1>7, Steady DEF ConfigTyped, MarkersTyped

\* Retiring a marker: it is none of an unfinished operation.
LEMMA RetireKeeps ==
  ASSUME IndInv, RetirePair \/ \E r \in Roles : RetireSlot(r), UNCHANGED <<config, applies, editor>>
  PROVE  IndInv'
<1>1. ConfigTyped /\ SagaTyped /\ MarkersTyped
  BY Parts
<1>2. /\ act.at \in {"admitted", "maintain"} /\ UNCHANGED <<store, journal, temp, act, holder>>
      /\ \/ pair \notin {NoOp, act.op} /\ pair' = NoOp /\ UNCHANGED slot
         \/ \E r \in Roles : slot[r].op \notin {NoOp, act.op} /\ slot' = [slot EXCEPT ![r] = NoMarker] /\ UNCHANGED pair
  BY DEF RetirePair, RetireSlot
<1>3. act # Idle /\ act.op \in Ops
  BY <1>1, <1>2, ActIs DEF Idle
<1>4. ASSUME NEW op \in Ops, Unresolved(op)
      PROVE  FALSE
  <2>1. op = act.op
    BY <1>3, <1>4 DEF IndInv, Alone
  <2>2. Marks(op) /\ journal[op].role \in Roles
    BY <1>1, <1>4, Parts, RecordGood DEF IndInv, Unresolved
  <2>3. \A r \in Roles : slot[r].op \in {NoOp, act.op}
    BY <2>1, <2>2 DEF Marks, NoMarker
  <2> QED BY <1>2, <2>1, <2>2, <2>3 DEF Marks
<1>5. MarkersTyped'
  BY <1>1, <1>2 DEF MarkersTyped
<1>6. Alone' /\ Working' /\ Repairing'
  BY <1>2 DEF IndInv, Alone, Repairing, Working, Owning, Holding, Staging, Verifying, Promoting, Intending,
              Replacing, Performing, Unresolved, Resolved, Exists, R
<1>7. Starting'
  <2>1. Reserved' \subseteq Reserved \/ act.at # "admitted"
    BY <1>1, <1>2, <1>3, SagaAssumption DEF Reserved, NoMarker, MarkersTyped
  <2> QED BY <1>2, <2>1 DEF IndInv, Starting
<1> QED BY <1>1, <1>2, <1>4, <1>5, <1>6, <1>7, Steady DEF ConfigTyped, SagaTyped

\* The grant is proved at the provider.
LEMMA ProveKeeps ==
  ASSUME IndInv, Prove, UNCHANGED <<config, applies, editor>>
  PROVE  IndInv'
<1>1. ConfigTyped /\ SagaTyped /\ MarkersTyped
  BY Parts
<1>2. /\ act.at = "admitted" /\ act' = [act EXCEPT !.proved = TRUE]
      /\ UNCHANGED <<store, journal, pair, slot, temp, holder>>
  BY DEF Prove
<1>3. act \in Starter /\ \A o \in Ops : ~Unresolved(o)
  BY <1>1, <1>2, ActIs, BeforeRecord DEF IndInv
<1>4. act' \in Starter /\ act'.at = "admitted" /\ act'.op = act.op /\ act.op \in Ops
  BY <1>2, <1>3 DEF Starter
<1>5. act # Idle
  BY <1>2 DEF Idle
<1>6. Alone'
  BY <1>2, <1>3, <1>4, <1>5 DEF IndInv, Alone, Unresolved, Exists
<1>7. Starting'
  BY <1>2, <1>4 DEF IndInv, Starting, Reserved
<1>8. Working' /\ Repairing'
  BY <1>4 DEF Repairing, Working, Owning, Holding, Staging, Verifying, Promoting, Intending, Replacing, Performing
<1> QED BY <1>1, <1>2, <1>3, <1>4, <1>6, <1>7, <1>8, Steady DEF ConfigTyped, MarkersTyped

\* Under the configuration's lock the request is found acceptable, or given up.
LEMMA BeginKeeps ==
  ASSUME IndInv, Begin, UNCHANGED <<config, applies, editor>>
  PROVE  IndInv'
<1>1. ConfigTyped /\ SagaTyped /\ MarkersTyped
  BY Parts
<1>2. act.at = "admitted" /\ Cleared /\ UNCHANGED <<store, journal, pair, slot, temp>>
  BY DEF Begin
<1>3. act \in Starter /\ act # Idle /\ \A o \in Ops : ~Unresolved(o)
  BY <1>1, <1>2, ActIs, BeforeRecord DEF IndInv, Idle
<1>4. CASE Quit /\ UNCHANGED holder
  BY <1>1, <1>2, <1>3, <1>4, IdleHolds, Steady DEF Quit, ConfigTyped, MarkersTyped
<1>5. CASE Acceptable(act) /\ Lock(act.ws) /\ act' = [act EXCEPT !.at = "reserve", !.kind = KindOf(act)]
  <2>1. KindOf(act) \in Kinds /\ act.ws \in Workspaces /\ act.role \in Roles /\ act.op \in Ops /\ act.want \in Wants
    BY <1>3 DEF Starter, KindOf, Kinds, Wants
  <2>2. /\ act' \in Starter /\ act'.at = "reserve" /\ act'.kind = KindOf(act)
        /\ act'.op = act.op /\ act'.ws = act.ws /\ act'.role = act.role /\ act'.want = act.want
        /\ act'.value = act.value /\ act'.gen = act.gen /\ act'.locked = act.locked
    BY <1>3, <1>5, <2>1 DEF Starter
  <2>3. /\ holder' \in [Workspaces -> Holders] /\ holder'[act.ws] = Saga
        /\ \A x \in Workspaces : holder[x] \in Applies => holder'[x] = holder[x]
    BY <1>1, <1>5, <2>1, LockIs
  <2>4. Alone'
    BY <1>2, <1>3, <2>2 DEF IndInv, Alone, Unresolved, Exists
  <2>5. act.op \notin Reserved
    BY <1>2 DEF IndInv, Starting
  <2>6. pair = NoOp /\ \A r \in Roles : slot[r] = NoMarker
    BY <1>1, <1>2, <2>1, <2>5, MarkerIs DEF Cleared, Reserved
  <2>7. /\ config[act.ws] = act.gen
        /\ KindOf(act) = "forget" => act.gen.source[act.role] = "managed"
        /\ KindOf(act) \in {"enrollment", "replacement"} => store[Peer(act.role)].active # act.value
    BY <1>5, <2>1 DEF Acceptable, KindOf, Separate, Wants
  <2>8. KindOf(act)' = KindOf(act)
    BY <1>2, <2>2 DEF KindOf
  <2>9. Starting'
    <3>1. ~act'.locked
      BY <1>2, <2>2 DEF IndInv, Starting
    <3> QED BY <1>2, <2>1, <2>2, <2>3, <2>6, <2>7, <2>8, <3>1, PeerIs, SameIs DEF Starting
  <2>10. Working' /\ Repairing'
    BY <2>2 DEF Repairing, Working, Owning, Holding, Staging, Verifying, Promoting, Intending, Replacing, Performing
  <2> QED BY <1>1, <1>2, <1>3, <2>2, <2>3, <2>4, <2>9, <2>10, Steady DEF MarkersTyped
<1> QED BY <1>4, <1>5 DEF Begin

\* The slot's marker is published.
LEMMA PublishSlotKeeps ==
  ASSUME IndInv, PublishSlot, UNCHANGED <<config, applies, editor>>
  PROVE  IndInv'
<1>1. ConfigTyped /\ SagaTyped /\ MarkersTyped
  BY Parts
<1>2. /\ act.at = "reserve" /\ act' = At(act, "join") /\ UNCHANGED <<store, journal, pair, temp, holder>>
      /\ slot' = [slot EXCEPT ![act.role] = [op |-> act.op, schema |-> 2]]
  BY DEF PublishSlot, Goto, At
<1>3. act \in Starter /\ act # Idle /\ \A o \in Ops : ~Unresolved(o)
  BY <1>1, <1>2, ActIs, BeforeRecord DEF IndInv, Idle
<1>4. /\ act' \in Starter /\ act'.at = "join" /\ act'.kind = act.kind /\ act'.op = act.op /\ act'.ws = act.ws
      /\ act'.role = act.role /\ act'.want = act.want /\ act'.value = act.value /\ act'.gen = act.gen
      /\ act'.locked = act.locked
  BY <1>2, <1>3, StarterGoes DEF StarterPlaces
<1>5. act.op \in Ops /\ act.role \in Roles
  BY <1>1, <1>3, ActIs
<1>6. MarkersTyped'
  BY <1>1, <1>2, <1>5 DEF MarkersTyped
<1>7. Alone'
  BY <1>2, <1>3, <1>4 DEF IndInv, Alone, Unresolved, Exists
<1>8. Starting'
  <2>1. KindOf(act)' = KindOf(act)
    BY <1>2, <1>4 DEF KindOf
  <2>2. slot'[act.role] = [op |-> act.op, schema |-> 2] /\ \A p \in Roles \ {act.role} : slot'[p] = slot[p]
    BY <1>1, <1>2, <1>5 DEF MarkersTyped
  <2> QED BY <1>2, <1>4, <2>1, <2>2 DEF IndInv, Starting
<1>9. Working' /\ Repairing'
  BY <1>4 DEF Repairing, Working, Owning, Holding, Staging, Verifying, Promoting, Intending, Replacing, Performing
<1> QED BY <1>1, <1>2, <1>3, <1>4, <1>6, <1>7, <1>8, <1>9, Steady DEF ConfigTyped

\* The pair's marker is published.
LEMMA PublishPairKeeps ==
  ASSUME IndInv, PublishPair, UNCHANGED <<config, applies, editor>>
  PROVE  IndInv'
<1>1. ConfigTyped /\ SagaTyped /\ MarkersTyped
  BY Parts
<1>2. /\ act.at = "join" /\ act' = At(act, "create") /\ UNCHANGED <<store, journal, slot, temp, holder>>
      /\ pair' = act.op
  BY DEF PublishPair, Goto, At
<1>3. act \in Starter /\ act # Idle /\ \A o \in Ops : ~Unresolved(o)
  BY <1>1, <1>2, ActIs, BeforeRecord DEF IndInv, Idle
<1>4. /\ act' \in Starter /\ act'.at = "create" /\ act'.kind = act.kind /\ act'.op = act.op /\ act'.ws = act.ws
      /\ act'.role = act.role /\ act'.want = act.want /\ act'.value = act.value /\ act'.gen = act.gen
      /\ act'.locked = act.locked
  BY <1>2, <1>3, StarterGoes DEF StarterPlaces
<1>5. act.op \in Ops
  BY <1>1, <1>3, ActIs
<1>6. MarkersTyped'
  BY <1>1, <1>2, <1>5 DEF MarkersTyped
<1>7. Alone'
  BY <1>2, <1>3, <1>4 DEF IndInv, Alone, Unresolved, Exists
<1>8. Starting'
  <2>1. KindOf(act)' = KindOf(act)
    BY <1>2, <1>4 DEF KindOf
  <2> QED BY <1>2, <1>4, <2>1 DEF IndInv, Starting
<1>9. Working' /\ Repairing'
  BY <1>4 DEF Repairing, Working, Owning, Holding, Staging, Verifying, Promoting, Intending, Replacing, Performing
<1> QED BY <1>1, <1>2, <1>3, <1>4, <1>6, <1>7, <1>8, <1>9, Steady DEF ConfigTyped

\* The worker's own operation, once it has a record.
LEMMA WorkerIs ==
  ASSUME IndInv, act # Idle, act.at \notin {"admitted", "reserve", "join", "create"}
  PROVE  /\ act.op \in Ops /\ Exists(act.op) /\ Good(act.op, R) /\ IsRecord(R)
         /\ act.ws = R.ws /\ act.role = R.role /\ act.ws \in Workspaces /\ act.role \in Roles
         /\ \A op \in Ops \ {act.op} : ~Unresolved(op)
         /\ Unresolved(act.op) <=> ~Resolved(act.op)
         /\ Unresolved(act.op) <=> R.phase # "complete"
<1>1. act.op \in Ops
  BY Parts, ActIs
<1>2. /\ Exists(act.op) /\ act.ws = R.ws /\ act.role = R.role
      /\ \A op \in Ops \ {act.op} : ~Unresolved(op)
  BY DEF IndInv, Alone
<1>3. /\ Good(act.op, R) /\ IsRecord(R) /\ R.ws \in Workspaces /\ R.role \in Roles
      /\ Unresolved(act.op) <=> R.phase # "complete"
  BY <1>1, <1>2, Parts, RecordGood DEF IndInv, R
<1> QED BY <1>1, <1>2, <1>3 DEF Resolved, Unresolved

\* While its operation is unfinished, its record fits slots and configuration.
LEMMA WorkerFits ==
  ASSUME IndInv, act # Idle, act.at \notin {"admitted", "reserve", "join", "create"}, Unresolved(act.op)
  PROVE  Fits(R) /\ Marks(act.op) /\ Apart(act.op) /\ Selects(act.op)
<1>1. act.op \in Ops /\ Good(act.op, R)
  BY WorkerIs
<1>2. Slotted(R) /\ Configured(R) /\ Marks(act.op) /\ Apart(act.op) /\ Selects(act.op)
  BY <1>1, Parts DEF R
<1> QED BY <1>1, <1>2, FitsIs

Busy == act.at \in {"step", "intended", "performed", "verify", "continue"}

\* From the record on the worker owns the pair and its operation is unfinished.
LEMMA WorkerOwns ==
  ASSUME IndInv, Busy
  PROVE  /\ act # Idle /\ act.at \notin {"admitted", "reserve", "join", "create"}
         /\ Unresolved(act.op) /\ pair = act.op
         /\ R.phase \notin {"repair_required", "complete"}
         /\ \A e \in DOMAIN R.eff : R.eff[e].st # "mismatch"
<1>1. act # Idle /\ act.at \notin {"admitted", "reserve", "join", "create"}
  BY DEF Busy, Idle
<1>2. Unresolved(act.op) /\ pair = act.op /\ R.phase # "repair_required"
  BY DEF IndInv, Working, Owning, Busy
<1>3. Good(act.op, R) /\ R.phase # "complete"
  BY <1>1, <1>2, WorkerIs
<1>4. Script(R)
  BY <1>3, Entries
<1> QED BY <1>1, <1>2, <1>3, <1>4 DEF Script

\* The worker of a finished operation takes its markers away.
LEMMA ReleaseKeeps ==
  ASSUME IndInv, ReleasePair \/ ReleaseSlot, UNCHANGED <<config, applies, editor>>
  PROVE  IndInv'
<1>1. ConfigTyped /\ SagaTyped /\ MarkersTyped
  BY Parts
<1>2. /\ act.at \in {"release", "unreserve"} /\ UNCHANGED <<store, journal, temp, holder>>
      /\ \/ pair' = NoOp /\ act' = At(act, "unreserve") /\ UNCHANGED slot
         \/ slot' = [slot EXCEPT ![act.role] = NoMarker] /\ act' = Idle /\ UNCHANGED pair
  BY DEF ReleasePair, ReleaseSlot, Goto, Quit, At
<1>3. act # Idle /\ act.at \notin {"admitted", "reserve", "join", "create"} /\ Resolved(act.op)
  BY <1>2 DEF IndInv, Alone, Idle
<1>4. \A op \in Ops : ~Unresolved(op)
  BY <1>3, WorkerIs
<1>5. MarkersTyped'
  BY <1>1, <1>2 DEF MarkersTyped
<1>6. CASE act' = Idle
  BY <1>1, <1>2, <1>4, <1>5, <1>6, IdleHolds, Steady DEF ConfigTyped
<1>7. CASE act' = At(act, "unreserve")
  <2>1. /\ act' \in Starter \cup Repairer /\ act'.at = "unreserve" /\ act'.op = act.op
        /\ act'.ws = act.ws /\ act'.role = act.role
    BY <1>1, <1>3, <1>7, WorkerGoes DEF StarterPlaces, RepairerPlaces
  <2>2. Alone'
    BY <1>2, <1>3, <1>4, <2>1 DEF IndInv, Alone, Unresolved, Resolved, Exists, R
  <2>3. Starting' /\ Working' /\ Repairing'
    BY <2>1 DEF Starting, Repairing, Working, Owning, Holding, Staging, Verifying, Promoting, Intending, Replacing, Performing
  <2> QED BY <1>1, <1>2, <1>4, <1>5, <2>1, <2>2, <2>3, Steady DEF ConfigTyped
<1> QED BY <1>2, <1>6, <1>7

\* A worker that dies, raises or gives up.
LEMMA GivesUp ==
  ASSUME IndInv, UNCHANGED <<config, store, journal, pair, slot, applies, editor>>, act' = Idle, temp' \in BOOLEAN,
         holder' \in [Workspaces -> Holders],
         \A w \in Workspaces : holder[w] \in Applies => holder'[w] = holder[w]
  PROVE  IndInv'
<1>1. MarkersTyped /\ \A op \in Ops : Unresolved(op) => Marks(op)
  BY Parts
<1>2. MarkersTyped' /\ \A op \in Ops : Unresolved(op) => Marks(op)'
  BY <1>1 DEF MarkersTyped, Marks
<1> QED BY <1>2, IdleHolds, Steady

\* The worker dies, at any place: what the record says was intended may have happened or not.
LEMMA LeaveKeeps ==
  ASSUME IndInv, Leave, UNCHANGED <<applies, editor>>
  PROVE  IndInv'
<1>1. ConfigTyped /\ MarkersTyped
  BY Parts
<1>2. /\ act' = Idle /\ UNCHANGED <<config, store, journal, pair, slot>>
      /\ holder' = [w \in Workspaces |-> IF holder[w] = Saga THEN Free ELSE holder[w]]
      /\ temp' \in BOOLEAN
  BY <1>1 DEF Leave, Quit, MarkersTyped
<1>3. /\ holder' \in [Workspaces -> Holders]
      /\ \A w \in Workspaces : holder[w] \in Applies => holder'[w] = holder[w]
  BY <1>1, <1>2, SagaIs DEF ConfigTyped
<1> QED BY <1>2, <1>3, GivesUp

\* The last effect begun on a store.
LEMMA LastIs ==
  ASSUME NEW rec, Shaped(rec), NEW e
  PROVE  e \in LastOn(rec) <=>
            /\ Effect(rec, e) /\ Begun(rec, e)
            /\ \A d : Effect(rec, d) /\ Begun(rec, d) /\ StoreOf(d) = StoreOf(e) => d = e \/ Precedes(rec, d, e)
<1> DEFINE plan == Planned(rec)
<1>1. Listed(rec)
  BY PlansListed
<1>2. PICK n \in 1 .. 6 : DOMAIN plan = 1 .. n
  BY <1>1 DEF Listed
<1>3. e \in LastOn(rec) <=>
        \E i \in DOMAIN plan : /\ Begun(rec, plan[i]) /\ plan[i] = e
                               /\ \A j \in DOMAIN plan : Begun(rec, plan[j]) /\ StoreOf(plan[j]) = StoreOf(plan[i]) => j <= i
  BY DEF LastOn
<1>4. \A i, j \in DOMAIN plan : j <= i <=> plan[j] = plan[i] \/ Precedes(rec, plan[j], plan[i])
  BY <1>1, <1>2 DEF Listed
<1>5. \A d : Effect(rec, d) <=> \E i \in DOMAIN plan : plan[i] = d
  BY <1>1 DEF Listed
<1> HIDE DEF plan
<1> QED BY <1>3, <1>4, <1>5

\* A record that was read back different is not repaired.
LEMMA LiveIsWell ==
  ASSUME NEW op, NEW rec, Good(op, rec), NEW action, IsLive(rec, action)
  PROVE  rec.phase # "repair_required"
<1>1. SUFFICES ASSUME rec.phase = "repair_required"
               PROVE  FALSE
  OBVIOUS
<1>2. Shaped(rec) /\ Script(rec)
  BY Entries
<1>3. PICK e \in DOMAIN rec.eff : rec.eff[e].st = "mismatch"
  BY <1>1, <1>2 DEF Script
<1>4. Effect(rec, e) /\ Begun(rec, e) /\ StoreOf(e) = "config" /\ e \in Effects
  BY <1>2, <1>3, Entries DEF Script, Begun
<1>5. ASSUME NEW d, Effect(rec, d), StoreOf(d) = "config"
      PROVE  d = e
  <2>1. d \in Effects
    BY <1>5 DEF Effect, Effects
  <2>2. d \in {"config_commit", "config_detach"} /\ e \in {"config_commit", "config_detach"}
    BY <1>4, <1>5, <2>1, StoresAre DEF Effects
  <2> QED BY <1>2, <1>4, <1>5, <2>2 DEF Effect
<1>6. e \in LastOn(rec)
  BY <1>2, <1>4, <1>5, LastIs
<1> QED BY <1>3, <1>6 DEF IsLive, StoresAgree

\* The worker takes the lock of the configuration and goes on.
Locked(a, where) == [a EXCEPT !.at = where, !.locked = TRUE]

\* The worker goes on with the configuration's lock.
LEMMA LockedGoes ==
  ASSUME NEW a \in Starter \cup Repairer, NEW where \in StarterPlaces \cap RepairerPlaces
  PROVE  /\ Locked(a, where) \in Starter \cup Repairer /\ Locked(a, where).at = where
         /\ Locked(a, where).op = a.op /\ Locked(a, where).ws = a.ws /\ Locked(a, where).role = a.role
         /\ Locked(a, where).locked = TRUE
BY DEF Starter, Repairer, StarterPlaces, RepairerPlaces, Locked

\* The worker takes the lock again, when the configuration is still what the record knows.
LEMMA ContinueKeeps ==
  ASSUME IndInv, Continue, UNCHANGED <<applies, editor>>
  PROVE  IndInv'
<1>1. ConfigTyped /\ SagaTyped /\ MarkersTyped
  BY Parts
<1>2. act.at = "continue" /\ UNCHANGED <<config, store, journal, pair, slot, temp>>
  BY DEF Continue
<1>3. Busy /\ act # Idle /\ act.at \notin {"admitted", "reserve", "join", "create"} /\ Unresolved(act.op)
  BY <1>2, WorkerOwns DEF Busy
<1>4. CASE Quit /\ UNCHANGED holder
  BY <1>1, <1>2, <1>4, GivesUp DEF Quit, ConfigTyped, MarkersTyped
<1>5. CASE /\ R.branch = "primary" /\ R.kind \in {"enrollment", "replacement"} /\ store[act.role].staged # Absent
                => Separate(act.ws, act.role, store[act.role].staged)
           /\ Lock(act.ws)
           /\ act' = [act EXCEPT !.at = "step", !.locked = TRUE]
  <2>1. act' = Locked(act, "step")
    BY <1>5 DEF Locked
  <2>2. act \in Starter \cup Repairer
    BY <1>1, <1>3, ActIs
  <2>3. /\ act' \in Starter \cup Repairer /\ act'.at = "step"
        /\ act'.op = act.op /\ act'.ws = act.ws /\ act'.role = act.role /\ act'.locked = TRUE
    BY <2>1, <2>2, LockedGoes DEF StarterPlaces, RepairerPlaces
  <2>4. /\ holder' \in [Workspaces -> Holders] /\ holder'[act.ws] = Saga
        /\ \A x \in Workspaces : holder[x] \in Applies => holder'[x] = holder[x]
    BY <1>3, <1>5, LockIs, WorkerIs, <1>1
  <2>5. R' = R
    BY <1>2, <2>3 DEF R
  <2>6. Alone'
    BY <1>2, <1>3, <2>3, <2>5 DEF IndInv, Alone, Unresolved, Exists
  <2>7. Promoting'
    <3>1. SUFFICES ASSUME R.branch = "primary", R.kind \in {"enrollment", "replacement"}, store[act.role].staged # Absent
                   PROVE  \A p \in Roles \ {act.role} : R.new # store[p].active
      BY <1>2, <2>3, <2>5 DEF Promoting
    <3>2. store[Peer(act.role)].active # store[act.role].staged
      BY <1>5, <3>1 DEF Separate
    <3>3. act.role \in Roles /\ store[act.role].staged = R.new
      BY <1>3, <3>1, WorkerIs, WorkerFits DEF Fits, StagedFits
    <3> QED BY <3>2, <3>3, PeerIs
  <2>8. Owning' /\ Holding' /\ Staging' /\ Verifying' /\ Intending' /\ Replacing' /\ Performing'
    BY <1>2, <1>3, <2>3, <2>4, <2>5, WorkerOwns DEF Owning, Holding, Staging, Verifying, Intending, Replacing,
       Performing, Unresolved, Exists
  <2>9. Starting' /\ Repairing'
    BY <2>3 DEF Starting, Repairing
  <2>10. MarkersTyped' /\ \A op \in Ops : Unresolved(op) => Marks(op)'
    BY <1>1, <1>2, Parts DEF MarkersTyped, Marks
  <2> QED BY <1>2, <2>3, <2>4, <2>6, <2>7, <2>8, <2>9, <2>10, Steady DEF Working
<1> QED BY <1>4, <1>5 DEF Continue

\* A repair is admitted.
LEMMA RecoverKeeps ==
  ASSUME IndInv, NEW op \in Ops, NEW action \in {"resume", "restore", "leave", "retry_delete"}, Recover(op, action),
         UNCHANGED <<applies, editor>>
  PROVE  IndInv'
<1>1. ConfigTyped /\ SagaTyped /\ MarkersTyped
  BY Parts
<1>2. /\ Exists(op) /\ AdmitsRecovery(op) /\ UNCHANGED <<config, store, journal, pair, slot, temp, holder>>
      /\ act' = [at |-> "recover", op |-> op, ws |-> journal[op].ws, role |-> journal[op].role,
                 action |-> action, locked |-> TRUE]
  BY DEF Recover
<1>3. journal[op].ws \in Workspaces /\ journal[op].role \in Roles
  BY <1>1, <1>2, RecordGood DEF IndInv
<1>4. /\ act' \in Repairer /\ act'.at = "recover" /\ act'.op = op /\ act'.ws = journal[op].ws
      /\ act'.role = journal[op].role
  BY <1>2, <1>3 DEF Repairer
<1>5. Alone'
  <2>1. \A other \in Ops \ {op} : ~Unresolved(other)
    BY <1>2, RecoveryIsAlone
  <2> QED BY <1>2, <1>4, <2>1 DEF Alone, Unresolved, Exists, R
<1>6. Starting' /\ Working' /\ Repairing'
  BY <1>4 DEF Starting, Repairing, Working, Owning, Holding, Staging, Verifying, Promoting, Intending, Replacing, Performing
<1>7. MarkersTyped' /\ \A o \in Ops : Unresolved(o) => Marks(o)'
  BY <1>1, <1>2, Parts DEF MarkersTyped, Marks
<1> QED BY <1>1, <1>2, <1>4, <1>5, <1>6, <1>7, Steady DEF ConfigTyped

\* What is to be repaired is inspected under the locks.
LEMMA InspectKeeps ==
  ASSUME IndInv, Inspect, UNCHANGED <<applies, editor>>
  PROVE  IndInv'
<1>1. ConfigTyped /\ SagaTyped /\ MarkersTyped
  BY Parts
<1>2. act.at = "recover" /\ UNCHANGED <<config, store, journal, pair, slot, temp>>
  BY DEF Inspect
<1>3. act # Idle /\ act.at \notin {"admitted", "reserve", "join", "create"} /\ act \in Repairer
  BY <1>1, <1>2, ActIs DEF Idle
<1>4. CASE Quit /\ UNCHANGED holder
  BY <1>1, <1>2, <1>4, GivesUp DEF Quit, ConfigTyped, MarkersTyped
<1>5. CASE /\ \/ Resolved(act.op)
              \/ /\ act.action \in Choices(R) /\ IsLive(R, act.action)
                 /\ ~(act.action = "leave" /\ R.kind \in {"forget", "detach"})
           /\ Lock(act.ws) /\ Goto("maintain")
  <2>1. /\ act' \in Repairer /\ act'.at = "maintain" /\ act'.op = act.op /\ act'.ws = act.ws
        /\ act'.role = act.role /\ act'.action = act.action
    BY <1>3, <1>5, RepairerGoes DEF Goto, At, RepairerPlaces
  <2>2. /\ holder' \in [Workspaces -> Holders] /\ holder'[act.ws] = Saga
        /\ \A x \in Workspaces : holder[x] \in Applies => holder'[x] = holder[x]
    BY <1>1, <1>3, <1>5, LockIs, WorkerIs
  <2>3. R' = R
    BY <1>2, <2>1 DEF R
  <2>4. Alone'
    BY <1>2, <1>3, <2>1, <2>3 DEF IndInv, Alone, Unresolved, Exists
  <2>5. ASSUME Unresolved(act.op)
        PROVE  /\ R.phase # "repair_required"
               /\ R.branch = "primary" =>
                    /\ act.action = "restore" => R.kind = "replacement" /\ Done(R, "credential_promote")
                    /\ act.action = "leave" => /\ R.kind \in {"enrollment", "replacement"}
                                               /\ Done(R, "credential_stage")
    <3>1. Good(act.op, R) /\ ~Resolved(act.op)
      BY <1>3, <2>5, WorkerIs
    <3>2. act.action \in Choices(R) /\ IsLive(R, act.action) /\ ~(act.action = "leave" /\ R.kind \in {"forget", "detach"})
      BY <1>5, <3>1
    <3>3. R.phase # "repair_required"
      BY <3>1, <3>2, LiveIsWell
    <3>4. R.kind \in {"enrollment", "replacement", "forget", "detach"}
      BY <3>1 DEF Good, IsRecord, Kinds
    <3>5. act.action = "restore" => R.kind = "replacement" /\ Done(R, "credential_promote")
      BY <3>2 DEF Choices
    <3>6. act.action = "leave" => R.kind \in {"enrollment", "replacement"} /\ Done(R, "credential_stage")
      <4>1. SUFFICES ASSUME act.action = "leave"
                     PROVE  R.kind \in {"enrollment", "replacement"} /\ Done(R, "credential_stage")
        OBVIOUS
      <4>2. CASE R.kind = "enrollment"
        BY <3>2, <4>1, <4>2 DEF Choices
      <4>3. CASE R.kind = "replacement"
        BY <3>2, <4>1, <4>3 DEF Choices
      <4> QED BY <3>2, <3>4, <4>1, <4>2, <4>3
    <3> QED BY <3>3, <3>5, <3>6
  <2>6. Repairing'
    BY <1>2, <2>1, <2>2, <2>3, <2>5 DEF Repairing, Unresolved, Exists
  <2>7. Starting' /\ Working'
    BY <2>1 DEF Starting, Working, Owning, Holding, Staging, Verifying, Promoting, Intending, Replacing, Performing
  <2>8. MarkersTyped' /\ \A o \in Ops : Unresolved(o) => Marks(o)'
    BY <1>1, <1>2, Parts DEF MarkersTyped, Marks
  <2> QED BY <1>2, <2>1, <2>2, <2>4, <2>6, <2>7, <2>8, Steady
<1> QED BY <1>4, <1>5 DEF Inspect

\* A marker of the older form joins the pair.
LEMMA BridgeKeeps ==
  ASSUME IndInv, Bridge, UNCHANGED <<applies, editor>>
  PROVE  IndInv'
<1>1. ConfigTyped /\ SagaTyped /\ MarkersTyped
  BY Parts
<1>2. /\ act.at = "maintain" /\ UNCHANGED <<config, store, journal, slot, temp, act, holder>>
      /\ pair' = act.op
  BY DEF Bridge
<1>3. act # Idle /\ act.at \notin {"admitted", "reserve", "join", "create"}
  BY <1>2 DEF Idle
<1>4. MarkersTyped'
  BY <1>1, <1>2, <1>3, WorkerIs DEF MarkersTyped
<1>5. ASSUME NEW op \in Ops, Unresolved(op)
      PROVE  Marks(op)'
  <2>1. op = act.op
    BY <1>3, <1>5, WorkerIs
  <2>2. Marks(op)
    BY <1>5, Parts
  <2> QED BY <1>2, <2>1, <2>2 DEF Marks
<1>6. Alone' /\ Starting' /\ Working' /\ Repairing'
  BY <1>2 DEF IndInv, Alone, Starting, Repairing, Working, Owning, Holding, Staging, Verifying, Promoting, Intending,
              Replacing, Performing, Unresolved, Resolved, Exists, R
<1> QED BY <1>1, <1>2, <1>4, <1>5, <1>6, Steady DEF ConfigTyped, SagaTyped

\* A release that a crash cut short is finished.
LEMMA FinishKeeps ==
  ASSUME IndInv, Finish, UNCHANGED <<applies, editor>>
  PROVE  IndInv'
<1>1. ConfigTyped /\ SagaTyped /\ MarkersTyped
  BY Parts
<1>2. /\ act.at = "maintain" /\ Resolved(act.op) /\ UNCHANGED <<config, store, journal, pair, temp>>
      /\ Unlock(act.ws)
      /\ \/ Goto("release") /\ UNCHANGED slot
         \/ slot' = [slot EXCEPT ![act.role] = NoMarker] /\ act' = Idle
  BY DEF Finish, Quit
<1>3. act # Idle /\ act.at \notin {"admitted", "reserve", "join", "create"} /\ act \in Repairer
  BY <1>1, <1>2, ActIs DEF Idle
<1>4. \A op \in Ops : ~Unresolved(op)
  BY <1>2, <1>3, WorkerIs
<1>5. holder[act.ws] = Saga
  BY <1>2 DEF IndInv, Repairing
<1>6. /\ holder' \in [Workspaces -> Holders]
      /\ \A x \in Workspaces : holder[x] \in Applies => holder'[x] = holder[x]
  BY <1>1, <1>2, <1>3, <1>5, UnlockIs, WorkerIs
<1>7. MarkersTyped'
  BY <1>1, <1>2 DEF MarkersTyped
<1>8. CASE act' = Idle
  BY <1>2, <1>4, <1>6, <1>7, <1>8, IdleHolds, Steady
<1>9. CASE Goto("release")
  <2>1. /\ act' \in Repairer /\ act'.at = "release" /\ act'.op = act.op /\ act'.ws = act.ws /\ act'.role = act.role
    BY <1>3, <1>9, RepairerGoes DEF Goto, At, RepairerPlaces
  <2>2. Alone'
    BY <1>2, <1>3, <1>4, <2>1 DEF IndInv, Alone, Unresolved, Resolved, Exists, R
  <2>3. Starting' /\ Working' /\ Repairing'
    BY <2>1 DEF Starting, Repairing, Working, Owning, Holding, Staging, Verifying, Promoting, Intending, Replacing, Performing
  <2> QED BY <1>2, <1>4, <1>6, <1>7, <2>1, <2>2, <2>3, Steady
<1> QED BY <1>2, <1>8, <1>9

\* A repair that goes on with the operation.
LEMMA RecoverVerifyKeeps ==
  ASSUME IndInv, NEW ok \in BOOLEAN, RecoverVerify(ok), UNCHANGED <<applies, editor>>
  PROVE  IndInv'
<1>1. ConfigTyped /\ SagaTyped /\ MarkersTyped
  BY Parts
<1>2. /\ act.at = "maintain" /\ Unresolved(act.op) /\ pair = act.op
      /\ UNCHANGED <<config, store, journal, pair, slot, temp>>
      /\ Unlock(act.ws)
      /\ Goto("continue") \/ Quit
  BY DEF RecoverVerify, Maintained
<1>3. act # Idle /\ act.at \notin {"admitted", "reserve", "join", "create"} /\ act \in Repairer
  BY <1>1, <1>2, ActIs DEF Idle
<1>4. holder[act.ws] = Saga /\ R.phase # "repair_required"
  BY <1>2 DEF IndInv, Repairing
<1>5. /\ holder' \in [Workspaces -> Holders]
      /\ \A x \in Workspaces : holder[x] \in Applies => holder'[x] = holder[x]
  BY <1>1, <1>2, <1>3, <1>4, UnlockIs, WorkerIs
<1>6. CASE Quit
  BY <1>1, <1>2, <1>5, <1>6, GivesUp DEF Quit, MarkersTyped
<1>7. CASE Goto("continue")
  <2>1. /\ act' \in Repairer /\ act'.at = "continue" /\ act'.op = act.op /\ act'.ws = act.ws /\ act'.role = act.role
    BY <1>3, <1>7, RepairerGoes DEF Goto, At, RepairerPlaces
  <2>2. R' = R
    BY <1>2, <2>1 DEF R
  <2>3. Alone'
    BY <1>2, <1>3, <2>1, <2>2 DEF IndInv, Alone, Unresolved, Exists
  <2>4. Owning'
    BY <1>2, <1>4, <2>1, <2>2 DEF Owning, Unresolved, Exists
  <2>5. Starting' /\ Repairing' /\ Holding' /\ Staging' /\ Verifying' /\ Promoting' /\ Intending' /\ Replacing' /\ Performing'
    BY <2>1 DEF Starting, Repairing, Holding, Staging, Verifying, Promoting, Intending, Replacing, Performing
  <2>6. MarkersTyped' /\ \A o \in Ops : Unresolved(o) => Marks(o)'
    BY <1>1, <1>2, Parts DEF MarkersTyped, Marks
  <2> QED BY <1>2, <1>5, <2>1, <2>3, <2>4, <2>5, <2>6, Steady DEF Working
<1> QED BY <1>2, <1>6, <1>7

-----------------------------------------------------------------------------
(* The steps that write the record of the worker's operation.               *)

\* The journal after one record was written.
LEMMA JournalIs ==
  ASSUME SagaTyped, RecordsHold, NEW op \in Ops, NEW new, Good(op, new), Write(op, new)
  PROVE  /\ journal'[op] = new /\ \A o \in Ops \ {op} : journal'[o] = journal[o]
         /\ journal' = [o \in Ops |-> journal'[o]]
         /\ Exists(op)' /\ (Unresolved(op)' <=> new.phase # "complete")
         /\ \A o \in Ops \ {op} : (Exists(o)' <=> Exists(o)) /\ (Unresolved(o)' <=> Unresolved(o))
         /\ \A o \in Ops : Exists(o)' => Good(o, journal'[o])
<1>1. journal' = [journal EXCEPT ![op] = new]
  BY DEF Write
<1>2. journal = [o \in Ops |-> journal[o]]
  BY DEF SagaTyped
<1>3. /\ journal'[op] = new /\ \A o \in Ops \ {op} : journal'[o] = journal[o]
      /\ journal' = [o \in Ops |-> journal'[o]]
  BY <1>1, <1>2
<1>4. IsRecord(new)
  BY DEF Good
<1>5. Exists(op)' /\ (Unresolved(op)' <=> new.phase # "complete")
  BY <1>3, <1>4, RecordIs DEF Exists, Unresolved
<1>6. \A o \in Ops \ {op} : (Exists(o)' <=> Exists(o)) /\ (Unresolved(o)' <=> Unresolved(o))
  BY <1>3 DEF Exists, Unresolved
<1>7. \A o \in Ops : Exists(o)' => Good(o, journal'[o])
  BY <1>3, <1>6, RecordGood
<1> QED BY <1>3, <1>5, <1>6, <1>7

\* The worker changes the record of its operation, which goes on.
LEMMA Rewrites ==
  ASSUME IndInv, act # Idle, act.at \notin {"admitted", "reserve", "join", "create"}, Unresolved(act.op),
         UNCHANGED <<config, store, pair, slot, temp, applies, editor>>,
         holder' \in [Workspaces -> Holders],
         \A w \in Workspaces : holder[w] \in Applies => holder'[w] = holder[w],
         act' \in {Idle} \cup Starter \cup Repairer,
         act' # Idle => act'.op = act.op /\ act'.ws = act.ws /\ act'.role = act.role
                        /\ act'.at \notin {"admitted", "reserve", "join", "create", "release", "unreserve"},
         NEW new, Write(act.op, new), Good(act.op, new), Keeps(R, new), new.phase # "complete", Fits(new),
         Begun(new, "credential_promote") => Begun(R, "credential_promote")
            \/ \A p \in Roles \ {R.role} : R.new # store[p].active,
         Starting', Working', Repairing'
  PROVE  IndInv'
<1>1. ConfigTyped /\ SagaTyped /\ MarkersTyped
  BY Parts
<1>0. PICK op \in Ops : op = act.op
  BY WorkerIs
<1>2. /\ op \in Ops /\ Exists(op) /\ act.ws = R.ws /\ act.role = R.role
      /\ Good(op, new) /\ Write(op, new) /\ Unresolved(op)
      /\ \A o \in Ops \ {op} : ~Unresolved(o)
  BY <1>0, WorkerIs
<1>3. /\ journal'[op] = new /\ \A o \in Ops \ {op} : journal'[o] = journal[o]
      /\ journal' = [o \in Ops |-> journal'[o]]
      /\ Exists(op)' /\ Unresolved(op)'
      /\ \A o \in Ops \ {op} : (Exists(o)' <=> Exists(o)) /\ (Unresolved(o)' <=> Unresolved(o))
      /\ \A o \in Ops : Exists(o)' => Good(o, journal'[o])
  BY <1>1, <1>2, JournalIs DEF IndInv
<1>4. ConfigTyped' /\ Editing'
  BY <1>1, EditsStay DEF IndInv
<1>5. TypeOK'
  <2>1. \A o \in Ops : Exists(o)' => IsRecord(journal'[o])
    BY <1>3 DEF Good
  <2>2. SagaTyped'
    BY <1>1, <1>3, <2>1 DEF SagaTyped
  <2> QED BY <1>4, <2>2, TypeIsLater
<1>6. RecordsHold'
  BY <1>3 DEF RecordsHold, Good
<1>7. RevisionsAreKnown' /\ OneUnresolved' /\ PurposesApart'
  <2>1. \A o \in Ops : journal'[o] = NoRecord => journal[o] = NoRecord
    BY <1>2, <1>3 DEF Exists
  <2> QED BY <1>2, <1>3, <2>1 DEF IndInv, RevisionsAreKnown, OneUnresolved, PurposesApart
<1>8. R = journal[op] /\ Keeps(journal[op], journal'[op])
  BY <1>0, <1>3 DEF R
<1>9. \A w, r : Forgotten(w, r)' <=> Forgotten(w, r)
  <2>1. \A o \in Ops : /\ Exists(o)' <=> Exists(o)
                       /\ Exists(o) => /\ journal'[o].role = journal[o].role /\ journal'[o].kind = journal[o].kind
                                       /\ journal'[o].ws = journal[o].ws
    BY <1>2, <1>3, <1>8 DEF Keeps
  <2> QED BY <2>1 DEF Forgotten
<1>10. Tracked'
  <2>1. ASSUME NEW o \in Ops, Unresolved(o)'
        PROVE  /\ Marks(o)' /\ Slotted(journal[o])' /\ Configured(journal[o])'
               /\ Apart(o)' /\ Selects(o)'
    <3>1. o = op
      BY <1>2, <1>3, <2>1
    <3>2. Marks(op) /\ Apart(op) /\ Selects(op)
      BY <1>0, <1>2, WorkerFits
    <3>3. Marks(op)'
      BY <1>8, <3>2 DEF Marks, Keeps
    <3>4. Selects(op)'
      BY <1>8, <1>9, <3>2 DEF Selects, Keeps
    <3>5. Apart(op)'
      BY <1>3, <1>8, <3>2 DEF Apart, Keeps
    <3>6. Slotted(new) /\ Configured(new)
      BY <1>2, FitsIs
    <3>7. Slotted(journal[op])' /\ Configured(journal[op])'
      BY <1>3, <3>6 DEF Slotted, Configured
    <3> QED BY <3>1, <3>3, <3>4, <3>5, <3>7
  <2> QED BY <2>1, TrackedIsLater
<1>11. AtRest'
  <2>1. ASSUME NEW r \in Roles, \A o \in Ops : ~(Unresolved(o)' /\ journal'[o].role = r)
        PROVE  \A o \in Ops : ~(Unresolved(o) /\ journal[o].role = r)
    BY <1>2, <1>3, <1>8, <2>1 DEF Keeps
  <2> QED BY <1>9, <2>1 DEF IndInv, AtRest
<1>12. Alone'
  BY <1>0, <1>2, <1>3, <1>8 DEF Alone, R, Keeps
<1> QED BY <1>4, <1>5, <1>6, <1>7, <1>10, <1>11, <1>12 DEF IndInv

\* An effect that has begun has the values of the script.
LEMMA BegunIs ==
  ASSUME NEW op, NEW rec, Good(op, rec), NEW e, Begun(rec, e)
  PROVE  /\ e \in Effects /\ e \in DOMAIN rec.eff
         /\ rec.eff[e].pre = Found(rec, e) /\ rec.eff[e].post = Left(rec, e)
BY Entries DEF Script, Begun

\* The effects on each store.
LEMMA StoreIs ==
  ASSUME NEW e \in Effects
  PROVE  /\ StoreOf(e) \in {"config", "staged", "backup", "active"}
         /\ StoreOf(e) = "config" => e \in {"config_commit", "config_detach"}
         /\ StoreOf(e) = "staged" => e \in {"credential_stage", "staged_delete", "staging_cleanup"}
         /\ StoreOf(e) = "backup" => e \in {"credential_backup", "backup_delete"}
         /\ StoreOf(e) = "active" => e \in {"credential_promote", "credential_restore", "credential_delete"}
<1>1. CASE e \in {"credential_stage", "staged_delete", "staging_cleanup"}
  BY <1>1, StoresAre
<1>2. CASE e \in {"credential_backup", "backup_delete"}
  BY <1>2, StoresAre
<1>3. CASE e \in {"config_commit", "config_detach"}
  BY <1>3, StoresAre
<1>4. CASE e \in {"credential_promote", "credential_restore", "credential_delete"}
  BY <1>4, StoresAre
<1> QED BY <1>1, <1>2, <1>3, <1>4 DEF Effects

\* What the worker reads back is noted.
LEMMA RecordEffectKeeps ==
  ASSUME IndInv, RecordEffect, UNCHANGED <<applies, editor>>
  PROVE  IndInv'
<1>1. ConfigTyped /\ SagaTyped /\ MarkersTyped
  BY Parts
<1>2. act.at = "performed" /\ UNCHANGED <<config, store, pair, slot, temp>>
  BY DEF RecordEffect
<1>3. /\ Busy /\ act # Idle /\ act.at \notin {"admitted", "reserve", "join", "create"} /\ Unresolved(act.op)
      /\ act \in Starter \cup Repairer
  BY <1>1, <1>2, WorkerOwns, ActIs DEF Busy
<1>4. act.op \in Ops /\ Good(act.op, R) /\ IsRecord(R) /\ act.ws = R.ws /\ act.role = R.role /\ Fits(R) /\ act.ws \in Workspaces
  BY <1>3, WorkerIs, WorkerFits
<1>5. PICK e : e = NextEffect(R)
  OBVIOUS
<1>6. Intended(R, e) /\ ~AllDone(R) /\ (act.locked => e # "credential_stage")
  BY <1>2, <1>5 DEF IndInv, Working, Intending
<1>7. e \in Effects /\ R.eff[e].post = Left(R, e)
  BY <1>4, <1>6, BegunIs DEF Intended
<1>8. /\ IF StoreOf(e) = "config" THEN Same(config[act.ws], R.cand)
         ELSE Observe(R, StoreOf(e)) = Left(R, e)
      /\ HoldsLeft(R, e)
  <2>1. IF StoreOf(e) = "config" THEN Same(config[act.ws], R.cand) ELSE Observe(R, StoreOf(e)) = Left(R, e)
    BY <1>2, <1>5 DEF IndInv, Working, Performing
  <2> QED BY <1>4, <2>1 DEF HoldsLeft, Observe
<1>9. ~act.locked => e = "credential_stage" /\ act \in Starter /\ act.value = R.new /\ StoreOf(e) = "staged"
  BY <1>1, <1>2, <1>5, Unlocked DEF IndInv
<1>10. CASE /\ Observe(R, StoreOf(e)) = R.eff[e].post
            /\ Write(act.op, [With(R, e, "verified") EXCEPT !.phase = "committed"])
            /\ Goto(IF e = "credential_stage" THEN "verify" ELSE "step")
            /\ UNCHANGED holder
  <2> DEFINE new == Mark(R, e, "verified", "committed")
  <2>1. /\ Follows(act.op, R, new) /\ new.phase = "committed" /\ new.branch = R.branch
        /\ DOMAIN new.eff = DOMAIN R.eff /\ new.eff[e].st = "verified"
        /\ \A d \in DOMAIN R.eff : d # e => new.eff[d] = R.eff[d]
    BY <1>4, <1>6, MarkedGood
  <2>2. Write(act.op, new)
    BY <1>10 DEF Mark
  <2> HIDE DEF new
  <2>3. Keeps(R, new) /\ Good(act.op, new)
    BY <2>1 DEF Follows
  <2>4. Fits(new)
    BY <1>4, <1>6, <1>8, <2>1, <2>3, FitsMarked
  <2>5. (\A d : Begun(new, d) <=> Begun(R, d)) /\ Done(new, e)
    BY <1>6, <2>1 DEF Begun, Done, Intended
  <2>6. PICK where \in {"verify", "step"} : where = IF e = "credential_stage" THEN "verify" ELSE "step"
    OBVIOUS
  <2>7. where = "verify" => act \in Starter /\ act.value = R.new /\ ~act.locked
    <3>1. act.locked \in BOOLEAN
      BY <1>1, <1>3, ActIs
    <3> QED BY <1>6, <1>9, <2>6, <3>1
  <2>8. /\ act' \in Starter \cup Repairer /\ act'.at = where /\ act'.op = act.op /\ act'.ws = act.ws
        /\ act'.role = act.role /\ act'.locked = act.locked
        /\ act \in Starter => act' \in Starter /\ act'.value = act.value
    <3>1. act' = At(act, where)
      BY <1>10, <2>6 DEF Goto, At
    <3>2. CASE act \in Starter
      BY <3>1, <3>2, StarterGoes DEF StarterPlaces
    <3>3. CASE act \notin Starter
      <4>1. where = "step" /\ act \in Repairer
        BY <1>3, <2>7, <3>3
      <4> QED BY <3>1, <3>3, <4>1, RepairerGoes DEF RepairerPlaces
    <3> QED BY <3>2, <3>3
  <2>9. R' = new
    BY <1>1, <1>4, <2>2, <2>3, <2>8, JournalIs DEF IndInv, R
  <2>10. Starting' /\ Repairing'
    BY <2>8 DEF Starting, Repairing
  <2>11. Owning'
    <3>1. Unresolved(act.op)'
      BY <1>3, <1>4, <2>1, <2>9, <2>3, <2>8, RecordIs DEF Unresolved, Exists, R, Good
    <3> QED BY <1>2, <1>3, <2>1, <2>8, <2>9, <3>1, WorkerOwns DEF Owning
  <2>12. Holding' /\ Intending' /\ Replacing' /\ Performing'
    BY <1>2, <1>10, <2>8 DEF IndInv, Working, Holding, Intending, Replacing, Performing
  <2>13. R.new = new.new /\ R.kind = new.kind
    BY <2>3 DEF Keeps
  <2>14. Staging'
    BY <1>2, <1>9, <2>1, <2>6, <2>7, <2>8, <2>9, <2>13 DEF IndInv, Working, Staging
  <2>15. Verifying'
    BY <2>5, <2>6, <2>7, <2>8, <2>9 DEF Verifying
  <2>16. Promoting'
    BY <1>2, <2>1, <2>8, <2>9, <2>13 DEF IndInv, Working, Promoting
  <2>17. Working'
    BY <2>11, <2>12, <2>14, <2>15, <2>16 DEF Working
  <2>18. /\ holder' \in [Workspaces -> Holders]
         /\ \A w \in Workspaces : holder[w] \in Applies => holder'[w] = holder[w]
    BY <1>1, <1>10 DEF ConfigTyped
  <2>19. act'.at \notin {"admitted", "reserve", "join", "create", "release", "unreserve"}
    BY <2>8
  <2> QED BY <1>2, <1>3, <2>1, <2>2, <2>3, <2>4, <2>5, <2>8, <2>10, <2>17, <2>18, <2>19, Rewrites
<1>11. CASE /\ Observe(R, StoreOf(e)) # R.eff[e].post
            /\ Write(act.op, [With(R, e, "mismatch") EXCEPT !.phase = "repair_required"])
            /\ Quit
            /\ IF act.locked THEN Unlock(act.ws) ELSE UNCHANGED holder
  <2> DEFINE new == Mark(R, e, "mismatch", "repair_required")
  <2>0. StoreOf(e) = "config"
    BY <1>7, <1>8, <1>11
  <2>1. /\ Follows(act.op, R, new) /\ new.phase = "repair_required"
        /\ DOMAIN new.eff = DOMAIN R.eff /\ new.eff[e].st = "mismatch"
        /\ \A d \in DOMAIN R.eff : d # e => new.eff[d] = R.eff[d]
    BY <1>4, <1>6, <2>0, MarkedGood
  <2>2. Write(act.op, new)
    BY <1>11 DEF Mark
  <2> HIDE DEF new
  <2>3. Keeps(R, new) /\ Good(act.op, new)
    BY <2>1 DEF Follows
  <2>4. Fits(new)
    BY <1>4, <1>6, <1>8, <2>0, <2>1, <2>3, FitsMarked
  <2>5. \A d : Begun(new, d) <=> Begun(R, d)
    BY <2>1 DEF Begun
  <2>6. act.locked /\ holder[act.ws] = Saga
    <3>1. act.locked
      BY <1>9, <2>0
    <3> QED BY <1>2, <3>1 DEF IndInv, Working, Holding
  <2>7. /\ holder' \in [Workspaces -> Holders]
        /\ \A w \in Workspaces : holder[w] \in Applies => holder'[w] = holder[w]
    BY <1>1, <1>4, <1>11, <2>6, UnlockIs
  <2>8. act' = Idle
    BY <1>11 DEF Quit
  <2>9. act' \in {Idle} \cup Starter \cup Repairer /\ Starting' /\ Working' /\ Repairing'
    BY <2>8, IdleHolds
  <2> QED BY <1>2, <1>3, <2>1, <2>2, <2>3, <2>4, <2>5, <2>7, <2>8, <2>9, Rewrites
<1> QED BY <1>5, <1>10, <1>11 DEF RecordEffect

\* A branch is chosen on a configuration that was not written.
LEMMA ProofShows ==
  ASSUME NEW rec, NEW branch \in {"abandon", "restore", "reject"}, Shows(rec, Proof(rec, branch))
  PROVE  config[rec.ws] = rec.orig
<1>1. CASE branch = "abandon"
  <2>1. Proof(rec, branch) = [config |-> rec.orig, staged |-> rec.eff["credential_stage"].post]
    BY <1>1 DEF Proof
  <2> QED BY <2>1 DEF Shows, Observe
<1>2. CASE branch = "restore"
  <2>1. Proof(rec, branch) = [config |-> rec.orig, active |-> rec.eff["credential_promote"].post,
                              backup |-> rec.eff["credential_backup"].post]
    BY <1>2 DEF Proof
  <2> QED BY <2>1 DEF Shows, Observe
<1>3. CASE branch = "reject"
  <2>1. Proof(rec, branch) = [config |-> rec.orig, active |-> rec.was, backup |-> Absent]
    BY <1>3 DEF Proof
  <2> QED BY <2>1 DEF Shows, Observe
<1> QED BY <1>1, <1>2, <1>3

\* What the switch has proved.
LEMMA MaySwitchIs ==
  ASSUME NEW op, NEW rec, Good(op, rec), NEW branch, MaySwitch(rec, branch),
         rec.phase # "complete", Done(rec, "credential_stage"),
         \/ rec.kind = "enrollment" /\ branch = "abandon"
         \/ rec.kind = "replacement" /\ branch = "reject"
         \/ rec.kind = "replacement" /\ branch = "restore" /\ Done(rec, "credential_promote")
  PROVE  Undoable(rec, branch) /\ config[rec.ws] = rec.orig
<1>1. branch \in {"abandon", "restore", "reject"}
  OBVIOUS
<1>2. config[rec.ws] = rec.orig
  BY <1>1, ProofShows DEF MaySwitch
<1>3. Undoable(rec, branch)
  BY DEF MaySwitch, Undoable
<1> QED BY <1>2, <1>3

\* The record takes its other branch: what every such step shares.
LEMMA SwitchHolds ==
  ASSUME NEW op, NEW rec, Good(op, rec), NEW branch, Undoable(rec, branch), config[rec.ws] = rec.orig, Fits(rec)
  PROVE  /\ Good(op, Switched(rec, branch)) /\ Keeps(rec, Switched(rec, branch)) /\ Fits(Switched(rec, branch))
         /\ Switched(rec, branch).phase = rec.phase /\ Switched(rec, branch).branch = branch
         /\ \A d : Begun(Switched(rec, branch), d) <=> Begun(rec, d)
<1> DEFINE new == Switched(rec, branch)
<1>1. /\ Follows(op, rec, new) /\ new.phase = rec.phase /\ new.branch = branch
      /\ DOMAIN new.eff = DOMAIN rec.eff
      /\ \A e \in DOMAIN rec.eff : e # "config_commit" => new.eff[e] = rec.eff[e]
      /\ Begun(rec, "config_commit") =>
            Intended(rec, "config_commit") /\ new.eff["config_commit"].st = "not_applied"
  BY SwitchedGood
<1> HIDE DEF new
<1>2. Good(op, new) /\ Keeps(rec, new)
  BY <1>1 DEF Follows
<1>3. Same(config[rec.ws], rec.orig)
  BY SameIs
<1>4. Fits(new)
  BY <1>1, <1>2, <1>3, FitsSwitched
<1>5. \A d : Begun(new, d) <=> Begun(rec, d)
  BY <1>1 DEF Begun
<1> QED BY <1>1, <1>2, <1>4, <1>5 DEF new

\* The staged secret is verified, or the operation is to be undone.
LEMMA VerifyKeeps ==
  ASSUME IndInv, NEW ok \in BOOLEAN, Verify(ok), UNCHANGED <<applies, editor>>
  PROVE  IndInv'
<1>1. ConfigTyped /\ SagaTyped /\ MarkersTyped
  BY Parts
<1>2. act.at = "verify" /\ UNCHANGED <<config, store, pair, slot, temp>>
  BY DEF Verify
<1>3. /\ Busy /\ act # Idle /\ act.at \notin {"admitted", "reserve", "join", "create"} /\ Unresolved(act.op)
      /\ act \in Starter
  BY <1>1, <1>2, WorkerOwns, ActIs DEF Busy
<1>4. act.op \in Ops /\ Good(act.op, R) /\ act.ws = R.ws /\ act.role = R.role /\ Fits(R) /\ act.ws \in Workspaces
  BY <1>3, WorkerIs, WorkerFits
<1>5. R.phase \notin {"repair_required", "complete"} /\ pair = act.op
  BY <1>3, WorkerOwns
<1>6. CASE Goto("continue") /\ UNCHANGED <<journal, holder>>
  <2>1. /\ act' \in Starter /\ act'.at = "continue" /\ act'.op = act.op /\ act'.ws = act.ws /\ act'.role = act.role
    BY <1>3, <1>6, StarterGoes DEF Goto, At, StarterPlaces
  <2>2. R' = R
    BY <1>6, <2>1 DEF R
  <2>3. Alone'
    BY <1>3, <1>6, <2>1, <2>2 DEF IndInv, Alone, Unresolved, Exists
  <2>4. Owning'
    BY <1>2, <1>3, <1>5, <1>6, <2>1, <2>2 DEF Owning, Unresolved, Exists
  <2>5. Starting' /\ Repairing' /\ Holding' /\ Staging' /\ Verifying' /\ Promoting' /\ Intending' /\ Replacing' /\ Performing'
    BY <2>1 DEF Starting, Repairing, Holding, Staging, Verifying, Promoting, Intending, Replacing, Performing
  <2>6. MarkersTyped' /\ \A o \in Ops : Unresolved(o) => Marks(o)'
    BY <1>1, <1>2, <1>6, Parts DEF MarkersTyped, Marks
  <2>7. Working'
    BY <2>4, <2>5 DEF Working
  <2>8. holder' \in [Workspaces -> Holders] /\ \A x \in Workspaces : holder[x] \in Applies => holder'[x] = holder[x]
    BY <1>1, <1>6 DEF ConfigTyped
  <2>9. UNCHANGED <<config, store, journal, applies, editor>>
    BY <1>2, <1>6
  <2> QED BY <2>1, <2>3, <2>5, <2>6, <2>7, <2>8, <2>9, Steady
<1>7. CASE Quit /\ UNCHANGED <<journal, holder>>
  BY <1>1, <1>2, <1>7, GivesUp DEF Quit, ConfigTyped, MarkersTyped
<1>8. CASE /\ MaySwitch(R, UndoBranch(R.kind))
           /\ Lock(act.ws)
           /\ Write(act.op, Switched(R, UndoBranch(R.kind)))
           /\ act' = [act EXCEPT !.at = "step", !.locked = TRUE]
  <2> DEFINE new == Switched(R, UndoBranch(R.kind))
  <2>1. Done(R, "credential_stage") /\ R.kind \in {"enrollment", "replacement"}
    BY <1>2 DEF IndInv, Working, Verifying, Staging
  <2>2. Undoable(R, UndoBranch(R.kind)) /\ config[R.ws] = R.orig
    BY <1>4, <1>5, <1>8, <2>1, MaySwitchIs DEF UndoBranch
  <2>3. /\ Good(act.op, new) /\ Keeps(R, new) /\ Fits(new) /\ new.phase = R.phase /\ new.branch # "primary"
        /\ \A d : Begun(new, d) <=> Begun(R, d)
    BY <1>4, <2>2, SwitchHolds DEF UndoBranch
  <2>4. Write(act.op, new)
    BY <1>8
  <2> HIDE DEF new
  <2>5. /\ act' \in Starter \cup Repairer /\ act'.at = "step"
        /\ act'.op = act.op /\ act'.ws = act.ws /\ act'.role = act.role /\ act'.locked = TRUE
    <3>1. act' = Locked(act, "step")
      BY <1>8 DEF Locked
    <3>2. act \in Starter \cup Repairer /\ "step" \in StarterPlaces \cap RepairerPlaces
      BY <1>3 DEF StarterPlaces, RepairerPlaces
    <3> QED BY <3>1, <3>2, LockedGoes
  <2>6. /\ holder' \in [Workspaces -> Holders] /\ holder'[act.ws] = Saga
        /\ \A x \in Workspaces : holder[x] \in Applies => holder'[x] = holder[x]
    BY <1>1, <1>4, <1>8, LockIs
  <2>7. R' = new
    BY <1>1, <1>4, <2>3, <2>4, <2>5, JournalIs DEF IndInv, R
  <2>8. Owning'
    <3>1. Unresolved(act.op)'
      BY <1>5, <2>3, <2>5, <2>7, RecordIs DEF Unresolved, Exists, R, Good
    <3> QED BY <1>2, <1>5, <2>3, <2>5, <2>7, <3>1 DEF Owning
  <2>9. Starting' /\ Repairing' /\ Holding' /\ Staging' /\ Verifying' /\ Promoting' /\ Intending' /\ Replacing' /\ Performing'
    BY <2>3, <2>5, <2>6, <2>7 DEF Starting, Repairing, Holding, Staging, Verifying, Promoting, Intending, Replacing, Performing
  <2>10. act'.at \notin {"admitted", "reserve", "join", "create", "release", "unreserve"} /\ new.phase # "complete"
    BY <1>5, <2>3, <2>5
  <2>11. Working'
    BY <2>8, <2>9 DEF Working
  <2> QED BY <1>2, <1>3, <2>3, <2>4, <2>5, <2>6, <2>9, <2>10, <2>11, Rewrites
<1> QED BY <1>6, <1>7, <1>8 DEF Verify

\* What a repair under way keeps.
LEMMA RecoverStageKeeps ==
  ASSUME IndInv, RecoverStage, UNCHANGED <<applies, editor>>
  PROVE  IndInv'
<1>1. ConfigTyped /\ SagaTyped /\ MarkersTyped
  BY Parts
<1>2. /\ act.at = "maintain" /\ Unresolved(act.op) /\ pair = act.op
      /\ Intended(R, "credential_stage") /\ UNCHANGED <<config, store, pair, slot, temp>>
  BY DEF RecoverStage, Maintained
<1>3. act # Idle /\ act.at \notin {"admitted", "reserve", "join", "create"} /\ act \in Repairer
  BY <1>1, <1>2, ActIs DEF Idle
<1>4. act.op \in Ops /\ Good(act.op, R) /\ act.ws = R.ws /\ act.role = R.role /\ Fits(R) /\ act.ws \in Workspaces
  BY <1>2, <1>3, WorkerIs, WorkerFits
<1>5. holder[act.ws] = Saga
  BY <1>2 DEF IndInv, Repairing
<1>6. CASE Quit /\ Unlock(act.ws) /\ UNCHANGED journal
  BY <1>1, <1>2, <1>4, <1>5, <1>6, GivesUp, UnlockIs DEF Quit, MarkersTyped
<1>7. CASE /\ store[act.role].staged = R.eff["credential_stage"].post
           /\ Write(act.op, [With(R, "credential_stage", "verified") EXCEPT !.phase = "committed"])
           /\ UNCHANGED <<act, holder>>
  <2> DEFINE new == Mark(R, "credential_stage", "verified", "committed")
  <2>1. /\ Follows(act.op, R, new) /\ new.phase = "committed" /\ new.branch = R.branch
        /\ DOMAIN new.eff = DOMAIN R.eff /\ new.eff["credential_stage"].st = "verified"
        /\ \A d \in DOMAIN R.eff : d # "credential_stage" => new.eff[d] = R.eff[d]
    BY <1>2, <1>4, MarkedGood
  <2>2. Write(act.op, new)
    BY <1>7 DEF Mark
  <2> HIDE DEF new
  <2>3. Keeps(R, new) /\ Good(act.op, new)
    BY <2>1 DEF Follows
  <2>4. HoldsLeft(R, "credential_stage")
    <3>1. R.eff["credential_stage"].post = Left(R, "credential_stage")
      BY <1>2, <1>4, BegunIs DEF Intended
    <3> QED BY <1>4, <1>7, <3>1, StoresAre DEF HoldsLeft
  <2>5. Fits(new)
    BY <1>2, <1>4, <2>1, <2>3, <2>4, FitsMarked
  <2>6. /\ \A d : Begun(new, d) <=> Begun(R, d)
        /\ \A d : Done(R, d) => Done(new, d)
        /\ Done(new, "credential_stage")
    BY <1>2, <2>1 DEF Begun, Done, Intended
  <2>7. R' = new
    BY <1>1, <1>4, <1>7, <2>2, <2>3, JournalIs DEF IndInv, R
  <2>8. Repairing'
    BY <1>2, <1>5, <1>7, <2>1, <2>3, <2>6, <2>7 DEF IndInv, Repairing, Keeps
  <2>9. Starting' /\ Working'
    BY <1>2, <1>7 DEF Starting, Working, Owning, Holding, Staging, Verifying, Promoting, Intending, Replacing, Performing
  <2>10. act' \in {Idle} \cup Starter \cup Repairer
    BY <1>3, <1>7
  <2>11. holder' \in [Workspaces -> Holders] /\ \A x \in Workspaces : holder[x] \in Applies => holder'[x] = holder[x]
    BY <1>1, <1>7 DEF ConfigTyped
  <2>12. /\ act'.op = act.op /\ act'.ws = act.ws /\ act'.role = act.role /\ new.phase # "complete"
         /\ act'.at \notin {"admitted", "reserve", "join", "create", "release", "unreserve"}
    BY <1>2, <1>7, <2>1
  <2> QED BY <1>2, <1>3, <2>2, <2>3, <2>5, <2>6, <2>8, <2>9, <2>10, <2>11, <2>12, Rewrites
<1> QED BY <1>6, <1>7 DEF RecoverStage

\* A repair that undoes the operation.
LEMMA RecoverSwitchKeeps ==
  ASSUME IndInv, RecoverSwitch, UNCHANGED <<applies, editor>>
  PROVE  IndInv'
<1>1. ConfigTyped /\ SagaTyped /\ MarkersTyped
  BY Parts
<1>0. PICK branch : branch = IF act.action = "restore" THEN "restore" ELSE UndoBranch(R.kind)
  OBVIOUS
<1>2. /\ act.at = "maintain" /\ Unresolved(act.op) /\ pair = act.op
      /\ R.branch = "primary" /\ act.action \in {"restore", "leave"}
      /\ UNCHANGED <<config, store, pair, slot, temp>>
      /\ \/ MaySwitch(R, branch) /\ Write(act.op, Switched(R, branch)) /\ UNCHANGED <<act, holder>>
         \/ Quit /\ Unlock(act.ws) /\ UNCHANGED journal
  BY <1>0 DEF RecoverSwitch, Maintained
<1>3. act # Idle /\ act.at \notin {"admitted", "reserve", "join", "create"} /\ act \in Repairer
  BY <1>1, <1>2, ActIs DEF Idle
<1>4. /\ act.op \in Ops /\ Good(act.op, R) /\ act.ws = R.ws /\ act.role = R.role /\ Fits(R) /\ act.ws \in Workspaces
      /\ R.phase # "complete"
  BY <1>2, <1>3, WorkerIs, WorkerFits
<1>5. holder[act.ws] = Saga /\ R.phase # "repair_required"
  BY <1>2 DEF IndInv, Repairing
<1>6. CASE Quit /\ Unlock(act.ws) /\ UNCHANGED journal
  BY <1>1, <1>2, <1>4, <1>5, <1>6, GivesUp, UnlockIs DEF Quit, MarkersTyped
<1>7. CASE MaySwitch(R, branch) /\ Write(act.op, Switched(R, branch)) /\ UNCHANGED <<act, holder>>
  <2> DEFINE new == Switched(R, branch)
  <2>1. /\ act.action = "restore" => R.kind = "replacement" /\ Done(R, "credential_promote")
        /\ act.action = "leave" => R.kind \in {"enrollment", "replacement"} /\ Done(R, "credential_stage")
    BY <1>2 DEF IndInv, Repairing
  <2>2. Done(R, "credential_stage")
    <3>1. Script(R) /\ Shaped(R)
      BY <1>4, Entries
    <3>2. R.kind \in {"enrollment", "replacement"} => Effect(R, "credential_stage")
      BY DEF Effect
    <3>3. Precedes(R, "credential_stage", "credential_promote")
      BY DEF Precedes
    <3>4. Done(R, "credential_promote") => Effect(R, "credential_promote") /\ Begun(R, "credential_promote")
      BY <1>4, Entries
    <3> QED BY <1>2, <2>1, <3>1, <3>2, <3>3, <3>4 DEF Script
  <2>3. \/ R.kind = "enrollment" /\ branch = "abandon"
        \/ R.kind = "replacement" /\ branch = "reject"
        \/ R.kind = "replacement" /\ branch = "restore" /\ Done(R, "credential_promote")
    BY <1>0, <1>2, <2>1 DEF UndoBranch
  <2>4. Undoable(R, branch) /\ config[R.ws] = R.orig
    BY <1>4, <1>7, <2>2, <2>3, MaySwitchIs
  <2>5. /\ Good(act.op, new) /\ Keeps(R, new) /\ Fits(new) /\ new.phase = R.phase /\ new.branch = branch
        /\ \A d : Begun(new, d) <=> Begun(R, d)
    BY <1>4, <2>4, SwitchHolds
  <2>6. branch # "primary" /\ Write(act.op, new)
    BY <1>7, <2>3
  <2> HIDE DEF new
  <2>7. R' = new
    BY <1>1, <1>4, <1>7, <2>5, <2>6, JournalIs DEF IndInv, R
  <2>8. Repairing'
    BY <1>2, <1>5, <1>7, <2>5, <2>6, <2>7 DEF Repairing
  <2>9. Starting' /\ Working'
    BY <1>2, <1>7 DEF Starting, Working, Owning, Holding, Staging, Verifying, Promoting, Intending, Replacing, Performing
  <2>10. act' \in {Idle} \cup Starter \cup Repairer
    BY <1>3, <1>7
  <2>11. holder' \in [Workspaces -> Holders] /\ \A x \in Workspaces : holder[x] \in Applies => holder'[x] = holder[x]
    BY <1>1, <1>7 DEF ConfigTyped
  <2>12. /\ act'.op = act.op /\ act'.ws = act.ws /\ act'.role = act.role /\ new.phase # "complete"
         /\ act'.at \notin {"admitted", "reserve", "join", "create", "release", "unreserve"}
    BY <1>2, <1>4, <1>7, <2>5
  <2> QED BY <1>2, <1>3, <2>5, <2>6, <2>8, <2>9, <2>10, <2>11, <2>12, Rewrites
<1> QED BY <1>2, <1>6, <1>7

\* The intent of the next effect, or the one that was intended before.
LEMMA IntendKeeps ==
  ASSUME IndInv, Intend, UNCHANGED <<applies, editor>>
  PROVE  IndInv'
<1>1. ConfigTyped /\ SagaTyped /\ MarkersTyped
  BY Parts
<1>0. PICK e : e = NextEffect(R)
  OBVIOUS
<1>2. /\ act.at = "step" /\ ~AllDone(R) /\ UNCHANGED <<config, store, pair, slot, temp>>
      /\ act.locked => e # "credential_stage"
  BY <1>0 DEF Intend
<1>3. /\ Busy /\ act # Idle /\ act.at \notin {"admitted", "reserve", "join", "create"} /\ Unresolved(act.op)
      /\ act \in Starter \cup Repairer
  BY <1>1, <1>2, WorkerOwns, ActIs DEF Busy
<1>4. /\ act.op \in Ops /\ Good(act.op, R) /\ act.ws = R.ws /\ act.role = R.role /\ Fits(R) /\ act.ws \in Workspaces
      /\ act.role \in Roles /\ Apart(act.op) /\ Shaped(R)
  BY <1>3, WorkerIs, WorkerFits, GoodIs
<1>5. R.phase \notin {"repair_required", "complete"} /\ pair = act.op
  BY <1>3, WorkerOwns
<1>6. act.locked => holder[act.ws] = Saga
  BY <1>2 DEF IndInv, Working, Holding
<1>7. CASE Quit /\ (IF act.locked THEN Unlock(act.ws) ELSE UNCHANGED holder) /\ UNCHANGED journal
  <2>1. holder' \in [Workspaces -> Holders] /\ \A x \in Workspaces : holder[x] \in Applies => holder'[x] = holder[x]
    <3>1. CASE act.locked
      BY <1>1, <1>4, <1>6, <1>7, <3>1, UnlockIs
    <3>2. CASE ~act.locked
      BY <1>1, <1>7, <3>2 DEF ConfigTyped
    <3> QED BY <3>1, <3>2
  <2> QED BY <1>1, <1>2, <1>7, <2>1, GivesUp DEF Quit, MarkersTyped
<1>8. ASSUME NEW where \in {"intended", "performed"}, act' = At(act, where)
      PROVE  /\ act' \in Starter \cup Repairer /\ act'.at = where
             /\ act'.op = act.op /\ act'.ws = act.ws /\ act'.role = act.role /\ act'.locked = act.locked
             /\ act \in Starter => act' \in Starter /\ act'.value = act.value
             /\ act'.at \notin {"admitted", "reserve", "join", "create", "release", "unreserve"}
             /\ Starting' /\ Repairing'
  <2>0. where \in StarterPlaces \cap RepairerPlaces
    BY DEF StarterPlaces, RepairerPlaces
  <2>1. /\ act' \in Starter \cup Repairer /\ act'.at = where
        /\ act'.op = act.op /\ act'.ws = act.ws /\ act'.role = act.role /\ act'.locked = act.locked
        /\ act \in Starter => act' \in Starter /\ act'.value = act.value
    BY <1>1, <1>3, <1>8, <2>0, WorkerGoes
  <2>2. Starting' /\ Repairing'
    BY <2>1 DEF Starting, Repairing
  <2>3. act'.at \notin {"admitted", "reserve", "join", "create", "release", "unreserve"}
    BY <2>1
  <2> QED BY <2>1, <2>2, <2>3
<1>9. CASE /\ Begun(R, e) /\ Intended(R, e) /\ Observe(R, StoreOf(e)) \in {R.eff[e].pre, R.eff[e].post}
           /\ UNCHANGED <<journal, holder>>
           /\ Goto(IF Begun(R, e) /\ Observe(R, StoreOf(e)) = R.eff[e].post THEN "performed" ELSE "intended")
  <2>1. PICK where \in {"intended", "performed"} :
           /\ where = "intended" <=> Observe(R, StoreOf(e)) # R.eff[e].post
           /\ act' = At(act, where)
    BY <1>9 DEF Goto, At
  <2>2. /\ act' \in Starter \cup Repairer /\ act'.at = where
        /\ act'.op = act.op /\ act'.ws = act.ws /\ act'.role = act.role /\ act'.locked = act.locked
        /\ act \in Starter => act' \in Starter /\ act'.value = act.value
        /\ Starting' /\ Repairing'
    BY <1>8, <2>1
  <2>3. R' = R
    BY <1>9, <2>2 DEF R
  <2>4. Alone'
    BY <1>3, <1>9, <2>2, <2>3 DEF IndInv, Alone, Unresolved, Exists
  <2>5. Owning' /\ Holding' /\ Staging' /\ Verifying' /\ Promoting' /\ Intending'
    BY <1>0, <1>2, <1>3, <1>5, <1>9, <2>2, <2>3 DEF IndInv, Working, Owning, Holding, Staging, Verifying, Promoting,
       Intending, Unresolved, Exists
  <2>6. R.eff[e].pre = Found(R, e) /\ R.eff[e].post = Left(R, e) /\ e \in Effects
    BY <1>4, <1>9, BegunIs
  <2>7. StoreOf(e) = "config" => R.eff[e].pre = R.orig /\ R.eff[e].post = R.cand
    BY <2>6, StoreIs, ScriptsAre
  <2>8. Replacing'
    <3>1. SUFFICES ASSUME where = "intended", StoreOf(e) = "config"
                   PROVE  config[act.ws] = R.orig
      BY <1>0, <1>2, <2>2, <2>3 DEF Replacing
    <3> QED BY <1>4, <1>9, <2>1, <2>7, <3>1 DEF Observe
  <2>9. Performing'
    <3>1. where = "performed" => Observe(R, StoreOf(e)) = R.eff[e].post
      BY <2>1
    <3>2. where = "performed" => IF StoreOf(e) = "config" THEN Same(config[act.ws], R.cand)
                                 ELSE Observe(R, StoreOf(e)) = Left(R, e)
      BY <1>4, <2>6, <2>7, <3>1, SameIs DEF Observe
    <3> QED BY <1>0, <1>2, <2>2, <2>3, <3>2 DEF Performing, Observe
  <2>10. MarkersTyped' /\ \A o \in Ops : Unresolved(o) => Marks(o)'
    BY <1>1, <1>2, <1>9, Parts DEF MarkersTyped, Marks
  <2>11. Working'
    BY <2>5, <2>8, <2>9 DEF Working
  <2>12. holder' \in [Workspaces -> Holders] /\ \A x \in Workspaces : holder[x] \in Applies => holder'[x] = holder[x]
    BY <1>1, <1>9 DEF ConfigTyped
  <2>13. UNCHANGED <<config, store, journal, applies, editor>>
    BY <1>2, <1>9
  <2> QED BY <2>2, <2>4, <2>10, <2>11, <2>12, <2>13, Steady
<1>10. CASE /\ ~Begun(R, e) /\ Observe(R, StoreOf(e)) = Pre(R, e)
            /\ Write(act.op, Begins(R, e)) /\ UNCHANGED holder
            /\ Goto("intended")
  <2> DEFINE new == Begins(R, e)
  <2>1. e = "credential_stage" => act.value = R.new
    <3>1. SUFFICES ASSUME e = "credential_stage"
                   PROVE  act.value = R.new
      OBVIOUS
    <3>2. ~act.locked
      BY <1>2, <3>1
    <3> QED BY <1>2, <3>2 DEF IndInv, Working, Staging
  <2>2. Pre(R, e) = Found(R, e) /\ Post(R, e) = Left(R, e)
    BY <1>0, <1>2, <1>4, <1>10, <2>1, FoundIs
  <2>3. /\ Follows(act.op, R, new) /\ new.phase = "effect_intent" /\ new.branch = R.branch
        /\ DOMAIN new.eff = DOMAIN R.eff \cup {e}
        /\ \A d \in DOMAIN R.eff : new.eff[d] = R.eff[d]
        /\ Intended(new, e) /\ ~AllDone(new) /\ NextEffect(new) = e
    BY <1>0, <1>2, <1>4, <1>5, <1>10, <2>2, BeginsGood
  <2>4. Write(act.op, new)
    BY <1>10
  <2> HIDE DEF new
  <2>5. Keeps(R, new) /\ Good(act.op, new)
    BY <2>3 DEF Follows
  <2>6. /\ \A d : Begun(new, d) <=> Begun(R, d) \/ d = e
        /\ \A d : Done(new, d) <=> Done(R, d)
    BY <1>10, <2>3 DEF Begun, Done, Intended
  <2>7. Fits(new)
    BY <1>4, <2>3, <2>5, <2>6, FitsCarried DEF Begun
  <2>8. e \in Effects /\ Effect(R, e) /\ \A d : Effect(R, d) /\ Precedes(R, d, e) => Done(R, d)
    BY <1>0, <1>2, <1>4, NextIs
  <2>9. act' = At(act, "intended")
    BY <1>10 DEF Goto, At
  <2>10. /\ act' \in Starter \cup Repairer /\ act'.at = "intended"
         /\ act'.op = act.op /\ act'.ws = act.ws /\ act'.role = act.role /\ act'.locked = act.locked
         /\ act \in Starter => act' \in Starter /\ act'.value = act.value
         /\ act'.at \notin {"admitted", "reserve", "join", "create", "release", "unreserve"}
         /\ Starting' /\ Repairing'
    BY <1>8, <2>9
  <2>11. R' = new
    BY <1>1, <1>4, <2>4, <2>5, <2>10, JournalIs DEF IndInv, R
  <2>12. ~act.locked => e = "credential_stage"
    BY <1>0, <1>1, <1>2, Unlocked DEF IndInv
  <2>13. e = "credential_promote" => \A p \in Roles \ {R.role} : R.new # store[p].active
    <3>1. SUFFICES ASSUME e = "credential_promote"
                   PROVE  \A p \in Roles \ {act.role} : R.new # store[p].active
      BY <1>4
    <3>2. act.locked
      BY <1>1, <1>3, <2>12, <3>1, ActIs
    <3>3. R.branch = "primary" /\ R.kind \in {"enrollment", "replacement"}
      <4>1. R.branch = "restore" => Begun(R, "credential_promote")
        BY <1>4, Entries DEF Script, Done
      <4> QED BY <1>4, <1>10, <2>8, <3>1, <4>1 DEF Effect
    <3>4. Done(R, "credential_stage") /\ ~Begun(R, "staging_cleanup") /\ ~Begun(R, "staged_delete")
      <4>1. Effect(R, "credential_stage") /\ Precedes(R, "credential_stage", "credential_promote")
        BY <3>3 DEF Effect, Precedes
      <4>2. ~Effect(R, "staged_delete")
        BY <3>3 DEF Effect
      <4>3. Effect(R, "staging_cleanup") /\ Precedes(R, "credential_promote", "staging_cleanup")
        BY <3>3 DEF Effect, Precedes
      <4>4. ~Done(R, "credential_promote")
        BY <1>10, <3>1 DEF Done
      <4>5. ~Begun(R, "staging_cleanup")
        BY <1>4, <2>8, <3>1, <4>3, <4>4, Entries DEF Script
      <4> QED BY <1>4, <2>8, <3>1, <4>1, <4>2, <4>5, Entries
    <3>5. store[act.role].staged = R.new
      BY <1>4, <3>4 DEF Fits, StagedFits
    <3>6. R.new \in Secrets
      BY <1>4, <3>3 DEF Good, WellFormed
    <3> QED BY <1>2, <3>2, <3>3, <3>5, <3>6, SecretsAssumption DEF IndInv, Working, Promoting
  <2>14. Begun(new, "credential_promote") => Begun(R, "credential_promote")
            \/ \A p \in Roles \ {R.role} : R.new # store[p].active
    BY <2>6, <2>13
  <2>15. R.new = new.new /\ R.kind = new.kind /\ R.orig = new.orig
    BY <2>5 DEF Keeps
  <2>16. Owning'
    <3>1. Unresolved(act.op)'
      BY <2>3, <2>5, <2>10, <2>11, RecordIs DEF Unresolved, Exists, R, Good
    <3> QED BY <1>2, <1>5, <2>3, <2>10, <2>11, <3>1 DEF Owning
  <2>17. Holding' /\ Verifying' /\ Performing'
    BY <1>2, <1>10, <2>10 DEF IndInv, Working, Holding, Verifying, Performing
  <2>18. Staging' /\ Promoting'
    BY <1>2, <2>3, <2>6, <2>10, <2>11, <2>15 DEF IndInv, Working, Staging, Promoting
  <2>19. Intending'
    BY <1>2, <2>3, <2>10, <2>11 DEF Intending
  <2>20. Replacing'
    <3>1. StoreOf(e) = "config" => Pre(R, e) = R.orig
      BY <2>2, <2>8, StoreIs, ScriptsAre
    <3>2. StoreOf(e) = "config" => config[act.ws] = R.orig
      BY <1>4, <1>10, <3>1 DEF Observe
    <3> QED BY <1>2, <2>3, <2>10, <2>11, <2>15, <3>2 DEF Replacing
  <2>21. Working'
    BY <2>16, <2>17, <2>18, <2>19, <2>20 DEF Working
  <2>22. holder' \in [Workspaces -> Holders] /\ \A x \in Workspaces : holder[x] \in Applies => holder'[x] = holder[x]
    BY <1>1, <1>10 DEF ConfigTyped
  <2>23. new.phase # "complete"
    BY <2>3
  <2> QED BY <1>2, <1>3, <2>4, <2>5, <2>7, <2>10, <2>14, <2>21, <2>22, <2>23, Rewrites
<1> QED BY <1>0, <1>2, <1>7, <1>9, <1>10 DEF Intend

\* The first record of an operation.
LEMMA FirstGood ==
  ASSUME NEW op, NEW w \in Workspaces, NEW r \in Roles, NEW kind \in Kinds, NEW before \in Config, NEW after \in Config,
         NEW was \in Values, NEW new \in Values,
         after.revision = [before.revision EXCEPT ![r] = op], before.revision[r] # op,
         after.source = [before.source EXCEPT ![r] = IF kind \in {"forget", "detach"} THEN "none" ELSE "managed"],
         kind = "enrollment" => was = Absent /\ new \in Secrets,
         kind = "replacement" => was \in Secrets /\ new \in Secrets,
         kind = "forget" => new = Absent,
         kind = "detach" => new = was
  PROVE  /\ Good(op, Record(w, r, kind, before, after, was, new))
         /\ Record(w, r, kind, before, after, was, new).ws = w
         /\ Record(w, r, kind, before, after, was, new).role = r
         /\ Record(w, r, kind, before, after, was, new).kind = kind
         /\ Record(w, r, kind, before, after, was, new).branch = "primary"
         /\ Record(w, r, kind, before, after, was, new).phase = "prepare"
         /\ Record(w, r, kind, before, after, was, new).orig = before
         /\ Record(w, r, kind, before, after, was, new).cand = after
         /\ Record(w, r, kind, before, after, was, new).was = was
         /\ Record(w, r, kind, before, after, was, new).new = new
         /\ \A e : ~Begun(Record(w, r, kind, before, after, was, new), e)
<1> DEFINE rec == Record(w, r, kind, before, after, was, new)
<1>1. /\ rec.ws = w /\ rec.role = r /\ rec.kind = kind /\ rec.branch = "primary" /\ rec.phase = "prepare"
      /\ rec.orig = before /\ rec.cand = after /\ rec.was = was /\ rec.new = new /\ DOMAIN rec.eff = {}
  BY DEF Record
<1>2. rec = [ws |-> rec.ws, role |-> rec.role, kind |-> rec.kind, branch |-> rec.branch,
             phase |-> rec.phase, eff |-> rec.eff, orig |-> rec.orig, cand |-> rec.cand,
             was |-> rec.was, new |-> rec.new]
  BY DEF Record
<1> HIDE DEF rec
<1>3. IsRecord(rec)
  BY <1>1, <1>2 DEF IsRecord
<1>4. Shaped(rec)
  BY <1>1 DEF Shaped, Kinds
<1>5. rec.branch \in Branches(rec.kind)
  BY <1>1, <1>4, BranchesAre
<1>6. WellFormed(op, rec)
  BY <1>1, <1>5 DEF WellFormed, Kinds
<1>7. \A e : ~Begun(rec, e)
  BY <1>1 DEF Begun
<1>8. Script(rec)
  BY <1>1, <1>7 DEF Script
<1>9. Good(op, rec)
  BY <1>3, <1>6, <1>8, GoodIs
<1> QED BY <1>1, <1>7, <1>9 DEF rec

\* A configuration with another source and revision of a role.
Sourced(c, r, s, op) == [c EXCEPT !.source[r] = s, !.revision[r] = op]

\* The configuration that an operation asks for.
LEMMA CandidateIs ==
  ASSUME NEW c \in Config, NEW r \in Roles, NEW s \in Sources, NEW op \in Ops
  PROVE  /\ Sourced(c, r, s, op) \in Config
         /\ Sourced(c, r, s, op).source = [c.source EXCEPT ![r] = s]
         /\ Sourced(c, r, s, op).revision = [c.revision EXCEPT ![r] = op]
<1>1. c.source \in [Roles -> Sources] /\ c.revision \in [Roles -> 0 .. MaxOp] /\ c.zone \in Zones \cup {HandZone}
  BY DEF Config
<1>2. op \in 0 .. MaxOp
  BY ConfigAssumption DEF Ops
<1>3. [c.source EXCEPT ![r] = s] \in [Roles -> Sources] /\ [c.revision EXCEPT ![r] = op] \in [Roles -> 0 .. MaxOp]
  BY <1>1, <1>2
<1>4. [c EXCEPT !.source[r] = s, !.revision[r] = op]
        = [source |-> [c.source EXCEPT ![r] = s], revision |-> [c.revision EXCEPT ![r] = op], zone |-> c.zone]
  <2>1. c = [source |-> c.source, revision |-> c.revision, zone |-> c.zone]
    BY DEF Config
  <2>2. [c EXCEPT !.source[r] = s, !.revision[r] = op].source = [c.source EXCEPT ![r] = s]
    BY DEF Config
  <2>3. [c EXCEPT !.source[r] = s, !.revision[r] = op].revision = [c.revision EXCEPT ![r] = op]
    BY DEF Config
  <2>4. [c EXCEPT !.source[r] = s, !.revision[r] = op].zone = c.zone
    BY DEF Config
  <2>5. PICK d : d = [c EXCEPT !.source[r] = s, !.revision[r] = op]
    OBVIOUS
  <2>6. d = [source |-> d.source, revision |-> d.revision, zone |-> d.zone]
    BY <2>1, <2>5, Zenon
  <2> QED BY <2>2, <2>3, <2>4, <2>5, <2>6
<1>5. Sourced(c, r, s, op)
        = [source |-> [c.source EXCEPT ![r] = s], revision |-> [c.revision EXCEPT ![r] = op], zone |-> c.zone]
  BY <1>4 DEF Sourced
<1> QED BY <1>1, <1>3, <1>5 DEF Config

\* A record without effects fits the stores as they are.
LEMMA FirstFits ==
  ASSUME NEW rec, \A e : ~Begun(rec, e), store[rec.role].staged = Absent, store[rec.role].backup = Absent,
         store[rec.role].active = rec.was, Same(config[rec.ws], rec.orig)
  PROVE  Fits(rec)
<1>1. \A e : ~Done(rec, e)
  BY DEF Done
<1>2. DOMAIN rec.eff = {}
  BY DEF Begun
<1> QED BY <1>1, <1>2 DEF Fits, StagedFits, BackupFits, ActiveFits, ConfigFits

\* The operation has a record.
LEMMA CreateRecordKeeps ==
  ASSUME IndInv, CreateRecord, UNCHANGED <<config, applies, editor>>
  PROVE  IndInv'
<1>1. ConfigTyped /\ SagaTyped /\ MarkersTyped
  BY Parts
<1>2. /\ act.at = "create" /\ UNCHANGED <<store, pair, slot, temp>> /\ Unlock(act.ws)
      /\ Goto(IF act.kind \in {"forget", "detach"} THEN "continue" ELSE "step")
      /\ Write(act.op, Record(act.ws, act.role, act.kind, act.gen, Candidate(act),
                              store[act.role].active, Wanted(act)))
  BY DEF CreateRecord
<1>3. act \in Starter /\ act # Idle /\ \A o \in Ops : ~Unresolved(o)
  BY <1>1, <1>2, ActIs, BeforeRecord DEF IndInv, Idle
<1>4. /\ act.op \in Ops /\ act.ws \in Workspaces /\ act.role \in Roles /\ act.gen \in Config /\ act.value \in Secrets
      /\ act.want \in Wants /\ journal[act.op] = NoRecord
  BY <1>2, <1>3 DEF Starter, IndInv, Alone
<1>5. /\ ~act.locked /\ holder[act.ws] = Saga /\ Same(config[act.ws], act.gen)
      /\ \A p \in Roles \ {act.role} : slot[p] = NoMarker
      /\ slot[act.role] = [op |-> act.op, schema |-> 2]
      /\ pair = act.op /\ act.kind = KindOf(act)
      /\ act.kind \in {"enrollment", "replacement"} => \A p \in Roles \ {act.role} : act.value # store[p].active
  BY <1>2 DEF IndInv, Starting
<1>6. PICK op \in Ops : op = act.op
  BY <1>4
<1>7. PICK w \in Workspaces, r \in Roles, kind \in Kinds : w = act.ws /\ r = act.role /\ kind = act.kind
  <2>1. act.kind \in Kinds
    BY <1>4, <1>5 DEF KindOf, Kinds, Wants
  <2> QED BY <1>4, <2>1
<1>8. store[r].active \in Values /\ Wanted(act) \in Values
  <2>1. \A q \in Roles : store[q].active \in Values
    BY <1>1 DEF SagaTyped, Slots
  <2>2. Wanted(act) \in {Absent, store[r].active, act.value}
    BY <1>7 DEF Wanted
  <2> QED BY <1>4, <2>1, <2>2 DEF Values
<1>9. /\ kind = "enrollment" => store[r].active = Absent /\ Wanted(act) = act.value
      /\ kind = "replacement" => store[r].active \in Secrets /\ Wanted(act) = act.value
      /\ kind = "forget" => Wanted(act) = Absent
      /\ kind = "detach" => Wanted(act) = store[r].active
      /\ kind \in {"forget", "detach"} <=> act.want \in {"forget", "detach"}
  <2>1. /\ act.want \in {"forget", "detach"} => kind = act.want
        /\ act.want \notin {"forget", "detach"} =>
              kind = IF store[r].active = Absent THEN "enrollment" ELSE "replacement"
    BY <1>5, <1>7 DEF KindOf
  <2>2. /\ kind = "forget" => Wanted(act) = Absent
        /\ kind = "detach" => Wanted(act) = store[r].active
        /\ kind \in {"enrollment", "replacement"} => Wanted(act) = act.value
    BY <1>7 DEF Wanted
  <2> QED BY <1>8, <2>1, <2>2 DEF Values
<1>10. PICK after : after = Candidate(act)
  OBVIOUS
<1>11. /\ after \in Config
       /\ after.source = [config[w].source EXCEPT ![r] = IF kind \in {"forget", "detach"} THEN "none" ELSE "managed"]
       /\ after.revision = [config[w].revision EXCEPT ![r] = op]
  <2>1. PICK s \in Sources : s = IF act.want \in {"forget", "detach"} THEN "none" ELSE "managed"
    BY DEF Sources
  <2>2. after = [config[w] EXCEPT !.source[r] = s, !.revision[r] = op]
    BY <1>6, <1>7, <1>10, <2>1 DEF Candidate
  <2>3. PICK c \in Config : c = config[w]
    BY <1>1 DEF ConfigTyped
  <2>4. after = Sourced(c, r, s, op)
    BY <2>2, <2>3 DEF Sourced
  <2>5. after \in Config /\ after.source = [c.source EXCEPT ![r] = s] /\ after.revision = [c.revision EXCEPT ![r] = op]
    BY <2>4, CandidateIs
  <2>6. s = IF kind \in {"forget", "detach"} THEN "none" ELSE "managed"
    BY <1>9, <2>1
  <2> QED BY <2>3, <2>5, <2>6
<1>12. PICK before \in Config : before = act.gen
  BY <1>4
<1>13. Same(config[w], before) /\ config[w].source = before.source /\ config[w].revision = before.revision
  BY <1>5, <1>7, <1>12 DEF Same
<1>14. before.revision[r] # op
  BY <1>4, <1>6, <1>13 DEF IndInv, RevisionsAreKnown
<1>15. PICK was \in Values, new \in Values : was = store[r].active /\ new = Wanted(act)
  BY <1>8
<1>16. PICK rec : rec = Record(w, r, kind, before, after, was, new)
  OBVIOUS
<1>17. /\ Good(op, rec) /\ rec.ws = w /\ rec.role = r /\ rec.kind = kind /\ rec.branch = "primary"
       /\ rec.phase = "prepare" /\ rec.orig = before /\ rec.cand = after /\ rec.was = was /\ rec.new = new
       /\ \A e : ~Begun(rec, e)
  <2>1. after.revision = [before.revision EXCEPT ![r] = op]
    BY <1>11, <1>13
  <2>2. after.source = [before.source EXCEPT ![r] = IF kind \in {"forget", "detach"} THEN "none" ELSE "managed"]
    BY <1>11, <1>13
  <2>3. /\ kind = "enrollment" => was = Absent /\ new \in Secrets
        /\ kind = "replacement" => was \in Secrets /\ new \in Secrets
        /\ kind = "forget" => new = Absent
        /\ kind = "detach" => new = was
    BY <1>4, <1>9, <1>15
  <2>4. after \in Config
    BY <1>11
  <2>5. Good(op, Record(w, r, kind, before, after, was, new))
    BY ZenonT(40), <1>14, <2>1, <2>2, <2>3, <2>4, FirstGood
  <2>6. /\ rec.ws = w /\ rec.role = r /\ rec.kind = kind /\ rec.branch = "primary" /\ rec.phase = "prepare"
        /\ rec.orig = before /\ rec.cand = after /\ rec.was = was /\ rec.new = new /\ DOMAIN rec.eff = {}
    BY <1>16 DEF Record
  <2>7. \A e : ~Begun(rec, e)
    BY <2>6 DEF Begun
  <2> QED BY <1>16, <2>5, <2>6, <2>7
<1>18. Write(op, rec)
  BY <1>2, <1>6, <1>7, <1>10, <1>12, <1>15, <1>16
<1>19. /\ journal'[op] = rec /\ \A o \in Ops \ {op} : journal'[o] = journal[o]
       /\ journal' = [o \in Ops |-> journal'[o]]
       /\ Exists(op)' /\ Unresolved(op)'
       /\ \A o \in Ops \ {op} : (Exists(o)' <=> Exists(o)) /\ (Unresolved(o)' <=> Unresolved(o))
       /\ \A o \in Ops : Exists(o)' => Good(o, journal'[o])
  BY <1>1, <1>17, <1>18, JournalIs DEF IndInv
<1>20. /\ holder' \in [Workspaces -> Holders]
       /\ \A x \in Workspaces : holder[x] \in Applies => holder'[x] = holder[x]
  BY <1>1, <1>2, <1>4, <1>5, UnlockIs
<1>21. ConfigTyped' /\ Editing'
  BY <1>1, <1>20, EditsStay DEF IndInv
<1>22. PICK where \in {"continue", "step"} :
          /\ where = "step" <=> kind \in {"enrollment", "replacement"}
          /\ act' = At(act, where)
  BY <1>2, <1>7 DEF Goto, At, Kinds
<1>23. /\ act' \in Starter /\ act'.at = where /\ act'.op = op /\ act'.ws = w /\ act'.role = r
       /\ act'.value = act.value /\ ~act'.locked
  BY <1>3, <1>5, <1>6, <1>7, <1>22, StarterGoes DEF StarterPlaces
<1>24. TypeOK'
  <2>1. \A o \in Ops : Exists(o)' => IsRecord(journal'[o])
    BY <1>19 DEF Good
  <2>2. SagaTyped'
    BY <1>1, <1>2, <1>19, <1>23, <2>1 DEF SagaTyped
  <2> QED BY <1>21, <2>2, TypeIsLater
<1>25. RecordsHold'
  BY <1>19 DEF RecordsHold, Good
<1>26. RevisionsAreKnown' /\ OneUnresolved' /\ PurposesApart'
  <2>1. \A o \in Ops : journal'[o] = NoRecord => journal[o] = NoRecord
    BY <1>19 DEF Exists
  <2>2. RevisionsAreKnown'
    BY <2>1 DEF IndInv, RevisionsAreKnown
  <2>3. OneUnresolved'
    BY <1>3, <1>19 DEF OneUnresolved
  <2> QED BY <1>2, <2>2, <2>3 DEF IndInv, PurposesApart
<1>27. \A x, q : Forgotten(x, q) => Forgotten(x, q)'
  <2>1. \A o \in Ops : Exists(o) => Exists(o)' /\ journal'[o] = journal[o]
    BY <1>4, <1>6, <1>19 DEF Exists
  <2> QED BY <2>1 DEF Forgotten
<1>28. /\ store[r].staged = Absent /\ store[r].backup = Absent
       /\ \A x \in Workspaces : config[x].source[r] = "managed" /\ store[r].active = Absent => Forgotten(x, r)
  BY <1>3 DEF IndInv, AtRest
<1>29. Tracked'
  <2>1. Marks(op)'
    BY <1>2, <1>5, <1>6, <1>7, <1>17, <1>19 DEF Marks
  <2>2. Fits(rec)
    BY <1>13, <1>15, <1>17, <1>28, FirstFits
  <2>3. Slotted(rec) /\ Configured(rec)
    BY <1>17, <2>2, FitsIs
  <2>4. Slotted(journal[op])' /\ Configured(journal[op])'
    BY <1>2, <1>19, <2>3 DEF Slotted, Configured
  <2>5. Apart(op)'
    <3>1. \A p \in Roles \ {r} : was # Absent => was # store[p].active
      BY <1>15 DEF IndInv, PurposesApart
    <3> QED BY <1>2, <1>17, <1>19, <3>1 DEF Apart
  <2>6. Selects(op)'
    <3>1. \A x \in Workspaces : (IF x = w THEN before ELSE config[x]).source[r] = "managed" /\ was = Absent
             => Forgotten(x, r)
      BY <1>13, <1>15, <1>28
    <3> QED BY <1>17, <1>19, <1>27, <3>1 DEF Selects
  <2>7. \A o \in Ops : Unresolved(o)' => o = op
    BY <1>3, <1>19
  <2> QED BY <2>1, <2>4, <2>5, <2>6, <2>7, TrackedIsLater
<1>30. AtRest'
  <2>1. ASSUME NEW q \in Roles, \A o \in Ops : ~(Unresolved(o)' /\ journal'[o].role = q)
        PROVE  /\ store'[q].staged = Absent /\ store'[q].backup = Absent
               /\ \A x \in Workspaces :
                     config'[x].source[q] = "managed" /\ store'[q].active = Absent => Forgotten(x, q)'
    BY <1>2, <1>3, <1>27 DEF IndInv, AtRest
  <2> QED BY <2>1 DEF AtRest
<1>31. Alone'
  BY <1>3, <1>17, <1>19, <1>22, <1>23 DEF Alone, R
<1>32. Starting' /\ Repairing'
  BY <1>22, <1>23 DEF Starting, Repairing
<1>33. Working'
  <2>1. R' = rec
    BY <1>19, <1>23 DEF R
  <2>2. Owning'
    BY <1>2, <1>5, <1>6, <1>17, <1>19, <1>23, <2>1 DEF Owning
  <2>3. Staging'
    <3>1. SUFFICES ASSUME where = "step"
                   PROVE  /\ act' \in Starter /\ act'.value = rec.new
                          /\ rec.branch = "primary" /\ rec.kind \in {"enrollment", "replacement"}
                          /\ ~Done(rec, "credential_stage")
      BY <1>22, <1>23, <2>1 DEF Staging
    <3> QED BY <1>9, <1>15, <1>17, <1>22, <1>23, <3>1 DEF Done
  <2>4. Holding' /\ Verifying' /\ Promoting' /\ Intending' /\ Replacing' /\ Performing'
    BY <1>22, <1>23 DEF Holding, Verifying, Promoting, Intending, Replacing, Performing
  <2> QED BY <2>2, <2>3, <2>4 DEF Working
<1> QED BY <1>21, <1>24, <1>25, <1>26, <1>29, <1>30, <1>31, <1>32, <1>33 DEF IndInv

-----------------------------------------------------------------------------
(* The effects themselves, and the end of an operation.                    *)

\* What an effect leaves in a slot fits its record, and no other slot is touched.
LEMMA LeftFits ==
  ASSUME NEW op, NEW rec, Good(op, rec), NEW e, Intended(rec, e), NEW v, v = Left(rec, e)
  PROVE  /\ StoreOf(e) = "staged" => StagedFits(rec, v)
         /\ StoreOf(e) = "backup" => BackupFits(rec, v)
         /\ StoreOf(e) = "active" => ActiveFits(rec, v)
         /\ StoreOf(e) = "config" => ConfigFits(rec, v) /\ v = rec.cand
<1>1. e \in Effects /\ Begun(rec, e) /\ ~Done(rec, e)
  BY Entries DEF Intended, Done, Begun
<1>2. CASE StoreOf(e) = "staged"
  <2>1. e \in {"credential_stage", "staged_delete", "staging_cleanup"}
    BY <1>1, <1>2, StoreIs
  <2>2. /\ e = "credential_stage" => v = rec.new
        /\ e # "credential_stage" => v = Absent
    BY <2>1, ScriptsAre
  <2>3. \A d : Done(rec, d) => Begun(rec, d)
    BY DEF Done
  <2> QED BY <1>1, <1>2, <2>1, <2>2, <2>3, InTurn DEF StagedFits
<1>3. CASE StoreOf(e) = "backup"
  <2>1. e \in {"credential_backup", "backup_delete"}
    BY <1>1, <1>3, StoreIs
  <2>2. /\ e = "credential_backup" => v = rec.was
        /\ e # "credential_backup" => v = Absent
    BY <2>1, ScriptsAre
  <2>3. \A d : Done(rec, d) => Begun(rec, d)
    BY DEF Done
  <2> QED BY <1>1, <1>3, <2>1, <2>2, <2>3, InTurn DEF BackupFits
<1>4. CASE StoreOf(e) = "active"
  <2>1. e \in {"credential_promote", "credential_restore", "credential_delete"}
    BY <1>1, <1>4, StoreIs
  <2>2. /\ e = "credential_promote" => v = rec.new
        /\ e = "credential_restore" => v = rec.was
        /\ e = "credential_delete" => v = Absent
    BY ScriptsAre
  <2>3. \A d : Done(rec, d) => Begun(rec, d)
    BY DEF Done
  <2> QED BY <1>1, <1>4, <2>1, <2>2, <2>3, InTurn DEF ActiveFits
<1>5. CASE StoreOf(e) = "config"
  <2>1. e \in {"config_commit", "config_detach"}
    BY <1>1, <1>5, StoreIs
  <2>2. v = rec.cand /\ Same(v, rec.cand)
    BY <2>1, ScriptsAre, SameIs
  <2>3. ASSUME NEW d \in DOMAIN rec.eff, rec.eff[d].st = "not_applied"
        PROVE  FALSE
    <3>1. d = "config_commit" /\ Begun(rec, d)
      BY <2>3, Entries DEF Script, Begun
    <3>2. e = "config_detach"
      BY <2>1, <2>3, <3>1 DEF Intended
    <3> QED BY <1>1, <3>1, <3>2, InTurn
  <2> QED BY <1>1, <1>5, <2>1, <2>2, <2>3 DEF ConfigFits
<1> QED BY <1>1, <1>2, <1>3, <1>4, <1>5, StoreIs

\* An effect is performed: the invariant's parts that look at neither the stores nor the
\* configuration.
LEMMA PerformMoves ==
  ASSUME IndInv, Perform, UNCHANGED <<applies, editor>>
  PROVE  /\ UNCHANGED <<journal, pair, slot, temp, holder, applies, editor>>
         /\ act.op \in Ops /\ Good(act.op, R) /\ IsRecord(R) /\ act.ws = R.ws /\ act.role = R.role
         /\ act.ws \in Workspaces /\ act.role \in Roles /\ Fits(R)
         /\ Marks(act.op) /\ Apart(act.op) /\ Selects(act.op) /\ Unresolved(act.op)
         /\ \A o \in Ops \ {act.op} : ~Unresolved(o)
         /\ Intended(R, NextEffect(R)) /\ NextEffect(R) \in Effects
         /\ R.eff[NextEffect(R)].post = Left(R, NextEffect(R))
         /\ act.locked => NextEffect(R) # "credential_stage"
         /\ ~act.locked => StoreOf(NextEffect(R)) = "staged"
         /\ R' = R
         /\ act' \in Starter \cup Repairer /\ act'.at = "performed" /\ act'.op = act.op /\ act'.ws = act.ws
         /\ act'.role = act.role /\ act'.locked = act.locked
         /\ RecordsHold' /\ OneUnresolved' /\ Alone' /\ Starting' /\ Repairing'
         /\ Owning' /\ Holding' /\ Staging' /\ Verifying' /\ Intending' /\ Replacing'
<1>1. ConfigTyped /\ SagaTyped /\ MarkersTyped
  BY Parts
<1>2. act.at = "intended" /\ UNCHANGED <<journal, pair, slot, temp, holder, applies, editor>>
  BY DEF Perform
<1>3. /\ Busy /\ act # Idle /\ act.at \notin {"admitted", "reserve", "join", "create"} /\ Unresolved(act.op)
      /\ act \in Starter \cup Repairer /\ act.locked \in BOOLEAN
  BY <1>1, <1>2, WorkerOwns, ActIs DEF Busy
<1>4. /\ act.op \in Ops /\ Good(act.op, R) /\ IsRecord(R) /\ act.ws = R.ws /\ act.role = R.role
      /\ act.ws \in Workspaces /\ act.role \in Roles /\ Fits(R)
      /\ Marks(act.op) /\ Apart(act.op) /\ Selects(act.op)
      /\ \A o \in Ops \ {act.op} : ~Unresolved(o)
  BY <1>3, WorkerIs, WorkerFits
<1>5. /\ Intended(R, NextEffect(R)) /\ ~AllDone(R) /\ (act.locked => NextEffect(R) # "credential_stage")
  BY <1>2 DEF IndInv, Working, Intending
<1>6. NextEffect(R) \in Effects /\ R.eff[NextEffect(R)].post = Left(R, NextEffect(R))
  BY <1>4, <1>5, BegunIs DEF Intended
<1>7. ~act.locked => StoreOf(NextEffect(R)) = "staged"
  BY <1>1, <1>2, Unlocked DEF IndInv
<1>8. act' = At(act, "performed")
  BY DEF Perform, Goto, At
<1>9. /\ act' \in Starter \cup Repairer /\ act'.at = "performed" /\ act'.op = act.op /\ act'.ws = act.ws
      /\ act'.role = act.role /\ act'.locked = act.locked
      /\ act \in Starter => act' \in Starter /\ act'.value = act.value
  <2>1. "performed" \in StarterPlaces \cap RepairerPlaces
    BY DEF StarterPlaces, RepairerPlaces
  <2> QED BY <1>1, <1>3, <1>8, <2>1, WorkerGoes
<1>10. R' = R
  BY <1>2, <1>9 DEF R
<1>11. RecordsHold' /\ OneUnresolved'
  BY <1>2 DEF IndInv, RecordsHold, OneUnresolved, Unresolved, Exists
<1>12. Alone'
  <2>1. \A o \in Ops : (Unresolved(o)' <=> Unresolved(o)) /\ (Exists(o)' <=> Exists(o))
    BY <1>2 DEF Unresolved, Exists
  <2>2. Exists(act.op)
    BY <1>3 DEF Unresolved
  <2> QED BY <1>4, <1>9, <1>10, <2>1, <2>2 DEF Alone
<1>13. Starting' /\ Repairing'
  BY <1>9 DEF Starting, Repairing
<1>14. Owning'
  <2>1. Unresolved(act.op)'
    BY <1>2, <1>3, <1>9 DEF Unresolved, Exists
  <2> QED BY <1>2, <1>3, <1>9, <1>10, <2>1, WorkerOwns DEF Owning
<1>15. Holding' /\ Verifying' /\ Replacing'
  BY <1>2, <1>9 DEF IndInv, Working, Holding, Verifying, Replacing
<1>16. Staging' /\ Intending'
  BY <1>2, <1>5, <1>9, <1>10 DEF IndInv, Working, Staging, Intending
<1> QED BY <1>2, <1>3, <1>4, <1>5, <1>6, <1>7, <1>9, <1>10, <1>11, <1>12, <1>13, <1>14, <1>15, <1>16

\* The configuration takes the candidate.
LEMMA PerformConfig ==
  ASSUME IndInv, Perform, UNCHANGED <<applies, editor>>, StoreOf(NextEffect(R)) = "config"
  PROVE  IndInv'
<1>1. ConfigTyped /\ SagaTyped /\ MarkersTyped
  BY Parts
<1>2. PICK e \in Effects : e = NextEffect(R)
  BY PerformMoves
<1>3. PICK op \in Ops, w \in Workspaces, r \in Roles : op = act.op /\ w = act.ws /\ r = act.role
  BY PerformMoves
<1>4. PICK rec : rec = R
  OBVIOUS
<1>5. /\ UNCHANGED <<journal, pair, slot, temp, holder, applies, editor>>
      /\ Good(op, rec) /\ IsRecord(rec) /\ w = rec.ws /\ r = rec.role /\ Fits(rec)
      /\ Marks(op) /\ Apart(op) /\ Selects(op) /\ Unresolved(op)
      /\ \A o \in Ops \ {op} : ~Unresolved(o)
      /\ Intended(rec, e) /\ rec.eff[e].post = Left(rec, e)
      /\ act' \in Starter \cup Repairer /\ act'.at = "performed" /\ act'.op = act.op /\ act'.ws = act.ws
      /\ act'.role = act.role /\ act'.locked = act.locked
      /\ R' = rec /\ journal[op] = rec
  BY <1>2, <1>3, <1>4, PerformMoves DEF R
<1>6. act.locked
  <2>1. act.locked \in BOOLEAN
    BY <1>1, ActIs DEF Perform, Idle
  <2> QED BY <2>1, PerformMoves
<1>7. holder[w] = Saga
  BY <1>3, <1>6 DEF Perform, IndInv, Working, Holding
<1>8. config' = [config EXCEPT ![w] = rec.cand] /\ UNCHANGED store
  BY <1>3, <1>4 DEF Perform
<1>9. rec.cand \in Config /\ rec.orig \in Config
  BY <1>5 DEF IsRecord
<1>10. config'[w] = rec.cand /\ \A x \in Workspaces \ {w} : config'[x] = config[x]
  BY <1>1, <1>8 DEF ConfigTyped
<1>11. ConfigTyped'
  BY <1>1, <1>5, <1>8, <1>9 DEF ConfigTyped, ApplyTyped
<1>12. Editing'
  <2>1. ASSUME NEW b \in Applies
        PROVE  EditingOf(b)'
    <3>1. \A x \in Workspaces : holder[x] = b => holder'[x] = b /\ Seen(x)
      BY <1>5, <1>7, <1>10, SagaIs, SameIs DEF Seen
    <3> QED BY <1>1, <1>5, <3>1, OtherEdits DEF IndInv
  <2> QED BY <2>1 DEF Editing, EditingOf
<1>13. TypeOK'
  <2>1. SagaTyped'
    BY <1>1, <1>5, <1>8 DEF SagaTyped, Exists
  <2> QED BY <1>11, <2>1, TypeIsLater
<1>14. Same(config[w], rec.orig) \/ Same(config[w], rec.cand)
  BY <1>5 DEF Fits, ConfigFits
<1>15. /\ rec.cand.revision = [rec.orig.revision EXCEPT ![r] = op]
       /\ \A q \in Roles \ {r} : rec.cand.source[q] = rec.orig.source[q]
  BY <1>5, <1>9 DEF Good, WellFormed, Config
<1>16. RevisionsAreKnown'
  <2>1. ASSUME NEW o \in Ops, NEW x \in Workspaces, NEW q \in Roles, journal[o] = NoRecord
        PROVE  config'[x].revision[q] # o
    <3>1. CASE x # w
      BY <1>10, <2>1, <3>1 DEF IndInv, RevisionsAreKnown
    <3>2. CASE x = w /\ q = r
      <4>1. config'[x].revision[q] = op
        BY <1>9, <1>10, <1>15, <3>2 DEF Config
      <4>2. journal[op] # NoRecord
        BY <1>5 DEF Unresolved, Exists
      <4> QED BY <2>1, <4>1, <4>2
    <3>3. CASE x = w /\ q # r
      <4>1. config'[x].revision[q] = rec.orig.revision[q] /\ rec.cand.revision[q] = rec.orig.revision[q]
        BY <1>9, <1>10, <1>15, <3>3 DEF Config
      <4>2. config[w].revision[q] = rec.orig.revision[q]
        BY <1>14, <4>1 DEF Same
      <4> QED BY <2>1, <4>1, <4>2 DEF IndInv, RevisionsAreKnown
    <3> QED BY <3>1, <3>2, <3>3
  <2> QED BY <1>5, <2>1 DEF RevisionsAreKnown
<1>17. PurposesApart'
  BY <1>8 DEF IndInv, PurposesApart
<1>18. Tracked'
  <2>1. Fits(rec)'
    <3>1. ConfigFits(rec, rec.cand)
      <4>1. rec.cand = Left(rec, e)
        BY <1>2, <1>4, StoreIs, ScriptsAre
      <4> QED BY <1>2, <1>4, <1>5, <4>1, LeftFits
    <3>2. /\ StagedFits(rec, store'[rec.role].staged) /\ BackupFits(rec, store'[rec.role].backup)
          /\ ActiveFits(rec, store'[rec.role].active) /\ ConfigFits(rec, config'[rec.ws])
      BY <1>5, <1>8, <1>10, <3>1 DEF Fits
    <3> QED BY <3>2 DEF Fits
  <2>2. Slotted(rec)' /\ Configured(rec)'
    BY <1>5, <2>1, FitsIsLater
  <2>3. Slotted(journal[op])' /\ Configured(journal[op])'
    BY <1>5, <2>2 DEF Slotted, Configured
  <2>4. Marks(op)' /\ Apart(op)'
    BY <1>5, <1>8 DEF Marks, Apart
  <2>5. Selects(op)'
    BY <1>5, <1>10 DEF Selects, Forgotten, Exists
  <2>6. \A o \in Ops : Unresolved(o)' => o = op
    BY <1>5 DEF Unresolved, Exists
  <2> QED BY <2>3, <2>4, <2>5, <2>6, TrackedIsLater
<1>19. AtRest'
  <2>1. ASSUME NEW q \in Roles, \A o \in Ops : ~(Unresolved(o)' /\ journal'[o].role = q)
        PROVE  /\ store'[q].staged = Absent /\ store'[q].backup = Absent
               /\ \A x \in Workspaces :
                     config'[x].source[q] = "managed" /\ store'[q].active = Absent => Forgotten(x, q)'
    <3>1. \A o \in Ops : ~(Unresolved(o) /\ journal[o].role = q)
      BY <1>5, <2>1 DEF Unresolved, Exists
    <3>2. q # r
      BY <1>5, <3>1
    <3>3. config'[w].source[q] = config[w].source[q]
      BY <1>10, <1>14, <1>15, <3>2 DEF Same
    <3>4. \A x \in Workspaces : config'[x].source[q] = config[x].source[q]
      BY <1>10, <3>3
    <3>5. \A x : Forgotten(x, q) => Forgotten(x, q)'
      BY <1>5 DEF Forgotten, Exists
    <3> QED BY <1>8, <3>1, <3>4, <3>5 DEF IndInv, AtRest
  <2> QED BY <2>1 DEF AtRest
<1>20. Working'
  <2>1. Performing'
    <3>1. Same(config'[act'.ws], R'.cand) /\ StoreOf(NextEffect(R')) = "config"
      BY ZenonT(40), <1>3, <1>4, <1>5, <1>10, SameIs
    <3> QED BY <3>1 DEF Performing
  <2>2. Promoting'
    BY <1>4, <1>5, <1>8 DEF Perform, IndInv, Working, Promoting
  <2> QED BY <2>1, <2>2, PerformMoves DEF Working
<1> QED BY <1>12, <1>13, <1>16, <1>17, <1>18, <1>19, <1>20, PerformMoves DEF IndInv

\* A slot takes what the effect leaves.
LEMMA PerformSlot ==
  ASSUME IndInv, Perform, UNCHANGED <<applies, editor>>, StoreOf(NextEffect(R)) # "config"
  PROVE  IndInv'
<1>1. ConfigTyped /\ SagaTyped /\ MarkersTyped
  BY Parts
<1>2. PICK e \in Effects : e = NextEffect(R)
  BY PerformMoves
<1>3. PICK op \in Ops, w \in Workspaces, r \in Roles : op = act.op /\ w = act.ws /\ r = act.role
  BY PerformMoves
<1>4. PICK rec : rec = R
  OBVIOUS
<1>5. /\ UNCHANGED <<journal, pair, slot, temp, holder, applies, editor>>
      /\ Good(op, rec) /\ IsRecord(rec) /\ w = rec.ws /\ r = rec.role /\ Fits(rec)
      /\ Marks(op) /\ Apart(op) /\ Selects(op) /\ Unresolved(op)
      /\ \A o \in Ops \ {op} : ~Unresolved(o)
      /\ Intended(rec, e) /\ rec.eff[e].post = Left(rec, e)
      /\ act' \in Starter \cup Repairer /\ act'.at = "performed" /\ act'.op = act.op /\ act'.ws = act.ws
      /\ act'.role = act.role /\ act'.locked = act.locked
      /\ R' = rec /\ journal[op] = rec
  BY <1>2, <1>3, <1>4, PerformMoves DEF R
<1>6. PICK s \in Slots : s = StoreOf(e)
  BY <1>2, StoreIs DEF Slots
<1>7. PICK v \in Values : v = Left(rec, e)
  <2>1. e \notin {"config_commit", "config_detach"}
    BY <1>2, StoresAre
  <2>2. Left(rec, e) \in {rec.was, rec.new, Absent}
    BY <2>1, ScriptsAre DEF Effects
  <2> QED BY <1>5, <2>2 DEF IsRecord, Values
<1>8. store' = [store EXCEPT ![r][s] = v] /\ UNCHANGED config
  BY <1>2, <1>3, <1>4, <1>5, <1>6, <1>7 DEF Perform
<1>9. /\ store'[r][s] = v /\ \A z \in Slots \ {s} : store'[r][z] = store[r][z]
      /\ \A q \in Roles \ {r} : store'[q] = store[q]
      /\ store' \in [Roles -> [Slots -> Values]]
  BY <1>1, <1>8 DEF SagaTyped
<1>10. ConfigTyped' /\ Editing'
  BY <1>1, <1>5, <1>8, EditsStay DEF IndInv, ConfigTyped
<1>11. TypeOK'
  <2>1. SagaTyped'
    BY <1>1, <1>5, <1>9 DEF SagaTyped, Exists
  <2> QED BY <1>10, <2>1, TypeIsLater
<1>12. RevisionsAreKnown'
  BY <1>5, <1>8 DEF IndInv, RevisionsAreKnown
<1>13. s = "active" /\ v # Absent => \A p \in Roles \ {r} : v # store[p].active
  <2>1. SUFFICES ASSUME s = "active", v # Absent, NEW p \in Roles \ {r}
                 PROVE  v # store[p].active
    OBVIOUS
  <2>2. e \in {"credential_promote", "credential_restore", "credential_delete"}
    BY <1>6, <2>1, StoreIs
  <2>3. /\ e = "credential_promote" => v = rec.new /\ Begun(rec, "credential_promote")
        /\ e = "credential_restore" => v = rec.was
        /\ e = "credential_delete" => v = Absent
    BY <1>5, <1>7, ScriptsAre DEF Intended
  <2>4. /\ rec.was # Absent => rec.was # store[p].active
        /\ Begun(rec, "credential_promote") => rec.new # store[p].active
    BY <1>5, <2>1 DEF Apart
  <2> QED BY <2>1, <2>2, <2>3, <2>4
<1>14. PurposesApart'
  <2>1. ASSUME NEW q \in Roles, NEW p \in Roles, q # p, store'[q].active # Absent
        PROVE  store'[q].active # store'[p].active
    <3>1. CASE s # "active"
      <4>1. \A z \in Roles : store'[z].active = store[z].active
        BY <1>9, <3>1 DEF Slots
      <4> QED BY <2>1, <4>1 DEF IndInv, PurposesApart
    <3>2. CASE s = "active" /\ q = r
      BY <1>9, <1>13, <2>1, <3>2
    <3>3. CASE s = "active" /\ p = r
      BY <1>9, <1>13, <2>1, <3>3
    <3>4. CASE s = "active" /\ q # r /\ p # r
      BY <1>9, <2>1, <3>4 DEF IndInv, PurposesApart
    <3> QED BY <3>1, <3>2, <3>3, <3>4
  <2> QED BY <2>1 DEF PurposesApart
<1>15. Tracked'
  <2>1. Fits(rec)'
    <3>1. /\ s = "staged" => StagedFits(rec, v)
          /\ s = "backup" => BackupFits(rec, v)
          /\ s = "active" => ActiveFits(rec, v)
      BY <1>5, <1>6, <1>7, LeftFits
    <3>2. StagedFits(rec, store'[rec.role].staged)
      BY <1>5, <1>9, <3>1 DEF Fits, Slots
    <3>3. BackupFits(rec, store'[rec.role].backup)
      BY <1>5, <1>9, <3>1 DEF Fits, Slots
    <3>4. ActiveFits(rec, store'[rec.role].active)
      BY <1>5, <1>9, <3>1 DEF Fits, Slots
    <3>5. ConfigFits(rec, config'[rec.ws])
      BY <1>5, <1>8 DEF Fits
    <3> QED BY <3>2, <3>3, <3>4, <3>5 DEF Fits
  <2>2. Slotted(rec)' /\ Configured(rec)'
    BY <1>5, <2>1, FitsIsLater
  <2>3. Slotted(journal[op])' /\ Configured(journal[op])'
    BY <1>5, <2>2 DEF Slotted, Configured
  <2>4. Marks(op)' /\ Apart(op)'
    BY <1>5, <1>9 DEF Marks, Apart
  <2>5. Selects(op)'
    BY <1>5, <1>8 DEF Selects, Forgotten, Exists
  <2>6. \A o \in Ops : Unresolved(o)' => o = op
    BY <1>5 DEF Unresolved, Exists
  <2> QED BY <2>3, <2>4, <2>5, <2>6, TrackedIsLater
<1>16. AtRest'
  <2>1. ASSUME NEW q \in Roles, \A o \in Ops : ~(Unresolved(o)' /\ journal'[o].role = q)
        PROVE  /\ store'[q].staged = Absent /\ store'[q].backup = Absent
               /\ \A x \in Workspaces :
                     config'[x].source[q] = "managed" /\ store'[q].active = Absent => Forgotten(x, q)'
    <3>1. \A o \in Ops : ~(Unresolved(o) /\ journal[o].role = q)
      BY <1>5, <2>1 DEF Unresolved, Exists
    <3>2. store'[q] = store[q]
      BY <1>5, <1>9, <3>1
    <3>3. \A x : Forgotten(x, q) => Forgotten(x, q)'
      BY <1>5 DEF Forgotten, Exists
    <3> QED BY <1>8, <3>1, <3>2, <3>3 DEF IndInv, AtRest
  <2> QED BY <2>1 DEF AtRest
<1>17. Working'
  <2>1. Performing'
    <3>1. store'[R'.role][StoreOf(NextEffect(R'))] = Left(R', NextEffect(R')) /\ StoreOf(NextEffect(R')) # "config"
      BY <1>2, <1>4, <1>5, <1>6, <1>7, <1>9
    <3> QED BY <3>1 DEF Performing, Observe
  <2>2. Promoting'
    <3>1. SUFFICES ASSUME act.locked, rec.branch = "primary", rec.kind \in {"enrollment", "replacement"},
                          store'[r].staged # Absent
                   PROVE  \A p \in Roles \ {r} : rec.new # store'[p].active
      BY <1>3, <1>5 DEF Promoting
    <3>2. store[r].staged # Absent
      <4>1. CASE s = "staged"
        <5>1. e \in {"staged_delete", "staging_cleanup"}
          BY <1>2, <1>6, <3>1, <4>1, StoreIs, PerformMoves
        <5>2. v = Absent
          BY <1>7, <5>1, ScriptsAre
        <5> QED BY <1>9, <3>1, <4>1, <5>2
      <4>2. CASE s # "staged"
        BY <1>9, <3>1, <4>2 DEF Slots
      <4> QED BY <4>1, <4>2
    <3>3. \A p \in Roles \ {r} : rec.new # store[p].active
      BY <1>3, <1>4, <3>1, <3>2 DEF Perform, IndInv, Working, Promoting
    <3> QED BY <1>9, <3>3
  <2> QED BY <2>1, <2>2, PerformMoves DEF Working
<1> QED BY <1>10, <1>11, <1>12, <1>14, <1>15, <1>16, <1>17, PerformMoves DEF IndInv

\* An effect is performed.
LEMMA PerformKeeps ==
  ASSUME IndInv, Perform, UNCHANGED <<applies, editor>>
  PROVE  IndInv'
BY PerformConfig, PerformSlot

\* With every effect done the stores are as they were but for the active slot, which holds
\* what was asked for, or what the branch has kept.
LEMMA Settled ==
  ASSUME NEW op, NEW rec, Good(op, rec), AllDone(rec), Fits(rec), rec.role \in Roles
  PROVE  /\ store[rec.role].staged = Absent /\ store[rec.role].backup = Absent
         /\ rec.branch = "primary" => store[rec.role].active = rec.new
         /\ rec.branch # "primary" => store[rec.role].active = rec.was
         /\ rec.branch = "primary" => Same(config[rec.ws], rec.cand)
         /\ rec.branch # "primary" => Same(config[rec.ws], rec.orig)
<1>1. /\ Shaped(rec) /\ Script(rec)
      /\ \A e : Begun(rec, e) => Effect(rec, e) \/ e = "config_commit"
      /\ \A e : Effect(rec, e) => Done(rec, e)
      /\ \A e : Done(rec, e) => Begun(rec, e) /\ Effect(rec, e)
  BY Entries, Ordered
<1>2. store[rec.role].staged = Absent
  <2>1. CASE rec.kind \in {"enrollment", "replacement"}
    <3>1. Done(rec, "staging_cleanup") \/ Done(rec, "staged_delete")
      BY <1>1, <2>1 DEF Effect, Shaped
    <3> QED BY <3>1 DEF Fits, StagedFits
  <2>2. CASE rec.kind \in {"forget", "detach"}
    <3>1. ~Begun(rec, "credential_stage")
      BY <1>1, <2>2 DEF Effect
    <3> QED BY <3>1 DEF Fits, StagedFits
  <2> QED BY <1>1, <2>1, <2>2 DEF Shaped
<1>3. store[rec.role].backup = Absent
  <2>1. Done(rec, "backup_delete") \/ ~Begun(rec, "credential_backup")
    BY <1>1 DEF Effect
  <2> QED BY <2>1 DEF Fits, BackupFits
<1>4. CASE rec.branch = "primary"
  <2>1. store[rec.role].active = rec.new
    <3>1. CASE rec.kind \in {"enrollment", "replacement"}
      <4>1. Done(rec, "credential_promote") /\ ~Begun(rec, "credential_restore")
        BY <1>1, <1>4, <3>1 DEF Effect
      <4> QED BY <4>1 DEF Fits, ActiveFits
    <3>2. CASE rec.kind = "forget"
      <4>1. Done(rec, "credential_delete") /\ rec.new = Absent
        BY <1>1, <3>2 DEF Effect, Good, WellFormed
      <4> QED BY <4>1 DEF Fits, ActiveFits
    <3>3. CASE rec.kind = "detach"
      <4>1. ~Begun(rec, "credential_promote") /\ ~Begun(rec, "credential_delete") /\ rec.new = rec.was
        BY <1>1, <3>3 DEF Effect, Good, WellFormed
      <4> QED BY <4>1 DEF Fits, ActiveFits
    <3> QED BY <1>1, <3>1, <3>2, <3>3 DEF Shaped
  <2>2. Same(config[rec.ws], rec.cand)
    <3>1. Done(rec, "config_commit") \/ Done(rec, "config_detach")
      BY <1>1, <1>4 DEF Effect, Shaped
    <3> QED BY <3>1 DEF Fits, ConfigFits
  <2> QED BY <1>2, <1>3, <1>4, <2>1, <2>2
<1>5. CASE rec.branch # "primary"
  <2>1. store[rec.role].active = rec.was
    <3>1. Done(rec, "credential_restore") \/ (~Begun(rec, "credential_promote") /\ ~Begun(rec, "credential_delete"))
      BY <1>1, <1>5 DEF Effect, Shaped
    <3> QED BY <3>1 DEF Fits, ActiveFits
  <2>2. Same(config[rec.ws], rec.orig)
    <3>1. ~Begun(rec, "config_detach") /\ ~Effect(rec, "config_commit")
      BY <1>1, <1>5 DEF Effect, Shaped
    <3>2. Begun(rec, "config_commit") => rec.eff["config_commit"].st = "not_applied"
      BY <1>1, <3>1 DEF Script, Begun
    <3> QED BY <3>1, <3>2 DEF Fits, ConfigFits, Begun
  <2> QED BY <1>2, <1>3, <1>5, <2>1, <2>2
<1> QED BY <1>4, <1>5

\* The operation is complete.
LEMMA CompleteKeeps ==
  ASSUME IndInv, Complete, UNCHANGED <<applies, editor>>
  PROVE  IndInv'
<1>1. ConfigTyped /\ SagaTyped /\ MarkersTyped
  BY Parts
<1>2. act.at = "step" /\ AllDone(R) /\ Unlock(act.ws) /\ UNCHANGED <<config, store, pair, slot, temp>>
  BY DEF Complete
<1>3. /\ Busy /\ act # Idle /\ act.at \notin {"admitted", "reserve", "join", "create"} /\ Unresolved(act.op)
      /\ act \in Starter \cup Repairer /\ act.locked \in BOOLEAN
      /\ R.phase \notin {"repair_required", "complete"}
  BY <1>1, <1>2, WorkerOwns, ActIs DEF Busy
<1>4. PICK op \in Ops, w \in Workspaces, r \in Roles, rec \in {R} : op = act.op /\ w = act.ws /\ r = act.role
  BY <1>3, WorkerIs
<1>5. /\ Good(op, rec) /\ IsRecord(rec) /\ w = rec.ws /\ r = rec.role /\ Fits(rec) /\ journal[op] = rec
      /\ Selects(op) /\ Unresolved(op)
      /\ \A o \in Ops \ {op} : ~Unresolved(o)
  BY <1>3, <1>4, WorkerIs, WorkerFits DEF R
<1>6. holder[w] = Saga
  <2>1. act.locked
    BY <1>1, <1>2, <1>3, Unlocked DEF IndInv
  <2> QED BY <1>2, <1>4, <2>1 DEF IndInv, Working, Holding
<1>7. /\ holder' \in [Workspaces -> Holders]
      /\ \A x \in Workspaces : holder[x] \in Applies => holder'[x] = holder[x]
  BY <1>1, <1>2, <1>4, <1>6, UnlockIs
<1>8. CASE Quit /\ UNCHANGED journal
  <2>1. act' = Idle /\ temp' \in BOOLEAN
    BY <1>1, <1>2, <1>8 DEF Quit, MarkersTyped
  <2> QED BY <1>2, <1>7, <1>8, <2>1, GivesUp
<1>9. CASE Write(act.op, [R EXCEPT !.phase = "complete"]) /\ Goto("release")
  <2>1. PICK new : new = InPhase(rec, "complete")
    OBVIOUS
  <2>2. Follows(op, rec, new) /\ new.phase = "complete"
    BY <1>2, <1>3, <1>4, <1>5, <2>1, CompletedGood
  <2>3. Write(op, new)
    BY <1>4, <1>9, <2>1 DEF InPhase
  <2>4. Good(op, new) /\ Keeps(rec, new)
    BY <2>2 DEF Follows
  <2>5. /\ journal'[op] = new /\ \A o \in Ops \ {op} : journal'[o] = journal[o]
        /\ journal' = [o \in Ops |-> journal'[o]]
        /\ Exists(op)' /\ ~Unresolved(op)'
        /\ \A o \in Ops \ {op} : (Exists(o)' <=> Exists(o)) /\ (Unresolved(o)' <=> Unresolved(o))
        /\ \A o \in Ops : Exists(o)' => Good(o, journal'[o])
    BY <1>1, <2>2, <2>3, <2>4, JournalIs DEF IndInv
  <2>6. \A o \in Ops : ~Unresolved(o)'
    BY <1>5, <2>5
  <2>7. ConfigTyped' /\ Editing'
    BY <1>1, <1>2, <1>7, EditsStay DEF IndInv
  <2>8. /\ act' \in Starter \cup Repairer /\ act'.at = "release" /\ act'.op = op /\ act'.ws = w /\ act'.role = r
    <3>1. "release" \in StarterPlaces \cap RepairerPlaces
      BY DEF StarterPlaces, RepairerPlaces
    <3>2. act' = At(act, "release")
      BY <1>9 DEF Goto, At
    <3> QED BY <1>1, <1>3, <1>4, <3>1, <3>2, WorkerGoes
  <2>9. TypeOK'
    <3>1. \A o \in Ops : Exists(o)' => IsRecord(journal'[o])
      BY <2>5 DEF Good
    <3>2. SagaTyped'
      BY <1>1, <1>2, <2>5, <2>8, <3>1 DEF SagaTyped
    <3> QED BY <2>7, <3>2, TypeIsLater
  <2>10. RecordsHold'
    BY <2>5 DEF RecordsHold, Good
  <2>11. RevisionsAreKnown' /\ OneUnresolved' /\ PurposesApart'
    <3>1. \A o \in Ops : journal'[o] = NoRecord => journal[o] = NoRecord
      BY <1>5, <2>5 DEF Exists, Unresolved
    <3>2. RevisionsAreKnown'
      BY <1>2, <3>1 DEF IndInv, RevisionsAreKnown
    <3>3. OneUnresolved'
      BY <2>6 DEF OneUnresolved
    <3> QED BY <1>2, <3>2, <3>3 DEF IndInv, PurposesApart
  <2>12. Tracked'
    BY <2>6, TrackedIsLater
  <2>13. \A x, q : Forgotten(x, q) => Forgotten(x, q)'
    <3>1. \A o \in Ops : Exists(o) => /\ Exists(o)' /\ journal'[o].role = journal[o].role
                                      /\ journal'[o].kind = journal[o].kind /\ journal'[o].ws = journal[o].ws
      BY <1>5, <2>4, <2>5 DEF Keeps
    <3> QED BY <3>1 DEF Forgotten
  <2>14. AtRest'
    <3>1. ASSUME NEW q \in Roles
          PROVE  /\ store'[q].staged = Absent /\ store'[q].backup = Absent
                 /\ \A x \in Workspaces :
                       config'[x].source[q] = "managed" /\ store'[q].active = Absent => Forgotten(x, q)'
      <4>1. CASE q # r
        <5>1. \A o \in Ops : ~(Unresolved(o) /\ journal[o].role = q)
          BY <1>5, <4>1
        <5> QED BY <1>2, <2>13, <5>1 DEF IndInv, AtRest
      <4>2. CASE q = r
        <5>1. /\ store[r].staged = Absent /\ store[r].backup = Absent
              /\ rec.branch = "primary" => store[r].active = rec.new
              /\ rec.branch # "primary" => store[r].active = rec.was
              /\ rec.branch = "primary" => Same(config[w], rec.cand)
              /\ rec.branch # "primary" => Same(config[w], rec.orig)
          BY <1>2, <1>4, <1>5, Settled
        <5>2. ASSUME NEW x \in Workspaces, config[x].source[r] = "managed", store[r].active = Absent
              PROVE  Forgotten(x, r)'
          <6>1. WellFormed(op, rec) /\ Shaped(rec) /\ rec.cand.source = [rec.orig.source EXCEPT
                   ![r] = IF rec.kind \in {"forget", "detach"} THEN "none" ELSE "managed"]
            BY <1>5, GoodIs DEF Good, WellFormed
          <6>2. rec.orig.source \in [Roles -> Sources]
            BY <1>5 DEF IsRecord, Config
          <6>3. rec.kind \in {"forget", "detach"} => x # w
            <7>1. rec.kind \in {"forget", "detach"} => rec.cand.source[r] = "none" /\ rec.branch = "primary"
              BY <6>1, <6>2 DEF Shaped
            <7> QED BY <5>1, <5>2, <7>1 DEF Same
          <6>4. CASE rec.kind = "forget"
            BY <1>5, <2>4, <2>5, <6>3, <6>4 DEF Forgotten, Keeps
          <6>5. CASE rec.kind # "forget"
            <7>1. rec.was = Absent
              <8>1. rec.was # Absent => rec.new # Absent
                BY <6>1, <6>5, SecretsAssumption DEF WellFormed, Shaped
              <8>2. store[r].active \in {rec.was, rec.new}
                BY <5>1
              <8>3. rec.new = Absent => rec.was = Absent
                BY <6>1, <6>5, SecretsAssumption DEF WellFormed, Shaped
              <8> QED BY <5>2, <8>2, <8>3
            <7>2. (IF x = w THEN rec.orig ELSE config[x]).source[r] = "managed"
              <8>1. x = w => rec.branch # "primary"
                <9>1. CASE rec.kind = "detach"
                  BY <6>3, <9>1
                <9>2. CASE rec.kind \in {"enrollment", "replacement"}
                  <10>1. rec.new \in Secrets
                    BY <6>1, <9>2 DEF WellFormed
                  <10> QED BY <5>1, <5>2, <10>1, SecretsAssumption
                <9> QED BY <6>1, <6>5, <9>1, <9>2 DEF Shaped
              <8> QED BY <5>1, <5>2, <8>1 DEF Same
            <7>3. Forgotten(x, r)
              BY <1>5, <7>1, <7>2 DEF Selects
            <7> QED BY <2>13, <7>3
          <6> QED BY <6>4, <6>5
        <5> QED BY <1>2, <4>2, <5>1, <5>2
      <4> QED BY <4>1, <4>2
    <3> QED BY <3>1 DEF AtRest
  <2>15. Alone'
    <3>1. R' = new
      BY <2>5, <2>8 DEF R
    <3>2. Resolved(op)'
      BY <2>2, <2>5 DEF Resolved, Terminal
    <3> QED BY <1>5, <2>4, <2>5, <2>6, <2>8, <3>1, <3>2 DEF Alone, Keeps
  <2>16. Starting' /\ Working' /\ Repairing'
    BY <2>8 DEF Starting, Repairing, Working, Owning, Holding, Staging, Verifying, Promoting, Intending,
                Replacing, Performing
  <2> QED BY <2>7, <2>9, <2>10, <2>11, <2>12, <2>14, <2>15, <2>16 DEF IndInv
<1> QED BY <1>8, <1>9 DEF Complete

-----------------------------------------------------------------------------
(* The invariant and what it says of slots and repairs.                    *)

\* Nobody is at work at the start.
LEMMA IdleAtFirst ==
  ASSUME act = Idle
  PROVE  Alone /\ Starting /\ Working /\ Repairing
<1>1. act.at = "idle"
  BY DEF Idle
<1>2. Alone /\ Starting /\ Repairing
  BY <1>1 DEF Alone, Starting, Repairing
<1>3. Working
  BY <1>1 DEF Working, Owning, Holding, Staging, Verifying, Promoting, Intending, Replacing, Performing
<1> QED BY <1>2, <1>3

\* What an earlier program or an earlier time has left, but for the operations.
LEMMA FirstParts ==
  ASSUME SagaInit
  PROVE  /\ ConfigTyped /\ Editing /\ RevisionsAreKnown /\ PurposesApart
         /\ store \in [Roles -> [Slots -> Values]]
         /\ \A r \in Roles : store[r].backup = Absent
         /\ \A w \in Workspaces, r \in Roles : config[w].source[r] = "managed" => store[r].active # Absent
         /\ \A w \in Workspaces, r \in Roles : config[w].revision[r] = 0
<1>1. /\ config \in [Workspaces -> Config]
      /\ \A w \in Workspaces, r \in Roles : config[w].revision[r] = 0
  BY DEF SagaInit, ConfigInit
<1>2. holder \in [Workspaces -> Holders]
  <2>1. Free \in Holders /\ Other \in Holders
    BY ConfigAssumption DEF Holders, Free, Other
  <2> QED BY <2>1 DEF SagaInit, ConfigInit
<1>3. applies \in [Applies -> {NoApply, Past}] /\ editor = [a \in Applies |-> "out"]
  BY DEF SagaInit, ConfigInit
<1>4. ConfigTyped
  BY <1>1, <1>2, <1>3 DEF ConfigTyped, ApplyTyped, Places
<1>5. Editing
  BY <1>3, ApplyIs DEF Editing
<1>6. RevisionsAreKnown
  BY <1>1 DEF RevisionsAreKnown, Ops
<1>7. store \in [Roles -> [active : Values, staged : Values, backup : {Absent}]]
  BY DEF SagaInit, Values
<1>8. store \in [Roles -> [Slots -> Values]] /\ \A r \in Roles : store[r].backup = Absent
  <2>1. ASSUME NEW r \in Roles
        PROVE  store[r] \in [Slots -> Values] /\ store[r].backup = Absent
    <3>1. store[r] \in [active : Values, staged : Values, backup : {Absent}]
      BY <1>7
    <3>2. store[r] = [s \in Slots |-> store[r][s]]
      BY <3>1 DEF Slots
    <3>3. \A s \in Slots : store[r][s] \in Values
      BY <3>1 DEF Slots, Values
    <3> QED BY <3>1, <3>2, <3>3
  <2> QED BY <1>7, <2>1
<1>9. PurposesApart
  <2>1. \A r \in Roles : store[r].active # Absent => store[r].active # store[Peer(r)].active
    BY DEF SagaInit
  <2> QED BY <2>1, PeerIs DEF PurposesApart
<1>10. \A w \in Workspaces, r \in Roles : config[w].source[r] = "managed" => store[r].active # Absent
  BY DEF SagaInit
<1> QED BY <1>1, <1>4, <1>5, <1>6, <1>8, <1>9, <1>10

\* The operation of an earlier release has staged its secret and no more.
LEMMA StagedGood ==
  ASSUME ConfigTyped, NEW w \in Workspaces, NEW r \in Roles, NEW v \in Secrets, config[w].revision[r] = 0
  PROVE  /\ Good(1, Staged(w, r, v))
         /\ Staged(w, r, v).ws = w /\ Staged(w, r, v).role = r /\ Staged(w, r, v).phase = "committed"
         /\ Staged(w, r, v).orig = config[w]
         /\ Staged(w, r, v).was = Absent /\ Staged(w, r, v).new = v
         /\ Done(Staged(w, r, v), "credential_stage")
         /\ \A e : Begun(Staged(w, r, v), e) <=> e = "credential_stage"
<1>1. PICK c \in Config : c = config[w]
  BY DEF ConfigTyped
<1>2. 1 \in Ops /\ 1 \in 0 .. MaxOp
  BY ConfigAssumption DEF Ops
<1>3. PICK d : d = Sourced(c, r, "managed", 1)
  OBVIOUS
<1>4. d \in Config /\ d.source = [c.source EXCEPT ![r] = "managed"] /\ d.revision = [c.revision EXCEPT ![r] = 1]
  <2>1. PICK s \in Sources, op \in Ops : s = "managed" /\ op = 1
    BY <1>2 DEF Sources
  <2>2. d = Sourced(c, r, s, op)
    BY <1>3, <2>1
  <2> QED BY <2>1, <2>2, CandidateIs
<1>5. PICK f : f = [credential_stage |-> [st |-> "verified", pre |-> Absent, post |-> v]]
  OBVIOUS
<1>6. PICK rec : rec = Staged(w, r, v)
  OBVIOUS
<1>7. rec = [ws |-> w, role |-> r, kind |-> "enrollment", branch |-> "primary", phase |-> "committed",
             eff |-> f, orig |-> c, cand |-> d, was |-> Absent, new |-> v]
  <2>1. rec = [Record(w, r, "enrollment", c, d, Absent, v) EXCEPT !.phase = "committed", !.eff = f]
    BY <1>1, <1>3, <1>5, <1>6 DEF Staged, Sourced
  <2> QED BY <2>1 DEF Record
<1>8. /\ DOMAIN f = {"credential_stage"} /\ f["credential_stage"].st = "verified"
      /\ f["credential_stage"].pre = Absent /\ f["credential_stage"].post = v
      /\ f["credential_stage"] \in Entry
  BY <1>5 DEF Entry, Values
<1>9. IsRecord(rec)
  BY <1>4, <1>7, <1>8 DEF IsRecord, Kinds, Values, Effects
<1>10. Shaped(rec)
  BY <1>7 DEF Shaped
<1>11. WellFormed(1, rec)
  <2>1. rec.branch \in Branches(rec.kind)
    BY <1>7, <1>10, BranchesAre DEF Kinds
  <2> QED BY <1>1, <1>4, <1>7, <2>1 DEF WellFormed
<1>12. /\ Done(rec, "credential_stage") /\ \A e : Begun(rec, e) <=> e = "credential_stage"
  BY <1>7, <1>8 DEF Done, Begun
<1>13. Script(rec)
  <2>1. Found(rec, "credential_stage") = Absent /\ Left(rec, "credential_stage") = v
    BY <1>7, ScriptsAre
  <2>2. Effect(rec, "credential_stage") /\ \A e : ~Precedes(rec, e, "credential_stage") \/ ~Effect(rec, e)
    BY <1>7 DEF Effect, Precedes
  <2> QED BY <1>7, <1>8, <1>12, <2>1, <2>2 DEF Script
<1>14. Good(1, rec)
  BY <1>9, <1>11, <1>13, GoodIs
<1> QED BY <1>1, <1>6, <1>7, <1>12, <1>14

\* What an earlier program or an earlier time has left satisfies the invariant.
LEMMA Initial == SagaInit => IndInv
<1> SUFFICES ASSUME SagaInit
             PROVE  IndInv
  OBVIOUS
<1>1. /\ ConfigTyped /\ Editing /\ RevisionsAreKnown /\ PurposesApart
      /\ store \in [Roles -> [Slots -> Values]]
      /\ \A r \in Roles : store[r].backup = Absent
      /\ \A w \in Workspaces, r \in Roles : config[w].source[r] = "managed" => store[r].active # Absent
      /\ \A w \in Workspaces, r \in Roles : config[w].revision[r] = 0
  BY FirstParts
<1>2. pair = NoOp /\ temp = FALSE /\ act = Idle /\ (Fresh \/ Upgraded)
  BY DEF SagaInit
<1>3. Alone /\ Starting /\ Working /\ Repairing
  BY <1>2, IdleAtFirst
<1>4. CASE Fresh
  <2>1. journal \in [Ops -> {NoRecord, Past}] /\ slot = [r \in Roles |-> NoMarker] /\ \A r \in Roles : store[r].staged = Absent
    BY <1>4 DEF Fresh
  <2>2. \A op \in Ops : ~Exists(op) /\ ~Unresolved(op)
    BY <2>1 DEF Exists, Unresolved
  <2>3. SagaTyped
    BY <1>1, <1>2, <2>1, <2>2 DEF SagaTyped
  <2>4. TypeOK
    BY <1>1, <2>3, TypeIs
  <2>5. RecordsHold /\ OneUnresolved
    BY <2>2 DEF RecordsHold, OneUnresolved
  <2>6. Tracked
    BY <2>2, TrackedIs
  <2>7. AtRest
    BY <1>1, <2>1 DEF AtRest
  <2> QED BY <1>1, <1>3, <2>4, <2>5, <2>6, <2>7 DEF IndInv
<1>5. CASE Upgraded
  <2>1. PICK w \in Workspaces, r \in Roles :
          /\ store[r].active = Absent /\ store[r].staged # Absent
          /\ store[Peer(r)].staged = Absent
          /\ \E old \in {NoRecord, Past} :
                journal = [op \in Ops |-> IF op = 1 THEN Staged(w, r, store[r].staged) ELSE old]
          /\ slot = [q \in Roles |-> IF q = r THEN [op |-> 1, schema |-> 1] ELSE NoMarker]
    BY <1>5 DEF Upgraded
  <2>2. PICK v \in Secrets : v = store[r].staged
    BY <1>1, <2>1 DEF Values, Slots
  <2>3. PICK one \in Ops : one = 1
    BY ConfigAssumption DEF Ops
  <2>4. PICK rec : rec = Staged(w, r, v)
    OBVIOUS
  <2>5. /\ Good(one, rec) /\ rec.ws = w /\ rec.role = r /\ rec.phase = "committed" /\ rec.orig = config[w]
        /\ rec.was = Absent /\ rec.new = v /\ Done(rec, "credential_stage")
        /\ \A e : Begun(rec, e) <=> e = "credential_stage"
    BY <1>1, <2>3, <2>4, StagedGood
  <2>6. /\ journal[one] = rec /\ \A op \in Ops \ {one} : journal[op] \in {NoRecord, Past}
        /\ journal = [op \in Ops |-> journal[op]]
    <3>1. PICK old \in {NoRecord, Past} :
             journal = [op \in Ops |-> IF op = 1 THEN Staged(w, r, store[r].staged) ELSE old]
      BY <2>1
    <3>2. journal = [op \in Ops |-> IF op = one THEN rec ELSE old]
      BY <2>2, <2>3, <2>4, <3>1
    <3> QED BY <3>2
  <2>7. /\ Exists(one) /\ Unresolved(one)
        /\ \A op \in Ops \ {one} : ~Exists(op) /\ ~Unresolved(op)
    <3>1. IsRecord(rec)
      BY <2>5 DEF Good
    <3> QED BY <2>5, <2>6, <3>1, RecordIs DEF Exists, Unresolved
  <2>8. /\ slot[r] = [op |-> one, schema |-> 1] /\ \A p \in Roles \ {r} : slot[p] = NoMarker
        /\ slot \in [Roles -> {NoMarker} \cup [op : Ops, schema : {1, 2}]]
    BY <2>1, <2>3
  <2>9. SagaTyped
    BY <1>1, <1>2, <2>5, <2>6, <2>7, <2>8 DEF SagaTyped, Good
  <2>10. TypeOK
    BY <1>1, <2>9, TypeIs
  <2>11. RecordsHold /\ OneUnresolved
    BY <2>5, <2>6, <2>7 DEF RecordsHold, OneUnresolved, Good
  <2>12. Tracked
    <3>1. Marks(one)
      BY <1>2, <2>5, <2>6, <2>8 DEF Marks
    <3>2. Fits(rec)
      <4>1. StagedFits(rec, v)
        BY <2>5 DEF StagedFits, Done
      <4>2. BackupFits(rec, Absent)
        BY <2>5 DEF BackupFits, Done
      <4>3. ActiveFits(rec, Absent)
        BY <2>5 DEF ActiveFits, Done
      <4>4. ConfigFits(rec, config[w])
        BY <2>5, SameIs DEF ConfigFits, Done, Begun
      <4> QED BY <1>1, <2>1, <2>2, <2>5, <4>1, <4>2, <4>3, <4>4 DEF Fits
    <3>3. Slotted(journal[one]) /\ Configured(journal[one])
      BY <2>5, <2>6, <3>2, FitsIs
    <3>4. Apart(one)
      BY <2>5, <2>6 DEF Apart
    <3>5. Selects(one)
      BY <1>1, <2>1, <2>5, <2>6 DEF Selects
    <3> QED BY <2>7, <3>1, <3>3, <3>4, <3>5, TrackedIs
  <2>13. AtRest
    <3>1. ASSUME NEW q \in Roles, \A op \in Ops : ~(Unresolved(op) /\ journal[op].role = q)
          PROVE  q = Peer(r)
      BY <2>5, <2>6, <2>7, <3>1, PeerIs
    <3> QED BY <1>1, <2>1, <3>1 DEF AtRest
  <2> QED BY <1>1, <1>3, <2>10, <2>11, <2>12, <2>13 DEF IndInv
<1> QED BY <1>2, <1>4, <1>5

\* Nothing happens.
LEMMA StutterKeeps ==
  ASSUME IndInv, UNCHANGED vars
  PROVE  IndInv'
<1>1. UNCHANGED <<config, holder, applies, editor, store, journal, pair, slot, temp, act>>
  BY DEF vars, configVars, sagaVars
<1>2. TypeOK' /\ Editing'
  BY <1>1 DEF IndInv, TypeOK, Editing, Exists
<1>3. RecordsHold' /\ RevisionsAreKnown' /\ OneUnresolved' /\ PurposesApart'
  BY <1>1 DEF IndInv, RecordsHold, RevisionsAreKnown, OneUnresolved, PurposesApart, Exists, Unresolved
<1>4. Tracked'
  <2>1. ASSUME NEW op \in Ops, Unresolved(op)'
        PROVE  /\ Marks(op)' /\ Slotted(journal[op])' /\ Configured(journal[op])'
               /\ Apart(op)' /\ Selects(op)'
    <3>1. Marks(op) /\ Slotted(journal[op]) /\ Configured(journal[op]) /\ Apart(op) /\ Selects(op)
      BY <1>1, <2>1, Parts DEF Unresolved, Exists
    <3>2. Marks(op)' /\ Slotted(journal[op])' /\ Configured(journal[op])'
      BY <1>1, <3>1 DEF Marks, Slotted, Configured
    <3> QED BY <1>1, <3>1, <3>2 DEF Apart, Selects, Forgotten, Exists
  <2> QED BY <2>1, TrackedIsLater
<1>5. AtRest'
  BY <1>1 DEF IndInv, AtRest, Exists, Unresolved, Forgotten
<1>6. Alone' /\ Starting'
  BY <1>1 DEF IndInv, Alone, Starting, Exists, Unresolved, Resolved, Reserved, KindOf, R
<1>7. Owning' /\ Holding' /\ Staging' /\ Verifying' /\ Promoting' /\ Intending' /\ Replacing'
  BY <1>1 DEF IndInv, Working, Owning, Holding, Staging, Verifying, Promoting, Intending, Replacing,
              Exists, Unresolved, R
<1>8. Performing' /\ Repairing'
  BY <1>1 DEF IndInv, Working, Performing, Repairing, Exists, Unresolved, R, Observe
<1> QED BY <1>2, <1>3, <1>4, <1>5, <1>6, <1>7, <1>8 DEF IndInv, Working

\* Every step keeps the invariant: of the operation, of a repair, of a reviewed change, by hand, and a crash.
LEMMA Inductive == IndInv /\ [Next]_vars => IndInv'
<1> SUFFICES ASSUME IndInv, [Next]_vars
             PROVE  IndInv'
  OBVIOUS
<1>1. CASE UNCHANGED vars
  BY <1>1, StutterKeeps
<1>2. CASE ConfigNext /\ UNCHANGED sagaVars
  BY <1>2, ConfigKeeps
<1>3. ASSUME AdmissionStep, UNCHANGED <<config, applies, editor>>
      PROVE  IndInv'
  <2>1. CASE \E op \in Ops, w \in Workspaces, r \in Roles, want \in Wants, v \in Secrets : Start(op, w, r, want, v)
    BY <1>3, <2>1, StartKeeps
  <2>2. CASE RetirePair \/ \E r \in Roles : RetireSlot(r)
    BY <1>3, <2>2, RetireKeeps
  <2>3. CASE Prove
    BY <1>3, <2>3, ProveKeeps
  <2>4. CASE Begin
    BY <1>3, <2>4, BeginKeeps
  <2>5. CASE PublishSlot
    BY <1>3, <2>5, PublishSlotKeeps
  <2>6. CASE PublishPair
    BY <1>3, <2>6, PublishPairKeeps
  <2>7. CASE CreateRecord
    BY <1>3, <2>7, CreateRecordKeeps
  <2> QED BY <1>3, <2>1, <2>2, <2>3, <2>4, <2>5, <2>6, <2>7 DEF AdmissionStep
<1>4. ASSUME EffectStep, UNCHANGED <<applies, editor>>
      PROVE  IndInv'
  <2>1. CASE Intend
    BY <1>4, <2>1, IntendKeeps
  <2>2. CASE Perform
    BY <1>4, <2>2, PerformKeeps
  <2>3. CASE RecordEffect
    BY <1>4, <2>3, RecordEffectKeeps
  <2>4. CASE Complete
    BY <1>4, <2>4, CompleteKeeps
  <2>5. CASE \E ok \in BOOLEAN : Verify(ok)
    BY <1>4, <2>5, VerifyKeeps
  <2>6. CASE Continue
    BY <1>4, <2>6, ContinueKeeps
  <2>7. CASE ReleasePair \/ ReleaseSlot
    <3>1. UNCHANGED config
      BY <2>7 DEF ReleasePair, ReleaseSlot
    <3> QED BY <1>4, <2>7, <3>1, ReleaseKeeps
  <2> QED BY <1>4, <2>1, <2>2, <2>3, <2>4, <2>5, <2>6, <2>7 DEF EffectStep
<1>5. ASSUME RecoverStep, UNCHANGED <<applies, editor>>
      PROVE  IndInv'
  <2>1. CASE \E op \in Ops, action \in {"resume", "restore", "leave", "retry_delete"} : Recover(op, action)
    BY <1>5, <2>1, RecoverKeeps
  <2>2. CASE Inspect
    BY <1>5, <2>2, InspectKeeps
  <2>3. CASE Bridge
    BY <1>5, <2>3, BridgeKeeps
  <2>4. CASE Finish
    BY <1>5, <2>4, FinishKeeps
  <2>5. CASE RecoverStage
    BY <1>5, <2>5, RecoverStageKeeps
  <2>6. CASE RecoverSwitch
    BY <1>5, <2>6, RecoverSwitchKeeps
  <2>7. CASE \E ok \in BOOLEAN : RecoverVerify(ok)
    BY <1>5, <2>7, RecoverVerifyKeeps
  <2> QED BY <1>5, <2>1, <2>2, <2>3, <2>4, <2>5, <2>6, <2>7 DEF RecoverStep
<1>6. CASE Leave /\ UNCHANGED <<applies, editor>>
  BY <1>6, LeaveKeeps
<1>7. CASE SagaStep
  BY <1>3, <1>4, <1>5, <1>6, <1>7 DEF SagaStep
<1> QED BY <1>1, <1>2, <1>7 DEF Next

\* Spec => []IndInv, from which the rest follows.
THEOREM Invariance == Spec => []IndInv
<1>1. SagaInit => IndInv
  BY Initial
<1>2. IndInv /\ [Next]_vars => IndInv'
  BY Inductive
<1> QED BY <1>1, <1>2, PTL DEF Spec

-----------------------------------------------------------------------------
(* What follows from the invariant: the slots, and the repairs.             *)

\* No copy is left in a staging or backup slot, the purposes never share a credential and
\* what the configuration selects is stored: whatever was interrupted, refused or repaired.
THEOREM StoresAreAlwaysSound == Spec => []StoresAreSound
<1>1. IndInv => StoresAreSound
  <2> SUFFICES ASSUME IndInv
               PROVE  StoresAreSound
    OBVIOUS
  <2>1. NoCopyLeft
    <3>1. \A op, other \in Ops : Unresolved(op) /\ Unresolved(other) => op = other
      BY DEF IndInv, OneUnresolved
    <3>2. ASSUME NEW r \in Roles, NEW s \in {"staged", "backup"}, store[r][s] # Absent
          PROVE  \E op \in Ops : Unresolved(op) /\ journal[op].role = r
      BY <3>2 DEF IndInv, AtRest
    <3> QED BY <3>1, <3>2 DEF NoCopyLeft
  <2>2. PurposesApart
    BY DEF IndInv
  <2>3. SelectedIsStored
    <3>1. SUFFICES ASSUME NEW w \in Workspaces, NEW r \in Roles,
                          config[w].source[r] = "managed", store[r].active = Absent
                   PROVE  \E op \in Ops : /\ Exists(op) /\ journal[op].role = r
                                          /\ Unresolved(op) \/ (journal[op].kind = "forget" /\ journal[op].ws # w)
      BY DEF SelectedIsStored
    <3>2. CASE \E op \in Ops : Unresolved(op) /\ journal[op].role = r
      BY <3>2 DEF Unresolved
    <3>3. CASE \A op \in Ops : ~(Unresolved(op) /\ journal[op].role = r)
      <4>1. Forgotten(w, r)
        BY <3>1, <3>3 DEF IndInv, AtRest
      <4> QED BY <4>1 DEF Forgotten
    <3> QED BY <3>2, <3>3
  <2> QED BY <2>1, <2>2, <2>3 DEF StoresAreSound
<1> QED BY <1>1, Invariance, PTL

\* An old credential is where it was or in the backup.
LEMMA OldIsThere ==
  ASSUME NEW op, NEW rec, Good(op, rec), Fits(rec), rec.kind = "replacement", ~Done(rec, "config_commit")
  PROVE  rec.was \in {store[rec.role].active, store[rec.role].backup}
<1>1. /\ Shaped(rec) /\ Script(rec)
      /\ \A e : Done(rec, e) => Begun(rec, e) /\ Effect(rec, e)
      /\ \A e : Begun(rec, e) => Effect(rec, e) \/ e = "config_commit"
  BY Entries
<1>2. SUFFICES ASSUME store[rec.role].active # rec.was
               PROVE  store[rec.role].backup = rec.was
  OBVIOUS
<1>3. Begun(rec, "credential_promote") /\ ~Done(rec, "credential_restore")
  <2>1. ~Begun(rec, "credential_delete")
    BY <1>1 DEF Effect
  <2> QED BY <1>2, <2>1 DEF Fits, ActiveFits
<1>4. Done(rec, "credential_backup")
  BY <1>3, InTurn
<1>5. ~Begun(rec, "backup_delete")
  <2>1. SUFFICES ASSUME Begun(rec, "backup_delete")
                 PROVE  FALSE
    OBVIOUS
  <2>2. Effect(rec, "backup_delete")
    BY <1>1, <2>1
  <2>3. CASE rec.branch = "primary"
    <3>1. Effect(rec, "config_commit") /\ Precedes(rec, "config_commit", "backup_delete")
      BY <2>3 DEF Effect, Precedes
    <3> QED BY <1>1, <2>1, <2>2, <3>1 DEF Script
  <2>4. CASE rec.branch = "restore"
    <3>1. Effect(rec, "credential_restore") /\ Precedes(rec, "credential_restore", "backup_delete")
      BY <2>4 DEF Effect, Precedes
    <3> QED BY <1>1, <1>3, <2>1, <2>2, <3>1 DEF Script
  <2> QED BY <2>2, <2>3, <2>4 DEF Effect
<1> QED BY <1>4, <1>5 DEF Fits, BackupFits

\* A configuration that nobody has edited is exactly what the script says.
LEMMA ConfigIsExact ==
  ASSUME NEW op, NEW rec, Good(op, rec), Fits(rec), rec.phase # "repair_required",
         config[rec.ws] \in {rec.orig, rec.cand}
  PROVE  /\ rec.orig # rec.cand
         /\ Done(rec, "config_commit") \/ Done(rec, "config_detach") => config[rec.ws] = rec.cand
         /\ ~Begun(rec, "config_commit") /\ ~Begun(rec, "config_detach") => config[rec.ws] = rec.orig
         /\ rec.branch # "primary" => config[rec.ws] = rec.orig
<1>1. ~Same(rec.orig, rec.cand) /\ ~Same(rec.cand, rec.orig) /\ rec.orig # rec.cand
  <2>1. /\ rec.cand.revision = [rec.orig.revision EXCEPT ![rec.role] = op]
        /\ rec.orig.revision[rec.role] # op /\ rec.orig.revision \in [Roles -> 0 .. MaxOp] /\ rec.role \in Roles
    BY DEF Good, WellFormed, IsRecord, Config
  <2>2. rec.cand.revision[rec.role] = op
    BY <2>1
  <2> QED BY <2>1, <2>2 DEF Same
<1>2. ASSUME rec.branch # "primary"
      PROVE  Same(config[rec.ws], rec.orig)
  <2>1. /\ Shaped(rec) /\ Script(rec)
        /\ \A e : Begun(rec, e) => Effect(rec, e) \/ e = "config_commit"
    BY Entries
  <2>2. ~Begun(rec, "config_detach") /\ ~Effect(rec, "config_commit")
    BY <1>2, <2>1 DEF Effect, Shaped
  <2>3. Begun(rec, "config_commit") => rec.eff["config_commit"].st = "not_applied"
    BY <2>1, <2>2 DEF Script, Begun
  <2> QED BY <2>2, <2>3 DEF Fits, ConfigFits, Begun
<1>3. /\ Done(rec, "config_commit") \/ Done(rec, "config_detach") => Same(config[rec.ws], rec.cand)
      /\ ~Begun(rec, "config_commit") /\ ~Begun(rec, "config_detach") => Same(config[rec.ws], rec.orig)
  BY DEF Fits, ConfigFits
<1> QED BY <1>1, <1>2, <1>3

\* Comparing the stores with the last effects finds what the journal says.
LEMMA StoresDoAgree ==
  ASSUME NEW op, NEW rec, Good(op, rec), Fits(rec), rec.phase # "repair_required",
         config[rec.ws] \in {rec.orig, rec.cand}
  PROVE  StoresAgree(rec)
<1>1. /\ Shaped(rec) /\ Script(rec)
      /\ \A e : Done(rec, e) => Begun(rec, e) /\ Effect(rec, e)
      /\ \A e : Begun(rec, e) => Effect(rec, e) \/ e = "config_commit"
  BY Entries
<1>2. SUFFICES ASSUME NEW e \in LastOn(rec)
               PROVE  \/ Done(rec, e) /\ Observe(rec, StoreOf(e)) = Left(rec, e)
                      \/ Intended(rec, e) /\ Observe(rec, StoreOf(e)) \in {Found(rec, e), Left(rec, e)}
  <2>1. ASSUME NEW e \in LastOn(rec)
        PROVE  rec.eff[e].pre = Found(rec, e) /\ rec.eff[e].post = Left(rec, e)
    BY <1>1, LastIs, BegunIs
  <2> QED BY <2>1 DEF StoresAgree, Done, Intended
<1>3. /\ Effect(rec, e) /\ Begun(rec, e) /\ e \in Effects
      /\ \A d : Begun(rec, d) /\ StoreOf(d) = StoreOf(e) => d = e \/ Precedes(rec, d, e) \/ ~Effect(rec, d)
  BY <1>1, LastIs, BegunIs
<1>4. (Intended(rec, e) /\ ~Done(rec, e)) \/ (Done(rec, e) /\ ~Intended(rec, e))
  <2>1. e \in DOMAIN rec.eff
    BY <1>3 DEF Begun
  <2>2. rec.eff[e].st \in {"intent", "verified", "mismatch", "not_applied"}
    BY <2>1, Entries
  <2>3. rec.eff[e].st \notin {"mismatch", "not_applied"}
    BY <1>1, <1>3, <2>1 DEF Script
  <2> QED BY <1>3, <2>2, <2>3 DEF Intended, Done
<1>5. CASE StoreOf(e) = "config"
  <2>1. e \in {"config_commit", "config_detach"} /\ Found(rec, e) = rec.orig /\ Left(rec, e) = rec.cand
    BY <1>3, <1>5, StoreIs, ScriptsAre
  <2>2. Observe(rec, StoreOf(e)) = config[rec.ws]
    BY <1>5 DEF Observe
  <2> QED BY <1>4, <2>1, <2>2, ConfigIsExact
<1>6. CASE StoreOf(e) = "staged"
  <2>1. e \in {"credential_stage", "staged_delete", "staging_cleanup"}
    BY <1>3, <1>6, StoreIs
  <2>2. Observe(rec, StoreOf(e)) = store[rec.role].staged
    BY <1>6 DEF Observe
  <2>3. CASE e = "credential_stage"
    <3>1. ~Begun(rec, "staging_cleanup") /\ ~Begun(rec, "staged_delete")
      BY <1>1, <1>3, <2>3, StoresAre DEF Precedes
    <3> QED BY <1>4, <2>2, <2>3, <3>1, ScriptsAre DEF Fits, StagedFits
  <2>4. CASE e # "credential_stage"
    BY <1>4, <2>1, <2>2, <2>4, ScriptsAre DEF Fits, StagedFits
  <2> QED BY <2>3, <2>4
<1>7. CASE StoreOf(e) = "backup"
  <2>1. e \in {"credential_backup", "backup_delete"}
    BY <1>3, <1>7, StoreIs
  <2>2. Observe(rec, StoreOf(e)) = store[rec.role].backup
    BY <1>7 DEF Observe
  <2>3. CASE e = "credential_backup"
    <3>1. ~Begun(rec, "backup_delete")
      BY <1>1, <1>3, <2>3, StoresAre DEF Precedes
    <3> QED BY <1>4, <2>2, <2>3, <3>1, ScriptsAre DEF Fits, BackupFits
  <2>4. CASE e = "backup_delete"
    BY <1>4, <2>2, <2>4, ScriptsAre DEF Fits, BackupFits
  <2> QED BY <2>1, <2>3, <2>4
<1>8. CASE StoreOf(e) = "active"
  <2>1. e \in {"credential_promote", "credential_restore", "credential_delete"}
    BY <1>3, <1>8, StoreIs
  <2>2. Observe(rec, StoreOf(e)) = store[rec.role].active
    BY <1>8 DEF Observe
  <2>3. CASE e = "credential_promote"
    <3>1. ~Begun(rec, "credential_restore") /\ ~Begun(rec, "credential_delete")
      BY <1>1, <1>3, <2>3, StoresAre DEF Precedes
    <3> QED BY <1>4, <2>2, <2>3, <3>1, ScriptsAre DEF Fits, ActiveFits
  <2>4. CASE e = "credential_restore"
    <3>1. ~Begun(rec, "credential_delete")
      BY <1>3, <2>4, InTurn
    <3> QED BY <1>4, <2>2, <2>4, <3>1, ScriptsAre DEF Fits, ActiveFits
  <2>5. CASE e = "credential_delete"
    <3>1. ~Begun(rec, "credential_promote")
      BY <1>3, <2>5, InTurn
    <3> QED BY <1>4, <2>2, <2>5, <3>1, ScriptsAre DEF Fits, ActiveFits
  <2> QED BY <2>1, <2>3, <2>4, <2>5
<1> QED BY <1>3, <1>5, <1>6, <1>7, <1>8, StoreIs

\* An enrollment goes on from wherever it was interrupted.
LEMMA EnrollmentResumes ==
  ASSUME NEW op, NEW rec, Good(op, rec), Fits(rec), rec.phase # "repair_required", rec.kind = "enrollment",
         config[rec.ws] \in {rec.orig, rec.cand},
         Done(rec, "credential_stage") \/ store[rec.role].staged # Absent
  PROVE  EnrollmentIsLive(rec, "resume")
<1>1. /\ Shaped(rec) /\ Script(rec)
      /\ \A e : Done(rec, e) => Begun(rec, e) /\ Effect(rec, e)
      /\ \A e : Begun(rec, e) => Effect(rec, e) \/ e = "config_commit"
      /\ rec.branch \in {"primary", "abandon"} /\ rec.was = Absent /\ rec.new # Absent
  BY Entries, SecretsAssumption DEF Shaped, Good, WellFormed
<1>2. /\ Observe(rec, "config") = config[rec.ws] /\ Observe(rec, "staged") = store[rec.role].staged
      /\ Observe(rec, "active") = store[rec.role].active
  BY DEF Observe
<1>3. ~Begun(rec, "credential_delete") /\ ~Begun(rec, "config_detach")
  BY <1>1 DEF Effect
<1>4. Begun(rec, "credential_stage") => rec.eff["credential_stage"].post = rec.new
  BY BegunIs, ScriptsAre
<1>5. ~Begun(rec, "credential_promote") => store[rec.role].active = Absent
  BY <1>1, <1>3 DEF Fits, ActiveFits
<1>6. CASE Intended(rec, "credential_stage")
  <2>1. ~Done(rec, "credential_stage") /\ Begun(rec, "credential_stage")
    BY <1>6 DEF Intended, Done
  <2>2. rec.branch = "primary"
    BY <1>1, <2>1 DEF Script
  <2>3. ~Begun(rec, "config_commit") /\ ~Begun(rec, "credential_promote")
    BY <1>1, <2>1, <2>2 DEF Script, Effect, Precedes
  <2>4. config[rec.ws] = rec.orig
    BY <1>3, <2>3, ConfigIsExact
  <2>5. store[rec.role].staged = rec.new
    BY <2>1 DEF Fits, StagedFits
  <2> QED BY <1>2, <1>4, <1>5, <1>6, <2>1, <2>2, <2>3, <2>4, <2>5 DEF EnrollmentIsLive
<1>7. CASE ~Intended(rec, "credential_stage")
  <2>1. Done(rec, "credential_stage")
    <3>1. Begun(rec, "credential_stage")
      <4>1. SUFFICES ASSUME ~Begun(rec, "credential_stage")
                     PROVE  FALSE
        OBVIOUS
      <4>2. store[rec.role].staged = Absent
        BY <4>1 DEF Fits, StagedFits
      <4> QED BY <4>1, <4>2 DEF Done
    <3> QED BY <1>7, <3>1, StatesAre
  <2>2. CASE rec.branch = "abandon"
    <3>1. config[rec.ws] = rec.orig
      BY <2>2, ConfigIsExact
    <3>2. ~Begun(rec, "credential_promote") /\ ~Begun(rec, "staging_cleanup")
      BY <1>1, <2>2 DEF Effect
    <3>3. CASE Done(rec, "staged_delete")
      <4>1. store[rec.role].staged = Absent
        BY <3>3 DEF Fits, StagedFits
      <4> QED BY <1>2, <1>5, <1>7, <2>2, <3>1, <3>2, <3>3, <4>1 DEF EnrollmentIsLive
    <3>4. CASE ~Done(rec, "staged_delete")
      <4>1. \/ store[rec.role].staged = rec.new
            \/ Intended(rec, "staged_delete") /\ store[rec.role].staged = Absent
        BY <2>1, <3>2, <3>4, StatesAre DEF Fits, StagedFits
      <4>2. EnrollmentAction(rec) = "continue_abandon"
        BY <1>2, <1>4, <1>5, <2>1, <2>2, <3>1, <3>2, <4>1 DEF EnrollmentAction, Done
      <4> QED BY <1>7, <3>4, <4>2 DEF EnrollmentIsLive
    <3> QED BY <3>3, <3>4
  <2>3. CASE rec.branch = "primary"
    <3>1. CASE config[rec.ws] = rec.cand
      <4>1. Begun(rec, "config_commit")
        BY <1>3, <3>1, ConfigIsExact
      <4>2. EnrollmentAction(rec) = "continue_commit"
        BY <1>2, <2>3, <3>1, <4>1 DEF EnrollmentAction
      <4> QED BY <1>7, <2>3, <4>2 DEF EnrollmentIsLive
    <3>2. CASE config[rec.ws] # rec.cand
      <4>1. config[rec.ws] = rec.orig /\ ~Done(rec, "config_commit")
        BY <3>2, ConfigIsExact
      <4>2. ~Begun(rec, "credential_promote") /\ ~Begun(rec, "staging_cleanup") /\ ~Begun(rec, "staged_delete")
        BY <1>1, <2>3, <4>1 DEF Script, Effect, Precedes
      <4>3. store[rec.role].staged = rec.new
        BY <2>1, <4>2 DEF Fits, StagedFits
      <4>4. EnrollmentAction(rec) = "abandon"
        BY <1>2, <1>4, <2>1, <2>3, <3>2, <4>1, <4>2, <4>3 DEF EnrollmentAction, Done
      <4> QED BY <1>7, <2>3, <4>4 DEF EnrollmentIsLive
    <3> QED BY <3>1, <3>2
  <2> QED BY <1>1, <2>2, <2>3
<1> QED BY <1>6, <1>7

\* A replacement goes on, forward or back, from wherever it was interrupted.
LEMMA ReplacementResumes ==
  ASSUME NEW op, NEW rec, Good(op, rec), Fits(rec), rec.phase # "repair_required", rec.kind = "replacement",
         config[rec.ws] \in {rec.orig, rec.cand}
  PROVE  ReplacementIsLive(rec, "resume")
<1>1. /\ Shaped(rec) /\ Script(rec)
      /\ \A e : Done(rec, e) => Begun(rec, e) /\ Effect(rec, e)
      /\ \A e : Begun(rec, e) => Effect(rec, e) \/ e = "config_commit"
      /\ rec.branch \in {"primary", "restore", "reject"}
  BY Entries DEF Shaped
<1>2. /\ Observe(rec, "config") = config[rec.ws] /\ Observe(rec, "backup") = store[rec.role].backup
      /\ Observe(rec, "active") = store[rec.role].active
  BY DEF Observe
<1>3. ~Begun(rec, "credential_delete") /\ ~Begun(rec, "config_detach")
  BY <1>1 DEF Effect
<1>4. /\ Begun(rec, "credential_promote") => /\ rec.eff["credential_promote"].post = rec.new
                                             /\ rec.eff["credential_promote"].pre = rec.was
      /\ Begun(rec, "credential_backup") => rec.eff["credential_backup"].post = rec.was
      /\ Begun(rec, "credential_restore") => rec.eff["credential_restore"].post = rec.was
  BY BegunIs, ScriptsAre
<1>5. /\ ~Begun(rec, "credential_promote") => store[rec.role].active = rec.was
      /\ ~Begun(rec, "credential_backup") => store[rec.role].backup = Absent
  BY <1>3 DEF Fits, ActiveFits, BackupFits
<1>6. CASE rec.branch = "restore"
  <2>1. config[rec.ws] = rec.orig
    BY <1>6, ConfigIsExact
  <2>2. /\ Done(rec, "credential_backup") /\ Done(rec, "credential_promote")
        /\ Begun(rec, "credential_backup") /\ Begun(rec, "credential_promote")
    BY <1>1, <1>6 DEF Script
  <2>3. CASE Done(rec, "credential_restore") /\ Done(rec, "backup_delete")
    <3>1. store[rec.role].backup = Absent /\ store[rec.role].active = rec.was /\ Begun(rec, "credential_restore")
      BY <1>1, <2>3 DEF Fits, BackupFits, ActiveFits
    <3> QED BY <1>2, <1>4, <1>5, <1>6, <2>1, <2>2, <2>3, <3>1 DEF ReplacementIsLive
  <2>4. CASE ~(Done(rec, "credential_restore") /\ Done(rec, "backup_delete"))
    <3>1. CASE ~Begun(rec, "credential_restore") \/ Intended(rec, "credential_restore")
      <4>1. ~Begun(rec, "backup_delete")
        <5>1. ~Done(rec, "credential_restore")
          BY <1>1, <3>1 DEF Intended, Done
        <5>2. Effect(rec, "credential_restore") /\ Precedes(rec, "credential_restore", "backup_delete")
          BY <1>6 DEF Effect, Precedes
        <5> QED BY <1>1, <5>1, <5>2 DEF Script
      <4>2. store[rec.role].backup = rec.was
        BY <2>2, <4>1 DEF Fits, BackupFits
      <4>3. \/ store[rec.role].active = rec.new
            \/ Begun(rec, "credential_restore") /\ store[rec.role].active = rec.was
        BY <1>3, <2>2, <3>1 DEF Fits, ActiveFits
      <4>4. ReplacementAction(rec) = "continue_restore"
        BY <1>2, <1>4, <1>6, <2>1, <2>2, <3>1, <4>2, <4>3 DEF ReplacementAction
      <4> QED BY <1>1, <1>2, <1>5, <1>6, <2>2, <2>4, <4>4 DEF ReplacementIsLive
    <3>2. CASE Done(rec, "credential_restore")
      <4>1. store[rec.role].active = rec.was /\ Begun(rec, "credential_restore") /\ ~Intended(rec, "credential_restore")
        BY <1>1, <3>2 DEF Fits, ActiveFits, Done, Intended
      <4>2. \/ store[rec.role].backup = rec.was
            \/ Intended(rec, "backup_delete") /\ store[rec.role].backup = Absent
        BY <2>2, <2>4, <3>2, StatesAre DEF Fits, BackupFits
      <4>3. ReplacementAction(rec) = "continue_restore"
        BY <1>2, <1>4, <1>6, <2>1, <2>2, <3>2, <4>1, <4>2 DEF ReplacementAction
      <4> QED BY <1>1, <1>2, <1>5, <1>6, <2>2, <2>4, <4>3 DEF ReplacementIsLive
    <3> QED BY <3>1, <3>2, StatesAre
  <2> QED BY <2>3, <2>4
<1>7. CASE rec.branch # "restore"
  <2>1. ~Begun(rec, "credential_restore")
    BY <1>1, <1>7 DEF Effect
  <2>2. ReplacementAction(rec) # "manual_review"
    <3>1. CASE Done(rec, "credential_promote")
      <4>1. store[rec.role].active = rec.new /\ Begun(rec, "credential_promote")
        BY <1>1, <2>1, <3>1 DEF Fits, ActiveFits
      <4>2. Done(rec, "config_commit") => config[rec.ws] = rec.cand
        BY ConfigIsExact
      <4>3. rec.orig # rec.cand
        BY ConfigIsExact
      <4>4. ReplacementAction(rec) \in {"restore_backup", "continue_commit"}
        BY <1>2, <1>4, <1>7, <3>1, <4>1, <4>2, <4>3 DEF ReplacementAction
      <4> QED BY <4>4
    <3>2. CASE ~Done(rec, "credential_promote")
      <4>1. ~Begun(rec, "config_commit")
        <5>1. CASE rec.branch = "primary"
          <6>1. /\ Effect(rec, "credential_promote") /\ Effect(rec, "config_commit")
                /\ Precedes(rec, "credential_promote", "config_commit")
            BY <5>1 DEF Effect, Precedes
          <6> QED BY <1>1, <3>2, <6>1 DEF Script
        <5>2. CASE rec.branch = "reject"
          BY <1>1, <5>2 DEF Script
        <5> QED BY <1>1, <1>7, <5>1, <5>2
      <4>2. config[rec.ws] = rec.orig
        BY <1>3, <4>1, ConfigIsExact
      <4>3. Begun(rec, "credential_promote") => store[rec.role].active \in {rec.was, rec.new}
        BY <1>3 DEF Fits, ActiveFits
      <4>4. ReplacementAction(rec) \in {"verify:credential_promote", "resume:credential_promote", "resume_before_promotion"}
        BY <1>2, <1>4, <1>7, <3>2, <4>2, <4>3 DEF ReplacementAction
      <4> QED BY <4>4
    <3> QED BY <3>1, <3>2
  <2> QED BY <1>2, <1>5, <1>7, <2>2 DEF ReplacementIsLive
<1> QED BY <1>6, <1>7

\* Until the configuration has taken a new credential the old one can be restored; and an
\* operation interrupted anywhere is admitted to its repair and can be finished.
THEOREM RepairIsAlwaysPossible == Spec => []RepairIsPossible
<1>1. IndInv => RepairIsPossible
  <2> SUFFICES ASSUME IndInv
               PROVE  RepairIsPossible
    OBVIOUS
  <2>1. ASSUME NEW op \in Ops, Unresolved(op)
        PROVE  /\ Good(op, journal[op]) /\ Fits(journal[op]) /\ Marks(op)
               /\ journal[op].role \in Roles
    <3>1. SagaTyped /\ RecordsHold /\ Marks(op) /\ Slotted(journal[op]) /\ Configured(journal[op])
      BY <2>1, Parts DEF IndInv
    <3>2. Good(op, journal[op]) /\ journal[op].role \in Roles
      BY <2>1, <3>1, RecordGood DEF Unresolved
    <3> QED BY <3>1, <3>2, FitsIs
  <2>2. OldSurvives
    BY <2>1, OldIsThere DEF OldSurvives
  <2>3. ASSUME NEW op \in Ops, act = Idle, Unresolved(op), Undisturbed(op)
        PROVE  /\ AdmitsRecovery(op)
               /\ \E action \in Choices(journal[op]) : IsLive(journal[op], action)
    <3>1. PICK rec : rec = journal[op]
      OBVIOUS
    <3>2. Good(op, rec) /\ Fits(rec) /\ Marks(op) /\ rec.role \in Roles
      BY <2>1, <2>3, <3>1
    <3>3. /\ ~temp /\ pair \in {op, NoOp} /\ rec.phase # "repair_required" /\ config[rec.ws] \in {rec.orig, rec.cand}
          /\ rec.kind \in {"enrollment", "replacement"} =>
                Done(rec, "credential_stage") \/ store[rec.role].staged # Absent
      BY <2>3, <3>1 DEF Undisturbed
    <3>4. AdmitsRecovery(op)
      <4>1. slot[rec.role].op = op /\ (pair # op => slot[rec.role].schema = 1) /\ slot[Peer(rec.role)] = NoMarker
        <5>1. Peer(rec.role) \in Roles \ {rec.role}
          BY <3>2, PeerIs
        <5>2. NoOp # op
          BY SagaAssumption
        <5> QED BY <3>1, <3>2, <5>1, <5>2 DEF Marks
      <4>2. ~OthersPending(rec.ws, op)
        BY <2>3 DEF IndInv, OneUnresolved, OthersPending
      <4> QED BY <3>1, <3>3, <4>1, <4>2 DEF AdmitsRecovery, Recognized
    <3>5. IsLive(rec, "resume")
      <4>1. StoresAgree(rec)
        BY <3>2, <3>3, StoresDoAgree
      <4>2. rec.kind = "enrollment" => EnrollmentIsLive(rec, "resume")
        BY <3>2, <3>3, EnrollmentResumes
      <4>3. rec.kind = "replacement" => ReplacementIsLive(rec, "resume")
        BY <3>2, <3>3, ReplacementResumes
      <4> QED BY <3>3, <4>1, <4>2, <4>3 DEF IsLive, Observe
    <3>6. "resume" \in Choices(rec)
      BY DEF Choices
    <3> QED BY <3>1, <3>4, <3>5, <3>6
  <2> QED BY <2>2, <2>3 DEF RepairIsPossible, CrashIsRecoverable
<1> QED BY <1>1, Invariance, PTL

-----------------------------------------------------------------------------
(* The changes of the journal and of the configuration.                    *)

\* The worker replaces the record of its own unfinished operation by one that may follow
\* it; by a complete one only when every effect has been done.
Rewriting ==
    /\ act # Idle /\ act.at \notin {"admitted", "reserve", "join", "create"}
    /\ Unresolved(act.op)
    /\ UNCHANGED store
    /\ \E new : /\ Write(act.op, new) /\ Follows(act.op, R, new)
                /\ new.phase = "complete" => AllDone(R) /\ new.branch = R.branch

\* At these places the worker's record is good, unfinished and fits.
LEMMA WorkerWrites ==
  ASSUME IndInv, act.at \in {"step", "intended", "performed", "verify", "continue"}
  PROVE  /\ act # Idle /\ act.at \notin {"admitted", "reserve", "join", "create"} /\ Unresolved(act.op)
         /\ act.op \in Ops /\ Good(act.op, R) /\ IsRecord(R) /\ Fits(R)
         /\ R.phase \notin {"repair_required", "complete"}
<1>1. ConfigTyped /\ SagaTyped /\ MarkersTyped
  BY Parts
<1>2. /\ act # Idle /\ act.at \notin {"admitted", "reserve", "join", "create"} /\ Unresolved(act.op)
      /\ R.phase \notin {"repair_required", "complete"}
  BY <1>1, WorkerOwns DEF Busy, Idle
<1> QED BY <1>2, WorkerIs, WorkerFits

\* The intent of the next effect may follow.
LEMMA IntendWrites ==
  ASSUME IndInv, Intend
  PROVE  UNCHANGED journal \/ Rewriting
<1>1. PICK e : e = NextEffect(R)
  OBVIOUS
<1>2. /\ act.at = "step" /\ ~AllDone(R) /\ UNCHANGED <<config, store, pair, slot, temp>>
      /\ act.locked => e # "credential_stage"
      /\ UNCHANGED journal \/ (~Begun(R, e) /\ Write(act.op, Begins(R, e)))
  BY <1>1 DEF Intend
<1>3. /\ act # Idle /\ act.at \notin {"admitted", "reserve", "join", "create"} /\ Unresolved(act.op)
      /\ act.op \in Ops /\ Good(act.op, R) /\ Fits(R) /\ R.phase \notin {"repair_required", "complete"}
  BY <1>2, WorkerWrites
<1>4. CASE ~Begun(R, e) /\ Write(act.op, Begins(R, e))
  <2>1. e = "credential_stage" => act.value = R.new
    BY <1>2 DEF IndInv, Working, Staging
  <2>2. Pre(R, e) = Found(R, e) /\ Post(R, e) = Left(R, e)
    BY <1>1, <1>2, <1>3, <1>4, <2>1, FoundIs
  <2>3. Follows(act.op, R, Begins(R, e)) /\ Begins(R, e).phase = "effect_intent"
    BY <1>1, <1>2, <1>3, <1>4, <2>2, BeginsGood
  <2> QED BY <1>2, <1>3, <1>4, <2>3 DEF Rewriting
<1> QED BY <1>2, <1>4

\* So may what was read back.
LEMMA RecordEffectWrites ==
  ASSUME IndInv, RecordEffect
  PROVE  UNCHANGED journal \/ Rewriting
<1>1. PICK e : e = NextEffect(R)
  OBVIOUS
<1>2. /\ act.at = "performed" /\ UNCHANGED <<config, store, pair, slot, temp>>
      /\ \/ Write(act.op, [With(R, e, "verified") EXCEPT !.phase = "committed"])
         \/ /\ Observe(R, StoreOf(e)) # R.eff[e].post
            /\ Write(act.op, [With(R, e, "mismatch") EXCEPT !.phase = "repair_required"])
  BY <1>1 DEF RecordEffect
<1>3. /\ act # Idle /\ act.at \notin {"admitted", "reserve", "join", "create"} /\ Unresolved(act.op)
      /\ act.op \in Ops /\ Good(act.op, R)
  BY <1>2, WorkerWrites
<1>4. Intended(R, e)
  BY <1>1, <1>2 DEF IndInv, Working, Intending
<1>5. CASE Write(act.op, [With(R, e, "verified") EXCEPT !.phase = "committed"])
  <2>1. Follows(act.op, R, Mark(R, e, "verified", "committed")) /\ Mark(R, e, "verified", "committed").phase = "committed"
    BY <1>3, <1>4, MarkedGood
  <2>2. Write(act.op, Mark(R, e, "verified", "committed"))
    BY <1>5 DEF Mark
  <2> QED BY <1>2, <1>3, <2>1, <2>2 DEF Rewriting
<1>6. CASE /\ Observe(R, StoreOf(e)) # R.eff[e].post
           /\ Write(act.op, [With(R, e, "mismatch") EXCEPT !.phase = "repair_required"])
  <2>1. StoreOf(e) = "config"
    <3>1. R.eff[e].post = Left(R, e)
      BY <1>3, <1>4, BegunIs DEF Intended
    <3>2. StoreOf(e) # "config" => Observe(R, StoreOf(e)) = Left(R, e)
      BY <1>1, <1>2 DEF IndInv, Working, Performing
    <3> QED BY <1>6, <3>1, <3>2
  <2>2. /\ Follows(act.op, R, Mark(R, e, "mismatch", "repair_required"))
        /\ Mark(R, e, "mismatch", "repair_required").phase = "repair_required"
    BY <1>3, <1>4, <2>1, MarkedGood
  <2>3. Write(act.op, Mark(R, e, "mismatch", "repair_required"))
    BY <1>6 DEF Mark
  <2> QED BY <1>2, <1>3, <2>2, <2>3 DEF Rewriting
<1> QED BY <1>2, <1>5, <1>6

\* And the end.
LEMMA CompleteWrites ==
  ASSUME IndInv, Complete
  PROVE  UNCHANGED journal \/ Rewriting
<1>1. /\ act.at = "step" /\ AllDone(R) /\ UNCHANGED <<config, store, pair, slot, temp>>
      /\ UNCHANGED journal \/ Write(act.op, InPhase(R, "complete"))
  BY DEF Complete, InPhase
<1>2. /\ act # Idle /\ act.at \notin {"admitted", "reserve", "join", "create"} /\ Unresolved(act.op)
      /\ act.op \in Ops /\ Good(act.op, R) /\ R.phase \notin {"repair_required", "complete"}
  BY <1>1, WorkerWrites
<1>3. Follows(act.op, R, InPhase(R, "complete")) /\ InPhase(R, "complete").branch = R.branch
  BY <1>1, <1>2, CompletedGood
<1> QED BY <1>1, <1>2, <1>3 DEF Rewriting

\* So may the branch that undoes the operation.
LEMMA VerifyWrites ==
  ASSUME IndInv, NEW ok \in BOOLEAN, Verify(ok)
  PROVE  UNCHANGED journal \/ Rewriting
<1>1. /\ act.at = "verify" /\ UNCHANGED <<config, store, pair, slot, temp>>
      /\ \/ UNCHANGED journal
         \/ MaySwitch(R, UndoBranch(R.kind)) /\ Write(act.op, Switched(R, UndoBranch(R.kind)))
  BY DEF Verify
<1>2. /\ act # Idle /\ act.at \notin {"admitted", "reserve", "join", "create"} /\ Unresolved(act.op)
      /\ act.op \in Ops /\ Good(act.op, R) /\ R.phase \notin {"repair_required", "complete"}
  BY <1>1, WorkerWrites
<1>3. Done(R, "credential_stage") /\ R.kind \in {"enrollment", "replacement"}
  BY <1>1 DEF IndInv, Working, Verifying, Staging
<1>4. CASE MaySwitch(R, UndoBranch(R.kind)) /\ Write(act.op, Switched(R, UndoBranch(R.kind)))
  <2>1. Undoable(R, UndoBranch(R.kind))
    BY <1>2, <1>3, <1>4, MaySwitchIs DEF UndoBranch
  <2>2. Follows(act.op, R, Switched(R, UndoBranch(R.kind))) /\ Switched(R, UndoBranch(R.kind)).phase = R.phase
    BY <1>2, <2>1, SwitchedGood
  <2> QED BY <1>1, <1>2, <1>4, <2>2 DEF Rewriting
<1> QED BY <1>1, <1>4

\* And a staged secret that was found again.
LEMMA RecoverStageWrites ==
  ASSUME IndInv, RecoverStage
  PROVE  UNCHANGED journal \/ Rewriting
<1>1. /\ act.at = "maintain" /\ Unresolved(act.op) /\ Intended(R, "credential_stage")
      /\ UNCHANGED <<config, store, pair, slot, temp>>
      /\ \/ UNCHANGED journal
         \/ Write(act.op, Mark(R, "credential_stage", "verified", "committed"))
  BY DEF RecoverStage, Maintained, Mark
<1>2. act # Idle /\ act.at \notin {"admitted", "reserve", "join", "create"}
  BY <1>1 DEF Idle
<1>3. act.op \in Ops /\ Good(act.op, R)
  BY <1>2, WorkerIs
<1>4. /\ Follows(act.op, R, Mark(R, "credential_stage", "verified", "committed"))
      /\ Mark(R, "credential_stage", "verified", "committed").phase = "committed"
  BY <1>1, <1>3, MarkedGood
<1> QED BY <1>1, <1>2, <1>4 DEF Rewriting

\* So may the branch that a repair chooses.
LEMMA RecoverSwitchWrites ==
  ASSUME IndInv, RecoverSwitch
  PROVE  UNCHANGED journal \/ Rewriting
<1>0. PICK branch : branch = IF act.action = "restore" THEN "restore" ELSE UndoBranch(R.kind)
  OBVIOUS
<1>1. /\ act.at = "maintain" /\ Unresolved(act.op) /\ R.branch = "primary" /\ act.action \in {"restore", "leave"}
      /\ UNCHANGED <<config, store, pair, slot, temp>>
      /\ \/ MaySwitch(R, branch) /\ Write(act.op, Switched(R, branch))
         \/ UNCHANGED journal
  BY <1>0 DEF RecoverSwitch, Maintained
<1>2. act # Idle /\ act.at \notin {"admitted", "reserve", "join", "create"}
  BY <1>1 DEF Idle
<1>3. act.op \in Ops /\ Good(act.op, R) /\ R.phase # "complete"
  BY <1>1, <1>2, WorkerIs
<1>4. CASE MaySwitch(R, branch) /\ Write(act.op, Switched(R, branch))
  <2>1. /\ act.action = "restore" => R.kind = "replacement" /\ Done(R, "credential_promote")
        /\ act.action = "leave" => R.kind \in {"enrollment", "replacement"} /\ Done(R, "credential_stage")
    BY <1>1 DEF IndInv, Repairing
  <2>2. Done(R, "credential_stage")
    <3>1. Script(R) /\ Shaped(R)
      BY <1>3, Entries
    <3>2. R.kind \in {"enrollment", "replacement"} => Effect(R, "credential_stage")
      BY DEF Effect
    <3>3. Precedes(R, "credential_stage", "credential_promote")
      BY DEF Precedes
    <3>4. Done(R, "credential_promote") => Effect(R, "credential_promote") /\ Begun(R, "credential_promote")
      BY <1>3, Entries
    <3> QED BY <1>1, <2>1, <3>1, <3>2, <3>3, <3>4 DEF Script
  <2>3. \/ R.kind = "enrollment" /\ branch = "abandon"
        \/ R.kind = "replacement" /\ branch = "reject"
        \/ R.kind = "replacement" /\ branch = "restore" /\ Done(R, "credential_promote")
    BY <1>0, <1>1, <2>1 DEF UndoBranch
  <2>4. Undoable(R, branch)
    BY <1>3, <1>4, <2>2, <2>3, MaySwitchIs
  <2>5. Follows(act.op, R, Switched(R, branch)) /\ Switched(R, branch).phase = R.phase
    BY <1>3, <2>4, SwitchedGood
  <2> QED BY <1>1, <1>2, <1>3, <1>4, <2>5 DEF Rewriting
<1> QED BY <1>1, <1>4

\* What a step does to the journal: a first record, or a change that the validator accepts.
LEMMA Recording ==
  ASSUME IndInv, [Next]_vars
  PROVE  UNCHANGED journal \/ (CreateRecord /\ UNCHANGED config) \/ Rewriting
<1>1. CASE UNCHANGED vars
  BY <1>1 DEF vars, sagaVars
<1>2. CASE ConfigNext /\ UNCHANGED sagaVars
  BY <1>2 DEF sagaVars
<1>3. CASE AdmissionStep /\ UNCHANGED config
  <2>1. CASE \E op \in Ops, w \in Workspaces, r \in Roles, want \in Wants, v \in Secrets : Start(op, w, r, want, v)
    BY <2>1 DEF Start
  <2>2. CASE RetirePair \/ \E r \in Roles : RetireSlot(r)
    BY <2>2 DEF RetirePair, RetireSlot
  <2>3. CASE Prove \/ Begin \/ PublishSlot \/ PublishPair
    BY <2>3 DEF Prove, Begin, PublishSlot, PublishPair
  <2> QED BY <1>3, <2>1, <2>2, <2>3 DEF AdmissionStep
<1>4. CASE EffectStep
  <2>1. CASE Perform \/ Continue \/ ReleasePair \/ ReleaseSlot
    BY <2>1 DEF Perform, Continue, ReleasePair, ReleaseSlot
  <2> QED BY <1>4, <2>1, IntendWrites, RecordEffectWrites, CompleteWrites, VerifyWrites DEF EffectStep
<1>5. CASE RecoverStep
  <2>1. CASE \/ \E op \in Ops, action \in {"resume", "restore", "leave", "retry_delete"} : Recover(op, action)
             \/ Inspect \/ Bridge \/ Finish \/ \E ok \in BOOLEAN : RecoverVerify(ok)
    BY <2>1 DEF Recover, Inspect, Bridge, Finish, RecoverVerify
  <2> QED BY <1>5, <2>1, RecoverStageWrites, RecoverSwitchWrites DEF RecoverStep
<1>6. CASE Leave
  BY <1>6 DEF Leave
<1> QED BY <1>1, <1>2, <1>3, <1>4, <1>5, <1>6 DEF Next, SagaStep

\* The record that is written is one that may follow.
LEMMA RewritingIs ==
  ASSUME IndInv, Rewriting
  PROVE  /\ act.op \in Ops /\ Good(act.op, R) /\ Fits(R) /\ Unresolved(act.op) /\ R.role \in Roles
         /\ Follows(act.op, R, journal'[act.op])
         /\ \A op \in Ops \ {act.op} : journal'[op] = journal[op] /\ ~Unresolved(op)
         /\ journal'[act.op].phase = "complete" => AllDone(R) /\ journal'[act.op].branch = R.branch
         /\ UNCHANGED store
<1>1. act.op \in Ops /\ Good(act.op, R) /\ Fits(R) /\ Unresolved(act.op) /\ R.role \in Roles
      /\ \A op \in Ops \ {act.op} : ~Unresolved(op)
  BY WorkerIs, WorkerFits DEF Rewriting
<1>2. PICK new : /\ Write(act.op, new) /\ Follows(act.op, R, new)
                 /\ new.phase = "complete" => AllDone(R) /\ new.branch = R.branch
  BY DEF Rewriting
<1>3. Good(act.op, new)
  BY <1>2 DEF Follows
<1>4. SagaTyped /\ RecordsHold
  BY Parts DEF IndInv
<1>5. journal'[act.op] = new /\ \A op \in Ops \ {act.op} : journal'[op] = journal[op]
  BY <1>1, <1>2, <1>3, <1>4, JournalIs
<1> QED BY <1>1, <1>2, <1>5 DEF Rewriting

\* Every change of the journal is one that the validator accepts.
LEMMA ChangeIsValid ==
  ASSUME IndInv, IndInv', [Next]_vars, NEW op \in Ops, journal'[op] # journal[op]
  PROVE  IF Exists(op) THEN ValidChange(journal[op], journal'[op]) ELSE ValidRecord(journal'[op])
<1>1. CASE Rewriting
  <2>1. Follows(act.op, R, journal'[act.op]) /\ Unresolved(act.op) /\ op = act.op
    BY <1>1, RewritingIs
  <2> QED BY <2>1 DEF Follows, Unresolved, R
<1>2. CASE CreateRecord
  <2>1. SagaTyped /\ act.at = "create" /\ act # Idle
    BY <1>2, Parts DEF CreateRecord, Idle
  <2>2. journal[act.op] = NoRecord /\ op = act.op
    BY <1>2, <2>1 DEF IndInv, Alone, CreateRecord, Write, SagaTyped
  <2>3. ~Exists(op)
    BY <2>2 DEF Exists
  <2>4. Exists(op)'
    <3>1. PICK w, r, kind, before, after, was, new : journal'[op] = Record(w, r, kind, before, after, was, new)
      BY <1>2, <2>1, <2>2 DEF CreateRecord, Write, SagaTyped
    <3>2. journal'[op].phase = "prepare"
      BY <3>1 DEF Record
    <3> QED BY <3>2 DEF Exists, NoRecord, Past
  <2>5. Good(op, journal'[op])
    <3>1. TypeOK' /\ RecordsHold'
      BY DEF IndInv
    <3>2. IsRecord(journal'[op]) /\ WellFormed(op, journal'[op]) /\ Scripted(journal'[op])
      BY <2>4, <3>1 DEF TypeOK, RecordsHold
    <3> QED BY <3>2 DEF Good
  <2> QED BY <2>3, <2>5, GoodIsValid
<1>3. CASE UNCHANGED journal
  BY <1>3
<1> QED BY <1>1, <1>2, <1>3, Recording

\* A write of the configuration replaces what was reviewed, or an edit by hand.
Reviewed(w) ==
    \/ \E a \in Applies : /\ editor[a] = "intent" /\ editor'[a] = "written"
                          /\ config[w] = applies[a].orig \/ config[w].zone = HandZone
    \/ /\ act.at = "intended"
       /\ (config[w] = R.orig \/ config[w].zone = HandZone)

\* A reviewed change replaces what was reviewed, or a later edit by hand.
LEMMA ApplyIsReviewed ==
  ASSUME IndInv, NEW a \in Applies, ApplyReplace(a), NEW w \in Workspaces, config'[w] # config[w]
  PROVE  Reviewed(w)
<1>1. ConfigTyped /\ Editing
  BY Parts DEF IndInv
<1>2. editor[a] = "intent" /\ editor'[a] = "written"
  BY <1>1 DEF ApplyReplace, Moves, ConfigTyped
<1>3. applies[a] \in ApplyType
  BY <1>1, <1>2 DEF Editing
<1>4. w = applies[a].ws
  BY <1>1, <1>3 DEF ApplyReplace, ConfigTyped, ApplyType
<1>5. config[w] = applies[a].orig \/ config[w].zone = HandZone
  BY <1>1, <1>2, <1>3, <1>4 DEF Editing
<1> QED BY <1>2, <1>5 DEF Reviewed

\* So does the effect of an operation on the configuration.
LEMMA PerformIsReviewed ==
  ASSUME IndInv, Perform, NEW w \in Workspaces, config'[w] # config[w]
  PROVE  Reviewed(w)
<1>1. ConfigTyped
  BY Parts
<1>2. act.at = "intended" /\ StoreOf(NextEffect(R)) = "config" /\ w = act.ws
  BY <1>1 DEF Perform, ConfigTyped
<1>3. config[w] = R.orig \/ config[w].zone = HandZone
  BY <1>2 DEF IndInv, Working, Replacing
<1> QED BY <1>2, <1>3 DEF Reviewed

\* Nothing else writes the configuration but a hand.
LEMMA ChangeIsReviewed ==
  ASSUME IndInv, [Next]_vars, NEW w \in Workspaces, config'[w] # config[w], config'[w].zone # HandZone
  PROVE  Reviewed(w)
<1>1. ConfigTyped
  BY Parts
<1>2. CASE UNCHANGED vars
  BY <1>2 DEF vars, configVars
<1>3. ASSUME NEW a \in Applies, ApplyStep(a)
      PROVE  ApplyReplace(a) \/ UNCHANGED config
  BY <1>3 DEF ApplyStep, ApplyBegin, ApplyValidated, ApplyTimesOut, ApplyLock, ApplyIntent, ApplyRecord,
              ApplyFinish, ApplyEnds, RecoverApply
<1>4. ASSUME NEW x \in Workspaces, HandEdit(x)
      PROVE  FALSE
  <2>1. config' = [config EXCEPT ![x] = [config[x] EXCEPT !.zone = HandZone]]
    BY <1>4 DEF HandEdit
  <2>2. x = w /\ config'[w] = [config[w] EXCEPT !.zone = HandZone]
    BY <1>1, <2>1 DEF ConfigTyped
  <2>3. config[w] \in Config
    BY <1>1 DEF ConfigTyped
  <2>4. [config[w] EXCEPT !.zone = HandZone].zone = HandZone
    BY <2>3, ZonedSame
  <2> QED BY <2>2, <2>4
<1>5. CASE ConfigNext
  BY <1>3, <1>4, <1>5, ApplyIsReviewed DEF ConfigNext
<1>6. CASE EffectStep
  BY <1>6, PerformIsReviewed DEF EffectStep, Intend, RecordEffect, Complete, Verify, Continue, ReleasePair, ReleaseSlot
<1>7. CASE RecoverStep
  BY <1>7 DEF RecoverStep, Recover, Inspect, Bridge, Finish, RecoverStage, RecoverSwitch, RecoverVerify
<1>8. CASE (AdmissionStep /\ UNCHANGED config) \/ Leave
  BY <1>8 DEF Leave
<1> QED BY <1>2, <1>5, <1>6, <1>7, <1>8 DEF Next, SagaStep

\* Journal and configuration change only as the validator and the review allow, through
\* every crash and repair: the record of an interrupted operation can always be continued,
\* and no reviewed change is overwritten unseen.
THEOREM WritesAreAlwaysAllowed == Spec => WritesAreAllowed
<1>1. IndInv /\ IndInv' /\ [Next]_vars
        => [\A op \in Ops : journal'[op] # journal[op] =>
              IF Exists(op) THEN ValidChange(journal[op], journal'[op]) ELSE ValidRecord(journal'[op])]_vars
  BY ChangeIsValid
<1>2. IndInv /\ IndInv' /\ [Next]_vars
        => [\A w \in Workspaces :
              config'[w] # config[w] /\ config'[w].zone # HandZone
                => \/ \E a \in Applies : /\ editor[a] = "intent" /\ editor'[a] = "written"
                                         /\ config[w] = applies[a].orig \/ config[w].zone = HandZone
                   \/ /\ act.at = "intended"
                      /\ (config[w] = R.orig \/ config[w].zone = HandZone)]_vars
  BY ChangeIsReviewed DEF Reviewed
<1> QED BY <1>1, <1>2, Invariance, PTL DEF Spec, WritesAreAllowed, ChangesAreValid, ReviewedOnly

-----------------------------------------------------------------------------
(* The atomic change that the operations implement.                        *)

\* What a reader of AtomicCredential sees: the credential of each role and what has become
\* of each operation.
OpenOn(r) == \E op \in Ops : Unresolved(op) /\ journal[op].role = r
Cred ==
    [r \in Roles |->
       IF \E op \in Ops : Unresolved(op) /\ journal[op].role = r
       THEN journal[CHOOSE op \in Ops : Unresolved(op) /\ journal[op].role = r].was
       ELSE store[r].active]
Outcomes ==
    [op \in Ops |->
       IF ~Exists(op) THEN [state |-> "none"]
       ELSE [state |-> IF Unresolved(op) THEN "pending"
                       ELSE IF journal[op].branch = "primary" THEN "applied" ELSE "undone",
             role |-> journal[op].role, new |-> journal[op].new]]

\* The credential of a role: what it was, while an operation on it is unfinished.
LEMMA CredIs ==
  ASSUME OneUnresolved
  PROVE  /\ \A op \in Ops : Unresolved(op) /\ journal[op].role \in Roles => Cred[journal[op].role] = journal[op].was
         /\ \A r \in Roles : ~OpenOn(r) => Cred[r] = store[r].active
<1>1. ASSUME NEW op \in Ops, Unresolved(op), journal[op].role \in Roles
      PROVE  Cred[journal[op].role] = journal[op].was
  <2>1. op = CHOOSE o \in Ops : Unresolved(o) /\ journal[o].role = journal[op].role
    <3>1. \A o \in Ops : Unresolved(o) => o = op
      BY <1>1 DEF OneUnresolved
    <3>2. \E o \in Ops : Unresolved(o) /\ journal[o].role = journal[op].role
      BY <1>1
    <3> QED BY <1>1, <3>1, <3>2
  <2> QED BY <1>1, <2>1 DEF Cred
<1>2. ASSUME NEW r \in Roles, ~OpenOn(r)
      PROVE  Cred[r] = store[r].active
  BY <1>2 DEF Cred, OpenOn
<1> QED BY <1>1, <1>2

\* And so after a step.
LEMMA CredIsLater ==
  ASSUME OneUnresolved'
  PROVE  /\ \A op \in Ops : Unresolved(op)' /\ journal'[op].role \in Roles => Cred'[journal'[op].role] = journal'[op].was
         /\ \A r \in Roles : ~OpenOn(r)' => Cred'[r] = store'[r].active
<1>1. ASSUME NEW op \in Ops, Unresolved(op)', journal'[op].role \in Roles
      PROVE  Cred'[journal'[op].role] = journal'[op].was
  <2>1. op = CHOOSE o \in Ops : Unresolved(o)' /\ journal'[o].role = journal'[op].role
    <3>1. \A o \in Ops : Unresolved(o)' => o = op
      BY <1>1 DEF OneUnresolved
    <3>2. \E o \in Ops : Unresolved(o)' /\ journal'[o].role = journal'[op].role
      BY <1>1
    <3> QED BY <1>1, <3>1, <3>2
  <2> QED BY <1>1, <2>1 DEF Cred
<1>2. ASSUME NEW r \in Roles, ~OpenOn(r)'
      PROVE  Cred'[r] = store'[r].active
  BY <1>2 DEF Cred, OpenOn
<1> QED BY <1>1, <1>2

\* An operation whose record says the same has the same outcome.
LEMMA OutcomeKept ==
  ASSUME NEW op \in Ops, Exists(op) <=> Exists(op)', Unresolved(op) <=> Unresolved(op)',
         Exists(op) => /\ journal'[op].role = journal[op].role /\ journal'[op].new = journal[op].new
                       /\ journal'[op].branch = journal[op].branch \/ Unresolved(op)
  PROVE  Outcomes'[op] = Outcomes[op]
BY DEF Outcomes

\* Functions are equal when their values are.
LEMMA OutcomesEqual ==
  ASSUME \A op \in Ops : Outcomes'[op] = Outcomes[op]
  PROVE  UNCHANGED Outcomes
BY DEF Outcomes

\* So for the credentials.
LEMMA CredEqual ==
  ASSUME \A r \in Roles : Cred'[r] = Cred[r]
  PROVE  UNCHANGED Cred
BY DEF Cred

\* What is pending is what is unfinished.
LEMMA Pends ==
  ASSUME NEW op \in Ops
  PROVE  Outcomes[op] # [state |-> "none"] /\ Outcomes[op].state = "pending" <=> Unresolved(op)
BY DEF Outcomes, Unresolved

\* Only the effect of an operation touches the slots.
LEMMA StoreMoves ==
  ASSUME [Next]_vars
  PROVE  UNCHANGED store \/ (Perform /\ UNCHANGED <<applies, editor>>)
<1>1. CASE UNCHANGED vars
  BY <1>1 DEF vars, sagaVars
<1>2. CASE ConfigNext /\ UNCHANGED sagaVars
  BY <1>2 DEF sagaVars
<1>3. CASE AdmissionStep
  BY <1>3 DEF AdmissionStep, Start, RetirePair, RetireSlot, Prove, Begin, PublishSlot, PublishPair, CreateRecord
<1>4. CASE EffectStep /\ UNCHANGED <<applies, editor>>
  BY <1>4 DEF EffectStep, Intend, RecordEffect, Complete, Verify, Continue, ReleasePair, ReleaseSlot
<1>5. CASE RecoverStep
  BY <1>5 DEF RecoverStep, Recover, Inspect, Bridge, Finish, RecoverStage, RecoverSwitch, RecoverVerify
<1>6. CASE Leave
  BY <1>6 DEF Leave
<1> QED BY <1>1, <1>2, <1>3, <1>4, <1>5, <1>6 DEF Next, SagaStep

\* An effect changes slots of the role of the unfinished operation only.
LEMMA PerformIsHidden ==
  ASSUME IndInv, IndInv', Perform, UNCHANGED <<applies, editor>>
  PROVE  UNCHANGED <<Cred, Outcomes>>
<1>1. ConfigTyped /\ SagaTyped /\ OneUnresolved /\ OneUnresolved'
  BY Parts DEF IndInv
<1>2. PICK op \in Ops, r \in Roles : op = act.op /\ r = act.role
  BY PerformMoves
<1>3. journal' = journal /\ Unresolved(op) /\ journal[op].role = r
  BY <1>2, PerformMoves DEF R
<1>4. \A o \in Ops : (Exists(o) <=> Exists(o)') /\ (Unresolved(o) <=> Unresolved(o)')
  BY <1>3 DEF Exists, Unresolved
<1>5. UNCHANGED Outcomes
  BY <1>3, <1>4, OutcomeKept, OutcomesEqual
<1>6. \A q \in Roles \ {r} : store'[q] = store[q]
  BY <1>1, <1>2 DEF Perform, SagaTyped
<1>7. ASSUME NEW q \in Roles
      PROVE  Cred'[q] = Cred[q]
  <2>1. CASE q = r
    BY <1>1, <1>3, <1>4, <2>1, CredIs, CredIsLater
  <2>2. CASE q # r
    <3>1. ~OpenOn(q) /\ ~OpenOn(q)'
      BY <1>1, <1>3, <1>4, <2>2 DEF OpenOn, OneUnresolved
    <3> QED BY <1>1, <1>6, <2>2, <3>1, CredIs, CredIsLater
  <2> QED BY <2>1, <2>2
<1> QED BY <1>5, <1>7, CredEqual

\* Nor is it seen when nothing of journal and slots changes.
LEMMA RestIsHidden ==
  ASSUME UNCHANGED <<journal, store>>
  PROVE  UNCHANGED <<Cred, Outcomes>>
BY DEF Cred, Outcomes, Exists, Unresolved

\* A rewriting is hidden but for the last, which applies the operation or undoes it.
LEMMA RewritingShows ==
  ASSUME IndInv, IndInv', Rewriting
  PROVE  \/ UNCHANGED <<Cred, Outcomes>>
         \/ \E op \in Ops : Atomic!Apply(op) \/ Atomic!Undo(op)
<1>1. SagaTyped /\ OneUnresolved /\ OneUnresolved'
  BY Parts DEF IndInv
<1>2. PICK op \in Ops, rec \in {R}, new \in {journal'[act.op]} : op = act.op
  BY RewritingIs
<1>3. /\ Good(op, rec) /\ Fits(rec) /\ Unresolved(op) /\ rec.role \in Roles
      /\ Follows(op, rec, new) /\ journal[op] = rec /\ journal'[op] = new
      /\ \A o \in Ops \ {op} : journal'[o] = journal[o] /\ ~Unresolved(o)
      /\ new.phase = "complete" => AllDone(rec) /\ new.branch = rec.branch
      /\ UNCHANGED store
  BY <1>2, RewritingIs DEF R
<1>4. Good(op, new) /\ new.role = rec.role /\ new.was = rec.was /\ new.new = rec.new
  BY <1>3 DEF Follows, Keeps
<1>5. Exists(op)' /\ (Unresolved(op)' <=> new.phase # "complete")
  <2>1. /\ new = [ws |-> new.ws, role |-> new.role, kind |-> new.kind, branch |-> new.branch,
                  phase |-> new.phase, eff |-> new.eff, orig |-> new.orig, cand |-> new.cand,
                  was |-> new.was, new |-> new.new]
        /\ new.phase \in {"prepare", "effect_intent", "committed", "repair_required", "complete"}
    BY <1>4 DEF Good, IsRecord
  <2>2. new.phase \notin {"none", "past"}
    BY <2>1
  <2> QED BY <1>3, <2>1, <2>2 DEF Exists, Unresolved, NoRecord, Past, Terminal
<1>6. /\ \A o \in Ops \ {op} : (Exists(o) <=> Exists(o)') /\ ~Unresolved(o) /\ ~Unresolved(o)'
      /\ Exists(op)
  BY <1>3 DEF Exists, Unresolved
<1>7. \A o \in Ops \ {op} : Outcomes'[o] = Outcomes[o]
  BY <1>3, <1>6, OutcomeKept
<1>8. \A q \in Roles : q # rec.role => Cred'[q] = Cred[q]
  <2>1. ASSUME NEW q \in Roles, q # rec.role
        PROVE  Cred'[q] = Cred[q]
    <3>1. ~OpenOn(q) /\ ~OpenOn(q)'
      BY <1>3, <1>4, <1>6, <2>1 DEF OpenOn
    <3> QED BY <1>1, <1>3, <3>1, CredIs, CredIsLater
  <2> QED BY <2>1
<1>9. Cred[rec.role] = rec.was
  BY <1>1, <1>3, CredIs
<1>10. CASE new.phase # "complete"
  <2>1. Outcomes'[op] = Outcomes[op]
    BY <1>3, <1>4, <1>5, <1>6, <1>10, OutcomeKept
  <2>2. Cred'[rec.role] = rec.was
    BY <1>1, <1>3, <1>4, <1>5, <1>10, CredIsLater
  <2> QED BY <1>7, <1>8, <1>9, <2>1, <2>2, OutcomesEqual, CredEqual
<1>11. CASE new.phase = "complete"
  <2>1. AllDone(rec) /\ new.branch = rec.branch
    BY <1>3, <1>11
  <2>2. Cred'[rec.role] = store[rec.role].active
    <3>1. ~OpenOn(rec.role)'
      BY <1>3, <1>5, <1>6, <1>11 DEF OpenOn
    <3> QED BY <1>1, <1>3, <3>1, CredIsLater
  <2>3. /\ rec.branch = "primary" => Cred'[rec.role] = rec.new
        /\ rec.branch # "primary" => Cred'[rec.role] = rec.was
    BY <1>3, <2>1, <2>2, Settled
  <2>4. Outcomes[op] = [state |-> "pending", role |-> rec.role, new |-> rec.new]
    BY <1>3, <1>6 DEF Outcomes
  <2>5. Outcomes'[op] = [state |-> IF rec.branch = "primary" THEN "applied" ELSE "undone",
                         role |-> rec.role, new |-> rec.new]
    BY <1>3, <1>4, <1>5, <1>11, <2>1 DEF Outcomes
  <2>6. /\ Outcomes = [o \in Ops |-> Outcomes[o]] /\ Outcomes' = [o \in Ops |-> Outcomes'[o]]
        /\ Cred = [q \in Roles |-> Cred[q]] /\ Cred' = [q \in Roles |-> Cred'[q]]
    BY DEF Outcomes, Cred
  <2>7. CASE rec.branch = "primary"
    <3>1. Outcomes' = [Outcomes EXCEPT ![op].state = "applied"]
      BY <1>7, <2>4, <2>5, <2>6, <2>7
    <3>2. Cred' = [Cred EXCEPT ![Outcomes[op].role] = Outcomes[op].new]
      BY <1>8, <2>3, <2>4, <2>6, <2>7
    <3>3. Outcomes[op] # [state |-> "none"] /\ Outcomes[op].state = "pending"
      BY <1>3, Pends
    <3> QED BY <3>1, <3>2, <3>3 DEF Atomic!Apply, Atomic!Pending, Atomic!NoChange, Outcomes, Cred
  <2>8. CASE rec.branch # "primary"
    <3>1. Outcomes' = [Outcomes EXCEPT ![op].state = "undone"]
      BY <1>7, <2>4, <2>5, <2>6, <2>8
    <3>2. UNCHANGED Cred
      BY <1>8, <1>9, <2>3, <2>8, CredEqual
    <3>3. Outcomes[op] # [state |-> "none"] /\ Outcomes[op].state = "pending"
      BY <1>3, Pends
    <3> QED BY <3>1, <3>2, <3>3 DEF Atomic!Undo, Atomic!Pending, Atomic!NoChange, Outcomes, Cred
  <2> QED BY <2>7, <2>8
<1> QED BY <1>10, <1>11

\* A record begins the operation.
LEMMA CreateRecordBegins ==
  ASSUME IndInv, IndInv', CreateRecord
  PROVE  \E r \in Roles, v \in Secrets \cup {Absent} : Atomic!Begin(act.op, r, v)
<1>1. SagaTyped /\ OneUnresolved /\ OneUnresolved' /\ act.at = "create" /\ act # Idle /\ SagaTyped'
  <2>1. SagaTyped'
    BY TypeIsLater DEF IndInv
  <2> QED BY <2>1, Parts DEF IndInv, CreateRecord, Idle
<1>2. act \in Starter /\ \A o \in Ops : ~Unresolved(o)
  BY <1>1, ActIs, BeforeRecord DEF IndInv
<1>3. PICK op \in Ops, r \in Roles : op = act.op /\ r = act.role
  BY <1>2 DEF Starter
<1>4. PICK w, kind, before, after, was, new :
        journal' = [journal EXCEPT ![op] = Record(w, r, kind, before, after, was, new)] /\ was = store[r].active
  BY <1>3 DEF CreateRecord, Write
<1>5. journal[op] = NoRecord
  BY <1>1, <1>3 DEF IndInv, Alone
<1>6. /\ journal'[op] = Record(w, r, kind, before, after, was, new)
      /\ \A o \in Ops \ {op} : journal'[o] = journal[o]
  BY <1>1, <1>4 DEF SagaTyped
<1>7. /\ journal'[op].phase = "prepare" /\ journal'[op].role = r /\ journal'[op].was = was /\ journal'[op].new = new
  BY <1>6 DEF Record
<1>8. Exists(op)' /\ Unresolved(op)' /\ ~Exists(op)
  BY <1>5, <1>7 DEF Exists, Unresolved, NoRecord, Past, Terminal
<1>9. \A o \in Ops \ {op} : (Exists(o) <=> Exists(o)') /\ ~Unresolved(o) /\ ~Unresolved(o)'
  BY <1>2, <1>6 DEF Exists, Unresolved
<1>10. new \in Secrets \cup {Absent}
  BY <1>1, <1>7, <1>8 DEF SagaTyped, IsRecord, Values
<1>11. UNCHANGED store
  BY DEF CreateRecord
<1>12. ASSUME NEW q \in Roles
       PROVE  Cred'[q] = Cred[q]
  <2>1. Cred[q] = store[q].active
    BY <1>1, <1>2, CredIs DEF OpenOn
  <2>2. Cred'[q] = store[q].active
    <3>1. CASE q = r
      BY <1>1, <1>4, <1>7, <1>8, <3>1, CredIsLater
    <3>2. CASE q # r
      BY <1>1, <1>7, <1>9, <1>11, <3>2, CredIsLater DEF OpenOn
    <3> QED BY <3>1, <3>2
  <2> QED BY <2>1, <2>2
<1>13. UNCHANGED Cred
  BY <1>12, CredEqual
<1>14. Outcomes[op] = [state |-> "none"]
  BY <1>8 DEF Outcomes
<1>15. Outcomes' = [Outcomes EXCEPT ![op] = [state |-> "pending", role |-> r, new |-> new]]
  <2>1. Outcomes'[op] = [state |-> "pending", role |-> r, new |-> new]
    BY <1>7, <1>8 DEF Outcomes
  <2>2. \A o \in Ops \ {op} : Outcomes'[o] = Outcomes[o]
    BY <1>6, <1>9, OutcomeKept
  <2>3. Outcomes = [o \in Ops |-> Outcomes[o]] /\ Outcomes' = [o \in Ops |-> Outcomes'[o]]
    BY DEF Outcomes
  <2> QED BY <2>1, <2>2, <2>3
<1>16. \A o \in Ops : ~(Outcomes[o] # [state |-> "none"] /\ Outcomes[o].state = "pending")
  BY <1>2, Pends
<1>17. Atomic!Begin(op, r, new)
  BY <1>13, <1>14, <1>15, <1>16 DEF Atomic!Begin, Atomic!Pending, Atomic!NoChange, Outcomes, Cred
<1> QED BY <1>3, <1>10, <1>17

\* What is left by an earlier program is at most an operation that is to go on.
LEMMA AtomicAtFirst ==
  ASSUME SagaInit
  PROVE  Atomic!Init
<1>1. IndInv
  BY Initial
<1>2. SagaTyped /\ OneUnresolved
  BY <1>1, Parts DEF IndInv
<1>3. \A op \in Ops : Exists(op) => Unresolved(op)
  <2>1. CASE Fresh
    BY <2>1 DEF Fresh, Exists
  <2>2. CASE Upgraded
    <3>1. PICK w \in Workspaces, r \in Roles, rec \in {NoRecord, Past} :
             journal = [op \in Ops |-> IF op = 1 THEN Staged(w, r, store[r].staged) ELSE rec]
      BY <2>2 DEF Upgraded
    <3>2. Staged(w, r, store[r].staged).phase = "committed"
      BY DEF Staged, Record
    <3> QED BY <3>1, <3>2 DEF Exists, Unresolved, Terminal
  <2> QED BY <2>1, <2>2 DEF SagaInit
<1>4. \A r \in Roles : store[r].active \in Values
  BY <1>2 DEF SagaTyped, Slots
<1>5. \A op \in Ops : Exists(op) => /\ journal[op].role \in Roles /\ journal[op].was \in Values
                                    /\ journal[op].new \in Values
  BY <1>2 DEF SagaTyped, IsRecord
<1>6. Cred \in [Roles -> Secrets \cup {Absent}]
  <2>1. ASSUME NEW r \in Roles
        PROVE  Cred[r] \in Values
    <3>1. CASE OpenOn(r)
      BY <1>2, <1>5, <3>1, CredIs DEF OpenOn, Unresolved
    <3>2. CASE ~OpenOn(r)
      BY <1>2, <1>4, <3>2, CredIs
    <3> QED BY <3>1, <3>2
  <2> QED BY <2>1 DEF Cred, Values
<1>7. Outcomes \in [Ops -> {[state |-> "none"]}
                          \cup [state : {"pending"}, role : Roles, new : Secrets \cup {Absent}]]
  BY <1>3, <1>5 DEF Outcomes, Values
<1>8. \A op, other \in Ops :
         (Outcomes[op] # [state |-> "none"] /\ Outcomes[op].state = "pending")
         /\ (Outcomes[other] # [state |-> "none"] /\ Outcomes[other].state = "pending") => op = other
  BY <1>2, Pends DEF OneUnresolved
<1> QED BY <1>6, <1>7, <1>8 DEF Atomic!Init, Atomic!Pending, Atomic!NoChange, Outcomes, Cred

\* The operations implement an atomic change of a role's credential, for every interleaving,
\* crash and repair.
THEOREM ImplementsAtomic == Spec => ImplementsAtomicCredential
<1>1. SagaInit => Atomic!Init
  BY AtomicAtFirst
<1>2. ASSUME IndInv, IndInv', [Next]_vars
      PROVE  Atomic!Next \/ UNCHANGED <<Cred, Outcomes>>
  <2>1. CASE CreateRecord
    <3>1. act.op \in Ops
      <4>1. SagaTyped /\ act.at = "create" /\ act # Idle
        BY <1>2, <2>1, Parts DEF CreateRecord, Idle
      <4> QED BY <4>1, ActIs DEF Starter, Repairer
    <3>2. PICK op \in Ops, r \in Roles, v \in Secrets \cup {Absent} : Atomic!Begin(op, r, v)
      BY <1>2, <2>1, <3>1, CreateRecordBegins
    <3>3. Atomic!Next
      BY <3>2 DEF Atomic!Next
    <3> QED BY <3>3
  <2>2. CASE Rewriting
    <3>1. UNCHANGED <<Cred, Outcomes>> \/ \E op \in Ops : Atomic!Apply(op) \/ Atomic!Undo(op)
      BY <1>2, <2>2, RewritingShows
    <3>2. (\E op \in Ops : Atomic!Apply(op) \/ Atomic!Undo(op)) => Atomic!Next
      BY DEF Atomic!Next
    <3> QED BY <3>1, <3>2
  <2>3. CASE UNCHANGED journal
    BY <1>2, <2>3, StoreMoves, PerformIsHidden, RestIsHidden
  <2> QED BY <1>2, <2>1, <2>2, <2>3, Recording
<1>3. IndInv /\ IndInv' /\ [Next]_vars => [Atomic!Next]_<<Cred, Outcomes>>
  BY <1>2
<1> QED BY <1>1, <1>3, Invariance, PTL DEF Spec, ImplementsAtomicCredential, Atomic!Spec, Cred, Outcomes
=============================================================================
