------------------------------ MODULE ConfigStore ------------------------------
(***************************************************************************)
(* The configuration files of the workspaces and the reviewed changes that *)
(* settings/config_service.py applies to them: a compare-and-swap under a  *)
(* lock file between processes, bracketed by records of the journal.       *)
(*                                                                         *)
(* What is abstracted.  A configuration is what the properties tell apart: *)
(* for each credential role where its credential comes from and the last   *)
(* revision of it, and one setting, `zone', that stands for all the rest.  *)
(* Generations are hashes, and hashes do not collide: the configuration    *)
(* itself is its generation.  The user may edit the file by hand at any    *)
(* time, lock or no lock, to a zone that no reviewed change has.  A thread *)
(* that dies and one that ends with an exception leave the same behind.    *)
(***************************************************************************)
EXTENDS Naturals, FiniteSets

CONSTANTS
    Workspaces,   \* each has a configuration file and a journal
    Roles,        \* the two credential roles of one provider and profile
    Zones,        \* what a reviewed change may set
    HandZone,     \* what an edit by hand sets
    MaxApply,     \* bound on the reviewed changes
    MaxOp         \* bound on the credential operations

ASSUME ConfigAssumption ==
    /\ HandZone \notin Zones
    /\ MaxApply \in Nat
    /\ MaxOp \in Nat \ {0}

VARIABLES
    config,    \* the configuration file of each workspace
    holder,    \* who has the lock of each configuration file
    applies,   \* the journal's records of reviewed changes
    editor     \* where the thread of each change is

configVars == <<config, holder, applies, editor>>

Applies == 1 .. MaxApply
Ops     == 1 .. MaxOp
Free    == 0
Saga    == MaxApply + 1     \* the lock is held by a credential operation
Other   == MaxApply + 2     \* it is held by another program, throughout

Sources == {"none", "managed", "external"}
Config  == [source   : [Roles -> Sources],
            revision : [Roles -> 0 .. MaxOp],
            zone     : Zones \cup {HandZone}]

Terminal == {"complete", "resolved_without_change", "completed_then_superseded"}

\* The allowed changes of a record's phase.
Transitions(phase) ==
    CASE phase = "prepare" ->
           {"candidate_validated", "effect_intent", "resolved_without_change", "repair_required"}
      [] phase = "candidate_validated" ->
           {"locked", "effect_intent", "resolved_without_change", "repair_required"}
      [] phase = "locked" -> {"effect_intent", "resolved_without_change", "repair_required"}
      [] phase = "effect_intent" ->
           {"committed", "repair_required", "complete", "resolved_without_change"}
      [] phase = "committed" ->
           {"effect_intent", "readback", "complete", "repair_required", "completed_then_superseded"}
      [] phase = "readback" -> {"complete", "repair_required", "completed_then_superseded"}
      [] phase = "repair_required" -> Terminal
      [] OTHER -> {}

NoApply == [phase |-> "none"]
Past    == [phase |-> "past"]      \* the record of an earlier time
Apply(w, before, after) ==
    [ws |-> w, phase |-> "prepare", orig |-> before, cand |-> after, effect |-> "none"]

ConfigInit ==
    /\ config \in [Workspaces -> {c \in Config : \A r \in Roles : c.revision[r] = 0}]
    /\ holder \in [Workspaces -> {Free, Other}]
    /\ applies \in [Applies -> {NoApply, Past}]
    /\ editor = [a \in Applies |-> "out"]

Phase(a, phase)     == applies' = [applies EXCEPT ![a].phase = phase]
Moves(a, here)      == editor' = [editor EXCEPT ![a] = here]
Unlock(w)           == holder' = [holder EXCEPT ![w] = Free]

-----------------------------------------------------------------------------
(* apply, one step per durable write or lock.                              *)

\* Loads under the lock, finds the reviewed generation, validates the candidate and
\* creates the record, before it takes any lock for itself.
ApplyBegin(a, w, z) ==
    /\ applies[a] = NoApply
    /\ \A b \in 1 .. a - 1 : applies[b] # NoApply
    /\ holder[w] = Free
    /\ applies' = [applies EXCEPT ![a] = Apply(w, config[w], [config[w] EXCEPT !.zone = z])]
    /\ Moves(a, "begun")
    /\ UNCHANGED <<config, holder>>

\* Takes the record's lock; a record that was resolved meanwhile is immutable.
ApplyValidated(a) ==
    /\ editor[a] = "begun"
    /\ IF applies[a].phase = "prepare"
       THEN /\ Phase(a, "candidate_validated")
            /\ Moves(a, "validated")
       ELSE /\ Moves(a, "out")
            /\ UNCHANGED applies
    /\ UNCHANGED <<config, holder>>

ApplyTimesOut(a) ==
    /\ editor[a] = "validated"
    /\ holder[applies[a].ws] # Free
    /\ Phase(a, "resolved_without_change")
    /\ Moves(a, "out")
    /\ UNCHANGED <<config, holder>>

\* A faulty form: without the comparison under the lock.
ApplyLock_Unchecked(a) ==
    LET w == applies[a].ws IN
    /\ editor[a] = "validated"
    /\ holder[w] = Free
    /\ holder' = [holder EXCEPT ![w] = a]
    /\ applies' = [applies EXCEPT ![a].phase = "effect_intent", ![a].effect = "intent"]
    /\ Moves(a, "intent")
    /\ UNCHANGED config

ApplyLock(a) ==
    LET w == applies[a].ws IN
    /\ editor[a] = "validated"
    /\ holder[w] = Free
    /\ IF config[w] = applies[a].orig
       THEN /\ holder' = [holder EXCEPT ![w] = a]
            /\ Phase(a, "locked")
            /\ Moves(a, "locked")
       ELSE /\ Phase(a, "resolved_without_change")
            /\ Moves(a, "out")
            /\ UNCHANGED holder
    /\ UNCHANGED config

ApplyIntent(a) ==
    /\ editor[a] = "locked"
    /\ config[applies[a].ws] = applies[a].orig
    /\ applies' = [applies EXCEPT ![a].phase = "effect_intent", ![a].effect = "intent"]
    /\ Moves(a, "intent")
    /\ UNCHANGED <<config, holder>>

ApplyReplace(a) ==
    /\ editor[a] = "intent"
    /\ config' = [config EXCEPT ![applies[a].ws] = applies[a].cand]
    /\ Moves(a, "written")
    /\ UNCHANGED <<holder, applies>>

ApplyRecord(a) ==
    LET w == applies[a].ws IN
    /\ editor[a] = "written"
    /\ IF config[w] = applies[a].cand
       THEN /\ applies' = [applies EXCEPT ![a].phase = "committed", ![a].effect = "verified"]
            /\ Moves(a, "recorded")
            /\ UNCHANGED holder
       ELSE /\ applies' = [applies EXCEPT ![a].phase = "repair_required",
                                          ![a].effect = "readback_mismatch"]
            /\ Moves(a, "out")
            /\ Unlock(w)
    /\ UNCHANGED config

\* What is read back is noted, and not compared again.
ApplyFinish(a) ==
    /\ editor[a] = "recorded"
    /\ Phase(a, "complete")
    /\ Moves(a, "out")
    /\ Unlock(applies[a].ws)
    /\ UNCHANGED config

ApplyEnds(a) ==
    /\ editor[a] # "out"
    /\ Moves(a, "out")
    /\ holder' = [w \in Workspaces |-> IF holder[w] = a THEN Free ELSE holder[w]]
    /\ UNCHANGED <<config, applies>>

(* recover: one update at most, under the record's lock and the file's.    *)

Outcome(a, action) ==
    LET r   == applies[a]
        gen == config[r.ws]
    IN  IF r.effect = "verified"
        THEN IF gen = r.cand THEN "complete" ELSE "completed_then_superseded"
        ELSE IF r.effect = "intent" /\ gen = r.cand THEN "complete"
        ELSE IF r.effect \in {"none", "intent"} /\ gen = r.orig
        THEN IF action = "leave" THEN "resolved_without_change" ELSE r.phase
        ELSE "repair_required"

RecoverApply(a, action) ==
    /\ applies[a] \notin {NoApply, Past}
    /\ applies[a].phase \notin Terminal
    /\ editor[a] \in {"out", "begun"}
    /\ holder[applies[a].ws] = Free
    /\ applies' = [applies EXCEPT
         ![a].phase  = Outcome(a, action),
         ![a].effect = IF @ = "intent" /\ Outcome(a, action) = "complete"
                       THEN "verified" ELSE @]
    /\ UNCHANGED <<config, holder, editor>>

HandEdit(w) ==
    /\ config' = [config EXCEPT ![w].zone = HandZone]
    /\ UNCHANGED <<holder, applies, editor>>

ApplyStep(a) ==
    \/ \E w \in Workspaces, z \in Zones : ApplyBegin(a, w, z)
    \/ ApplyValidated(a) \/ ApplyTimesOut(a) \/ ApplyLock(a) \/ ApplyIntent(a)
    \/ ApplyReplace(a) \/ ApplyRecord(a) \/ ApplyFinish(a) \/ ApplyEnds(a)
    \/ \E action \in {"resume", "leave"} : RecoverApply(a, action)

ConfigNext ==
    \/ \E a \in Applies : ApplyStep(a)
    \/ \E w \in Workspaces : HandEdit(w)
=============================================================================
