--------------------------- MODULE SettingsSession ---------------------------
(***************************************************************************)
(* One process of the Local Settings server: its only browser session, the *)
(* barrier around mutations, the Google sign-ins in memory, and the three  *)
(* ways it ends (settings/security.py, app.py, launcher.py and             *)
(* google_oauth.py).  Requests run in worker threads, the provider's       *)
(* redirect in a thread of its own and outside the barrier, and the        *)
(* lifecycle on the event loop.                                            *)
(*                                                                         *)
(* What is abstracted.  Cookies, CSRF and origins are one condition (the   *)
(* session answers), times are flags that rise (idle, late, aged), a       *)
(* candidate is the account it belongs to, and the saga of a save is two   *)
(* steps under the pair lock; CredentialSaga has its effects.              *)
(***************************************************************************)
EXTENDS Naturals, Sequences, FiniteSets

CONSTANTS
  Worker,         \* worker threads
  Purpose,        \* the two Google roles
  User,           \* accounts of the provider
  NoUser,
  MaxFlow,        \* bound on sign-ins begun
  MaxGeneration   \* bound on generations of the configuration

VARIABLES
  session,        \* [state, idle, late]
  blocked,        \* no sign-in may begin or commit
  closed,         \* no mutation may enter the barrier
  req,            \* what each worker thread is doing
  flows,          \* the sign-ins begun, in order
  current,        \* the sign-in each purpose knows
  stored,         \* the account whose credential is in each store
  generation,     \* of the configuration file
  terminal,       \* [reason, drained] of the termination under way
  closing,        \* the close request is waiting for the drain
  exit            \* "no", "asked", "done"

settingsVars == <<session, blocked, closed, req, flows, current, stored, generation, terminal, closing, exit>>

(* There are two roles.                                                    *)
ASSUME SessionAssumption == \E p, q \in Purpose : p # q /\ Purpose = {p, q}

NoFlow == 0
PreCommit == {"pending", "exchanging", "awaiting_commit"}
Terminal == {"complete", "cancelled", "expired", "denied", "account_mismatch", "failed"}
Ended == {"expired", "closed", "replaced", "bootstrap_expired"}

NotWorking == [at |-> "idle", purpose |-> NoUser, replace |-> FALSE, gen |-> 0, peer |-> NoUser]
NoTerminal == [reason |-> "none", drained |-> FALSE]

(* The threads inside the barrier, and what its drain waits for.  As       *)
(* faulty: it waits until nobody is let in any more.                       *)
InBarrier == {r \in Worker : req[r].at \notin {"idle", "admitted"}}
Drained_Closed == closed
Drained == InBarrier = {}

(* The session answers: it is live, and the idle limit has not passed.     *)
Answers == session.state = "active" /\ ~session.idle

OtherPurpose(p) == CHOOSE q \in Purpose : q # p

(* A flow whose verdict is final keeps no secret.                          *)
Discarded(f, status) ==
  [f EXCEPT !.status = status, !.token = FALSE, !.account = NoUser, !.aged = FALSE, !.replace = FALSE, !.gen = 0]
Swept(f) == IF f.status \in PreCommit /\ f.aged THEN Discarded(f, "expired") ELSE f

SettingsRun == exit # "done"

SettingsInit ==
  /\ session = [state |-> "new", idle |-> FALSE, late |-> FALSE]
  /\ blocked = FALSE /\ closed = FALSE
  /\ req = [r \in Worker |-> NotWorking]
  /\ flows = <<>>
  /\ current = [p \in Purpose |-> NoFlow]
  /\ stored \in {s \in [Purpose -> User \cup {NoUser}] :
                   Cardinality({p \in Purpose : s[p] # NoUser}) <= 1}
  /\ generation = 0
  /\ terminal = NoTerminal /\ closing = FALSE /\ exit = "no"

----------------------------------------------------------------------------
(* The session.                                                            *)

ConsumeBootstrap ==
  /\ SettingsRun /\ session.state = "new" /\ ~session.late
  /\ session' = [session EXCEPT !.state = "active"]
  /\ UNCHANGED <<blocked, closed, req, flows, current, stored, generation, terminal, closing, exit>>

(* Time: the bootstrap link or the session goes stale, a sign-in ages.     *)
LimitsPass ==
  /\ SettingsRun
  /\ \/ session.state = "new" /\ ~session.late /\ session' = [session EXCEPT !.late = TRUE] /\ UNCHANGED flows
     \/ session.state = "active" /\ ~session.idle /\ session' = [session EXCEPT !.idle = TRUE] /\ UNCHANGED flows
     \/ /\ \E i \in DOMAIN flows : flows[i].status \in PreCommit /\ ~flows[i].aged /\ flows' = [flows EXCEPT ![i].aged = TRUE]
        /\ UNCHANGED session
  /\ UNCHANGED <<blocked, closed, req, current, stored, generation, terminal, closing, exit>>

----------------------------------------------------------------------------
(* Mutations: authorised against the session, then let into the barrier.   *)

Sets(r, value) == req' = [req EXCEPT ![r] = value]
Does(r, at) == SettingsRun /\ req[r].at = at
Quits(r) == Sets(r, NotWorking)

AdmitMutation(r) ==
  /\ Does(r, "idle") /\ Answers
  /\ Sets(r, [NotWorking EXCEPT !.at = "admitted"])
  /\ UNCHANGED <<session, blocked, closed, flows, current, stored, generation, terminal, closing, exit>>

EnterBarrier(r) ==
  /\ Does(r, "admitted")
  /\ Sets(r, [NotWorking EXCEPT !.at = IF closed THEN "idle" ELSE "inside"])
  /\ UNCHANGED <<session, blocked, closed, flows, current, stored, generation, terminal, closing, exit>>

(* Any other mutation of the settings: a group applied, or a role          *)
(* forgotten; each changes the configuration.                              *)
OtherMutation(r) ==
  /\ Does(r, "inside")
  /\ Quits(r)
  /\ \/ UNCHANGED <<stored, generation>>
     \/ generation < MaxGeneration /\ generation' = generation + 1 /\ UNCHANGED stored
     \/ /\ generation < MaxGeneration /\ generation' = generation + 1
        /\ \A q \in Worker : req[q].at # "proving"      \* the pair lock
        /\ \E p \in Purpose : stored' = [stored EXCEPT ![p] = NoUser]
  /\ UNCHANGED <<session, blocked, closed, flows, current, terminal, closing, exit>>

(* GoogleOAuthFlowService.begin: what it reads before it takes the lock.   *)
BeginRead(r) ==
  /\ Does(r, "inside") /\ ~blocked /\ Answers
  /\ \E p \in Purpose :
       Sets(r, [NotWorking EXCEPT !.at = "begin", !.purpose = p, !.replace = stored[p] # NoUser, !.gen = generation])
  /\ UNCHANGED <<session, blocked, closed, flows, current, stored, generation, terminal, closing, exit>>

BeginInstall(r) ==
  LET p == req[r].purpose
      known == current[p]
      swept == IF known = NoFlow THEN flows ELSE [flows EXCEPT ![known] = Swept(@)]
      busy == known # NoFlow /\ swept[known].status \notin Terminal
      flow == [purpose |-> p, replace |-> req[r].replace, gen |-> req[r].gen, status |-> "pending",
               token |-> TRUE, account |-> NoUser, aged |-> FALSE, thread |-> FALSE]
  IN /\ Does(r, "begin")
     /\ IF blocked THEN Quits(r) /\ UNCHANGED <<flows, current>>
        ELSE IF busy THEN Quits(r) /\ flows' = swept /\ UNCHANGED current
        ELSE /\ Len(flows) < MaxFlow
             /\ flows' = Append(swept, flow)
             /\ current' = [current EXCEPT ![p] = Len(swept) + 1]
             /\ Sets(r, [req[r] EXCEPT !.at = "opening", !.gen = Len(swept) + 1])
     /\ UNCHANGED <<session, blocked, closed, stored, generation, terminal, closing, exit>>

(* The browser is opened outside the lock, and may fail to open.           *)
Opened(r) ==
  /\ Does(r, "opening") /\ Quits(r)
  /\ \/ UNCHANGED flows
     \/ flows[req[r].gen].status = "pending" /\ flows' = [flows EXCEPT ![req[r].gen] = Discarded(@, "failed")]
  /\ UNCHANGED <<session, blocked, closed, current, stored, generation, terminal, closing, exit>>

(* status and cancel.                                                      *)
Cancel(r) ==
  /\ Does(r, "inside") /\ Quits(r)
  /\ \E p \in Purpose :
       /\ current[p] # NoFlow
       /\ LET f == Swept(flows[current[p]])
          IN \/ flows' = [flows EXCEPT ![current[p]] = IF f.status \in PreCommit THEN Discarded(f, "cancelled") ELSE f]
             \/ flows' = [flows EXCEPT ![current[p]] = f]
  /\ UNCHANGED <<session, blocked, closed, current, stored, generation, terminal, closing, exit>>

----------------------------------------------------------------------------
(* The provider's redirect, in a thread outside the barrier.               *)

ProviderCallback(i) ==
  LET f == Swept(flows[i])
  IN /\ SettingsRun /\ flows[i].token /\ \E p \in Purpose : current[p] = i
     /\ \/ f.status = "expired" /\ flows' = [flows EXCEPT ![i] = f]
        \/ /\ f.status # "expired" /\ (f.status # "pending" \/ blocked \/ ~Answers)
           /\ flows' = [flows EXCEPT ![i] = Discarded(f, "failed")]
        \/ /\ f.status = "pending" /\ ~blocked /\ Answers
           /\ \/ \E verdict \in {"denied", "failed"} : flows' = [flows EXCEPT ![i] = Discarded(f, verdict)]
              \/ flows' = [flows EXCEPT ![i] = [f EXCEPT !.token = FALSE, !.status = "exchanging", !.thread = TRUE]]
     /\ UNCHANGED <<session, blocked, closed, req, current, stored, generation, terminal, closing, exit>>

(* As faulty: the flow is not looked at again after the exchange.          *)
Accepts_Unchecked(f) == f.status \in PreCommit \cup Terminal /\ Answers

(* The answer of the exchange, when the lock is taken again.               *)
Accepts(f) == f.status = "exchanging" /\ ~blocked /\ Answers

ExchangeDone(i) ==
  LET f == [flows[i] EXCEPT !.thread = FALSE]
  IN /\ SettingsRun /\ flows[i].thread
     /\ \/ /\ ~Accepts(f)
           /\ flows' = [flows EXCEPT ![i] = Discarded(f, IF f.status = "exchanging" THEN "failed" ELSE f.status)]
        \/ /\ Accepts(f)
           /\ \/ \E a \in User : flows' = [flows EXCEPT ![i] = [f EXCEPT !.status = "awaiting_commit", !.account = a]]
              \/ flows' = [flows EXCEPT ![i] = Discarded(f, "failed")]
     /\ UNCHANGED <<session, blocked, closed, req, current, stored, generation, terminal, closing, exit>>

----------------------------------------------------------------------------
(* GoogleOAuthFlowService.commit and CredentialService.save_google_oauth.  *)

CommitSignIn(r) ==
  /\ Does(r, "inside") /\ ~blocked /\ Answers
  /\ \E p \in Purpose :
       /\ current[p] # NoFlow
       /\ LET f == Swept(flows[current[p]])
          IN IF f.status = "awaiting_commit"
               THEN /\ flows' = [flows EXCEPT ![current[p]].status = "committing"]
                    /\ Sets(r, [NotWorking EXCEPT !.at = "commit", !.purpose = p])
               ELSE flows' = [flows EXCEPT ![current[p]] = f] /\ Quits(r)
  /\ UNCHANGED <<session, blocked, closed, current, stored, generation, terminal, closing, exit>>

(* The snapshot, taken under the pair lock and the configuration's.        *)
SnapshotHolds(f, p) == f.gen = generation /\ f.replace = (stored[p] # NoUser)

SaveSnapshot(r) ==
  LET p == req[r].purpose
      i == current[p]
  IN /\ Does(r, "commit")
     /\ \A q \in Worker : req[q].at # "proving"
     /\ IF SnapshotHolds(flows[i], p)
          THEN Sets(r, [req[r] EXCEPT !.at = "proving", !.peer = stored[OtherPurpose(p)]]) /\ UNCHANGED flows
          ELSE flows' = [flows EXCEPT ![i] = Discarded(@, "failed")] /\ Quits(r)
     /\ UNCHANGED <<session, blocked, closed, current, stored, generation, terminal, closing, exit>>

(* As faulty: only the candidate's own account is proved.                  *)
SameAccount_Own(f, peer) == f.account # NoUser /\ peer \in User \cup {NoUser}

(* The proof of the account: the peer's credential must be of the same.    *)
SameAccount(f, peer) == peer \in {NoUser, f.account}

SaveDone(r) ==
  LET p == req[r].purpose
      i == current[p]
      f == flows[i]
      Ends(status) == flows' = [flows EXCEPT ![i] = Discarded(@, status)]
  IN /\ Does(r, "proving") /\ Quits(r)
     /\ \/ Ends("failed") /\ UNCHANGED <<stored, generation>>       \* the provider or a store
        \/ ~SameAccount(f, req[r].peer) /\ Ends("account_mismatch") /\ UNCHANGED <<stored, generation>>
        \/ /\ SameAccount(f, req[r].peer)
           /\ \/ ~SnapshotHolds(f, p) /\ Ends("failed") /\ UNCHANGED <<stored, generation>>
              \/ /\ SnapshotHolds(f, p)
                 /\ \E status \in {"complete", "failed"} : Ends(status)  \* stored, then it raised
                 /\ stored' = [stored EXCEPT ![p] = f.account]
                 /\ generation' = IF f.replace THEN generation ELSE generation + 1
     /\ UNCHANGED <<session, blocked, closed, current, terminal, closing, exit>>

----------------------------------------------------------------------------
(* The end of the process.                                                 *)

InvalidatePrecommit ==
  flows' = [i \in DOMAIN flows |-> IF flows[i].status \in PreCommit /\ \E p \in Purpose : current[p] = i
                                     THEN Discarded(flows[i], "cancelled") ELSE flows[i]]

SessionAfter(reason) ==
  CASE reason = "replaced" -> [session EXCEPT !.state = "replaced"]
    [] OTHER -> IF session.state = "active" THEN [session EXCEPT !.state = "expired"] ELSE session

(* _terminate: block sign-ins, close the barrier, drain, and only then end *)
(* the session.                                                            *)
Terminate(reason) ==
  IF terminal.reason = "none"
    THEN /\ terminal' = [reason |-> reason, drained |-> FALSE]
         /\ blocked' = TRUE /\ closed' = TRUE /\ InvalidatePrecommit
         /\ UNCHANGED <<session, exit>>
    ELSE /\ reason = "replaced" /\ terminal.reason # "replaced"
         /\ terminal' = [terminal EXCEPT !.reason = "replaced"]
         /\ IF terminal.drained THEN session' = SessionAfter("replaced") /\ exit' = "asked" ELSE UNCHANGED <<session, exit>>
         /\ UNCHANGED <<blocked, closed, flows>>

CheckLifecycle ==
  /\ SettingsRun
  /\ \/ /\ session.state = "new" /\ session.late
        /\ session' = [session EXCEPT !.state = "bootstrap_expired"] /\ exit' = "asked"
        /\ UNCHANGED <<terminal, blocked, closed, flows>>
     \/ session.state = "active" /\ session.idle /\ terminal.reason = "none" /\ Terminate("expired")
  /\ UNCHANGED <<req, current, stored, generation, closing>>

CommitReplacement ==
  /\ SettingsRun /\ Terminate("replaced")
  /\ UNCHANGED <<req, current, stored, generation, closing>>

TerminateRun ==
  /\ SettingsRun /\ terminal.reason # "none" /\ ~terminal.drained /\ Drained
  /\ terminal' = [terminal EXCEPT !.drained = TRUE]
  /\ session' = SessionAfter(terminal.reason) /\ exit' = "asked"
  /\ UNCHANGED <<blocked, closed, req, flows, current, stored, generation, closing>>

(* close_session: the same order, from a request.                          *)
CloseRequest ==
  /\ SettingsRun /\ Answers /\ ~closing
  /\ closing' = TRUE /\ blocked' = TRUE /\ closed' = TRUE /\ InvalidatePrecommit
  /\ UNCHANGED <<session, req, current, stored, generation, terminal, exit>>

(* As faulty: a session whose idle limit passed in the drain is ended, and *)
(* the request returns before it asks for the end of the process.          *)
AfterClose_Early == IF Answers THEN "asked" ELSE exit

AfterClose == "asked"

CloseDone ==
  /\ SettingsRun /\ closing /\ Drained
  /\ closing' = FALSE
  /\ session' = IF Answers THEN [session EXCEPT !.state = "closed"] ELSE SessionAfter("expired")
  /\ exit' = AfterClose
  /\ UNCHANGED <<blocked, closed, req, flows, current, stored, generation, terminal>>

ExitProcess ==
  /\ exit = "asked" /\ Drained
  /\ exit' = "done"
  /\ UNCHANGED <<session, blocked, closed, req, flows, current, stored, generation, terminal, closing>>

Works(r) ==
  \/ EnterBarrier(r) \/ BeginRead(r) \/ BeginInstall(r) \/ Opened(r) \/ Cancel(r) \/ OtherMutation(r)
  \/ CommitSignIn(r) \/ SaveSnapshot(r) \/ SaveDone(r)

SettingsNext ==
  \/ ConsumeBootstrap \/ LimitsPass
  \/ \E r \in Worker : AdmitMutation(r) \/ Works(r)
  \/ \E i \in DOMAIN flows : ProviderCallback(i) \/ ExchangeDone(i)
  \/ CheckLifecycle \/ CommitReplacement \/ TerminateRun \/ CloseRequest \/ CloseDone \/ ExitProcess

(* Worker threads end: every call they make has a timeout.  The event loop *)
(* runs its tasks, and the idle limit of a session passes.                 *)
SettingsFairness ==
  /\ \A r \in Worker : WF_settingsVars(Works(r))
  /\ WF_settingsVars(CheckLifecycle) /\ WF_settingsVars(TerminateRun) /\ WF_settingsVars(CloseDone) /\ WF_settingsVars(ExitProcess)

SettingsSpec == SettingsInit /\ [][SettingsNext]_settingsVars /\ SettingsFairness

----------------------------------------------------------------------------
(* The session has not ended while a mutation is still inside the barrier, *)
(* whichever of close, idle limit and replacement came first and however   *)
(* they overlap.                                                           *)
NoneCutOff == session.state \in Ended \/ exit = "done" => InBarrier = {}

(* The two Google roles never hold the credentials of two accounts, and    *)
(* the end of the session cuts no mutation off.                            *)
OneAccountOneSession ==
  /\ \A p, q \in Purpose : stored[p] = stored[q] \/ NoUser \in {stored[p], stored[q]}
  /\ NoneCutOff

(* What a sign-in was told is final: no late answer of the provider, no    *)
(* second request and no expiry changes the verdict of a flow that was     *)
(* cancelled, denied, expired, failed or completed, and it holds no secret.*)
VerdictsAreFinal ==
  [][\A i \in DOMAIN flows :
       flows[i].status \in Terminal =>
         flows'[i].status = flows[i].status /\ ~flows'[i].token /\ flows'[i].account = NoUser]_settingsVars

(* A session that ended, in whatever way, is followed by the end of the    *)
(* process: no overlap of the three ways leaves a process that serves      *)
(* nobody and holds the owner's lock - and none of them cuts off a         *)
(* mutation that is under way.                                             *)
EndedSessionsExit ==
  /\ []NoneCutOff
  /\ (session.state \in Ended \/ terminal.reason # "none") ~> (exit = "done")
=============================================================================
