--------------------------- MODULE GateProperties ---------------------------
(* The gate's correctness properties and the instance of the specification  *)
(* of human proofs it implements.                                           *)
EXTENDS Gate

(* The marks and the log tell one story: every mark names a log row about   *)
(* its own material, and no row is spent on nothing or on two marks, also   *)
(* when two windows ask about one material and both confirm.                *)
MarksMatchLog ==
  /\ \A m \in MaterialId : verified[m] # 0 => verified[m] \in log /\ asked[verified[m]].target = m
  /\ \A n \in log : verified[asked[n].target] = n

(* What the Shell is told about a request never contradicts itself, and is  *)
(* what the database did: nobody reads REFUSED for a proof that was written *)
(* or COMMITTED for one that was not, in whatever order confirms are        *)
(* doubled, time out, fail or meet a restart.  Memory follows the database  *)
(* too, and no record is left COMMITTING once the lock is free ("never left *)
(* in COMMITTING").                                                         *)
AnswersAgree ==
  \A n \in Nonce :
    /\ "COMMITTED" \in told[n] \/ records[n].state = "COMMITTED" => n \in log
    /\ "REFUSED" \in told[n] \/ records[n].state \in {"PENDING", "DENIED", "REJECTED", "EXPIRED"} => n \notin log
    /\ records[n].state = "COMMITTING" => confirm.nonce = n

(* The requests of a session come one after the other, although begin()     *)
(* looks its target up before it takes the lock: one is undecided at a      *)
(* time, and after a refusal, or after the deadline of a request that       *)
(* expired unnoticed, the next one began at least the cooldown later.       *)
OnePendingPerSession ==
  \A m, n \in Nonce :
    (m # n /\ {records[m].state, records[n].state} \subseteq {"PENDING", "COMMITTING"})
      => records[m].session # records[n].session

CooldownHolds ==
  \A m, n \in Nonce :
    (m < n /\ records[n].state # "NONE" /\ records[m].session = records[n].session
       /\ records[m].state \in {"REJECTED", "DENIED", "EXPIRED"})
      => records[n].deadline - Ttl >= records[m].finished + Cooldown

SessionsTakeTurns == OnePendingPerSession /\ CooldownHolds

(* A mark is set only for a request whose dialog a person saw, about the    *)
(* very content the material has at that moment, before its deadline at the *)
(* time the confirm call began.                                             *)
MarkIsWhatWasShown ==
  [][\A m \in MaterialId :
       (verified'[m] # verified[m]) =>
         \E n \in shown :
           /\ verified'[m] = n /\ asked[n].target = m /\ asked[n].print = Target(m)
           /\ m \notin hidden /\ verified[m] = 0
           /\ confirm.at < records[n].deadline]_vars

(* A session that ended decides nothing any more: its requests leave        *)
(* PENDING only to be refused.  (A confirm that has passed its checks may   *)
(* still finish.)                                                           *)
DeadSessionsConfirmNothing ==
  [][\A n \in Nonce :
       (records[n].state = "PENDING" /\ records[n].session \notin alive)
         => records'[n].state \notin {"COMMITTING", "COMMITTED"}]_vars

(* Marks, log, memory and answers tell one story.                           *)
RecordsAgree == MarksMatchLog /\ AnswersAgree

(* A proof is what a living session's user was shown.                       *)
ProofsAreSeen == MarkIsWhatWasShown /\ DeadSessionsConfirmNothing

-----------------------------------------------------------------------------
(* The gate implements the specification of human proofs: the proof is the  *)
(* log row, whatever memory says about it later.                            *)

Proof == INSTANCE HumanProof WITH
  content <- [m \in MaterialId |-> IF m \in hidden THEN NoRequest.print ELSE Target(m)],
  open <- { n \in Nonce : records[n].state \in {"PENDING", "COMMITTING"} /\ n \notin log },
  proofs <- log

(* Every step of the gate asks, withdraws, proves or leaves requests alone. *)
ImplementsHumanProof == Proof!Spec

-----------------------------------------------------------------------------
(* "A material's source never changes (new content arrives as a new         *)
(* source_version of the same source_file), so a verification cannot be     *)
(* carried to other content" (001_v2_initial.sql).                          *)
VerificationIsNotCarried ==
  \A m \in MaterialId : verified[m] # 0 => asked[verified[m]].print.revision = revision[m]

=============================================================================
