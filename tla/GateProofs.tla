----------------------------- MODULE GateProofs -----------------------------
(***************************************************************************)
(* For any number of windows, sessions, materials and requests: marks, log, *)
(* memory and answers of the gate tell one story, the requests of a session *)
(* take turns, a proof is what a living session's user was shown, and the   *)
(* gate implements the specification of human proofs.                       *)
(*                                                                          *)
(* The argument: IndInv is inductive.  Every call first runs _expire, so    *)
(* what holds of the records must hold of Kept and CooldownKept as well     *)
(* (KeptIsSound); a call then changes one record of Kept.  The commit, which *)
(* works outside those steps, is tied to its record by CommitKnows.         *)
(***************************************************************************)
EXTENDS GateProperties, TLAPS

Undecided == {"PENDING", "COMMITTING"}
Refused == {"REJECTED", "DENIED", "EXPIRED"}
Begun == [session : Session, target : MaterialId, print : Fingerprint]

TypeOK ==
  /\ revision \in [MaterialId -> Nat] /\ evidence \in [MaterialId -> {"NONE", "PARTIAL", "COMPLETE"}]
  /\ hidden \subseteq MaterialId
  /\ log \subseteq Nonce /\ asked \in [Nonce -> Request] /\ verified \in [MaterialId -> Nonce \cup {0}]
  /\ issued \in 0..MaxNonce
  /\ reads \subseteq Begun /\ confirm \in Confirming
  /\ owner \in [Session -> Window \cup {None}] /\ alive \subseteq Session
  /\ shown \subseteq Nonce /\ told \in [Nonce -> SUBSET {"COMMITTED", "REFUSED"}]
  /\ now \in Nat /\ faults \in Nat

(* What was handed out is about a material; what was not left no trace.     *)
NoncesAreFresh ==
  \A n \in Nonce :
    /\ n <= issued => asked[n].target \in MaterialId
    /\ n > issued => n \notin log /\ told[n] = {}

-----------------------------------------------------------------------------
(* What holds of the records and the cooldowns, before and after _expire.   *)

RecordsTyped(recs, cool) == recs \in [Nonce -> Record] /\ cool \in [Session -> Nat]

(* A record belongs to a session, and was handed out.                       *)
RecordsOwned(recs) ==
  \A n \in Nonce : recs[n].state # "NONE" => n <= issued /\ recs[n].session \in Session

(* A record agrees with the log and with what was told; nothing was told of *)
(* an undecided one, which the commit alone keeps COMMITTING.               *)
RecordsFollowLog(recs) ==
  \A n \in Nonce :
    /\ recs[n].state = "COMMITTED" => n \in log
    /\ recs[n].state \in {"PENDING"} \cup Refused => n \notin log
    /\ recs[n].state = "COMMITTING" => confirm.nonce = n
    /\ recs[n].state \in Undecided => told[n] = {}

(* An undecided request began after its session's cooldown, and lives for   *)
(* the time to live from then on.                                           *)
DeadlinesHold(recs, cool) ==
  \A n \in Nonce :
    recs[n].state \in Undecided =>
      recs[n].deadline <= now + Ttl /\ cool[recs[n].session] + Ttl <= recs[n].deadline

(* A refused request has started a cooldown no shorter than its own.        *)
RefusalsCool(recs, cool) ==
  \A n \in Nonce : recs[n].state \in Refused => recs[n].finished + Cooldown <= cool[recs[n].session]

(* When a session's next request begins, its earlier ones are decided.      *)
EarlierAreDecided(recs) ==
  \A m, n \in Nonce :
    m < n /\ recs[n].state # "NONE" /\ recs[m].session = recs[n].session => recs[m].state \notin Undecided

RefusedBefore(recs) ==
  \A m, n \in Nonce :
    m < n /\ recs[n].state # "NONE" /\ recs[m].session = recs[n].session /\ recs[m].state \in Refused
      => recs[m].finished + Cooldown + Ttl <= recs[n].deadline

RecordsSound(recs, cool) ==
  /\ RecordsTyped(recs, cool) /\ RecordsOwned(recs) /\ RecordsFollowLog(recs) /\ DeadlinesHold(recs, cool)
  /\ RefusalsCool(recs, cool) /\ EarlierAreDecided(recs) /\ RefusedBefore(recs)

-----------------------------------------------------------------------------
(* Whoever was told a decision was told what the database did.              *)
TellsFollowLog ==
  \A n \in Nonce : ("COMMITTED" \in told[n] => n \in log) /\ ("REFUSED" \in told[n] => n \notin log)

(* The commit under way holds its record, which a dialog showed before its  *)
(* deadline, and knows whether the row is written.                          *)
CommitKnows ==
  IF confirm.pc = "idle" THEN confirm = NoConfirm
  ELSE /\ confirm.nonce \in shown /\ records[confirm.nonce].state = "COMMITTING"
       /\ confirm.at <= now
       /\ confirm.at < records[confirm.nonce].deadline /\ records[confirm.nonce].deadline <= confirm.at + Ttl
       /\ confirm.pc = "commit" => confirm.nonce \notin log
       /\ confirm.pc = "finish" => \/ confirm.outcome = "COMMITTED" /\ confirm.nonce \in log
                                   \/ confirm.outcome = "REJECTED" /\ confirm.nonce \notin log

IndInv ==
  /\ TypeOK /\ NoncesAreFresh /\ RecordsSound(records, cooldown) /\ TellsFollowLog /\ CommitKnows /\ MarksMatchLog

-----------------------------------------------------------------------------
(* What _expire does to a record.                                           *)
LEMMA KeptCases ==
  ASSUME RecordsTyped(records, cooldown), NEW n \in Nonce
  PROVE  \/ /\ Overdue(n)
            /\ Kept[n] \in Record /\ Kept[n].state = "EXPIRED" /\ Kept[n].session = records[n].session
            /\ Kept[n].deadline = records[n].deadline /\ Kept[n].finished = records[n].deadline
         \/ records[n].state \in Terminal /\ Kept[n] = NoRecord
         \/ ~Overdue(n) /\ Kept[n] = records[n]
<1>1. records[n] \in Record
  BY DEF RecordsTyped
<1>2. CASE Overdue(n)
  BY <1>1, <1>2 DEF Kept, Record, Terminal
<1>3. CASE ~Overdue(n)
  BY <1>3 DEF Kept, Forgotten
<1> QED BY <1>2, <1>3

(* What _expire does to the cooldown of a session.                          *)
LEMMA CooldownCases ==
  \A s \in Session :
    \/ (\A n \in Nonce : Overdue(n) => records[n].session # s) /\ CooldownKept[s] = cooldown[s]
    \/ \E n \in Nonce :
         Overdue(n) /\ records[n].session = s /\ CooldownKept[s] = records[n].deadline + Cooldown
<1> SUFFICES ASSUME NEW s \in Session
             PROVE  \/ (\A n \in Nonce : Overdue(n) => records[n].session # s) /\ CooldownKept[s] = cooldown[s]
                    \/ \E n \in Nonce :
                         Overdue(n) /\ records[n].session = s /\ CooldownKept[s] = records[n].deadline + Cooldown
  OBVIOUS
<1> DEFINE overdue == { n \in Nonce : Overdue(n) /\ records[n].session = s }
           late == CHOOSE n \in overdue : TRUE
<1>1. CooldownKept[s] = IF overdue = {} THEN cooldown[s] ELSE records[late].deadline + Cooldown
  BY DEF CooldownKept
<1>2. overdue # {} => late \in overdue
  OBVIOUS
<1> QED BY <1>1, <1>2

(* What holds of the records holds of what _expire makes of them.           *)
LEMMA KeptIsSound ==
  ASSUME TypeOK, RecordsSound(records, cooldown) PROVE RecordsSound(Kept, CooldownKept)
<1> USE GateAssumption DEF RecordsSound, Terminal, Refused, Undecided
<1>1. \A n \in Nonce :
        /\ Kept[n] \in Record
        /\ Kept[n].state \in Undecided => Kept[n] = records[n] /\ ~Overdue(n)
        /\ Kept[n].state # "NONE" => /\ records[n].state # "NONE" /\ Kept[n].session = records[n].session
                                     /\ Kept[n].deadline = records[n].deadline
        /\ Kept[n].state # "EXPIRED" /\ Kept[n].state # "NONE" => Kept[n] = records[n]
        /\ Kept[n].state = "EXPIRED" => \/ Kept[n] = records[n]
                                        \/ Overdue(n) /\ Kept[n].finished = records[n].deadline
  <2> SUFFICES ASSUME NEW n \in Nonce
               PROVE  /\ Kept[n] \in Record
                      /\ Kept[n].state \in Undecided => Kept[n] = records[n] /\ ~Overdue(n)
                      /\ Kept[n].state # "NONE" => /\ records[n].state # "NONE" /\ Kept[n].session = records[n].session
                                                   /\ Kept[n].deadline = records[n].deadline
                      /\ Kept[n].state # "EXPIRED" /\ Kept[n].state # "NONE" => Kept[n] = records[n]
                      /\ Kept[n].state = "EXPIRED" => \/ Kept[n] = records[n]
                                                      \/ Overdue(n) /\ Kept[n].finished = records[n].deadline
    OBVIOUS
  <2>1. records[n] \in Record
    BY DEF RecordsTyped
  <2>2. CASE /\ Overdue(n)
             /\ Kept[n] \in Record /\ Kept[n].state = "EXPIRED" /\ Kept[n].session = records[n].session
             /\ Kept[n].deadline = records[n].deadline /\ Kept[n].finished = records[n].deadline
    BY <2>1, <2>2 DEF Overdue
  <2>3. CASE records[n].state \in Terminal /\ Kept[n] = NoRecord
    BY <2>3 DEF Record, NoRecord
  <2>4. CASE ~Overdue(n) /\ Kept[n] = records[n]
    BY <2>1, <2>4 DEF Record
  <2> QED BY <2>2, <2>3, <2>4, KeptCases
<1>0. ASSUME NEW s \in Session
      PROVE  \/ (\A n \in Nonce : Overdue(n) => records[n].session # s) /\ CooldownKept[s] = cooldown[s]
             \/ \E n \in Nonce :
                  Overdue(n) /\ records[n].session = s /\ CooldownKept[s] = records[n].deadline + Cooldown
  BY CooldownCases
<1>2. RecordsTyped(Kept, CooldownKept)
  <2>2. \A s \in Session : CooldownKept[s] \in Nat
    <3> SUFFICES ASSUME NEW s \in Session PROVE CooldownKept[s] \in Nat
      OBVIOUS
    <3>1. \A n \in Nonce : records[n].deadline \in Nat
      BY DEF RecordsTyped, Record
    <3>2. cooldown[s] \in Nat
      BY DEF RecordsTyped
    <3> QED BY <1>0, <3>1, <3>2
  <2>3. Kept = [n \in Nonce |-> Kept[n]]
    BY DEF Kept
  <2>4. CooldownKept = [s \in Session |-> CooldownKept[s]]
    BY DEF CooldownKept
  <2>5. Kept \in [Nonce -> Record]
    BY <1>1, <2>3
  <2>6. CooldownKept \in [Session -> Nat]
    BY <2>2, <2>4
  <2> QED BY <2>5, <2>6 DEF RecordsTyped
<1>3. RecordsOwned(Kept)
  BY <1>1 DEF RecordsOwned
<1>4. RecordsFollowLog(Kept)
  BY <1>1 DEF RecordsFollowLog, Overdue
<1>5. EarlierAreDecided(Kept)
  BY <1>1 DEF EarlierAreDecided
<1>6. \A n \in Nonce : records[n] \in Record
  BY DEF RecordsTyped
<1>7. DeadlinesHold(Kept, CooldownKept)
  <2> SUFFICES ASSUME NEW n \in Nonce, Kept[n].state \in Undecided
               PROVE  /\ Kept[n].deadline <= now + Ttl
                      /\ CooldownKept[Kept[n].session] + Ttl <= Kept[n].deadline
    BY DEF DeadlinesHold
  <2>1. Kept[n] = records[n] /\ ~Overdue(n) /\ records[n].session \in Session
    BY <1>1 DEF RecordsOwned
  <2>2. \A k \in Nonce : Overdue(k) => records[k].session # records[n].session
    <3> SUFFICES ASSUME NEW k \in Nonce, Overdue(k), records[k].session = records[n].session PROVE FALSE
      OBVIOUS
    <3>1. records[k].state = "PENDING" /\ k # n
      BY <2>1 DEF Overdue
    <3>2. k < n \/ n < k
      BY <3>1 DEF Nonce
    <3> QED BY <2>1, <3>1, <3>2 DEF EarlierAreDecided
  <2>3. CooldownKept[records[n].session] = cooldown[records[n].session]
    BY <1>0, <2>1, <2>2
  <2> QED BY <2>1, <2>3 DEF DeadlinesHold
<1>8. \A s \in Session : cooldown[s] <= CooldownKept[s]
  <2> SUFFICES ASSUME NEW s \in Session PROVE cooldown[s] <= CooldownKept[s]
    OBVIOUS
  <2>1. ASSUME NEW n \in Nonce, Overdue(n), records[n].session = s,
               CooldownKept[s] = records[n].deadline + Cooldown
        PROVE  cooldown[s] <= CooldownKept[s]
    <3>1. cooldown[s] \in Nat /\ records[n].deadline \in Nat /\ cooldown[s] + Ttl <= records[n].deadline
      BY <1>6, <2>1 DEF DeadlinesHold, Overdue, RecordsTyped, Record
    <3> QED BY <2>1, <3>1
  <2>2. cooldown[s] \in Nat
    BY DEF RecordsTyped
  <2> QED BY <1>0, <2>1, <2>2
<1>9. RefusalsCool(Kept, CooldownKept)
  <2> SUFFICES ASSUME NEW n \in Nonce, Kept[n].state \in Refused
               PROVE  Kept[n].finished + Cooldown <= CooldownKept[Kept[n].session]
    BY DEF RefusalsCool
  <2>1. Kept[n].session \in Session /\ Kept[n].session = records[n].session
    BY <1>1 DEF RecordsOwned
  <2>2. CASE Kept[n] = records[n]
    <3>1. records[n].finished + Cooldown <= cooldown[records[n].session]
      BY <2>2 DEF RefusalsCool
    <3>2. records[n].finished \in Nat /\ cooldown[records[n].session] \in Nat /\ CooldownKept[records[n].session] \in Nat
      BY <1>2, <1>6, <2>1 DEF RecordsTyped, Record
    <3> QED BY <1>8, <2>1, <2>2, <3>1, <3>2
  <2>3. CASE Overdue(n) /\ Kept[n].finished = records[n].deadline
    <3>1. PICK k \in Nonce : /\ Overdue(k) /\ records[k].session = records[n].session
                             /\ CooldownKept[records[n].session] = records[k].deadline + Cooldown
      BY <1>0, <2>1, <2>3
    <3>2. k = n
      <4>1. k < n \/ n < k \/ k = n
        BY DEF Nonce
      <4> QED BY <2>3, <3>1, <4>1 DEF EarlierAreDecided, Overdue
    <3> QED BY <1>6, <2>1, <2>3, <3>1, <3>2 DEF Record
  <2> QED BY <1>1, <2>2, <2>3
<1>10. RefusedBefore(Kept)
  <2> SUFFICES ASSUME NEW m \in Nonce, NEW n \in Nonce, m < n, Kept[n].state # "NONE",
                      Kept[m].session = Kept[n].session, Kept[m].state \in Refused
               PROVE  Kept[m].finished + Cooldown + Ttl <= Kept[n].deadline
    BY DEF RefusedBefore
  <2>1. /\ records[n].state # "NONE" /\ records[n].deadline = Kept[n].deadline
        /\ records[m].session = records[n].session
    BY <1>1
  <2>2. records[m].state \notin Undecided
    BY <2>1 DEF EarlierAreDecided
  <2>3. Kept[m] = records[m]
    BY <1>1, <2>2 DEF Overdue
  <2> QED BY <2>1, <2>3 DEF RefusedBefore
<1> QED BY <1>2, <1>3, <1>4, <1>5, <1>7, <1>9, <1>10

(* A refusal, and the cooldown it starts, keep the records sound.           *)
LEMMA RefusalIsSound ==
  ASSUME TypeOK, NEW recs, NEW cool, RecordsSound(recs, cool),
         NEW n \in Nonce, recs[n].state \in Undecided, n \notin log,
         NEW decision \in Refused, NEW at \in Nat, recs[n].deadline <= at + Ttl,
         \A k \in Nonce : recs[k].state = "COMMITTING" => k = n,
         records' = [recs EXCEPT ![n].state = decision, ![n].finished = at],
         cooldown' = [cool EXCEPT ![recs[n].session] = at + Cooldown],
         told' = Tell(n, "REFUSED"), UNCHANGED <<log, issued, now>>
  PROVE  RecordsSound(records, cooldown)'
<1> USE GateAssumption DEF Refused, Undecided
<1>0. /\ recs \in [Nonce -> Record] /\ cool \in [Session -> Nat]
      /\ recs[n].session \in Session /\ recs[n].state # "NONE"
  BY DEF RecordsSound, RecordsTyped, RecordsOwned
<1>1. \A k \in Nonce : k # n => records'[k] = recs[k]
  BY <1>0
<1>2. /\ records'[n].state = decision /\ records'[n].finished = at
      /\ records'[n].session = recs[n].session /\ records'[n].deadline = recs[n].deadline
      /\ records'[n] \in Record
  BY <1>0 DEF Record, Terminal
<1>3. RecordsTyped(records, cooldown)'
  <2>1. records' \in [Nonce -> Record]
    BY <1>0, <1>1, <1>2
  <2>2. cooldown' \in [Session -> Nat]
    BY <1>0
  <2> QED BY <2>1, <2>2 DEF RecordsTyped
<1>4. RecordsOwned(records)'
  BY <1>0, <1>1, <1>2 DEF RecordsSound, RecordsOwned
<1>5. RecordsFollowLog(records)'
  BY <1>0, <1>1, <1>2 DEF RecordsSound, RecordsFollowLog, Tell, TypeOK
<1>6. \A k \in Nonce : k # n /\ recs[k].state \in Undecided => recs[k].session # recs[n].session
  <2>1. \A k \in Nonce : k < n \/ n < k \/ k = n
    BY DEF Nonce
  <2> QED BY <1>0, <2>1 DEF RecordsSound, EarlierAreDecided
<1>7. DeadlinesHold(records, cooldown)'
  BY <1>0, <1>1, <1>2, <1>6 DEF RecordsSound, DeadlinesHold, RecordsOwned
<1>8. RefusalsCool(records, cooldown)'
  <2> SUFFICES ASSUME NEW k \in Nonce, records'[k].state \in Refused
               PROVE  records'[k].finished + Cooldown <= cooldown'[records'[k].session]
    BY DEF RefusalsCool
  <2>1. CASE k = n
    BY <1>0, <1>2, <2>1
  <2>2. CASE k # n
    <3>1. recs[k] \in Record /\ recs[n] \in Record /\ recs[k].session \in Session
      BY <1>0, <1>1, <2>2 DEF RecordsSound, RecordsOwned
    <3>2. recs[k].finished + Cooldown <= cool[recs[k].session] /\ records'[k] = recs[k]
      BY <1>1, <2>2 DEF RecordsSound, RefusalsCool
    <3>3. cool[recs[n].session] + Ttl <= recs[n].deadline
      BY DEF RecordsSound, DeadlinesHold
    <3>4. CASE recs[k].session = recs[n].session
      BY <1>0, <3>1, <3>2, <3>3, <3>4 DEF Record
    <3>5. CASE recs[k].session # recs[n].session
      BY <1>0, <3>1, <3>2, <3>5
    <3> QED BY <3>4, <3>5
  <2> QED BY <2>1, <2>2
<1>9. EarlierAreDecided(records)'
  BY <1>1, <1>2, <1>0 DEF RecordsSound, EarlierAreDecided
<1>10. RefusedBefore(records)'
  <2> SUFFICES ASSUME NEW k \in Nonce, NEW l \in Nonce, k < l, records'[l].state # "NONE",
                      records'[k].session = records'[l].session, records'[k].state \in Refused
               PROVE  records'[k].finished + Cooldown + Ttl <= records'[l].deadline
    BY DEF RefusedBefore
  <2>1. /\ recs[l].state # "NONE" /\ recs[k].session = recs[l].session
        /\ records'[l].deadline = recs[l].deadline
    BY <1>0, <1>1, <1>2
  <2>2. k # n
    BY <2>1 DEF RecordsSound, EarlierAreDecided
  <2> QED BY <1>1, <2>1, <2>2 DEF RecordsSound, RefusedBefore
<1> QED BY <1>3, <1>4, <1>5, <1>7, <1>8, <1>9, <1>10 DEF RecordsSound

(* Records stay sound while the clock moves, decisions are told and the     *)
(* commit writes its row.                                                   *)
LEMMA SoundRecordsStay ==
  ASSUME TypeOK, NEW recs, NEW cool, RecordsSound(recs, cool),
         records' = recs, cooldown' = cool, UNCHANGED issued, now' \in Nat, now <= now',
         log \subseteq log', \A n \in Nonce : n \in log' => n \in log \/ recs[n].state = "COMMITTING",
         \A n \in Nonce : told'[n] = told[n] \/ recs[n].state \in Terminal,
         \A n \in Nonce : recs[n].state = "COMMITTING" => confirm'.nonce = n
  PROVE  RecordsSound(records, cooldown)'
<1> USE GateAssumption DEF RecordsSound, Refused, Undecided, Terminal
<1>1. RecordsTyped(records, cooldown)' /\ RecordsOwned(records)'
  BY DEF RecordsTyped, RecordsOwned
<1>2. RecordsFollowLog(records)'
  BY DEF RecordsFollowLog
<1>3. DeadlinesHold(records, cooldown)'
  <2>1. \A n \in Nonce : recs[n].deadline \in Nat
    BY DEF RecordsTyped, Record
  <2> QED BY <2>1 DEF DeadlinesHold, TypeOK
<1>4. RefusalsCool(records, cooldown)' /\ EarlierAreDecided(records)' /\ RefusedBefore(records)'
  BY DEF RefusalsCool, EarlierAreDecided, RefusedBefore
<1> QED BY <1>1, <1>2, <1>3, <1>4

(* Between calls no record is COMMITTING.                                   *)
LEMMA NothingCommits ==
  ASSUME TypeOK, RecordsSound(records, cooldown), CommitKnows, LockFree
  PROVE  confirm = NoConfirm /\ \A n \in Nonce : Kept[n].state # "COMMITTING" /\ records[n].state # "COMMITTING"
<1>1. confirm = NoConfirm
  BY DEF CommitKnows, LockFree
<1>2. \A n \in Nonce : confirm.nonce # n
  BY <1>1 DEF NoConfirm, Nonce
<1> QED BY <1>1, <1>2, KeptIsSound DEF RecordsSound, RecordsFollowLog

-----------------------------------------------------------------------------
(* Init establishes the invariant.                                          *)
LEMMA Initial == Init => IndInv
<1> SUFFICES ASSUME Init PROVE IndInv
  OBVIOUS
<1> USE GateAssumption DEF Init, NoRecord, NoRequest, NoConfirm
<1>1. TypeOK
  BY DEF TypeOK, Request, Fingerprint, Confirming, Nonce
<1>2. NoncesAreFresh
  BY DEF NoncesAreFresh, Nonce
<1>3. RecordsSound(records, cooldown)
  BY DEF RecordsSound, RecordsTyped, Record, RecordsOwned, RecordsFollowLog, DeadlinesHold, RefusalsCool,
         EarlierAreDecided, RefusedBefore, Undecided, Refused
<1>4. TellsFollowLog /\ CommitKnows /\ MarksMatchLog
  BY DEF TellsFollowLog, CommitKnows, MarksMatchLog
<1> QED BY <1>1, <1>2, <1>3, <1>4 DEF IndInv

(* Every step preserves it.                                                 *)
LEMMA Inductive == IndInv /\ [Next]_vars => IndInv'
<1> SUFFICES ASSUME IndInv, [Next]_vars PROVE IndInv'
  OBVIOUS
<1> USE GateAssumption DEF IndInv
<1>0. RecordsSound(Kept, CooldownKept) /\ (\A n \in Nonce : records[n].state \in Undecided => records[n].deadline \in Nat)
  BY KeptIsSound DEF RecordsSound, RecordsTyped, Record
<1>1. ASSUME NEW s \in Session, NEW m \in MaterialId, BeginRead(s, m) PROVE IndInv'
  <2> USE <1>1 DEF BeginRead, library, database, memory, sessions
  <2>1. TypeOK'
    BY DEF TypeOK, Begun, Target, Fingerprint
  <2>2. RecordsSound(records, cooldown)'
    <3>1. \A k \in Nonce : records[k].state = "COMMITTING" => confirm.nonce = k
      BY DEF RecordsSound, RecordsFollowLog
    <3> QED BY <3>1, SoundRecordsStay DEF TypeOK
  <2>3. NoncesAreFresh' /\ TellsFollowLog' /\ CommitKnows' /\ MarksMatchLog'
    BY DEF NoncesAreFresh, TellsFollowLog, CommitKnows, MarksMatchLog, TypeOK, Confirming
  <2> QED BY <2>1, <2>2, <2>3
<1>2. ASSUME NEW r \in reads, Begin(r) PROVE IndInv'
  <2> USE <1>2 DEF Begin, library, database, sessions
  <2>0. /\ r \in Begun /\ issued + 1 \in Nonce /\ confirm = NoConfirm
        /\ \A n \in Nonce : Kept[n].state # "COMMITTING"
        /\ Kept \in [Nonce -> Record] /\ CooldownKept \in [Session -> Nat]
    BY <1>0, NothingCommits DEF TypeOK, Nonce, RecordsSound, RecordsTyped
  <2> DEFINE n == issued + 1
  <2>1. TypeOK'
    <3>1. asked' \in [Nonce -> Request]
      BY <2>0 DEF TypeOK, Request, Begun
    <3> QED BY <2>0, <3>1 DEF TypeOK, Nonce
  <2>2. \A k \in Nonce : /\ k # n => records'[k] = Kept[k] /\ asked'[k] = asked[k]
                         /\ k <= issued' <=> k <= issued \/ k = n
    BY <2>0 DEF TypeOK, Nonce
  <2>3. /\ records'[n] \in Record /\ records'[n].state = "PENDING" /\ records'[n].session = r.session
        /\ records'[n].deadline = now + Ttl /\ asked'[n].target = r.target
        /\ r.session \in Session /\ r.target \in MaterialId
    BY <2>0 DEF TypeOK, Record, Begun
  <2>4. NoncesAreFresh'
    <3>1. \A k \in Nonce : k > issued' => k > issued
      BY <2>0 DEF TypeOK, Nonce
    <3> QED BY <2>2, <2>3, <3>1 DEF NoncesAreFresh
  <2>5. \A k \in Nonce : Kept[k].state # "NONE" => k <= issued /\ k # n /\ k < n
    BY <1>0, <2>0 DEF RecordsSound, RecordsOwned, TypeOK, Nonce
  <2>6. \A k \in Nonce : Kept[k].session = r.session => Kept[k].state \notin Undecided
    BY <2>0 DEF MayBegin, Pending, Undecided
  <2>7. RecordsTyped(records, cooldown)' /\ RecordsOwned(records)'
    <3>1. records' \in [Nonce -> Record]
      BY <2>0, <2>3, <2>2
    <3> QED BY <1>0, <2>0, <2>2, <2>3, <2>5, <3>1 DEF RecordsSound, RecordsTyped, RecordsOwned
  <2>8. n \notin log /\ told[n] = {}
    BY <2>0 DEF NoncesAreFresh, TypeOK
  <2>9. RecordsFollowLog(records)'
    BY <1>0, <2>0, <2>2, <2>3, <2>8 DEF RecordsSound, RecordsFollowLog, Undecided, Refused
  <2>10. DeadlinesHold(records, cooldown)'
    <3>1. cooldown'[r.session] + Ttl <= now + Ttl
      BY <2>0, <2>3 DEF MayBegin, TypeOK
    <3> QED BY <1>0, <2>2, <2>3, <3>1 DEF RecordsSound, DeadlinesHold, TypeOK
  <2>11. RefusalsCool(records, cooldown)'
    BY <1>0, <2>2, <2>3 DEF RecordsSound, RefusalsCool, Refused
  <2>12. EarlierAreDecided(records)'
    <3> SUFFICES ASSUME NEW k \in Nonce, NEW l \in Nonce, k < l, records'[l].state # "NONE",
                        records'[k].session = records'[l].session, records'[k].state \in Undecided
                 PROVE  FALSE
      BY DEF EarlierAreDecided
    <3>1. CASE l = n
      BY <2>0, <2>2, <2>3, <2>6, <3>1 DEF Nonce
    <3>2. CASE l # n
      BY <1>0, <2>0, <2>2, <2>5, <3>2 DEF RecordsSound, EarlierAreDecided, Nonce
    <3> QED BY <3>1, <3>2
  <2>13. RefusedBefore(records)'
    <3> SUFFICES ASSUME NEW k \in Nonce, NEW l \in Nonce, k < l, records'[l].state # "NONE",
                        records'[k].session = records'[l].session, records'[k].state \in Refused
                 PROVE  records'[k].finished + Cooldown + Ttl <= records'[l].deadline
      BY DEF RefusedBefore
    <3>1. CASE l = n
      <4>1. k # n /\ Kept[k] \in Record /\ records'[k] = Kept[k] /\ Kept[k].session = r.session
        BY <2>0, <2>2, <2>3, <3>1 DEF Nonce
      <4>2. Kept[k].finished + Cooldown <= CooldownKept[r.session] /\ CooldownKept[r.session] <= now
        BY <1>0, <2>0, <4>1 DEF RecordsSound, RefusalsCool, MayBegin
      <4>3. Kept[k].finished \in Nat /\ CooldownKept[r.session] \in Nat /\ now \in Nat
        BY <2>0, <2>3, <4>1 DEF Record, TypeOK
      <4>4. records'[l].deadline = now + Ttl
        BY <2>3, <3>1
      <4> QED BY <4>1, <4>2, <4>3, <4>4
    <3>2. CASE l # n
      BY <1>0, <2>0, <2>2, <2>5, <3>2 DEF RecordsSound, RefusedBefore, Nonce
    <3> QED BY <3>1, <3>2
  <2>14. RecordsSound(records, cooldown)'
    BY <2>7, <2>9, <2>10, <2>11, <2>12, <2>13 DEF RecordsSound
  <2>15. TellsFollowLog' /\ CommitKnows' /\ MarksMatchLog'
    BY <2>0, <2>2, <2>8 DEF TellsFollowLog, CommitKnows, MarksMatchLog, NoConfirm, TypeOK
  <2> QED BY <2>1, <2>4, <2>14, <2>15
<1>3. ASSUME NEW r \in reads, BeginRefused(r) PROVE IndInv'
  <2> USE <1>3 DEF BeginRefused, library, database, sessions
  <2>0. confirm = NoConfirm /\ \A k \in Nonce : Kept[k].state # "COMMITTING"
    BY NothingCommits
  <2>1. TypeOK'
    BY DEF TypeOK
  <2>2. RecordsSound(records, cooldown)'
    BY <1>0, <2>0, SoundRecordsStay DEF TypeOK
  <2>3. NoncesAreFresh' /\ TellsFollowLog' /\ CommitKnows' /\ MarksMatchLog'
    BY <2>0 DEF NoncesAreFresh, TellsFollowLog, CommitKnows, MarksMatchLog, NoConfirm
  <2> QED BY <2>1, <2>2, <2>3
<1>4. ASSUME NEW n \in Nonce, NEW w \in Window, View(n, w) PROVE IndInv'
  <2> USE <1>4 DEF View, library, database, sessions
  <2>0. confirm = NoConfirm /\ \A k \in Nonce : Kept[k].state # "COMMITTING"
    BY NothingCommits
  <2>1. TypeOK'
    BY DEF TypeOK
  <2>2. RecordsSound(records, cooldown)'
    BY <1>0, <2>0, SoundRecordsStay DEF TypeOK
  <2>3. NoncesAreFresh' /\ TellsFollowLog' /\ CommitKnows' /\ MarksMatchLog'
    BY <2>0 DEF NoncesAreFresh, TellsFollowLog, CommitKnows, MarksMatchLog, NoConfirm
  <2> QED BY <2>1, <2>2, <2>3
<1>5. ASSUME NEW n \in Nonce, Replay(n) PROVE IndInv'
  <2> USE <1>5 DEF Replay, library, database, sessions
  <2>0. confirm = NoConfirm /\ \A k \in Nonce : Kept[k].state # "COMMITTING"
    BY NothingCommits
  <2>1. TypeOK'
    BY DEF TypeOK, Tell, Decision
  <2>2. RecordsSound(records, cooldown)'
    BY <1>0, <2>0, SoundRecordsStay DEF TypeOK, Tell
  <2>3. NoncesAreFresh'
    <3>1. n <= issued
      BY <1>0 DEF RecordsSound, RecordsOwned, Terminal
    <3>2. \A k \in Nonce : k > issued => told'[k] = told[k]
      BY <3>1 DEF Tell, TypeOK, Nonce
    <3> QED BY <3>2 DEF NoncesAreFresh
  <2>5. CommitKnows' /\ MarksMatchLog'
    BY <2>0 DEF CommitKnows, MarksMatchLog, NoConfirm
  <2>4. TellsFollowLog'
    BY <1>0 DEF TellsFollowLog, TypeOK, Tell, Decision, RecordsSound, RecordsFollowLog, Terminal, Refused
  <2> QED BY <2>1, <2>2, <2>3, <2>4, <2>5
<1>6. ASSUME NEW n \in Nonce, Deny(n) PROVE IndInv'
  <2> USE <1>6 DEF Deny, library, database, sessions
  <2>0. confirm = NoConfirm /\ \A k \in Nonce : Kept[k].state # "COMMITTING"
    BY NothingCommits
  <2>1. /\ Kept[n].state = "PENDING" /\ n \notin log /\ Kept[n].deadline <= now + Ttl /\ n <= issued
    BY <1>0 DEF Pending, RecordsSound, RecordsFollowLog, DeadlinesHold, RecordsOwned, Undecided
  <2>2. TypeOK'
    BY DEF TypeOK, Tell
  <2>3. RecordsSound(records, cooldown)'
    <3>1. /\ records' = [Kept EXCEPT ![n].state = "DENIED", ![n].finished = now]
          /\ cooldown' = [CooldownKept EXCEPT ![Kept[n].session] = now + Cooldown]
      BY DEF Finished, CooldownFinished
    <3>2. "DENIED" \in Refused /\ Kept[n].state \in Undecided /\ now \in Nat
      BY <2>1 DEF Refused, Undecided, TypeOK
    <3>3. /\ \A k \in Nonce : Kept[k].state = "COMMITTING" => k = n
          /\ told' = Tell(n, "REFUSED") /\ UNCHANGED <<log, issued, now>>
      BY <2>0
    <3> HIDE <1>6 DEF Deny
    <3> QED BY <1>0, <2>1, <3>1, <3>2, <3>3, RefusalIsSound
  <2>4. NoncesAreFresh' /\ TellsFollowLog' /\ CommitKnows' /\ MarksMatchLog'
    BY <2>0, <2>1 DEF NoncesAreFresh, TellsFollowLog, CommitKnows, MarksMatchLog, NoConfirm, Tell, TypeOK, Nonce
  <2> QED BY <2>2, <2>3, <2>4
<1>7. ASSUME NEW n \in Nonce, NEW w \in Window, NEW macOk \in BOOLEAN, ConfirmRefused(n, w, macOk) PROVE IndInv'
  <2> USE <1>7 DEF ConfirmRefused, library, database, sessions
  <2>0. confirm = NoConfirm /\ \A k \in Nonce : Kept[k].state # "COMMITTING"
    BY NothingCommits
  <2>1. /\ Kept[n].state = "PENDING" /\ n \notin log /\ Kept[n].deadline <= now + Ttl /\ n <= issued
    BY <1>0 DEF Pending, RecordsSound, RecordsFollowLog, DeadlinesHold, RecordsOwned, Undecided
  <2>2. TypeOK'
    BY DEF TypeOK, Tell
  <2>3. RecordsSound(records, cooldown)'
    <3>1. /\ records' = [Kept EXCEPT ![n].state = "REJECTED", ![n].finished = now]
          /\ cooldown' = [CooldownKept EXCEPT ![Kept[n].session] = now + Cooldown]
      BY DEF Finished, CooldownFinished
    <3>2. "REJECTED" \in Refused /\ Kept[n].state \in Undecided /\ now \in Nat
      BY <2>1 DEF Refused, Undecided, TypeOK
    <3>3. /\ \A k \in Nonce : Kept[k].state = "COMMITTING" => k = n
          /\ told' = Tell(n, "REFUSED") /\ UNCHANGED <<log, issued, now>>
      BY <2>0
    <3> HIDE <1>7 DEF ConfirmRefused
    <3> QED BY <1>0, <2>1, <3>1, <3>2, <3>3, RefusalIsSound
  <2>4. NoncesAreFresh' /\ TellsFollowLog' /\ CommitKnows' /\ MarksMatchLog'
    BY <2>0, <2>1 DEF NoncesAreFresh, TellsFollowLog, CommitKnows, MarksMatchLog, NoConfirm, Tell, TypeOK, Nonce
  <2> QED BY <2>2, <2>3, <2>4
<1>8. ASSUME NEW n \in Nonce, NEW w \in Window, ConfirmBegin(n, w) PROVE IndInv'
  <2> USE <1>8 DEF ConfirmBegin, library, database, sessions
  <2>0. /\ confirm = NoConfirm /\ \A k \in Nonce : Kept[k].state # "COMMITTING"
        /\ Kept \in [Nonce -> Record] /\ CooldownKept \in [Session -> Nat]
    BY <1>0, NothingCommits DEF RecordsSound, RecordsTyped
  <2>1. /\ Kept[n].state = "PENDING" /\ Kept[n] = records[n] /\ now < records[n].deadline
        /\ n \notin log /\ told[n] = {} /\ records[n].deadline <= now + Ttl
    <3>1. Kept[n].state = "PENDING"
      BY DEF Usable, Pending
    <3>2. ~Overdue(n) /\ Kept[n] = records[n]
      BY <3>1, KeptCases DEF RecordsSound, NoRecord
    <3>3. records[n].deadline \in Nat
      BY <2>0, <3>2 DEF Record
    <3> QED BY <3>1, <3>2, <3>3 DEF Overdue, TypeOK, RecordsSound, RecordsFollowLog, DeadlinesHold, Undecided
  <2>2. TypeOK'
    BY DEF TypeOK, Confirming
  <2>3. /\ \A k \in Nonce : k # n => records'[k] = Kept[k]
        /\ records'[n] \in Record /\ records'[n].state = "COMMITTING"
        /\ records'[n].session = Kept[n].session /\ records'[n].deadline = Kept[n].deadline
    BY <2>0 DEF Record
  <2>4. RecordsSound(records, cooldown)'
    <3>1. RecordsTyped(records, cooldown)'
      <4>1. records' \in [Nonce -> Record]
        BY <2>0, <2>3
      <4> QED BY <2>0, <4>1 DEF RecordsTyped
    <3>2. RecordsOwned(records)'
      BY <1>0, <2>1, <2>3 DEF RecordsSound, RecordsOwned
    <3>3. RecordsFollowLog(records)'
      BY <1>0, <2>0, <2>1, <2>3 DEF RecordsSound, RecordsFollowLog, Undecided, Refused
    <3>4. DeadlinesHold(records, cooldown)'
      BY <1>0, <2>1, <2>3 DEF RecordsSound, DeadlinesHold, Undecided
    <3>5. RefusalsCool(records, cooldown)'
      BY <1>0, <2>1, <2>3 DEF RecordsSound, RefusalsCool, Refused
    <3>6. EarlierAreDecided(records)'
      BY <1>0, <2>1, <2>3 DEF RecordsSound, EarlierAreDecided, Undecided
    <3>7. RefusedBefore(records)'
      BY <1>0, <2>1, <2>3 DEF RecordsSound, RefusedBefore, Refused
    <3> QED BY <3>1, <3>2, <3>3, <3>4, <3>5, <3>6, <3>7 DEF RecordsSound
  <2>5. NoncesAreFresh' /\ TellsFollowLog' /\ MarksMatchLog'
    BY DEF NoncesAreFresh, TellsFollowLog, MarksMatchLog
  <2>6. CommitKnows'
    BY <2>1, <2>3 DEF CommitKnows, TypeOK
  <2> QED BY <2>2, <2>4, <2>5, <2>6
<1>9. CASE CommitWrites
  <2> USE <1>9 DEF CommitWrites, library, sessions
  <2> DEFINE n == confirm.nonce
  <2>0. /\ n \in Nonce /\ records[n].state = "COMMITTING" /\ n \notin log /\ told[n] = {} /\ n <= issued
        /\ asked[n].target \in MaterialId /\ verified[asked[n].target] = 0
        /\ confirm'.nonce = n /\ confirm'.pc = "finish" /\ confirm'.outcome = "COMMITTED" /\ confirm'.at = confirm.at
    <3>1. n \in Nonce /\ records[n].state = "COMMITTING" /\ n \notin log
      BY DEF CommitKnows, TypeOK
    <3>2. told[n] = {} /\ n <= issued
      BY <3>1 DEF RecordsSound, RecordsFollowLog, RecordsOwned, Undecided
    <3>3. asked[n].target \in MaterialId /\ verified[asked[n].target] = 0
      BY <3>1, <3>2 DEF NoncesAreFresh, Unchanged, Verifiable
    <3>4. confirm'.nonce = n /\ confirm'.pc = "finish" /\ confirm'.outcome = "COMMITTED" /\ confirm'.at = confirm.at
      BY DEF TypeOK, Confirming
    <3> QED BY <3>1, <3>2, <3>3, <3>4
  <2>1. TypeOK'
    <3>1. confirm' \in Confirming
      BY DEF TypeOK, Confirming
    <3> QED BY <2>0, <3>1 DEF TypeOK
  <2>2. RecordsSound(records, cooldown)'
    <3>1. \A k \in Nonce : records[k].state = "COMMITTING" => confirm'.nonce = k
      BY <2>0 DEF RecordsSound, RecordsFollowLog
    <3> QED BY <2>0, <3>1, SoundRecordsStay DEF TypeOK
  <2>3. NoncesAreFresh' /\ TellsFollowLog'
    BY SMTT(20), <2>0 DEF NoncesAreFresh, TellsFollowLog, TypeOK, Nonce
  <2>4. CommitKnows'
    BY <2>0 DEF CommitKnows
  <2>5. MarksMatchLog'
    <3>1. \A k \in log : asked[k].target \in MaterialId /\ asked[k].target # asked[n].target
      BY <2>0 DEF MarksMatchLog, NoncesAreFresh, TypeOK, Nonce
    <3>2. \A m \in MaterialId : verified'[m] = IF m = asked[n].target THEN n ELSE verified[m]
      BY <2>0 DEF TypeOK
    <3> QED BY <2>0, <3>1, <3>2 DEF MarksMatchLog
  <2> QED BY <2>1, <2>2, <2>3, <2>4, <2>5
<1>10. CASE CommitRefused
  <2> USE <1>10 DEF CommitRefused, library, database, sessions
  <2>0. /\ confirm' \in Confirming /\ confirm'.nonce = confirm.nonce /\ confirm'.pc = "finish"
        /\ confirm'.outcome = "REJECTED" /\ confirm'.at = confirm.at
    BY DEF TypeOK, Confirming
  <2>1. TypeOK'
    BY <2>0 DEF TypeOK
  <2>2. RecordsSound(records, cooldown)'
    <3>1. \A k \in Nonce : records[k].state = "COMMITTING" => confirm'.nonce = k
      BY <2>0 DEF RecordsSound, RecordsFollowLog
    <3> QED BY <3>1, SoundRecordsStay DEF TypeOK
  <2>3. NoncesAreFresh' /\ TellsFollowLog' /\ CommitKnows' /\ MarksMatchLog'
    BY <2>0 DEF NoncesAreFresh, TellsFollowLog, CommitKnows, MarksMatchLog
  <2> QED BY <2>1, <2>2, <2>3
<1>11. CASE CommitFails
  <2> USE <1>11 DEF CommitFails, library, database, sessions
  <2>0. /\ confirm' \in Confirming /\ confirm'.nonce = confirm.nonce /\ confirm'.pc = "finish"
        /\ confirm'.outcome = "REJECTED" /\ confirm'.at = confirm.at
    BY DEF TypeOK, Confirming
  <2>1. TypeOK'
    BY <2>0 DEF TypeOK
  <2>2. RecordsSound(records, cooldown)'
    <3>1. \A k \in Nonce : records[k].state = "COMMITTING" => confirm'.nonce = k
      BY <2>0 DEF RecordsSound, RecordsFollowLog
    <3> QED BY <3>1, SoundRecordsStay DEF TypeOK
  <2>3. NoncesAreFresh' /\ TellsFollowLog' /\ CommitKnows' /\ MarksMatchLog'
    BY <2>0 DEF NoncesAreFresh, TellsFollowLog, CommitKnows, MarksMatchLog
  <2> QED BY <2>1, <2>2, <2>3
<1>12. CASE ConfirmEnd
  <2> USE <1>12 DEF ConfirmEnd, library, database, sessions
  <2> DEFINE n == confirm.nonce
  <2>0. /\ n \in Nonce /\ records[n].state = "COMMITTING" /\ confirm.at \in Nat /\ n <= issued
        /\ records[n].deadline <= confirm.at + Ttl
        /\ \A k \in Nonce : records[k].state = "COMMITTING" => k = n
        /\ records \in [Nonce -> Record] /\ cooldown \in [Session -> Nat]
        /\ told[n] = {} /\ records[n].session \in Session
    <3>1. n \in Nonce /\ confirm.at \in Nat /\ records[n].state = "COMMITTING" /\ records[n].deadline <= confirm.at + Ttl
      BY DEF CommitKnows, TypeOK, Confirming
    <3> QED BY <3>1 DEF RecordsSound, RecordsTyped, RecordsFollowLog, RecordsOwned, Undecided
  <2>1. TypeOK'
    BY <2>0 DEF TypeOK, Tell, NoConfirm, Confirming
  <2>2. NoncesAreFresh' /\ CommitKnows' /\ MarksMatchLog'
    <3>1. \A k \in Nonce : k > issued => told'[k] = told[k]
      BY <2>0 DEF Tell, TypeOK, Nonce
    <3> QED BY <3>1 DEF NoncesAreFresh, CommitKnows, NoConfirm, MarksMatchLog
  <2>3. TellsFollowLog'
    BY <2>0 DEF TellsFollowLog, CommitKnows, Tell, TypeOK
  <2>4. CASE confirm.outcome = "REJECTED" /\ n \notin log
    <3>1. RecordsSound(records, cooldown)'
      <4>1. /\ records' = [records EXCEPT ![n].state = "REJECTED", ![n].finished = confirm.at]
            /\ cooldown' = [cooldown EXCEPT ![records[n].session] = confirm.at + Cooldown]
            /\ told' = Tell(n, "REFUSED")
        BY <2>4
      <4>2. "REJECTED" \in Refused /\ records[n].state \in Undecided
        BY <2>0 DEF Refused, Undecided
      <4>3. UNCHANGED <<log, issued, now>>
        OBVIOUS
      <4> HIDE <1>12 DEF n, ConfirmEnd
      <4> QED BY <2>0, <2>4, <4>1, <4>2, <4>3, RefusalIsSound
    <3> QED BY <2>1, <2>2, <2>3, <3>1
  <2>5. CASE confirm.outcome = "COMMITTED" /\ n \in log
    <3>1. /\ \A k \in Nonce : k # n => records'[k] = records[k]
          /\ records'[n] \in Record /\ records'[n].state = "COMMITTED" /\ records' \in [Nonce -> Record]
          /\ records'[n].session = records[n].session /\ records'[n].deadline = records[n].deadline
          /\ cooldown' = cooldown
      <4>1. records' = [records EXCEPT ![n].state = "COMMITTED", ![n].finished = confirm.at] /\ cooldown' = cooldown
        BY <2>5
      <4> HIDE <1>12 DEF n, ConfirmEnd
      <4>2. \A k \in Nonce : k # n => records'[k] = records[k]
        BY <2>0, <4>1
      <4>3. /\ records'[n] \in Record /\ records'[n].state = "COMMITTED"
            /\ records'[n].session = records[n].session /\ records'[n].deadline = records[n].deadline
        BY <2>0, <4>1 DEF Record, Terminal
      <4> QED BY <2>0, <4>1, <4>2, <4>3
    <3>2. RecordsTyped(records, cooldown)' /\ RecordsOwned(records)'
      BY <2>0, <3>1 DEF RecordsSound, RecordsTyped, RecordsOwned
    <3>3. RecordsFollowLog(records)'
      BY SMTT(20), <2>0, <2>5, <3>1 DEF RecordsSound, RecordsFollowLog, Undecided, Refused, Tell, TypeOK
    <3>4. DeadlinesHold(records, cooldown)' /\ RefusalsCool(records, cooldown)'
      BY <3>1 DEF RecordsSound, DeadlinesHold, RefusalsCool, Undecided, Refused
    <3>5. EarlierAreDecided(records)' /\ RefusedBefore(records)'
      <4>1. \A k \in Nonce :
              /\ records'[k].session = records[k].session /\ records'[k].deadline = records[k].deadline
              /\ records'[k].state # "NONE" => records[k].state # "NONE"
        BY <2>0, <3>1
      <4>2. \A k \in Nonce :
              /\ records'[k].state \in Undecided => records[k].state \in Undecided
              /\ records'[k].state \in Refused => records[k].state \in Refused /\ records'[k].finished = records[k].finished
        BY <3>1 DEF Undecided, Refused
      <4>3. EarlierAreDecided(records)'
        BY <2>0, <4>1, <4>2 DEF RecordsSound, EarlierAreDecided
      <4>4. RefusedBefore(records)'
        BY <2>0, <4>1, <4>2 DEF RecordsSound, RefusedBefore
      <4> QED BY <4>3, <4>4
    <3>6. RecordsSound(records, cooldown)'
      BY <3>2, <3>3, <3>4, <3>5 DEF RecordsSound
    <3> QED BY <2>1, <2>2, <2>3, <3>6
  <2> QED BY <2>4, <2>5 DEF CommitKnows
<1>13. ASSUME NEW s \in Session, NEW w \in Window, OpenSession(s, w) PROVE IndInv'
  <2> USE <1>13 DEF OpenSession, library, database, memory
  <2>1. TypeOK'
    BY DEF TypeOK
  <2>2. RecordsSound(records, cooldown)'
    <3>1. \A k \in Nonce : records[k].state = "COMMITTING" => confirm.nonce = k
      BY DEF RecordsSound, RecordsFollowLog
    <3> QED BY <3>1, SoundRecordsStay DEF TypeOK
  <2>3. NoncesAreFresh' /\ TellsFollowLog' /\ CommitKnows' /\ MarksMatchLog'
    BY DEF NoncesAreFresh, TellsFollowLog, CommitKnows, MarksMatchLog, TypeOK, Confirming
  <2> QED BY <2>1, <2>2, <2>3
<1>14. ASSUME NEW s \in Session, CloseSession(s) PROVE IndInv'
  <2> USE <1>14 DEF CloseSession, library, database, memory
  <2>1. TypeOK'
    BY DEF TypeOK
  <2>2. RecordsSound(records, cooldown)'
    <3>1. \A k \in Nonce : records[k].state = "COMMITTING" => confirm.nonce = k
      BY DEF RecordsSound, RecordsFollowLog
    <3> QED BY <3>1, SoundRecordsStay DEF TypeOK
  <2>3. NoncesAreFresh' /\ TellsFollowLog' /\ CommitKnows' /\ MarksMatchLog'
    BY DEF NoncesAreFresh, TellsFollowLog, CommitKnows, MarksMatchLog, TypeOK, Confirming
  <2> QED BY <2>1, <2>2, <2>3
<1>15. ASSUME NEW m \in MaterialId, NewRevision(m) PROVE IndInv'
  <2> USE <1>15 DEF NewRevision, database, memory, sessions
  <2>1. TypeOK'
    BY DEF TypeOK
  <2>2. RecordsSound(records, cooldown)'
    <3>1. \A k \in Nonce : records[k].state = "COMMITTING" => confirm.nonce = k
      BY DEF RecordsSound, RecordsFollowLog
    <3> QED BY <3>1, SoundRecordsStay DEF TypeOK
  <2>3. NoncesAreFresh' /\ TellsFollowLog' /\ CommitKnows' /\ MarksMatchLog'
    BY DEF NoncesAreFresh, TellsFollowLog, CommitKnows, MarksMatchLog, TypeOK, Confirming
  <2> QED BY <2>1, <2>2, <2>3
<1>16. ASSUME NEW m \in MaterialId, StoreEvidence(m) PROVE IndInv'
  <2> USE <1>16 DEF StoreEvidence, database, memory, sessions
  <2>1. TypeOK'
    BY DEF TypeOK
  <2>2. RecordsSound(records, cooldown)'
    <3>1. \A k \in Nonce : records[k].state = "COMMITTING" => confirm.nonce = k
      BY DEF RecordsSound, RecordsFollowLog
    <3> QED BY <3>1, SoundRecordsStay DEF TypeOK
  <2>3. NoncesAreFresh' /\ TellsFollowLog' /\ CommitKnows' /\ MarksMatchLog'
    BY DEF NoncesAreFresh, TellsFollowLog, CommitKnows, MarksMatchLog, TypeOK, Confirming
  <2> QED BY <2>1, <2>2, <2>3
<1>17. ASSUME NEW m \in MaterialId, DeleteMaterial(m) PROVE IndInv'
  <2> USE <1>17 DEF DeleteMaterial, database, memory, sessions
  <2>1. TypeOK'
    BY DEF TypeOK
  <2>2. RecordsSound(records, cooldown)'
    <3>1. \A k \in Nonce : records[k].state = "COMMITTING" => confirm.nonce = k
      BY DEF RecordsSound, RecordsFollowLog
    <3> QED BY <3>1, SoundRecordsStay DEF TypeOK
  <2>3. NoncesAreFresh' /\ TellsFollowLog' /\ CommitKnows' /\ MarksMatchLog'
    BY DEF NoncesAreFresh, TellsFollowLog, CommitKnows, MarksMatchLog, TypeOK, Confirming
  <2> QED BY <2>1, <2>2, <2>3
<1>18. CASE Tick
  <2> USE <1>18 DEF Tick, library, database, memory, sessions
  <2>1. TypeOK'
    BY DEF TypeOK
  <2>2. RecordsSound(records, cooldown)'
    <3>1. \A k \in Nonce : records[k].state = "COMMITTING" => confirm.nonce = k
      BY DEF RecordsSound, RecordsFollowLog
    <3> QED BY <3>1, SoundRecordsStay DEF TypeOK
  <2>3. NoncesAreFresh' /\ TellsFollowLog' /\ CommitKnows' /\ MarksMatchLog'
    BY DEF NoncesAreFresh, TellsFollowLog, CommitKnows, MarksMatchLog, TypeOK, Confirming
  <2> QED BY <2>1, <2>2, <2>3
<1>19. CASE Restart
  <2> USE <1>19 DEF Restart, library, database
  <2>1. TypeOK'
    BY DEF TypeOK, NoConfirm, Confirming
  <2>2. RecordsSound(records, cooldown)'
    BY DEF RecordsSound, RecordsTyped, Record, RecordsOwned, RecordsFollowLog, DeadlinesHold, RefusalsCool,
           EarlierAreDecided, RefusedBefore, Undecided, Refused, NoRecord
  <2>3. NoncesAreFresh' /\ TellsFollowLog' /\ CommitKnows' /\ MarksMatchLog'
    BY DEF NoncesAreFresh, TellsFollowLog, CommitKnows, MarksMatchLog, NoConfirm
  <2> QED BY <2>1, <2>2, <2>3
<1>20. CASE UNCHANGED vars
  <2> USE <1>20 DEF vars, library, database, memory, sessions
  <2>1. TypeOK' /\ NoncesAreFresh' /\ TellsFollowLog' /\ CommitKnows' /\ MarksMatchLog'
    BY DEF TypeOK, NoncesAreFresh, TellsFollowLog, CommitKnows, MarksMatchLog
  <2>2. RecordsSound(records, cooldown)'
    <3>1. \A k \in Nonce : records[k].state = "COMMITTING" => confirm.nonce = k
      BY DEF RecordsSound, RecordsFollowLog
    <3> QED BY <3>1, SoundRecordsStay DEF TypeOK
  <2> QED BY <2>1, <2>2
<1> QED BY <1>1, <1>2, <1>3, <1>4, <1>5, <1>6, <1>7, <1>8, <1>9, <1>10, <1>11, <1>12, <1>13, <1>14, <1>15, <1>16, <1>17, <1>18, <1>19, <1>20 DEF Next, WebUi, Shell, Committing, Around

(* The invariant holds in every state.                                      *)
THEOREM Invariance == Spec => []IndInv
<1>1. Init => IndInv
  BY Initial
<1>2. IndInv /\ [Next]_vars => IndInv'
  BY Inductive
<1> QED BY <1>1, <1>2, PTL DEF Spec

(* The marks, the log, the memory of Core and what the Shell was told of a  *)
(* request agree in every state: no mark without its row, no COMMITTED for  *)
(* a proof that is not there, no REFUSED for one that is.                   *)
THEOREM RecordsAlwaysAgree == Spec => []RecordsAgree
<1>1. IndInv => RecordsAgree
  BY DEF IndInv, RecordsAgree, AnswersAgree, TellsFollowLog, RecordsSound, RecordsFollowLog, Refused
<1> QED BY <1>1, Invariance, PTL

(* A session has one undecided request at a time, and after a refusal the   *)
(* next one begins the cooldown later, although begin() reads its target    *)
(* before it takes the lock.                                                *)
THEOREM SessionsAlwaysTakeTurns == Spec => []SessionsTakeTurns
<1>1. IndInv => OnePendingPerSession
  <2>1. \A m, n \in Nonce : m < n \/ n < m \/ m = n
    BY DEF Nonce
  <2> QED BY <2>1 DEF IndInv, OnePendingPerSession, RecordsSound, EarlierAreDecided, Undecided
<1>2. IndInv => CooldownHolds
  <2> SUFFICES ASSUME IndInv, NEW m \in Nonce, NEW n \in Nonce, m < n, records[n].state # "NONE",
                      records[m].session = records[n].session, records[m].state \in Refused
               PROVE  records[n].deadline - Ttl >= records[m].finished + Cooldown
    BY DEF CooldownHolds, Refused
  <2>1. records[m].finished + Cooldown + Ttl <= records[n].deadline
    BY DEF IndInv, RecordsSound, RefusedBefore
  <2>2. records[m].finished \in Nat /\ records[n].deadline \in Nat
    BY DEF IndInv, RecordsSound, RecordsTyped, Record
  <2> QED BY <2>1, <2>2, GateAssumption
<1> QED BY <1>1, <1>2, Invariance, PTL DEF SessionsTakeTurns

(* A mark is set only by the commit, for a request whose dialog was opened, *)
(* about the content the material has at that moment and before the         *)
(* deadline; and a session that ended has nothing confirmed any more.       *)
THEOREM ProofsAreAlwaysSeen == Spec => ProofsAreSeen
<1>1. ASSUME IndInv, [Next]_vars, NEW m \in MaterialId, verified'[m] # verified[m]
      PROVE  \E n \in shown :
               /\ verified'[m] = n /\ asked[n].target = m /\ asked[n].print = Target(m)
               /\ m \notin hidden /\ verified[m] = 0
               /\ confirm.at < records[n].deadline
  <2>1. CASE CommitWrites
    <3>1. /\ confirm.nonce \in shown /\ confirm.at < records[confirm.nonce].deadline
      BY <1>1, <2>1 DEF IndInv, CommitKnows, CommitWrites
    <3>2. m = asked[confirm.nonce].target /\ verified'[m] = confirm.nonce
      BY <1>1, <2>1 DEF IndInv, TypeOK, CommitWrites
    <3> QED BY <2>1, <3>1, <3>2 DEF CommitWrites, Unchanged, Verifiable, Visible
  <2>2. CASE UNCHANGED verified
    BY <1>1, <2>2
  <2> QED BY <1>1, <2>1, <2>2 DEF Next, WebUi, Shell, Committing, Around, vars, database, library, memory, sessions,
        BeginRead, Begin, BeginRefused, View, Deny, Replay, ConfirmRefused, ConfirmBegin, CommitRefused, CommitFails,
        ConfirmEnd, OpenSession, CloseSession, NewRevision, StoreEvidence, DeleteMaterial, Tick, Restart
<1>2. ASSUME IndInv, [Next]_vars, NEW n \in Nonce, records[n].state = "PENDING", records[n].session \notin alive
      PROVE  records'[n].state \notin {"COMMITTING", "COMMITTED"}
  <2>1. Kept[n].state \in {"PENDING", "EXPIRED"} /\ Kept[n].session = records[n].session
    BY <1>2, KeptCases DEF IndInv, RecordsSound, Terminal
  <2>2. Kept \in [Nonce -> Record] /\ records \in [Nonce -> Record]
    BY <1>2, KeptIsSound DEF IndInv, RecordsSound, RecordsTyped
  <2>3. CASE records' = Kept \/ UNCHANGED records
    BY <1>2, <2>1, <2>3
  <2>4. ASSUME NEW r \in reads, Begin(r) PROVE records'[n].state \notin {"COMMITTING", "COMMITTED"}
    <3>1. issued + 1 \in Nonce
      BY <1>2, <2>4, GateAssumption DEF Begin, IndInv, TypeOK, Nonce
    <3>2. records'[n] = Kept[n] \/ records'[n].state = "PENDING"
      BY <2>2, <2>4, <3>1 DEF Begin
    <3> QED BY <2>1, <3>2
  <2>5. ASSUME NEW k \in Nonce, Deny(k) PROVE records'[n].state \notin {"COMMITTING", "COMMITTED"}
    BY <2>1, <2>2, <2>5 DEF Deny, Finished
  <2>6. ASSUME NEW k \in Nonce, NEW w \in Window, NEW macOk \in BOOLEAN, ConfirmRefused(k, w, macOk)
        PROVE  records'[n].state \notin {"COMMITTING", "COMMITTED"}
    BY <2>1, <2>2, <2>6 DEF ConfirmRefused, Finished
  <2>7. ASSUME NEW k \in Nonce, NEW w \in Window, ConfirmBegin(k, w)
        PROVE  records'[n].state \notin {"COMMITTING", "COMMITTED"}
    <3>1. k # n
      BY <1>2, <2>1, <2>7 DEF ConfirmBegin, Usable
    <3> QED BY <2>1, <2>2, <2>7, <3>1 DEF ConfirmBegin
  <2>8. CASE ConfirmEnd
    <3>1. confirm.nonce # n
      BY <1>2, <2>8 DEF ConfirmEnd, IndInv, CommitKnows
    <3> QED BY <1>2, <2>2, <2>8, <3>1 DEF ConfirmEnd
  <2>9. CASE Restart
    BY <2>9 DEF Restart, NoRecord
  <2> QED BY <1>2, <2>3, <2>4, <2>5, <2>6, <2>7, <2>8, <2>9 DEF Next, WebUi, Shell, Committing, Around, vars, memory,
        BeginRead, BeginRefused, View, Replay, CommitWrites, CommitRefused, CommitFails, OpenSession, CloseSession,
        NewRevision, StoreEvidence, DeleteMaterial, Tick
<1>3. IndInv /\ [Next]_vars =>
        [\A m \in MaterialId :
           (verified'[m] # verified[m]) =>
             \E n \in shown :
               /\ verified'[m] = n /\ asked[n].target = m /\ asked[n].print = Target(m)
               /\ m \notin hidden /\ verified[m] = 0
               /\ confirm.at < records[n].deadline]_vars
  BY <1>1
<1>4. IndInv /\ [Next]_vars =>
        [\A n \in Nonce :
           (records[n].state = "PENDING" /\ records[n].session \notin alive)
             => records'[n].state \notin {"COMMITTING", "COMMITTED"}]_vars
  BY <1>2
<1> QED BY <1>3, <1>4, Invariance, PTL DEF Spec, ProofsAreSeen, MarkIsWhatWasShown, DeadSessionsConfirmNothing

(* Every step of the gate asks, withdraws, proves or leaves the requests    *)
(* alone: it implements the specification of human proofs.                  *)
THEOREM ImplementsProofs == Spec => ImplementsHumanProof
<1> DEFINE open == { n \in Nonce : records[n].state \in {"PENDING", "COMMITTING"} /\ n \notin log }
           content == [m \in MaterialId |-> IF m \in hidden THEN NoRequest.print ELSE Target(m)]
<1>1. Init => Proof!Init
  BY DEF Init, Proof!Init, NoRecord
<1>2. IndInv /\ [Next]_vars => [Proof!Next]_(Proof!vars)
  <2> SUFFICES ASSUME IndInv, [Next]_vars PROVE Proof!Next \/ UNCHANGED Proof!vars
    OBVIOUS
  <2>1. \A n \in Nonce : Kept[n].state \in {"PENDING", "COMMITTING"} => Kept[n] = records[n]
    BY KeptCases DEF IndInv, RecordsSound, NoRecord
  <2>2. Kept \in [Nonce -> Record] /\ records \in [Nonce -> Record]
    BY KeptIsSound DEF IndInv, RecordsSound, RecordsTyped
  <2> HIDE DEF open, content
  <2>3. ASSUME UNCHANGED <<library, asked, log>>,
               \A n \in Nonce : records'[n].state \in {"PENDING", "COMMITTING"}
                                  => records[n].state \in {"PENDING", "COMMITTING"}
        PROVE  Proof!Withdraw
    <3>1. open' \subseteq open
      BY <2>3 DEF open
    <3>2. content' = content
      BY <2>3 DEF content, library, Target
    <3> QED BY <2>3, <3>1, <3>2 DEF Proof!Withdraw, open, content
  <2>4. ASSUME UNCHANGED <<asked, log, records>> PROVE Proof!Change
    BY <2>4 DEF Proof!Change
  <2>5. ASSUME NEW r \in reads, Begin(r) PROVE \E n \in Nonce : Proof!Ask(n)
    <3> DEFINE n == issued + 1
    <3>1. n \in Nonce /\ n \notin log /\ records[n].state = "NONE"
      <4>1. n \in Nonce /\ n > issued
        BY <2>5, GateAssumption DEF Begin, IndInv, TypeOK, Nonce
      <4> QED BY <4>1 DEF IndInv, NoncesAreFresh, RecordsSound, RecordsOwned, Nonce, TypeOK
    <3>2. /\ records'[n].state = "PENDING" /\ UNCHANGED <<library, log>>
          /\ \A k \in Nonce : k # n => records'[k] = Kept[k] /\ asked'[k] = asked[k]
      BY <2>2, <2>5, <3>1 DEF Begin, IndInv, TypeOK, database
    <3> HIDE DEF n
    <3>3. n \notin open \cup log /\ n \in open' /\ open' \subseteq open \cup {n}
      BY <2>1, <3>1, <3>2 DEF open
    <3>4. content' = content
      BY <3>2 DEF content, library, Target
    <3> QED BY <3>1, <3>2, <3>3, <3>4 DEF Proof!Ask, open, content
  <2>6. CASE CommitWrites
    <3> DEFINE n == confirm.nonce
    <3>1. n \in Nonce /\ n \in open /\ log' = log \cup {n} /\ UNCHANGED <<library, asked, records>>
      BY <2>6 DEF CommitWrites, open, IndInv, CommitKnows, TypeOK
    <3>2. asked[n].target \in MaterialId
      BY <3>1, GateAssumption DEF open, IndInv, NoncesAreFresh, RecordsSound, RecordsOwned
    <3>3. asked[n].print = content[asked[n].target]
      BY <2>6, <3>2 DEF CommitWrites, Unchanged, Verifiable, Visible, content
    <3>4. \A k \in log : asked[k].target # asked[n].target
      <4> SUFFICES ASSUME NEW k \in log, asked[k].target = asked[n].target PROVE FALSE
        OBVIOUS
      <4>1. verified[asked[k].target] = k /\ k # 0
        BY DEF IndInv, MarksMatchLog, TypeOK, Nonce
      <4> QED BY <2>6, <4>1 DEF CommitWrites, Unchanged, Verifiable
    <3> HIDE DEF n
    <3>5. open' = open \ {n}
      BY <3>1 DEF open
    <3>6. content' = content
      BY <3>1 DEF content, library, Target
    <3> QED BY <3>1, <3>3, <3>4, <3>5, <3>6 DEF Proof!Prove, Proof!Next, open, content
  <2>7. CASE UNCHANGED vars
    BY <2>4, <2>7 DEF vars, database, memory, Proof!Next
  <2>8. ASSUME NEW s \in Session, NEW m \in MaterialId, BeginRead(s, m) PROVE Proof!Next
    BY <2>4, <2>8 DEF BeginRead, database, Proof!Next
  <2>9. ASSUME NEW r \in reads, BeginRefused(r) PROVE Proof!Next
    <3>1. UNCHANGED <<library, asked, log>> /\ records' = Kept
      BY <2>9 DEF BeginRefused, database
    <3> QED BY <2>1, <2>3, <3>1 DEF Proof!Next
  <2>10. ASSUME NEW n \in Nonce, NEW w \in Window, View(n, w) PROVE Proof!Next
    <3>1. UNCHANGED <<library, asked, log>> /\ records' = Kept
      BY <2>10 DEF View, database
    <3> QED BY <2>1, <2>3, <3>1 DEF Proof!Next
  <2>11. ASSUME NEW n \in Nonce, Replay(n) PROVE Proof!Next
    <3>1. UNCHANGED <<library, asked, log>> /\ records' = Kept
      BY <2>11 DEF Replay, database
    <3> QED BY <2>1, <2>3, <3>1 DEF Proof!Next
  <2>12. ASSUME NEW n \in Nonce, NEW decision \in Refused, records' = Finished(n, decision, now),
                UNCHANGED <<library, asked, log>>
         PROVE  Proof!Next
    <3>1. \A k \in Nonce : k # n => records'[k] = Kept[k]
      BY <2>2, <2>12 DEF Finished
    <3>2. records'[n].state = decision
      BY <2>2, <2>12 DEF Finished, Record
    <3> QED BY <2>1, <2>3, <2>12, <3>1, <3>2 DEF Proof!Next, Refused
  <2>13. ASSUME NEW n \in Nonce, Deny(n) PROVE Proof!Next
    BY <2>12, <2>13 DEF Deny, database, Refused
  <2>14. ASSUME NEW n \in Nonce, NEW w \in Window, NEW macOk \in BOOLEAN, ConfirmRefused(n, w, macOk)
         PROVE  Proof!Next
    BY <2>12, <2>14 DEF ConfirmRefused, database, Refused
  <2>15. ASSUME NEW n \in Nonce, NEW w \in Window, ConfirmBegin(n, w) PROVE Proof!Next
    <3>1. /\ UNCHANGED <<library, asked, log>> /\ Kept[n].state = "PENDING"
          /\ \A k \in Nonce : k # n => records'[k] = Kept[k]
      BY <2>2, <2>15 DEF ConfirmBegin, Usable, Pending, database
    <3> QED BY <2>1, <2>3, <3>1 DEF Proof!Next
  <2>16. CASE CommitRefused \/ CommitFails
    BY <2>4, <2>16 DEF CommitRefused, CommitFails, database, Proof!Next
  <2>17. CASE ConfirmEnd
    <3>1. /\ UNCHANGED <<library, asked, log>> /\ records[confirm.nonce].state = "COMMITTING"
          /\ \A k \in Nonce : k # confirm.nonce => records'[k] = records[k]
      BY <2>2, <2>17 DEF ConfirmEnd, database, IndInv, CommitKnows
    <3> QED BY <2>3, <3>1 DEF Proof!Next
  <2>18. CASE \/ \E s \in Session : CloseSession(s) \/ \E w \in Window : OpenSession(s, w)
              \/ \E m \in MaterialId : NewRevision(m) \/ StoreEvidence(m) \/ DeleteMaterial(m)
              \/ Tick
    BY <2>4, <2>18 DEF CloseSession, OpenSession, NewRevision, StoreEvidence, DeleteMaterial, Tick, database, memory,
       Proof!Next
  <2>19. CASE Restart
    <3>1. UNCHANGED <<library, asked, log>> /\ \A n \in Nonce : records'[n].state = "NONE"
      BY <2>19 DEF Restart, database, NoRecord
    <3> QED BY <2>3, <3>1 DEF Proof!Next
  <2>20. CASE \E n \in Nonce : Proof!Ask(n)
    BY <2>20 DEF Proof!Next
  <2> QED BY <2>5, <2>6, <2>7, <2>8, <2>9, <2>10, <2>11, <2>13, <2>14, <2>15, <2>16, <2>17, <2>18, <2>19, <2>20
          DEF Next, WebUi, Shell, Committing, Around
<1> QED BY <1>1, <1>2, Invariance, PTL DEF Spec, ImplementsHumanProof, Proof!Spec

=============================================================================
