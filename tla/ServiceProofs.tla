---------------------------- MODULE ServiceProofs ----------------------------
(***************************************************************************)
(* The services of the Core, one after the other: the database, the keys   *)
(* of the OpenID provider, the download from Canvas, the sessions of the   *)
(* windows, the transcript pipeline and retrieval.                         *)
(*                                                                         *)
(* The database.  For any number of processes, threads, contents, schemas, *)
(* transactions and crashes the library is whole and is opened under the   *)
(* right schema.  The argument: StoreInv is inductive.  Whoever is at the  *)
(* library holds its lock (Locked), and threads work only where the        *)
(* library is served (Quiet).  The open transaction is that of the one     *)
(* thread inside, and what the connection holds is what that thread has    *)
(* written (OneWriter); rows are told apart by their transaction (Signed), *)
(* so that a COMMIT adds no row of another.  Before the first migration    *)
(* there is a copy of all rows of the schema it leaves, and of the schemas *)
(* in between there are none (Copied).                                     *)
(***************************************************************************)
EXTENDS StateStore, OidcKeys, CanvasDownload, UiSessions, TranscriptIngest, Retrieval, FiniteSetTheorems, TLAPS

Row   == [tx : Nat, n : Nat, content : Content, schema : Nat]
Ended == [how : {"running", "committed", "raised", "cut"}, wrote : SUBSET Row]
Work  == [at : {"idle", "put", "stored", "inside"}, tx : Nat, content : Content, rows : Nat]

(* Every variable has its type.                                            *)
ProcessesTyped ==
  /\ stage \in [Core -> {"off", "locked", "migrating", "up"}]
  /\ build \in [Core -> 1..MaxSchema]
  /\ lock \in Core \cup {NoCore} /\ file \in BOOLEAN
  /\ schema \in Nat /\ crashes \in Nat
  /\ backups \subseteq [schema : Nat, rows : SUBSET Row]
WritesTyped ==
  /\ durable \subseteq Row /\ written \subseteq Row
  /\ tx \in {"none", "open", "left"} /\ owner \in Thread \cup {NoThread} /\ depth \in 0..2
  /\ ended \in Seq(Ended)
  /\ thread \in [Thread -> Work]
  /\ blobs \subseteq Content
StoreTyped == ProcessesTyped /\ WritesTyped

(* Whoever is at the library holds its lock.                               *)
Locked ==
  /\ \A p \in Core : stage[p] # "off" <=> lock = p
  /\ \A p \in Core : stage[p] \in {"migrating", "up"} => file
  /\ \A p \in Core : stage[p] = "up" => schema = build[p]
  /\ \A p \in Core : stage[p] = "migrating" => schema <= build[p]

(* Nothing is under way where the library is not served.                   *)
Quiet ==
  ~Serving => /\ owner = NoThread /\ tx = "none"
              /\ \A t \in Thread : thread[t] = NoWork

(* The open transaction is that of the one thread inside.                  *)
OneWriter ==
  /\ \A t \in Thread : thread[t].at = "inside" <=> owner = t
  /\ tx = "open" <=> owner # NoThread
  /\ tx = "none" => written = {}
  /\ \A t \in Thread : owner = t =>
       /\ thread[t].tx \in DOMAIN ended
       /\ ended[thread[t].tx] = [how |-> "running", wrote |-> written]
  /\ \A x \in DOMAIN ended : ended[x].how = "running" => \E t \in Thread : owner = t /\ thread[t].tx = x

(* A row names the transaction that wrote it, and those in the library     *)
(* name one that was committed.                                            *)
Signed ==
  /\ \A x \in DOMAIN ended : \A r \in ended[x].wrote : r.tx = x
  /\ \A r \in durable : r.tx \in DOMAIN ended /\ ended[r.tx].how = "committed"

(* The content of a row is stored before it is written.                    *)
Stored ==
  /\ \A r \in durable \cup written : r.content \in blobs
  /\ \A t \in Thread : thread[t].at \in {"stored", "inside"} => thread[t].content \in blobs

(* Rows are of a schema that was, and there is a copy of what an older     *)
(* build wrote.                                                            *)
CopyOf(r) == \E b \in backups : b.schema = r.schema /\ r \in b.rows
Copied ==
  /\ durable # {} => file
  /\ \A r \in durable : r.schema <= schema /\ (r.schema < schema => CopyOf(r))
  /\ \A p \in Core : stage[p] = "migrating" /\ schema < build[p] => \A r \in durable : CopyOf(r)
  /\ \A r \in written : r.schema = schema

StoreInv == StoreTyped /\ Locked /\ Quiet /\ OneWriter /\ Signed /\ Stored /\ Copied /\ AllOrNothing

-----------------------------------------------------------------------------
LEMMA NoWorkIs == NoWork \in Work /\ NoWork.at = "idle"
BY StoreAssumption DEF NoWork, Work

LEMMA Initial == StoreInit => StoreInv
<1> SUFFICES ASSUME StoreInit PROVE StoreInv
  OBVIOUS
<1>1. StoreTyped
  <2>1. ended \in Seq(Ended)
    BY DEF StoreInit
  <2>2. ProcessesTyped
    <3>1. 1 \in 1..MaxSchema /\ 0 \in Nat
      BY StoreAssumption
    <3>2. stage \in [Core -> {"off", "locked", "migrating", "up"}] /\ build \in [Core -> 1..MaxSchema]
      BY <3>1 DEF StoreInit
    <3> QED
      BY <3>1, <3>2 DEF StoreInit, ProcessesTyped
  <2>3. WritesTyped
    BY <2>1, NoWorkIs DEF StoreInit, WritesTyped
  <2> QED
    BY <2>2, <2>3 DEF StoreTyped
<1>2. Locked /\ Quiet /\ Copied
  BY StoreAssumption DEF StoreInit, Locked, Quiet, Copied
<1>3. OneWriter /\ Signed /\ Stored /\ AllOrNothing
  BY NoWorkIs, StoreAssumption DEF StoreInit, OneWriter, Signed, Stored, AllOrNothing
<1> QED
  BY <1>1, <1>2, <1>3 DEF StoreInv

(* Whoever opens the library finds nothing under way in it.                *)
LEMMA NobodyServes ==
  ASSUME Locked, StoreTyped, NEW p \in Core, stage[p] # "up", lock \in {p, NoCore}
  PROVE  ~Serving
BY StoreAssumption DEF Locked, Serving, StoreTyped, ProcessesTyped

(* What holds of threads and rows is not disturbed by an opening.          *)
LEMMA OpeningKeeps ==
  ASSUME StoreInv, UNCHANGED <<rows, thread, blobs>>
  PROVE  WritesTyped' /\ OneWriter' /\ Signed' /\ Stored' /\ AllOrNothing'
<1>1. WritesTyped'
  BY DEF StoreInv, StoreTyped, WritesTyped, rows
<1>2. OneWriter'
  BY DEF StoreInv, OneWriter, rows
<1>3. Signed' /\ Stored' /\ AllOrNothing'
  BY DEF StoreInv, Signed, Stored, AllOrNothing, rows
<1> QED
  BY <1>1, <1>2, <1>3

(* One process goes on in opening the library.                             *)
LEMMA LockKeeps == ASSUME StoreInv, NEW p \in Core, Lock(p) PROVE StoreInv'
<1>1. WritesTyped' /\ OneWriter' /\ Signed' /\ Stored' /\ AllOrNothing'
  BY OpeningKeeps DEF Lock, files
<1>2. PICK b \in 1..MaxSchema : build' = [build EXCEPT ![p] = b]
  BY DEF Lock
<1>3. ProcessesTyped'
  BY <1>2 DEF Lock, Go, StoreInv, StoreTyped, ProcessesTyped
<1>4. Locked'
  BY <1>2, StoreAssumption DEF Lock, Go, StoreInv, StoreTyped, ProcessesTyped, Locked
<1>5. ~Serving /\ ~Serving'
  BY NobodyServes, <1>2 DEF Lock, Go, StoreInv, StoreTyped, ProcessesTyped, Serving
<1>6. Quiet'
  BY <1>5 DEF Lock, rows, StoreInv, Quiet
<1>7. Copied'
  BY <1>2 DEF Lock, Go, rows, StoreInv, StoreTyped, ProcessesTyped, Copied, CopyOf
<1> QED
  BY <1>1, <1>3, <1>4, <1>6, <1>7 DEF StoreInv, StoreTyped

LEMMA RefuseKeeps == ASSUME StoreInv, NEW p \in Core, Refuse(p) PROVE StoreInv'
<1>1. WritesTyped' /\ OneWriter' /\ Signed' /\ Stored' /\ AllOrNothing'
  BY OpeningKeeps DEF Refuse, files
<1>2. ProcessesTyped'
  BY DEF Refuse, Go, StoreInv, StoreTyped, ProcessesTyped
<1>3. Locked'
  BY StoreAssumption DEF Refuse, Go, StoreInv, StoreTyped, ProcessesTyped, Locked
<1>4. ~Serving /\ ~Serving'
  BY NobodyServes DEF Refuse, Go, StoreInv, StoreTyped, ProcessesTyped, Serving, Locked
<1>5. Quiet'
  BY <1>4 DEF Refuse, rows, StoreInv, Quiet
<1>6. Copied'
  BY DEF Refuse, Go, rows, StoreInv, StoreTyped, ProcessesTyped, Copied, CopyOf
<1> QED
  BY <1>1, <1>2, <1>3, <1>5, <1>6 DEF StoreInv, StoreTyped

LEMMA CheckKeeps == ASSUME StoreInv, NEW p \in Core, Check(p) PROVE StoreInv'
<1>1. WritesTyped' /\ OneWriter' /\ Signed' /\ Stored' /\ AllOrNothing'
  BY OpeningKeeps DEF Check, files
<1>2. BackedUp(p) \subseteq [schema : Nat, rows : SUBSET Row] /\ backups \subseteq BackedUp(p)
  BY DEF BackedUp, StoreInv, StoreTyped, ProcessesTyped, WritesTyped
<1>3. ProcessesTyped'
  BY <1>2 DEF Check, Go, StoreInv, StoreTyped, ProcessesTyped
<1>4. Locked'
  BY DEF Check, Go, StoreInv, StoreTyped, ProcessesTyped, Locked
<1>5. ~Serving /\ ~Serving'
  BY NobodyServes DEF Check, Go, StoreInv, StoreTyped, ProcessesTyped, Serving, Locked
<1>6. Quiet'
  BY <1>5 DEF Check, rows, StoreInv, Quiet
<1>7. Copied'
  <2>1. \A r \in durable : CopyOf(r) => CopyOf(r)'
    BY <1>2 DEF Check, CopyOf
  <2>2. \A q \in Core : stage'[q] = "migrating" => q = p
    BY DEF Check, Go, StoreInv, StoreTyped, ProcessesTyped, Locked
  <2>3. schema < build[p] => \A r \in durable : r.schema = schema => CopyOf(r)'
    <3> SUFFICES ASSUME schema < build[p], NEW r \in durable, r.schema = schema PROVE CopyOf(r)'
      OBVIOUS
    <3>1. file
      BY DEF StoreInv, Copied
    <3>2. [schema |-> schema, rows |-> durable] \in backups'
      BY <3>1 DEF Check, BackedUp
    <3> QED
      BY <3>2 DEF CopyOf
  <2> QED
    BY <2>1, <2>2, <2>3 DEF Check, rows, StoreInv, StoreTyped, ProcessesTyped, WritesTyped, Row, Copied
<1> QED
  BY <1>1, <1>3, <1>4, <1>6, <1>7 DEF StoreInv, StoreTyped

LEMMA MigrateKeeps == ASSUME StoreInv, NEW p \in Core, Migrate(p) PROVE StoreInv'
<1>1. WritesTyped' /\ OneWriter' /\ Signed' /\ Stored' /\ AllOrNothing'
  BY OpeningKeeps DEF Migrate, files
<1>2. ProcessesTyped'
  BY DEF Migrate, StoreInv, StoreTyped, ProcessesTyped
<1>3. ~Serving /\ ~Serving' /\ \A q \in Core : stage[q] # "off" => q = p
  BY NobodyServes DEF Migrate, StoreInv, StoreTyped, ProcessesTyped, Serving, Locked
<1>4. Locked'
  BY <1>3 DEF Migrate, StoreInv, StoreTyped, ProcessesTyped, Locked
<1>5. Quiet'
  BY <1>3 DEF Migrate, rows, StoreInv, Quiet
<1>6. Copied'
  <2>1. written = {}
    BY <1>3 DEF StoreInv, Quiet, OneWriter
  <2>2. \A r \in durable : CopyOf(r) /\ CopyOf(r)' /\ r.schema <= schema + 1
    BY DEF Migrate, StoreInv, StoreTyped, ProcessesTyped, WritesTyped, Row, Copied, CopyOf
  <2> QED
    BY <2>1, <2>2 DEF Migrate, rows, StoreInv, Copied
<1> QED
  BY <1>1, <1>2, <1>4, <1>5, <1>6 DEF StoreInv, StoreTyped

LEMMA ServeKeeps == ASSUME StoreInv, NEW p \in Core, Serve(p) PROVE StoreInv'
<1>1. WritesTyped' /\ OneWriter' /\ Signed' /\ Stored' /\ AllOrNothing'
  BY OpeningKeeps DEF Serve
<1>2. ProcessesTyped'
  BY DEF Serve, Go, StoreInv, StoreTyped, ProcessesTyped
<1>3. Locked'
  BY DEF Serve, Go, StoreInv, StoreTyped, ProcessesTyped, Locked
<1>4. Serving'
  BY DEF Serve, Go, StoreInv, StoreTyped, ProcessesTyped, Serving
<1>5. Quiet'
  BY <1>4 DEF Quiet
<1>6. Copied'
  BY DEF Serve, Go, rows, StoreInv, StoreTyped, ProcessesTyped, Copied, CopyOf
<1> QED
  BY <1>1, <1>2, <1>3, <1>5, <1>6 DEF StoreInv, StoreTyped

(* The end of the process, wherever it is.                                 *)
LEMMA EndsKeeps ==
  ASSUME StoreInv, NEW p \in Core, stage[p] # "off", Ends(p), crashes' \in Nat
  PROVE  StoreInv'
<1>1. ProcessesTyped'
  BY DEF Ends, Go, StoreInv, StoreTyped, ProcessesTyped
<1>2. \A q \in Core : stage'[q] = "off"
  BY DEF Ends, Go, StoreInv, StoreTyped, ProcessesTyped, Locked
<1>3. Locked' /\ Quiet'
  BY <1>2, StoreAssumption DEF Ends, Locked, Quiet, Serving
<1>4. /\ DOMAIN ended' = DOMAIN ended
      /\ \A x \in DOMAIN ended : /\ ended'[x].wrote = ended[x].wrote /\ ended'[x].how # "running"
                                 /\ ended'[x].how = "committed" <=> ended[x].how = "committed"
  BY DEF Ends, StoreInv, StoreTyped, WritesTyped, Ended
<1>5. ended' \in Seq(Ended)
  <2>1. \A x \in DOMAIN ended : ended'[x] \in Ended
    <3> SUFFICES ASSUME NEW x \in DOMAIN ended PROVE ended'[x] \in Ended
      OBVIOUS
    <3>1. ended[x] \in Ended
      BY DEF StoreInv, StoreTyped, WritesTyped
    <3>2. [ended[x] EXCEPT !.how = "cut"] \in Ended
      BY <3>1 DEF Ended
    <3> QED
      BY <3>1, <3>2 DEF Ends
  <2>2. Len(ended) \in Nat /\ DOMAIN ended = 1..Len(ended)
    BY DEF StoreInv, StoreTyped, WritesTyped
  <2>3. ended' \in [1..Len(ended) -> Ended]
    BY <2>1, <2>2 DEF Ends
  <2> QED
    BY <2>2, <2>3, SMTT(20)
<1>6. WritesTyped'
  BY <1>5, NoWorkIs DEF Ends, files, StoreInv, StoreTyped, WritesTyped
<1>7. OneWriter'
  BY <1>4, NoWorkIs, StoreAssumption DEF Ends, OneWriter
<1>8. Signed' /\ AllOrNothing'
  BY <1>4 DEF Ends, files, StoreInv, Signed, AllOrNothing
<1>9. Stored'
  BY NoWorkIs DEF Ends, files, StoreInv, Stored
<1>10. Copied'
  BY <1>2 DEF Ends, StoreInv, Copied, CopyOf
<1> QED
  BY <1>1, <1>3, <1>6, <1>7, <1>8, <1>9, <1>10 DEF StoreInv, StoreTyped

-----------------------------------------------------------------------------
(* What holds of processes and copies is not disturbed by a thread that    *)
(* leaves the library alone.                                               *)
LEMMA ThreadKeeps ==
  ASSUME StoreInv, UNCHANGED <<opening, durable, crashes>>, Serving, \A r \in written' : r.schema = schema
  PROVE  ProcessesTyped' /\ Locked' /\ Quiet' /\ Copied' /\ Serving'
<1>1. Serving'
  BY DEF opening, Serving
<1>2. ProcessesTyped' /\ Locked'
  BY DEF opening, StoreInv, StoreTyped, ProcessesTyped, Locked
<1>3. Copied'
  BY DEF opening, StoreInv, Copied, CopyOf
<1> QED
  BY <1>1, <1>2, <1>3 DEF Quiet

(* A thread at work works where the library is served.                     *)
LEMMA AtWork == ASSUME StoreInv, NEW t \in Thread, thread[t].at # "idle" PROVE Serving
BY NoWorkIs DEF StoreInv, Quiet

(* A thread that goes on outside of a transaction.                         *)
LEMMA OutsideKeeps ==
  ASSUME StoreInv, NEW t \in Thread, Serving, UNCHANGED <<opening, rows, crashes>>,
         NEW work \in Work, thread' = [thread EXCEPT ![t] = work],
         thread[t].at # "inside", work.at # "inside",
         blobs \subseteq blobs', blobs' \subseteq Content, work.at = "stored" => work.content \in blobs'
  PROVE  StoreInv'
<1>1. ProcessesTyped' /\ Locked' /\ Quiet' /\ Copied'
  BY ThreadKeeps DEF rows, StoreInv, Copied
<1>2. WritesTyped'
  BY DEF rows, StoreInv, StoreTyped, WritesTyped
<1>3. thread'[t] = work /\ \A u \in Thread : u # t => thread'[u] = thread[u]
  BY DEF StoreInv, StoreTyped, WritesTyped
<1>4. OneWriter'
  BY <1>3 DEF rows, StoreInv, OneWriter
<1>5. Stored'
  BY <1>3 DEF rows, StoreInv, Stored
<1>6. Signed' /\ AllOrNothing'
  BY DEF rows, StoreInv, Signed, AllOrNothing
<1> QED
  BY <1>1, <1>2, <1>4, <1>5, <1>6 DEF StoreInv, StoreTyped

LEMMA PutBeginKeeps == ASSUME StoreInv, NEW t \in Thread, PutBegin(t) PROVE StoreInv'
<1>1. PICK c \in Content : thread' = [thread EXCEPT ![t] = [NoWork EXCEPT !.at = "put", !.content = c]]
  BY DEF PutBegin, Set
<1>2. [NoWork EXCEPT !.at = "put", !.content = c] \in Work /\ [NoWork EXCEPT !.at = "put", !.content = c].at = "put"
  BY NoWorkIs DEF Work
<1> QED
  BY <1>1, <1>2, OutsideKeeps, NoWorkIs DEF PutBegin, StoreInv, StoreTyped, WritesTyped

LEMMA PutEndKeeps == ASSUME StoreInv, NEW t \in Thread, PutEnd(t) PROVE StoreInv'
<1>1. Serving /\ thread[t] \in Work
  BY AtWork DEF PutEnd, StoreInv, StoreTyped, WritesTyped
<1>2. CASE blobs' = blobs \cup {thread[t].content} /\ Set(t, [thread[t] EXCEPT !.at = "stored"])
  <2> DEFINE work == [thread[t] EXCEPT !.at = "stored"]
  <2>1. work \in Work /\ work.at = "stored" /\ work.content = thread[t].content /\ thread[t].content \in Content
    BY <1>1 DEF Work
  <2>2. thread' = [thread EXCEPT ![t] = work]
    BY <1>2 DEF Set
  <2> HIDE DEF work
  <2> QED
    BY <1>1, <1>2, <2>1, <2>2, OutsideKeeps DEF PutEnd, StoreInv, StoreTyped, WritesTyped
<1>3. CASE Set(t, NoWork) /\ UNCHANGED blobs
  BY <1>1, <1>3, NoWorkIs, OutsideKeeps DEF PutEnd, Set, StoreInv, StoreTyped, WritesTyped
<1> QED
  BY <1>2, <1>3 DEF PutEnd

LEMMA BeginKeeps == ASSUME StoreInv, NEW t \in Thread, Begin(t) PROVE StoreInv'
<1>1. Serving /\ thread[t] \in Work
  BY AtWork DEF Begin, StoreInv, StoreTyped, WritesTyped
<1>2. CASE Set(t, NoWork) /\ UNCHANGED <<tx, owner, depth, ended>>
  BY <1>1, <1>2, NoWorkIs, OutsideKeeps DEF Begin, Set, rows, files, StoreInv, StoreTyped, WritesTyped
<1>3. CASE tx' = "open"
  <2> DEFINE n == Len(ended) + 1
             new == [how |-> "running", wrote |-> {}]
             work == [thread[t] EXCEPT !.at = "inside", !.tx = n]
  <2>1. /\ MayBegin /\ owner = NoThread /\ owner' = t /\ depth' = 1 /\ ended' = Append(ended, new)
        /\ thread' = [thread EXCEPT ![t] = work] /\ thread[t].at = "stored" /\ t # NoThread
        /\ UNCHANGED <<opening, durable, written, files, crashes>>
    <3>1. owner = NoThread /\ tx # "open"
      BY DEF Begin, StoreInv, OneWriter
    <3> QED
      BY <1>3, <3>1, StoreAssumption DEF Begin, Set, MayBegin
  <2>2. ended \in Seq(Ended) /\ n \in Nat /\ new \in Ended
    BY DEF StoreInv, StoreTyped, WritesTyped, Ended
  <2>3. /\ ended' \in Seq(Ended) /\ DOMAIN ended' = DOMAIN ended \cup {n} /\ n \notin DOMAIN ended
        /\ ended'[n] = new /\ \A x \in DOMAIN ended : ended'[x] = ended[x]
    <3> HIDE DEF new
    <3> QED
      BY <2>1, <2>2
  <2>4. work \in Work /\ work.at = "inside" /\ work.tx = n /\ work.content = thread[t].content
    BY <1>1, <2>2 DEF Work
  <2>5. new.how = "running" /\ new.wrote = {}
    OBVIOUS
  <2>6. n \notin {r.tx : r \in durable}
    BY <2>3 DEF StoreInv, Signed
  <2> HIDE DEF n, new, work
  <2>7. thread'[t] = work /\ \A u \in Thread : u # t => thread'[u] = thread[u]
    BY <2>1 DEF StoreInv, StoreTyped, WritesTyped
  <2>8. written = {} /\ tx = "none" /\ \A x \in DOMAIN ended : ended[x].how # "running"
    BY <2>1, StoreAssumption DEF MayBegin, StoreInv, OneWriter
  <2>9. ProcessesTyped' /\ Locked' /\ Quiet' /\ Copied'
    BY <1>1, <2>1, <2>8, ThreadKeeps
  <2>10. WritesTyped'
    BY <1>3, <2>1, <2>3, <2>4 DEF files, StoreInv, StoreTyped, WritesTyped
  <2>11. OneWriter'
    <3>1. \A u \in Thread : thread'[u].at = "inside" <=> owner' = u
      BY <2>1, <2>4, <2>7, StoreAssumption DEF StoreInv, OneWriter
    <3>2. ended'[thread'[t].tx] = [how |-> "running", wrote |-> written']
      BY <2>1, <2>3, <2>4, <2>7, <2>8 DEF new
    <3> QED
      BY <1>3, <2>1, <2>3, <2>4, <2>7, <2>8, <3>1, <3>2 DEF OneWriter
  <2>12. Signed' /\ AllOrNothing'
    BY <2>1, <2>3, <2>5 DEF files, StoreInv, Signed, AllOrNothing
  <2>13. Stored'
    BY <2>1, <2>4, <2>7 DEF files, StoreInv, Stored
  <2> QED
    BY <2>9, <2>10, <2>11, <2>12, <2>13 DEF StoreInv, StoreTyped
<1> QED
  BY <1>2, <1>3 DEF Begin

(* The transaction of a thread that is inside one.                         *)
LEMMA Inside ==
  ASSUME StoreInv, NEW t \in Thread, thread[t].at = "inside"
  PROVE  /\ Serving /\ owner = t /\ thread[t] \in Work /\ thread[t].tx \in DOMAIN ended
         /\ ended[thread[t].tx] = [how |-> "running", wrote |-> written]
         /\ \A x \in DOMAIN ended : ended[x] \in Ended /\ (ended[x].how = "running" <=> x = thread[t].tx)
         /\ \A u \in Thread : u # t => thread[u].at # "inside"
         /\ \A r \in written : r.tx = thread[t].tx
         /\ \A r \in durable : r.tx # thread[t].tx
<1>1. Serving /\ owner = t /\ thread[t] \in Work /\ thread[t].tx \in DOMAIN ended
  BY AtWork DEF StoreInv, OneWriter, StoreTyped, WritesTyped
<1>2. ended[thread[t].tx] = [how |-> "running", wrote |-> written]
  BY <1>1 DEF StoreInv, OneWriter
<1>3. \A x \in DOMAIN ended : ended[x] \in Ended
  BY DEF StoreInv, StoreTyped, WritesTyped
<1>4. \A x \in DOMAIN ended : ended[x].how = "running" <=> x = thread[t].tx
  BY <1>1, <1>2 DEF StoreInv, OneWriter
<1>5. \A u \in Thread : u # t => thread[u].at # "inside"
  BY <1>1 DEF StoreInv, OneWriter
<1>6. \A r \in written : r.tx = thread[t].tx
  BY <1>1, <1>2 DEF StoreInv, Signed
<1>7. \A r \in durable : r.tx # thread[t].tx
  BY <1>1, <1>2 DEF StoreInv, Signed
<1> QED
  BY <1>1, <1>2, <1>3, <1>4, <1>5, <1>6, <1>7

LEMMA WriteKeeps == ASSUME StoreInv, NEW t \in Thread, Write(t) PROVE StoreInv'
<1> DEFINE row == [tx |-> thread[t].tx, n |-> thread[t].rows + 1, content |-> thread[t].content, schema |-> schema]
           x == thread[t].tx
           work == [thread[t] EXCEPT !.rows = @ + 1]
<1>1. /\ written' = written \cup {row} /\ ended' = [ended EXCEPT ![x].wrote = @ \cup {row}]
      /\ thread' = [thread EXCEPT ![t] = work] /\ thread[t].at = "inside"
      /\ UNCHANGED <<opening, durable, tx, owner, depth, files, crashes>>
  BY DEF Write, Set
<1>2. row \in Row /\ row.tx = x /\ row.content \in blobs /\ row.schema = schema
  BY <1>1, Inside DEF Row, Work, StoreInv, StoreTyped, ProcessesTyped, Stored
<1>3. work \in Work /\ work.at = "inside" /\ work.tx = x /\ work.content = thread[t].content
  BY <1>1, Inside DEF Work
<1> HIDE DEF row, work
<1>4. thread'[t] = work /\ \A u \in Thread : u # t => thread'[u] = thread[u]
  BY <1>1 DEF StoreInv, StoreTyped, WritesTyped
<1>5. x \in DOMAIN ended /\ ended[x] = [how |-> "running", wrote |-> written] /\ owner = t /\ Serving
  BY <1>1, Inside
<1>6. /\ DOMAIN ended' = DOMAIN ended /\ ended'[x] = [how |-> "running", wrote |-> written']
      /\ \A y \in DOMAIN ended : y # x => ended'[y] = ended[y]
  BY <1>1, <1>5
<1>7. ended' \in Seq(Ended)
  <2>1. ended'[x] \in Ended
    BY <1>1, <1>2, <1>6 DEF Ended, StoreInv, StoreTyped, WritesTyped
  <2> QED
    BY <1>1, <2>1, <1>5, <1>6 DEF StoreInv, StoreTyped, WritesTyped
<1>8. ProcessesTyped' /\ Locked' /\ Quiet' /\ Copied'
  BY <1>1, <1>2, <1>5, ThreadKeeps DEF StoreInv, Copied
<1>9. WritesTyped'
  BY <1>1, <1>2, <1>3, <1>7 DEF files, StoreInv, StoreTyped, WritesTyped
<1>10. OneWriter'
  <2>1. \A y \in DOMAIN ended : ended'[y].how = ended[y].how
    BY <1>5, <1>6
  <2>2. tx = "open" /\ t # NoThread
    BY <1>5, StoreAssumption DEF StoreInv, OneWriter
  <2> QED
    BY <1>1, <1>3, <1>4, <1>5, <1>6, <2>1, <2>2 DEF StoreInv, OneWriter
<1>11. Signed'
  <2>1. \A r \in written' : r.tx = x
    BY <1>1, <1>2, Inside
  <2> QED
    BY <1>1, <1>5, <1>6, <2>1 DEF StoreInv, Signed
<1>12. Stored'
  BY <1>1, <1>2, <1>3, <1>4 DEF files, StoreInv, Stored
<1>13. AllOrNothing'
  <2>1. written' \cap durable = {}
    BY <1>1, <1>2, Inside
  <2> QED
    BY <1>1, <1>5, <1>6, <2>1 DEF files, StoreInv, AllOrNothing
<1> QED
  BY <1>8, <1>9, <1>10, <1>11, <1>12, <1>13 DEF StoreInv, StoreTyped

LEMMA NestKeeps == ASSUME StoreInv, NEW t \in Thread, Nest(t) PROVE StoreInv'
<1>1. Serving
  BY Inside DEF Nest
<1>2. ProcessesTyped' /\ Locked' /\ Quiet' /\ Copied'
  BY <1>1, ThreadKeeps DEF Nest, StoreInv, Copied
<1>3. WritesTyped'
  BY DEF Nest, files, StoreInv, StoreTyped, WritesTyped
<1>4. OneWriter' /\ Signed' /\ Stored' /\ AllOrNothing'
  BY DEF Nest, files, StoreInv, OneWriter, Signed, Stored, AllOrNothing
<1> QED
  BY <1>2, <1>3, <1>4 DEF StoreInv, StoreTyped

(* How a transaction ends, for the thread and in the record of it.         *)
LEMMA DoneIs ==
  ASSUME StoreInv, NEW t \in Thread, thread[t].at = "inside", NEW how \in {"committed", "raised"}, Done(t, how)
  PROVE  /\ DOMAIN ended' = DOMAIN ended /\ ended' \in Seq(Ended)
         /\ ended'[thread[t].tx] = [how |-> how, wrote |-> written]
         /\ \A y \in DOMAIN ended : /\ y # thread[t].tx => ended'[y] = ended[y]
                                    /\ ended'[y].how # "running" /\ ended'[y].wrote = ended[y].wrote
         /\ thread'[t] = NoWork /\ \A u \in Thread : u # t => thread'[u] = thread[u]
         /\ \A u \in Thread : thread'[u].at # "inside"
         /\ thread' \in [Thread -> Work] /\ owner' = NoThread /\ depth' = 0
         /\ UNCHANGED <<opening, files, crashes>>
<1> DEFINE x == thread[t].tx
<1>1. x \in DOMAIN ended /\ ended[x] = [how |-> "running", wrote |-> written]
  BY Inside
<1>2. ended' = [ended EXCEPT ![x].how = how] /\ thread' = [thread EXCEPT ![t] = NoWork]
  BY DEF Done, Set
<1>3. /\ DOMAIN ended' = DOMAIN ended /\ ended'[x] = [how |-> how, wrote |-> written]
      /\ \A y \in DOMAIN ended : y # x => ended'[y] = ended[y]
  BY <1>1, <1>2
<1>4. \A y \in DOMAIN ended : ended'[y].how # "running" /\ ended'[y].wrote = ended[y].wrote
  BY <1>1, <1>3, Inside
<1>5. ended' \in Seq(Ended)
  <2>1. ended'[x] \in Ended
    BY <1>3 DEF Ended, StoreInv, StoreTyped, WritesTyped
  <2> QED
    BY <1>1, <1>2, <1>3, <2>1 DEF StoreInv, StoreTyped, WritesTyped
<1>6. thread'[t] = NoWork /\ thread' \in [Thread -> Work] /\ \A u \in Thread : u # t => thread'[u] = thread[u]
  BY <1>2, NoWorkIs DEF StoreInv, StoreTyped, WritesTyped
<1>7. \A u \in Thread : thread'[u].at # "inside"
  BY <1>6, NoWorkIs, Inside
<1> QED
  BY <1>3, <1>4, <1>5, <1>6, <1>7 DEF Done

LEMMA CommitKeeps == ASSUME StoreInv, NEW t \in Thread, Commit(t) PROVE StoreInv'
<1> DEFINE x == thread[t].tx
<1>1. /\ Done(t, "committed") /\ thread[t].at = "inside"
      /\ durable' = durable \cup written /\ written' = {} /\ tx' = "none"
  BY DEF Commit
<1>2. /\ DOMAIN ended' = DOMAIN ended /\ ended' \in Seq(Ended)
      /\ ended'[x] = [how |-> "committed", wrote |-> written]
      /\ \A y \in DOMAIN ended : /\ y # x => ended'[y] = ended[y]
                                 /\ ended'[y].how # "running" /\ ended'[y].wrote = ended[y].wrote
      /\ thread'[t] = NoWork /\ \A u \in Thread : u # t => thread'[u] = thread[u]
      /\ \A u \in Thread : thread'[u].at # "inside"
      /\ thread' \in [Thread -> Work] /\ owner' = NoThread /\ depth' = 0
      /\ UNCHANGED <<opening, files, crashes>>
  BY <1>1, DoneIs
<1>3. Serving /\ x \in DOMAIN ended /\ ended[x].how = "running" /\ \A r \in written : r.tx = x
  BY <1>1, Inside
<1>4. file
  BY <1>3 DEF Serving, StoreInv, Locked
<1>5. \A p \in Core : stage[p] # "migrating"
  BY <1>3 DEF Serving, StoreInv, Locked
<1>6. ProcessesTyped' /\ Locked'
  BY <1>2 DEF opening, StoreInv, StoreTyped, ProcessesTyped, Locked
<1>7. Quiet' /\ Serving'
  BY <1>2, <1>3 DEF opening, Quiet, Serving
<1>8. Copied'
  <2>1. \A r \in durable' : r \in durable \/ (r \in written /\ r.schema = schema)
    BY <1>1 DEF StoreInv, Copied
  <2>2. schema' = schema /\ file' = file /\ stage' = stage /\ backups' = backups /\ schema \in Nat
    BY <1>2 DEF opening, StoreInv, StoreTyped, ProcessesTyped
  <2> QED
    BY <1>1, <1>4, <1>5, <2>1, <2>2 DEF StoreInv, Copied, CopyOf
<1>9. WritesTyped'
  BY <1>1, <1>2 DEF files, StoreInv, StoreTyped, WritesTyped
<1>10. OneWriter'
  BY <1>1, <1>2, StoreAssumption DEF OneWriter
<1>11. Signed' /\ AllOrNothing'
  <2>1. Signed'
    BY <1>1, <1>2, <1>3 DEF StoreInv, Signed
  <2>2. \A y \in DOMAIN ended : y # x => ended[y].wrote \cap written = {}
    BY <1>3 DEF StoreInv, Signed
  <2>3. \A r \in durable' : r.content \in blobs'
    BY <1>1, <1>2 DEF files, StoreInv, Stored
  <2>4. \A y \in DOMAIN ended' : IF ended'[y].how = "committed" THEN ended'[y].wrote \subseteq durable'
                                                               ELSE ended'[y].wrote \cap durable' = {}
    BY <1>1, <1>2, <2>2 DEF StoreInv, AllOrNothing
  <2> QED
    BY <2>1, <2>3, <2>4 DEF AllOrNothing
<1>12. Stored'
  BY <1>1, <1>2, NoWorkIs DEF files, StoreInv, Stored
<1> QED
  BY <1>6, <1>7, <1>8, <1>9, <1>10, <1>11, <1>12 DEF StoreInv, StoreTyped

LEMMA RaiseKeeps == ASSUME StoreInv, NEW t \in Thread, Raise(t) PROVE StoreInv'
<1> DEFINE x == thread[t].tx
<1>1. /\ Done(t, "raised") /\ thread[t].at = "inside" /\ UNCHANGED durable
      /\ (written' = {} /\ tx' = "none") \/ (written' = written /\ tx' = "left")
  BY DEF Raise
<1>2. /\ DOMAIN ended' = DOMAIN ended /\ ended' \in Seq(Ended)
      /\ ended'[x] = [how |-> "raised", wrote |-> written]
      /\ \A y \in DOMAIN ended : /\ y # x => ended'[y] = ended[y]
                                 /\ ended'[y].how # "running" /\ ended'[y].wrote = ended[y].wrote
      /\ thread'[t] = NoWork /\ \A u \in Thread : u # t => thread'[u] = thread[u]
      /\ \A u \in Thread : thread'[u].at # "inside"
      /\ thread' \in [Thread -> Work] /\ owner' = NoThread /\ depth' = 0
      /\ UNCHANGED <<opening, files, crashes>>
  BY <1>1, DoneIs
<1>3. Serving /\ x \in DOMAIN ended /\ ended[x].how = "running" /\ \A r \in durable : r.tx # x
  BY <1>1, Inside
<1>4. \A r \in written' : r.schema = schema /\ r.content \in blobs /\ r \in Row
  BY <1>1 DEF StoreInv, Copied, Stored, StoreTyped, WritesTyped
<1>5. ProcessesTyped' /\ Locked' /\ Quiet' /\ Copied'
  BY <1>1, <1>2, <1>3, <1>4, ThreadKeeps
<1>6. WritesTyped'
  BY <1>1, <1>2, <1>4 DEF files, StoreInv, StoreTyped, WritesTyped
<1>7. OneWriter'
  BY <1>1, <1>2, StoreAssumption DEF OneWriter
<1>8. Signed'
  BY <1>1, <1>2, <1>3 DEF StoreInv, Signed
<1>9. AllOrNothing'
  <2>1. ended[x].wrote \cap durable = {}
    BY <1>3 DEF StoreInv, AllOrNothing
  <2> QED
    BY <1>1, <1>2, <1>3, <2>1 DEF files, StoreInv, AllOrNothing
<1>10. Stored'
  BY <1>1, <1>2, <1>4, NoWorkIs DEF files, StoreInv, Stored
<1> QED
  BY <1>5, <1>6, <1>7, <1>8, <1>9, <1>10 DEF StoreInv, StoreTyped

-----------------------------------------------------------------------------
LEMMA StoreInductive == StoreInv /\ [StoreNext]_storeVars => StoreInv'
<1> SUFFICES ASSUME StoreInv, [StoreNext]_storeVars PROVE StoreInv'
  OBVIOUS
<1>1. ASSUME NEW p \in Core, Lock(p) \/ Refuse(p) \/ Check(p) \/ Migrate(p) \/ Serve(p) PROVE StoreInv'
  BY <1>1, LockKeeps, RefuseKeeps, CheckKeeps, MigrateKeeps, ServeKeeps
<1>2. ASSUME NEW p \in Core, Killed(p) \/ Close(p) PROVE StoreInv'
  BY <1>2, EndsKeeps DEF Killed, Close, StoreInv, StoreTyped, ProcessesTyped
<1>3. ASSUME NEW t \in Thread, PutBegin(t) \/ PutEnd(t) \/ Begin(t) PROVE StoreInv'
  BY <1>3, PutBeginKeeps, PutEndKeeps, BeginKeeps
<1>4. ASSUME NEW t \in Thread, Write(t) \/ Nest(t) \/ Commit(t) \/ Raise(t) PROVE StoreInv'
  BY <1>4, WriteKeeps, NestKeeps, CommitKeeps, RaiseKeeps
<1>5. CASE UNCHANGED storeVars
  <2>1. ProcessesTyped' /\ Locked' /\ Quiet' /\ Copied'
    BY <1>5 DEF storeVars, opening, rows, StoreInv, StoreTyped, ProcessesTyped, Locked, Quiet, Serving, Copied, CopyOf
  <2> QED
    BY <1>5, <2>1, OpeningKeeps DEF storeVars, files, StoreInv, StoreTyped
<1> QED
  BY <1>1, <1>2, <1>3, <1>4, <1>5 DEF StoreNext

LEMMA StoreFollows == StoreInv => StoreIsSound
<1> SUFFICES ASSUME StoreInv PROVE StoreIsSound
  OBVIOUS
<1>1. \A p, q \in Core : stage[p] # "off" /\ stage[q] # "off" => p = q
  BY DEF StoreInv, Locked
<1>2. \A p \in Core : stage[p] = "up" => schema = build[p]
  BY DEF StoreInv, Locked
<1>3. \A r \in durable : r.schema < schema => \E b \in backups : b.schema = r.schema /\ r \in b.rows
  BY DEF StoreInv, Copied, CopyOf
<1> QED
  BY <1>1, <1>2, <1>3 DEF StoreInv, StoreIsSound, OpenedSafely

(* The library is whole, whatever raises and whoever dies: the rows of a   *)
(* transaction are all there or none is, each names a stored content, one  *)
(* process at a time works under the schema it knows, and what an older    *)
(* build wrote is in the copy made before the migration (open_database,    *)
(* migrate, StateWriter.transaction, BlobStore.put_chunks).                *)
THEOREM StoreIsAlwaysSound == StoreSpec => []StoreIsSound
<1>1. StoreSpec => []StoreInv
  BY Initial, StoreInductive, PTL DEF StoreSpec
<1> QED
  BY <1>1, StoreFollows, PTL

-----------------------------------------------------------------------------
(***************************************************************************)
(* For any number of requests, keys and changes of the provider: the keys  *)
(* tokens are verified with are the provider's.                            *)
(*                                                                         *)
(* The argument: OidcInv is inductive.  What an answer says of a key stays *)
(* right, or the key has changed since the fetch began (Sharp), and a      *)
(* fetch does not last (Fetches); so what is cached is as old as its times *)
(* say, and a fetch more (CachedIsSharp).                                  *)
(***************************************************************************)

Underway == {"fetch", "keys", "times", "back"}
Verdict  == {"header", "accepted", "claims", "unknown", "unable"}

Activity ==
  {NotAsking} \cup [at : {"wait"}, token : Token]
  \cup [at : {"fetch"}, token : Token, began : Nat]
  \cup [at : {"keys", "times", "back"}, token : Token, began : Nat, answer : SUBSET Kid, ttl : Ttl]
  \cup [at : {"done"}, verdict : Verdict, owner : BOOLEAN, live : BOOLEAN, age : Nat]

(* Every variable has its type.                                            *)
OidcTyped ==
  /\ now \in Nat /\ jwks \subseteq Kid /\ jwks # {}
  /\ since \in [Kid -> Nat] /\ \A k \in Kid : since[k] <= now
  /\ cached \subseteq Kid /\ expires \in Nat /\ refreshed \in Nat /\ refreshed <= now
  /\ act \in [Asker -> Activity]

(* What ks says of each key is right, or the key has changed since then.   *)
Sharp(ks, then) == \A k \in Kid : (k \in ks <=> k \in jwks) \/ then <= since[k]

(* A fetch is that of whoever holds the lock, and what it knows.           *)
FetchKnows(r, a) ==
  a.at \in Underway =>
    /\ keysLock = r /\ a.began <= now /\ now <= a.began + Latency
    /\ a.at = "fetch" => ~(a.began < expires /\ a.token.kid \in cached)
    /\ a.at \in {"fetch", "keys"} => cached = {} \/ now >= refreshed + Cooldown
    /\ a.at # "fetch" => Sharp(a.answer, a.began)
    /\ a.at \in {"times", "back"} => cached = a.answer
Fetches == \A r \in Asker : FetchKnows(r, act[r])

(* What is cached is not older than its times, but for a fetch.            *)
CachedIsSharp ==
  /\ expires <= refreshed + Longest
  /\ cached # {} => \A k \in Kid :
       \/ k \in cached <=> k \in jwks
       \/ refreshed <= since[k] + Latency
       \/ \E r \in Asker : act[r].at = "times" /\ act[r].began <= since[k]

(* A verdict that was given is right.                                      *)
VerdictIsRight(a) ==
  a.at = "done" =>
    /\ a.verdict = "accepted" => a.owner
    /\ a.verdict \in {"accepted", "claims"} => a.live \/ a.age < Longest + Latency
    /\ a.verdict = "unknown" => ~a.live \/ a.age < Cooldown + Latency

OidcInv == OidcTyped /\ Fetches /\ CachedIsSharp /\ \A r \in Asker : VerdictIsRight(act[r])

LEMMA LongestIs == Longest \in Nat /\ Longest \in Ttl /\ Cooldown < Longest /\ \A t \in Ttl : t \in Nat /\ t <= Longest
<1>1. \E t \in Ttl : \A u \in Ttl : u <= t
  BY OidcAssumption
<1>2. Longest \in Ttl /\ \A u \in Ttl : u <= Longest
  BY <1>1 DEF Longest
<1> QED
  BY <1>2, OidcAssumption

LEMMA OidcInitial == OidcInit => OidcInv
<1> SUFFICES ASSUME OidcInit PROVE OidcInv
  OBVIOUS
<1>1. OidcTyped
  <2>1. NotAsking \in Activity
    BY DEF Activity
  <2>2. now \in Nat /\ jwks \subseteq Kid /\ jwks # {} /\ since \in [Kid -> Nat] /\ \A k \in Kid : since[k] <= now
    <3>1. now = 0 /\ jwks \in (SUBSET Kid) \ {{}} /\ since = [k \in Kid |-> 0]
      BY DEF OidcInit
    <3>2. jwks \subseteq Kid /\ jwks # {}
      BY <3>1
    <3>3. since \in [Kid -> Nat] /\ \A k \in Kid : since[k] = 0
      BY <3>1
    <3> QED
      BY <3>1, <3>2, <3>3
  <2> QED
    BY <2>1, <2>2 DEF OidcInit, OidcTyped
<1>2. \A r \in Asker : act[r] = NotAsking
  BY DEF OidcInit
<1>3. Fetches
  BY <1>2 DEF Fetches, FetchKnows, NotAsking, Underway
<1>4. CachedIsSharp
  BY LongestIs DEF OidcInit, CachedIsSharp
<1>5. \A r \in Asker : VerdictIsRight(act[r])
  BY <1>2 DEF VerdictIsRight, NotAsking
<1> QED
  BY <1>1, <1>3, <1>4, <1>5 DEF OidcInv

(* A verdict given now, of a key that is right or changed lately.          *)
LEMMA SaidIs ==
  ASSUME OidcTyped, NEW jwt \in Token, NEW verdict \in Verdict,
         verdict = "accepted" => jwt.owner,
         verdict \in {"accepted", "claims"} => jwt.kid \in jwks \/ now < since[jwt.kid] + Longest + Latency,
         verdict = "unknown" => jwt.kid \notin jwks \/ now < since[jwt.kid] + Cooldown + Latency
  PROVE  Said(jwt, verdict) \in Activity /\ Said(jwt, verdict).at = "done" /\ VerdictIsRight(Said(jwt, verdict))
<1>1. jwt.kid \in Kid /\ jwt.owner \in BOOLEAN /\ since[jwt.kid] \in Nat /\ since[jwt.kid] <= now /\ now \in Nat
  BY DEF Token, OidcTyped
<1>2. Latency \in Nat /\ Cooldown \in Nat /\ Longest \in Nat
  BY LongestIs, OidcAssumption
<1>3. now - since[jwt.kid] \in Nat
  BY <1>1
<1>4. Said(jwt, verdict) \in [at : {"done"}, verdict : Verdict, owner : BOOLEAN, live : BOOLEAN, age : Nat]
  BY <1>1, <1>3 DEF Said
<1>5. VerdictIsRight(Said(jwt, verdict))
  <2> DEFINE a == Said(jwt, verdict)
  <2>1. a.verdict = verdict /\ a.owner = jwt.owner /\ a.live = (jwt.kid \in jwks) /\ a.age = now - since[jwt.kid]
    BY DEF Said
  <2>2. verdict \in {"accepted", "claims"} => jwt.kid \in jwks \/ now - since[jwt.kid] < Longest + Latency
    BY <1>1, <1>2
  <2>3. verdict = "unknown" => jwt.kid \notin jwks \/ now - since[jwt.kid] < Cooldown + Latency
    BY <1>1, <1>2
  <2> HIDE DEF a
  <2>4. VerdictIsRight(a)
    BY <2>1, <2>2, <2>3 DEF VerdictIsRight
  <2> QED
    BY <2>4 DEF a
<1> QED
  BY <1>4, <1>5 DEF Activity, Said

LEMMA CheckedIs ==
  ASSUME OidcTyped, NEW jwt \in Token,
         jwt.kid \in jwks \/ now < since[jwt.kid] + Longest + Latency
  PROVE  Checked(jwt) \in Activity /\ Checked(jwt).at = "done" /\ VerdictIsRight(Checked(jwt))
<1>1. PICK verdict \in Verdict : /\ verdict = IF jwt.owner THEN "accepted" ELSE "claims"
  BY DEF Verdict
<1>2. verdict = "accepted" => jwt.owner
  BY <1>1
<1>3. verdict # "unknown"
  BY <1>1
<1> QED
  BY <1>1, <1>2, <1>3, SaidIs DEF Checked

(* What the cache says while nobody writes it.                             *)
LEMMA CacheSays ==
  ASSUME OidcInv, cached # {}, NEW k \in Kid
  PROVE  \/ k \in cached <=> k \in jwks
         \/ refreshed <= since[k] + Latency
         \/ keysLock # NoAsker /\ now <= since[k] + Latency
<1>1. CASE \E r \in Asker : act[r].at = "times" /\ act[r].began <= since[k]
  <2>1. PICK r \in Asker : act[r].at = "times" /\ act[r].began <= since[k]
    BY <1>1
  <2>2. keysLock = r /\ now <= act[r].began + Latency
    BY <2>1 DEF OidcInv, Fetches, FetchKnows, Underway
  <2>3. act[r].began \in Nat
    BY <2>1 DEF OidcInv, OidcTyped, Activity, NotAsking
  <2> QED
    BY <2>1, <2>2, <2>3, OidcAssumption DEF OidcInv, OidcTyped
<1> QED
  BY <1>1 DEF OidcInv, CachedIsSharp

(* A key that is served from the cache.                                    *)
LEMMA FreshIs ==
  ASSUME OidcInv, NEW k \in Kid, Fresh(k)
  PROVE  k \in jwks \/ now < since[k] + Longest + Latency
<1>1. now < expires /\ k \in cached /\ expires <= refreshed + Longest
  BY DEF Fresh, OidcInv, CachedIsSharp
<1>2. /\ now \in Nat /\ expires \in Nat /\ refreshed \in Nat /\ since[k] \in Nat
      /\ Longest \in Nat /\ Latency \in Nat /\ Longest > 0
  BY LongestIs, OidcAssumption DEF OidcInv, OidcTyped
<1>3. \/ k \in jwks
      \/ refreshed <= since[k] + Latency
      \/ now <= since[k] + Latency
  BY <1>1, CacheSays
<1> QED
  BY <1>1, <1>2, <1>3

(* One request goes on, and the provider and the cache stay.               *)
LEMMA RequestKeeps ==
  ASSUME OidcInv, NEW r \in Asker, NEW a \in Activity, act' = [act EXCEPT ![r] = a],
         UNCHANGED <<now, provider, cache>>, act[r].at # "times", VerdictIsRight(a),
         FetchKnows(r, a)',
         \/ keysLock' = keysLock
         \/ keysLock = NoAsker /\ keysLock' = r
         \/ keysLock = r
  PROVE  OidcInv'
<1>1. act'[r] = a /\ \A q \in Asker : q # r => act'[q] = act[q]
  BY DEF OidcInv, OidcTyped
<1>2. OidcTyped'
  BY DEF provider, cache, OidcInv, OidcTyped
<1>3. Fetches'
  <2> SUFFICES ASSUME NEW q \in Asker, q # r PROVE FetchKnows(q, act[q])'
    BY <1>1 DEF Fetches
  <2>1. act'[q] = act[q] /\ FetchKnows(q, act[q])
    BY <1>1 DEF OidcInv, Fetches
  <2>2. act[q].at \in Underway => keysLock' = keysLock
    BY <2>1, OidcAssumption DEF FetchKnows
  <2> QED
    BY <2>1, <2>2 DEF FetchKnows, Sharp, provider, cache
<1>4. CachedIsSharp'
  BY <1>1 DEF OidcInv, CachedIsSharp, provider, cache
<1>5. \A q \in Asker : VerdictIsRight(act'[q])
  BY <1>1 DEF OidcInv
<1> QED
  BY <1>2, <1>3, <1>4, <1>5 DEF OidcInv, VerdictIsRight

(* A request ends with a verdict.                                          *)
LEMMA EndKeeps ==
  ASSUME OidcInv, NEW r \in Asker, NEW a \in Activity, act' = [act EXCEPT ![r] = a], a.at = "done", VerdictIsRight(a),
         UNCHANGED <<now, provider, cache>>, act[r].at # "times",
         keysLock' = keysLock \/ keysLock = r
  PROVE  OidcInv'
<1>1. FetchKnows(r, a)'
  BY DEF FetchKnows, Underway
<1> QED
  BY <1>1, RequestKeeps

LEMMA AskKeeps == ASSUME OidcInv, NEW r \in Asker, NEW jwt \in Token, Ask(r, jwt) PROVE OidcInv'
<1>1. act[r].at = "idle" /\ UNCHANGED <<now, provider, cache, keysLock>>
  BY DEF Ask, NotAsking
<1>2. CASE ~jwt.header
  <2>1. PICK a \in Activity : a = Said(jwt, "header") /\ a.at = "done" /\ VerdictIsRight(a)
    BY SaidIs DEF Verdict, OidcInv
  <2>2. act' = [act EXCEPT ![r] = a]
    BY <1>2, <2>1 DEF Ask
  <2> QED
    BY <1>1, <2>1, <2>2, EndKeeps
<1>3. CASE jwt.header /\ Fresh(jwt.kid)
  <2>1. PICK a \in Activity : a = Checked(jwt) /\ a.at = "done" /\ VerdictIsRight(a)
    BY <1>3, FreshIs, CheckedIs DEF Token, OidcInv
  <2>2. act' = [act EXCEPT ![r] = a]
    BY <1>3, <2>1 DEF Ask
  <2> QED
    BY <1>1, <2>1, <2>2, EndKeeps
<1>4. CASE jwt.header /\ ~Fresh(jwt.kid)
  <2>1. PICK a \in Activity : a = [at |-> "wait", token |-> jwt]
    BY DEF Activity
  <2>2. act' = [act EXCEPT ![r] = a]
    BY <1>4, <2>1 DEF Ask
  <2>3. FetchKnows(r, a)' /\ VerdictIsRight(a)
    BY <2>1 DEF FetchKnows, Underway, VerdictIsRight
  <2> QED
    BY <1>1, <2>2, <2>3, RequestKeeps
<1> QED
  BY <1>2, <1>3, <1>4

LEMMA EnterKeeps == ASSUME OidcInv, NEW r \in Asker, Enter(r) PROVE OidcInv'
<1> DEFINE jwt == act[r].token
<1>1. act[r].at = "wait" /\ keysLock = NoAsker /\ UNCHANGED <<now, provider, cache>>
  BY DEF Enter
<1>2. jwt \in Token /\ jwt.kid \in Kid
  BY <1>1 DEF OidcInv, OidcTyped, Activity, NotAsking, Token
<1>3. /\ now \in Nat /\ refreshed \in Nat /\ since[jwt.kid] \in Nat /\ refreshed <= now
      /\ Latency \in Nat /\ Cooldown \in Nat /\ Longest \in Nat /\ Cooldown < Longest
  BY <1>2, LongestIs, OidcAssumption DEF OidcInv, OidcTyped
<1>4. CASE Fresh(jwt.kid)
  <2>1. PICK a \in Activity : a = Checked(jwt) /\ a.at = "done" /\ VerdictIsRight(a)
    BY <1>2, <1>4, FreshIs, CheckedIs DEF OidcInv
  <2>2. act' = [act EXCEPT ![r] = a] /\ keysLock' = keysLock
    BY <1>4, <2>1 DEF Enter
  <2> QED
    BY <1>1, <2>1, <2>2, EndKeeps
<1>5. CASE ~Fresh(jwt.kid) /\ Cooling(jwt.kid)
  <2>1. cached # {} /\ now < refreshed + Cooldown
    BY <1>3, <1>5 DEF Cooling
  <2>2. (jwt.kid \in cached <=> jwt.kid \in jwks) \/ now < since[jwt.kid] + Latency + Cooldown
    BY <1>1, <1>2, <1>3, <2>1, CacheSays
  <2>3. jwt.kid \in cached => jwt.kid \in jwks \/ now < since[jwt.kid] + Longest + Latency
    BY <1>3, <2>2
  <2>4. jwt.kid \notin cached => jwt.kid \notin jwks \/ now < since[jwt.kid] + Cooldown + Latency
    BY <1>3, <2>2
  <2>5. PICK a \in Activity : /\ a = IF jwt.kid \in cached THEN Checked(jwt) ELSE Said(jwt, "unknown")
                              /\ a.at = "done" /\ VerdictIsRight(a)
    <3>1. CASE jwt.kid \in cached
      BY <1>2, <2>3, <3>1, CheckedIs DEF OidcInv
    <3>2. CASE jwt.kid \notin cached
      BY <1>2, <2>4, <3>2, SaidIs DEF OidcInv, Verdict
    <3> QED
      BY <3>1, <3>2
  <2>6. act' = [act EXCEPT ![r] = a] /\ keysLock' = keysLock
    BY <1>5, <2>5 DEF Enter
  <2> QED
    BY <1>1, <2>5, <2>6, EndKeeps
<1>6. CASE ~Fresh(jwt.kid) /\ ~Cooling(jwt.kid)
  <2>1. PICK a \in Activity : a = [at |-> "fetch", token |-> jwt, began |-> now]
    BY <1>2, <1>3 DEF Activity
  <2>2. act' = [act EXCEPT ![r] = a] /\ keysLock' = r
    BY <1>6, <2>1 DEF Enter
  <2>3. cached = {} \/ now >= refreshed + Cooldown
    BY <1>3, <1>6 DEF Cooling
  <2>4. ~(now < expires /\ jwt.kid \in cached)
    BY <1>6 DEF Fresh
  <2>5. FetchKnows(r, a)'
    BY <1>1, <1>3, <2>1, <2>2, <2>3, <2>4 DEF FetchKnows, Underway, cache
  <2>6. VerdictIsRight(a)
    BY <2>1 DEF VerdictIsRight
  <2> QED
    BY <1>1, <2>2, <2>5, <2>6, RequestKeeps
<1> QED
  BY <1>4, <1>5, <1>6

(* A request in the middle of its fetch.                                   *)
LEMMA AtFetch ==
  ASSUME OidcInv, NEW r \in Asker, act[r].at \in Underway
  PROVE  /\ FetchKnows(r, act[r]) /\ keysLock = r
         /\ act[r].token \in Token /\ act[r].token.kid \in Kid /\ act[r].began \in Nat
         /\ act[r].at # "fetch" =>
              act[r] \in [at : {"keys", "times", "back"}, token : Token, began : Nat, answer : SUBSET Kid, ttl : Ttl]
         /\ \A q \in Asker : act[q].at \in Underway => q = r
<1>1. act[r] \in Activity
  BY DEF OidcInv, OidcTyped
<1>2. /\ act[r].token \in Token /\ act[r].began \in Nat
      /\ act[r].at # "fetch" =>
              act[r] \in [at : {"keys", "times", "back"}, token : Token, began : Nat, answer : SUBSET Kid, ttl : Ttl]
  BY <1>1 DEF Activity, NotAsking, Underway
<1>3. act[r].token.kid \in Kid
  BY <1>2 DEF Token
<1>4. FetchKnows(r, act[r]) /\ keysLock = r /\ \A q \in Asker : act[q].at \in Underway => keysLock = q
  BY DEF OidcInv, Fetches, FetchKnows
<1> QED
  BY <1>2, <1>3, <1>4

LEMMA AnswerKeeps == ASSUME OidcInv, NEW r \in Asker, NEW ttl \in Ttl, Answer(r, ttl) PROVE OidcInv'
<1>1. act[r].at = "fetch" /\ UNCHANGED <<now, provider, cache, keysLock>>
  BY DEF Answer
<1>2. act[r].at \in Underway
  BY <1>1 DEF Underway
<1>3. PICK a \in Activity : a = [at |-> "keys", token |-> act[r].token, began |-> act[r].began, answer |-> jwks, ttl |-> ttl]
  BY <1>2, AtFetch DEF Activity, OidcInv, OidcTyped
<1>4. act' = [act EXCEPT ![r] = a]
  BY <1>3 DEF Answer
<1>5. FetchKnows(r, a)'
  BY <1>1, <1>2, <1>3, AtFetch DEF FetchKnows, Underway, Sharp, provider, cache
<1>6. VerdictIsRight(a)
  BY <1>3 DEF VerdictIsRight
<1> QED
  BY <1>1, <1>4, <1>5, <1>6, RequestKeeps

LEMMA FetchFailsKeeps == ASSUME OidcInv, NEW r \in Asker, FetchFails(r) PROVE OidcInv'
<1>1. act[r].at = "fetch" /\ UNCHANGED <<now, provider, cache>>
  BY DEF FetchFails
<1>2. act[r].at \in Underway
  BY <1>1 DEF Underway
<1>3. ~(act[r].began < expires /\ act[r].token.kid \in cached)
  BY <1>1, <1>2, AtFetch DEF FetchKnows
<1>4. PICK a \in Activity : a = Said(act[r].token, "unable") /\ a.at = "done" /\ VerdictIsRight(a)
  BY <1>2, AtFetch, SaidIs DEF OidcInv, Verdict
<1>5. act' = [act EXCEPT ![r] = a]
  BY <1>3, <1>4 DEF FetchFails
<1> QED
  BY <1>1, <1>2, <1>4, <1>5, AtFetch, EndKeeps

LEMMA ResumeKeeps == ASSUME OidcInv, NEW r \in Asker, Resume(r) PROVE OidcInv'
<1> DEFINE jwt == act[r].token
<1>1. act[r].at = "back" /\ UNCHANGED <<now, provider, cache>>
  BY DEF Resume
<1>2. act[r].at \in Underway
  BY <1>1 DEF Underway
<1>3. /\ cached = act[r].answer /\ Sharp(act[r].answer, act[r].began) /\ now <= act[r].began + Latency
      /\ jwt \in Token /\ jwt.kid \in Kid /\ act[r].began \in Nat
  BY <1>1, <1>2, AtFetch DEF FetchKnows
<1>4. /\ now \in Nat /\ since[jwt.kid] \in Nat
      /\ Latency \in Nat /\ Cooldown \in Nat \ {0} /\ Longest \in Nat /\ Cooldown < Longest
  BY <1>3, LongestIs, OidcAssumption DEF OidcInv, OidcTyped
<1>5. (jwt.kid \in cached <=> jwt.kid \in jwks) \/ now <= since[jwt.kid] + Latency
  BY <1>3, <1>4 DEF Sharp
<1>6. jwt.kid \in cached => jwt.kid \in jwks \/ now < since[jwt.kid] + Longest + Latency
  <2> HIDE DEF jwt
  <2> QED BY <1>4, <1>5
<1>7. jwt.kid \notin cached => jwt.kid \notin jwks \/ now < since[jwt.kid] + Cooldown + Latency
  <2> HIDE DEF jwt
  <2> QED BY <1>4, <1>5
<1>8. PICK a \in Activity : /\ a = IF jwt.kid \in cached THEN Checked(jwt) ELSE Said(jwt, "unknown")
                            /\ a.at = "done" /\ VerdictIsRight(a)
  <2>1. CASE jwt.kid \in cached
    BY <1>3, <1>6, <2>1, CheckedIs DEF OidcInv
  <2>2. CASE jwt.kid \notin cached
    BY <1>3, <1>7, <2>2, SaidIs DEF OidcInv, Verdict
  <2> QED
    BY <2>1, <2>2
<1>9. act' = [act EXCEPT ![r] = a]
  BY <1>8 DEF Resume
<1> QED
  BY <1>1, <1>2, <1>8, <1>9, AtFetch, EndKeeps

LEMMA LeaveKeeps == ASSUME OidcInv, NEW r \in Asker, Leave(r) PROVE OidcInv'
<1>1. NotAsking \in Activity /\ NotAsking.at = "idle"
  BY DEF Activity, NotAsking
<1>2. FetchKnows(r, NotAsking)' /\ VerdictIsRight(NotAsking)
  BY DEF NotAsking, FetchKnows, Underway, VerdictIsRight
<1> QED
  BY <1>1, <1>2, RequestKeeps DEF Leave

(* Between the two writes of the cache the request itself still knows how  *)
(* old its keys are.                                                       *)
LEMMA StoreKeysKeeps == ASSUME OidcInv, NEW r \in Asker, StoreKeys(r) PROVE OidcInv'
<1>1. /\ act[r].at = "keys" /\ cached' = act[r].answer /\ UNCHANGED <<now, provider, expires, refreshed, keysLock>>
      /\ act' = [act EXCEPT ![r] = [act[r] EXCEPT !.at = "times"]]
  BY DEF StoreKeys
<1>2. act[r].at \in Underway
  BY <1>1 DEF Underway
<1>3. act[r] \in [at : {"keys", "times", "back"}, token : Token, began : Nat, answer : SUBSET Kid, ttl : Ttl]
  BY <1>1, <1>2, AtFetch
<1>4. PICK a \in [at : {"times"}, token : Token, began : Nat, answer : SUBSET Kid, ttl : Ttl] :
         a = [act[r] EXCEPT !.at = "times"] /\ a.began = act[r].began /\ a.answer = act[r].answer
  <2>1. PICK b \in [at : {"keys", "times", "back"}, token : Token, began : Nat, answer : SUBSET Kid, ttl : Ttl] : b = act[r]
    BY <1>3
  <2>2. [b EXCEPT !.at = "times"] = [at |-> "times", token |-> b.token, began |-> b.began, answer |-> b.answer, ttl |-> b.ttl]
    BY <2>1
  <2> QED
    BY <2>1, <2>2
<1>5. act'[r] = a /\ a.at = "times" /\ \A q \in Asker : q # r => act'[q] = act[q] /\ act[q].at \notin Underway
  BY <1>1, <1>2, <1>4, AtFetch DEF OidcInv, OidcTyped
<1>6. Sharp(a.answer, a.began) /\ keysLock = r /\ a.began <= now /\ now <= a.began + Latency
  BY <1>1, <1>2, <1>4, AtFetch DEF FetchKnows
<1>7. OidcTyped'
  <2>1. a \in Activity
    BY <1>4 DEF Activity
  <2> QED
    BY <1>1, <1>3, <1>4, <2>1 DEF provider, OidcInv, OidcTyped
<1>8. Fetches'
  <2>1. FetchKnows(r, a)'
    BY <1>1, <1>4, <1>5, <1>6 DEF FetchKnows, Sharp, provider
  <2> QED
    BY <1>5, <2>1 DEF Fetches, FetchKnows
<1>9. CachedIsSharp'
  BY <1>1, <1>4, <1>5, <1>6 DEF provider, OidcInv, CachedIsSharp, Sharp
<1>10. \A q \in Asker : VerdictIsRight(act'[q])
  BY <1>5 DEF OidcInv, VerdictIsRight
<1> QED
  BY <1>7, <1>8, <1>9, <1>10 DEF OidcInv, VerdictIsRight

LEMMA StoreTimesKeeps == ASSUME OidcInv, NEW r \in Asker, StoreTimes(r) PROVE OidcInv'
<1>1. /\ act[r].at = "times" /\ expires' = now + act[r].ttl /\ refreshed' = now
      /\ act' = [act EXCEPT ![r] = [act[r] EXCEPT !.at = "back"]] /\ UNCHANGED <<now, provider, cached, keysLock>>
  BY DEF StoreTimes
<1>2. act[r].at \in Underway
  BY <1>1 DEF Underway
<1>3. act[r] \in [at : {"keys", "times", "back"}, token : Token, began : Nat, answer : SUBSET Kid, ttl : Ttl]
  BY <1>1, <1>2, AtFetch
<1>4. PICK a \in [at : {"back"}, token : Token, began : Nat, answer : SUBSET Kid, ttl : Ttl] :
         a = [act[r] EXCEPT !.at = "back"] /\ a.began = act[r].began /\ a.answer = act[r].answer /\ a.ttl = act[r].ttl
  <2>1. PICK b \in [at : {"keys", "times", "back"}, token : Token, began : Nat, answer : SUBSET Kid, ttl : Ttl] : b = act[r]
    BY <1>3
  <2>2. [b EXCEPT !.at = "back"] = [at |-> "back", token |-> b.token, began |-> b.began, answer |-> b.answer, ttl |-> b.ttl]
    BY <2>1
  <2> QED
    BY <2>1, <2>2
<1>5. act'[r] = a /\ a.at = "back" /\ \A q \in Asker : q # r => act'[q] = act[q] /\ act[q].at \notin Underway
  BY <1>1, <1>2, <1>4, AtFetch DEF OidcInv, OidcTyped
<1>6. cached = a.answer /\ Sharp(a.answer, a.began) /\ keysLock = r /\ a.began <= now /\ now <= a.began + Latency
  BY <1>1, <1>2, <1>4, AtFetch DEF FetchKnows
<1>7. now \in Nat /\ a.ttl \in Nat /\ a.ttl <= Longest /\ a.began \in Nat /\ Latency \in Nat /\ Longest \in Nat
  BY <1>4, LongestIs, OidcAssumption DEF OidcInv, OidcTyped
<1>8. OidcTyped'
  <2>1. a \in Activity
    BY <1>4 DEF Activity
  <2>2. expires' = now + a.ttl
    BY <1>1, <1>4
  <2>3. act' \in [Asker -> Activity]
    BY <1>1, <1>4, <2>1 DEF OidcInv, OidcTyped
  <2> QED
    BY <1>1, <1>7, <2>2, <2>3 DEF provider, OidcInv, OidcTyped
<1>9. Fetches'
  <2>1. FetchKnows(r, a)'
    BY <1>1, <1>4, <1>5, <1>6 DEF FetchKnows, Sharp, provider
  <2> QED
    BY <1>5, <2>1 DEF Fetches, FetchKnows
<1>10. CachedIsSharp'
  <2>1. \A k \in Kid : (k \in cached <=> k \in jwks) \/ now <= since[k] + Latency
    BY <1>6, <1>7 DEF Sharp, OidcInv, OidcTyped
  <2>2. expires' <= refreshed' + Longest
    BY <1>1, <1>4, <1>7
  <2> QED
    BY <1>1, <2>1, <2>2 DEF provider, CachedIsSharp
<1>11. \A q \in Asker : VerdictIsRight(act'[q])
  BY <1>5 DEF OidcInv, VerdictIsRight
<1> QED
  BY <1>8, <1>9, <1>10, <1>11 DEF OidcInv, VerdictIsRight

(* The provider changes: what an answer says of a key is right, or the key *)
(* has changed just now.                                                   *)
LEMMA RotateKeeps == ASSUME OidcInv, NEW ks \in SUBSET Kid, Rotate(ks) PROVE OidcInv'
<1>1. /\ jwks' = ks /\ ks # {} /\ since' = [k \in Kid |-> IF (k \in ks) = (k \in jwks) THEN since[k] ELSE now]
      /\ UNCHANGED <<now, cache, keysLock, act>>
  BY DEF Rotate
<1>2. OidcTyped'
  BY <1>1 DEF cache, OidcInv, OidcTyped
<1>3. \A k \in Kid : since[k] <= since'[k] /\ ((k \in ks <=> k \in jwks) \/ since'[k] = now) /\ since[k] \in Nat /\ since'[k] \in Nat
  BY <1>1 DEF OidcInv, OidcTyped
<1>4. ASSUME NEW from \in SUBSET Kid, NEW then \in Nat, then <= now, Sharp(from, then) PROVE Sharp(from, then)'
  BY <1>1, <1>3, <1>4 DEF Sharp, OidcInv, OidcTyped
<1>5. Fetches'
  <2> SUFFICES ASSUME NEW r \in Asker, act[r].at \in Underway PROVE FetchKnows(r, act[r])'
    BY <1>1 DEF Fetches, FetchKnows
  <2>1. FetchKnows(r, act[r]) /\ act[r].began \in Nat /\ (act[r].at # "fetch" => act[r].answer \in SUBSET Kid)
    BY AtFetch
  <2>2. act[r].at # "fetch" => Sharp(act[r].answer, act[r].began)'
    <3> SUFFICES ASSUME act[r].at # "fetch" PROVE Sharp(act[r].answer, act[r].began)'
      OBVIOUS
    <3>1. PICK a : a = act[r]
      OBVIOUS
    <3>2. Sharp(a.answer, a.began)'
      BY <1>4, <2>1, <3>1 DEF FetchKnows
    <3> QED
      BY <1>1, <3>1, <3>2
  <2> QED
    BY <1>1, <2>1, <2>2 DEF FetchKnows, cache
<1>6. CachedIsSharp'
  <2> SUFFICES ASSUME cached # {}, NEW k \in Kid, ~(k \in cached <=> k \in ks)
               PROVE  \/ refreshed <= since'[k] + Latency
                      \/ \E r \in Asker : act[r].at = "times" /\ act[r].began <= since'[k]
    BY <1>1 DEF OidcInv, CachedIsSharp, cache
  <2>1. CASE since'[k] = now
    BY <1>3, <2>1, OidcAssumption DEF OidcInv, OidcTyped
  <2>2. CASE ~(k \in cached <=> k \in jwks)
    <3>1. CASE refreshed <= since[k] + Latency
      BY <1>3, <3>1, OidcAssumption DEF OidcInv, OidcTyped
    <3>2. CASE \E r \in Asker : act[r].at = "times" /\ act[r].began <= since[k]
      <4>1. PICK r \in Asker : act[r].at = "times" /\ act[r].began <= since[k]
        BY <3>2
      <4>2. act[r].began \in Nat
        BY <4>1, AtFetch DEF Underway
      <4> QED
        BY <1>3, <4>1, <4>2
    <3> QED
      BY <2>2, <3>1, <3>2 DEF OidcInv, CachedIsSharp
  <2> QED
    BY <1>3, <2>1, <2>2
<1>7. \A r \in Asker : VerdictIsRight(act'[r])
  BY <1>1 DEF OidcInv
<1> QED
  BY <1>2, <1>5, <1>6, <1>7 DEF OidcInv, VerdictIsRight

LEMMA TickKeeps == ASSUME OidcInv, Tick PROVE OidcInv'
<1>1. now' = now + 1 /\ UNCHANGED <<provider, cache, keysLock, act>> /\ \A r \in Fetching : now - act[r].began < Latency
  BY DEF Tick
<1>2. OidcTyped'
  BY <1>1 DEF provider, cache, OidcInv, OidcTyped
<1>3. Fetches'
  <2> SUFFICES ASSUME NEW r \in Asker, act[r].at \in Underway PROVE FetchKnows(r, act[r])'
    BY <1>1 DEF Fetches, FetchKnows
  <2>1. FetchKnows(r, act[r]) /\ act[r].began \in Nat /\ now - act[r].began < Latency
    BY <1>1, AtFetch DEF Fetching, Underway
  <2>2. now \in Nat /\ refreshed \in Nat /\ Latency \in Nat /\ Cooldown \in Nat
    BY OidcAssumption DEF OidcInv, OidcTyped
  <2> QED
    BY <1>1, <2>1, <2>2 DEF FetchKnows, Sharp, provider, cache
<1>4. CachedIsSharp' /\ \A r \in Asker : VerdictIsRight(act'[r])
  BY <1>1 DEF provider, cache, OidcInv, CachedIsSharp
<1> QED
  BY <1>2, <1>3, <1>4 DEF OidcInv, VerdictIsRight

-----------------------------------------------------------------------------
LEMMA OidcInductive == OidcInv /\ [OidcNext]_oidcVars => OidcInv'
<1> SUFFICES ASSUME OidcInv, [OidcNext]_oidcVars PROVE OidcInv'
  OBVIOUS
<1>1. ASSUME NEW r \in Asker, NEW jwt \in Token, Ask(r, jwt) PROVE OidcInv'
  BY <1>1, AskKeeps
<1>2. ASSUME NEW r \in Asker, NEW ttl \in Ttl, Answer(r, ttl) PROVE OidcInv'
  BY <1>2, AnswerKeeps
<1>3. ASSUME NEW r \in Asker, Enter(r) \/ FetchFails(r) \/ StoreKeys(r) \/ StoreTimes(r) \/ Resume(r) \/ Leave(r)
      PROVE  OidcInv'
  BY <1>3, EnterKeeps, FetchFailsKeeps, StoreKeysKeeps, StoreTimesKeeps, ResumeKeeps, LeaveKeeps
<1>4. CASE UNCHANGED oidcVars
  <2>1. OidcTyped' /\ CachedIsSharp'
    BY <1>4 DEF oidcVars, OidcInv, OidcTyped, CachedIsSharp
  <2>2. Fetches'
    BY <1>4 DEF oidcVars, OidcInv, Fetches, FetchKnows, Sharp
  <2> QED
    BY <1>4, <2>1, <2>2 DEF oidcVars, OidcInv, VerdictIsRight
<1> QED
  BY <1>1, <1>2, <1>3, <1>4, RotateKeeps, TickKeeps DEF OidcNext

LEMMA KeysFollow == OidcInv => KeysAreTrusted
<1> SUFFICES ASSUME OidcInv PROVE KeysAreTrusted
  OBVIOUS
<1>1. VerdictsHold
  BY DEF OidcInv, VerdictsHold, VerdictIsRight
<1>2. \A r \in Fetching : act[r].at \in {"fetch", "keys"} => cached = {} \/ now - refreshed >= Cooldown
  <2> SUFFICES ASSUME NEW r \in Asker, act[r].at \in {"fetch", "keys"}, cached # {} PROVE now - refreshed >= Cooldown
    BY DEF Fetching
  <2>1. now >= refreshed + Cooldown
    BY AtFetch DEF FetchKnows, Underway
  <2> QED
    BY <2>1, OidcAssumption DEF OidcInv, OidcTyped
<1>3. Cardinality(Fetching) <= 1
  <2>1. Fetching \subseteq {keysLock}
    BY AtFetch DEF Fetching, Underway
  <2>2. IsFiniteSet({keysLock}) /\ Cardinality({keysLock}) = 1
    BY FS_Singleton
  <2>3. IsFiniteSet(Fetching) /\ Cardinality(Fetching) <= Cardinality({keysLock})
    BY <2>1, <2>2, FS_Subset
  <2> QED
    BY <2>2, <2>3
<1> QED
  BY <1>1, <1>2, <1>3 DEF KeysAreTrusted, FetchesAreRare

(* A token is accepted only under a key the provider publishes, or         *)
(* withdrew no longer ago than its answer may be kept, a key is called     *)
(* unknown only if it is, or is new, and however many requests miss the    *)
(* cache one fetch is out at a time and none too soon after the last       *)
(* (get_signing_key, verify_token).                                        *)
THEOREM KeysAreAlwaysTrusted == OidcSpec => []KeysAreTrusted
<1>1. OidcSpec => []OidcInv
  BY OidcInitial, OidcInductive, PTL DEF OidcSpec
<1> QED
  BY <1>1, KeysFollow, PTL

-----------------------------------------------------------------------------
(* One connection to Canvas.                                                *)

Hop  == [host : {Home} \cup Storage, file : FileId, token : BOOLEAN]
Trip ==
  [at : {"unopened", "idle", "read"}] \cup [at : {"done"}, result : {"read", "bytes", "failed"}]
  \cup [at : {"home"}, file : FileId, hop : Nat] \cup [at : {"storage"}, file : FileId, host : Storage, left : Nat]

(* Every variable has its type.                                            *)
DownloadTyped ==
  /\ conn \in [open : BOOLEAN, count : Nat, limit : {MaxRequests, ObservationMax}]
  /\ sent \in [read : Nat, observed : Nat]
  /\ chain \in Seq(Hop)
  /\ trip \in Trip

(* The chain ends where the download is, and what is left of the redirects *)
(* goes down as it grows.                                                  *)
ChainUnderway ==
  /\ trip.at = "home" =>
       /\ trip.hop <= MaxRedirects /\ Len(chain) = trip.hop + 1
       /\ \A i \in DOMAIN chain : chain[i].host = Home /\ chain[i].file = trip.file
  /\ trip.at = "storage" =>
       /\ trip.host # Home /\ Len(chain) > 0 /\ Len(chain) + trip.left <= MaxRedirects + 1
       /\ chain[Len(chain)].host = trip.host /\ chain[1].file = trip.file

(* A connection that was not used to observe keeps to the smaller limit.   *)
WithinLimit == conn.count <= conn.limit

DownloadInv == DownloadTyped /\ ChainUnderway /\ WithinLimit /\ TokenStaysHome

-----------------------------------------------------------------------------
LEMMA DownloadStarts == DownloadInit => DownloadInv
<1> SUFFICES ASSUME DownloadInit PROVE DownloadInv
  OBVIOUS
<1>1. DownloadTyped
  BY DownloadAssumption DEF DownloadInit, DownloadTyped, Trip
<1>2. ChainUnderway /\ WithinLimit
  BY DownloadAssumption DEF DownloadInit, ChainUnderway, WithinLimit
<1>3. TokenStaysHome
  BY DownloadAssumption DEF DownloadInit, TokenStaysHome, ChainIsBounded, RequestsAreBounded
<1> QED
  BY <1>1, <1>2, <1>3 DEF DownloadInv

(* A call that ends, or does not begin, leaves the chain as it is.         *)
LEMMA SettledKeeps ==
  ASSUME DownloadInv, UNCHANGED <<conn, chain, sent>>,
         trip' \in [at : {"unopened", "idle", "read"}] \cup [at : {"done"}, result : {"read", "bytes", "failed"}]
  PROVE  DownloadInv'
<1>1. DownloadTyped'
  BY DEF DownloadInv, DownloadTyped, Trip
<1>2. ChainUnderway'
  BY DEF ChainUnderway
<1>3. WithinLimit' /\ TokenStaysHome'
  BY DEF DownloadInv, WithinLimit, TokenStaysHome, ChainIsBounded, RequestsAreBounded
<1> QED
  BY <1>1, <1>2, <1>3 DEF DownloadInv

LEMMA SettledIs ==
  \A result \in {"read", "bytes", "failed"} :
    Settled(result) \in [at : {"done"}, result : {"read", "bytes", "failed"}]
BY DEF Settled

LEMMA GivesUpKeeps == ASSUME DownloadInv, GivesUp PROVE DownloadInv'
BY SettledKeeps, SettledIs DEF GivesUp

(* A call that ends because the connection admits nothing more, and what   *)
(* a request counts.                                                       *)
LEMMA CountKeeps ==
  ASSUME DownloadInv, NEW limit \in {conn.limit, ObservationMax}, NEW kind \in {"read", "observed"},
         kind = "read" => limit = conn.limit, kind = "observed" => limit = ObservationMax,
         \/ /\ Admits(conn, limit) /\ conn' = Counted(conn, limit)
            /\ sent' = [sent EXCEPT ![kind] = @ + 1]
         \/ conn' = [conn EXCEPT !.limit = limit] /\ UNCHANGED sent
  PROVE  /\ conn' \in [open : BOOLEAN, count : Nat, limit : {MaxRequests, ObservationMax}]
         /\ sent' \in [read : Nat, observed : Nat]
         /\ WithinLimit' /\ RequestsAreBounded'
<1> USE DownloadAssumption
<1>1. /\ conn \in [open : BOOLEAN, count : Nat, limit : {MaxRequests, ObservationMax}]
      /\ sent \in [read : Nat, observed : Nat]
      /\ WithinLimit /\ RequestsAreBounded
  BY DEF DownloadInv, DownloadTyped, TokenStaysHome
<1>2. conn.limit <= limit /\ limit \in {MaxRequests, ObservationMax}
  BY <1>1
<1>3. CASE Admits(conn, limit) /\ conn' = Counted(conn, limit) /\ sent' = [sent EXCEPT ![kind] = @ + 1]
  <2>1. /\ conn' \in [open : BOOLEAN, count : Nat, limit : {MaxRequests, ObservationMax}]
        /\ conn'.count = conn.count + 1 /\ conn'.limit = limit /\ conn.count < limit
    <3>1. conn.count \in Nat /\ conn.count + 1 \in Nat /\ conn.open \in BOOLEAN
      BY <1>1
    <3>2. conn' = [open |-> conn.open, count |-> conn.count + 1, limit |-> limit]
      BY <1>1, <1>3 DEF Counted
    <3> QED
      BY <1>2, <1>3, <3>1, <3>2 DEF Admits
  <2>2. /\ sent' \in [read : Nat, observed : Nat]
        /\ sent'.read = sent.read + (IF kind = "read" THEN 1 ELSE 0)
        /\ sent'.observed = sent.observed + (IF kind = "observed" THEN 1 ELSE 0)
    BY <1>1, <1>3
  <2>3. WithinLimit'
    BY <1>1, <2>1 DEF WithinLimit
  <2>4. RequestsAreBounded'
    BY <1>1, <2>1, <2>2, <2>3 DEF WithinLimit, RequestsAreBounded
  <2> QED
    BY <2>1, <2>2, <2>3, <2>4
<1>4. CASE conn' = [conn EXCEPT !.limit = limit] /\ UNCHANGED sent
  BY <1>1, <1>2, <1>4 DEF WithinLimit, RequestsAreBounded
<1> QED
  BY <1>3, <1>4

(* The requests that are not part of a download.                           *)
LEMMA ReadKeeps == ASSUME DownloadInv, NEW admitted \in BOOLEAN, Read(admitted) PROVE DownloadInv'
<1>1. CASE Admits(conn, conn.limit) /\ admitted
  <2>1. /\ conn' \in [open : BOOLEAN, count : Nat, limit : {MaxRequests, ObservationMax}]
        /\ sent' \in [read : Nat, observed : Nat]
        /\ WithinLimit' /\ RequestsAreBounded'
    BY <1>1, CountKeeps DEF Read
  <2>2. DownloadTyped'
    BY <1>1, <2>1 DEF Read, DownloadInv, DownloadTyped, Trip
  <2>3. ChainUnderway'
    BY <1>1 DEF Read, ChainUnderway
  <2>4. TokenStaysHome'
    BY <1>1, <2>1 DEF Read, DownloadInv, TokenStaysHome, ChainIsBounded
  <2> QED
    BY <2>1, <2>2, <2>3, <2>4 DEF DownloadInv
<1>2. CASE ~(Admits(conn, conn.limit) /\ admitted)
  BY <1>2, SettledKeeps, SettledIs DEF Read
<1> QED
  BY <1>1, <1>2

LEMMA ObserveKeeps == ASSUME DownloadInv, NEW admitted \in BOOLEAN, Observe(admitted) PROVE DownloadInv'
<1>1. trip' \in [at : {"read"}] \cup [at : {"done"}, result : {"failed"}]
  BY DEF Observe, Settled
<1>2. /\ conn' \in [open : BOOLEAN, count : Nat, limit : {MaxRequests, ObservationMax}]
      /\ sent' \in [read : Nat, observed : Nat]
      /\ WithinLimit' /\ RequestsAreBounded'
  BY CountKeeps DEF Observe
<1>3. DownloadTyped'
  BY <1>1, <1>2 DEF Observe, DownloadInv, DownloadTyped, Trip
<1>4. ChainUnderway'
  BY <1>1 DEF ChainUnderway
<1>5. TokenStaysHome'
  BY <1>2 DEF Observe, DownloadInv, TokenStaysHome, ChainIsBounded
<1> QED
  BY <1>2, <1>3, <1>4, <1>5 DEF DownloadInv

-----------------------------------------------------------------------------
(* A request of a download to Canvas: the first one, or one more hop.      *)
LEMMA AtHomeKeeps ==
  ASSUME DownloadInv, NEW wanted \in FileId, NEW hop \in Nat, NEW before \in Seq(Hop),
         hop <= MaxRedirects, Len(before) = hop,
         \A i \in DOMAIN before : before[i].host = Home /\ before[i].file = wanted /\ before[i].token,
         AtHome(wanted, hop, before)
  PROVE  DownloadInv'
<1> USE DownloadAssumption
<1>1. /\ conn' \in [open : BOOLEAN, count : Nat, limit : {MaxRequests, ObservationMax}]
      /\ sent' \in [read : Nat, observed : Nat]
      /\ WithinLimit' /\ RequestsAreBounded'
  BY CountKeeps DEF AtHome
<1>2. CASE Admits(conn, ObservationMax)
  <2> DEFINE new == [host |-> Home, file |-> wanted, token |-> TRUE]
  <2>1. /\ chain' = Append(before, new) /\ new \in Hop
        /\ trip' = [at |-> "home", file |-> wanted, hop |-> hop]
    BY <1>2 DEF AtHome, Hop
  <2> HIDE DEF new
  <2>2. /\ chain' \in Seq(Hop) /\ Len(chain') = hop + 1 /\ DOMAIN chain' = 1..(hop + 1)
        /\ \A i \in DOMAIN chain' : IF i = hop + 1 THEN chain'[i] = new ELSE i \in DOMAIN before /\ chain'[i] = before[i]
    BY <2>1
  <2>3. \A i \in DOMAIN chain' : chain'[i].host = Home /\ chain'[i].file = wanted /\ chain'[i].token
    BY <2>2 DEF new
  <2>4. DownloadTyped'
    BY <1>1, <2>1, <2>2 DEF DownloadTyped, Trip
  <2>5. ChainUnderway'
    BY <2>1, <2>2, <2>3 DEF ChainUnderway
  <2>6. ChainIsBounded'
    <3>1. 1 \in DOMAIN chain'
      BY <2>2
    <3> QED
      BY <2>2, <2>3, <3>1 DEF ChainIsBounded
  <2> QED
    BY <1>1, <2>4, <2>5, <2>6 DEF DownloadInv, TokenStaysHome
<1>3. CASE ~Admits(conn, ObservationMax)
  <2>1. trip' \in [at : {"done"}, result : {"read", "bytes", "failed"}] /\ chain' = chain
    BY <1>3, SettledIs DEF AtHome
  <2>2. DownloadTyped'
    BY <1>1, <2>1 DEF DownloadInv, DownloadTyped, Trip
  <2>3. ChainUnderway'
    BY <2>1 DEF ChainUnderway
  <2>4. ChainIsBounded'
    BY <2>1 DEF DownloadInv, TokenStaysHome, ChainIsBounded
  <2> QED
    BY <1>1, <2>2, <2>3, <2>4 DEF DownloadInv, TokenStaysHome
<1> QED
  BY <1>2, <1>3

(* A request of a download to the storage, which the chain does not leave. *)
LEMMA AtStorageKeeps ==
  ASSUME DownloadInv, NEW host \in Storage, NEW left \in Nat, trip.at \in {"home", "storage"},
         host # Home, Len(chain) > 0, Len(chain) + 1 + left <= MaxRedirects + 1,
         \A i \in DOMAIN chain : chain[i].host \in {Home, host}, chain[1].file = trip.file,
         AtStorage(host, left)
  PROVE  DownloadInv'
<1> USE DownloadAssumption
<1> DEFINE new == [host |-> host, file |-> trip.file, token |-> FALSE]
           end == Len(chain) + 1
<1>1. /\ chain' = Append(chain, new) /\ chain \in Seq(Hop)
      /\ trip' = [at |-> "storage", file |-> trip.file, host |-> host, left |-> left]
      /\ UNCHANGED <<conn, sent>>
  BY DEF AtStorage, DownloadInv, DownloadTyped
<1>2. trip.file \in FileId
  BY DEF DownloadInv, DownloadTyped, Trip
<1>3. new \in Hop
  BY <1>2 DEF Hop
<1> HIDE DEF new
<1>4. /\ chain' \in Seq(Hop) /\ Len(chain') = end /\ DOMAIN chain' = 1..end /\ end \in Nat /\ end > 1
      /\ \A i \in DOMAIN chain' : IF i = end THEN chain'[i] = new ELSE i \in DOMAIN chain /\ chain'[i] = chain[i]
  BY <1>1, <1>3
<1>5. 1 \in DOMAIN chain /\ chain'[1] = chain[1]
  BY <1>1, <1>4
<1>6. ChainIsBounded
  BY DEF DownloadInv, TokenStaysHome
<1>7. new.host = host /\ new.file = chain[1].file /\ new.token = FALSE
  BY DEF new
<1>8. ChainIsBounded'
  <2>1. Len(chain') <= MaxRedirects + 1
    BY <1>4
  <2>2. ASSUME NEW i \in DOMAIN chain'
        PROVE  /\ chain'[i].file = chain'[1].file
               /\ chain'[i].token <=> chain'[i].host = Home
               /\ chain'[i].host # Home => chain'[i].host \in Storage
    BY <1>4, <1>5, <1>6, <1>7 DEF ChainIsBounded
  <2>3. ASSUME NEW i \in DOMAIN chain', NEW j \in DOMAIN chain', chain'[i].host # Home, j > i
        PROVE  chain'[j].host = chain'[i].host
    <3>1. \A k \in DOMAIN chain' : chain'[k].host \in {Home, host}
      BY <1>4, <1>7
    <3>2. i # end /\ i \in DOMAIN chain /\ chain'[i] = chain[i]
      BY <1>4, <2>3
    <3>3. CASE j = end
      BY <1>4, <1>7, <2>3, <3>1, <3>3
    <3>4. CASE j # end
      BY <1>4, <1>6, <2>3, <3>2, <3>4 DEF ChainIsBounded
    <3> QED
      BY <3>3, <3>4
  <2> QED
    BY <2>1, <2>2, <2>3 DEF ChainIsBounded
<1>9. DownloadTyped'
  BY <1>1, <1>2, <1>4 DEF DownloadInv, DownloadTyped, Trip
<1>10. ChainUnderway'
  BY <1>1, <1>4, <1>5, <1>7 DEF ChainUnderway
<1>11. WithinLimit' /\ RequestsAreBounded'
  BY <1>1 DEF DownloadInv, TokenStaysHome, WithinLimit, RequestsAreBounded
<1> QED
  BY <1>8, <1>9, <1>10, <1>11 DEF DownloadInv, TokenStaysHome

LEMMA HomeRedirectsKeeps ==
  ASSUME DownloadInv, NEW url \in Url, NEW addresses, HomeRedirects(url, addresses)
  PROVE  DownloadInv'
<1> USE DownloadAssumption
<1>1. /\ trip.at = "home" /\ trip.file \in FileId /\ trip.hop \in Nat /\ trip.hop <= MaxRedirects
      /\ chain \in Seq(Hop) /\ Len(chain) = trip.hop + 1
      /\ \A i \in DOMAIN chain : chain[i].host = Home /\ chain[i].file = trip.file /\ chain[i].token
  <2>1. trip.at = "home" /\ DownloadTyped /\ ChainUnderway /\ ChainIsBounded
    BY DEF HomeRedirects, DownloadInv, TokenStaysHome
  <2>2. trip.file \in FileId /\ trip.hop \in Nat
    BY <2>1 DEF DownloadTyped, Trip
  <2> QED
    BY <2>1, <2>2 DEF DownloadTyped, ChainUnderway, ChainIsBounded
<1>2. CASE url.host = Home /\ IsDownload(url, trip.file) /\ trip.hop < MaxRedirects
  <2>1. AtHome(trip.file, trip.hop + 1, chain)
    BY <1>2 DEF HomeRedirects
  <2>2. trip.hop + 1 \in Nat /\ trip.hop + 1 <= MaxRedirects /\ Len(chain) = trip.hop + 1
    BY <1>1, <1>2
  <2> QED
    BY <1>1, <2>1, <2>2, AtHomeKeeps
<1>3. CASE url.host # Home /\ Left(trip.hop) > 0 /\ url.host \in Storage /\ addresses # <<>> /\ AllPublic(addresses)
  <2>1. AtStorage(url.host, Left(trip.hop) - 1)
    BY <1>3 DEF HomeRedirects, LeaveHome
  <2>2. Left(trip.hop) - 1 \in Nat /\ Len(chain) + 1 + (Left(trip.hop) - 1) <= MaxRedirects + 1
    BY <1>1, <1>3 DEF Left
  <2>3. Len(chain) > 0 /\ chain[1].file = trip.file /\ \A i \in DOMAIN chain : chain[i].host \in {Home, url.host}
    BY <1>1
  <2> QED
    BY <1>1, <1>3, <2>1, <2>2, <2>3, AtStorageKeeps
<1>4. CASE GivesUp
  BY <1>4, GivesUpKeeps
<1> QED
  BY <1>2, <1>3, <1>4 DEF HomeRedirects, LeaveHome

LEMMA StorageRedirectsKeeps == ASSUME DownloadInv, NEW url \in Url, StorageRedirects(url) PROVE DownloadInv'
<1> USE DownloadAssumption
<1>1. /\ trip.at = "storage" /\ trip.host \in Storage /\ trip.left \in Nat
      /\ DownloadTyped /\ ChainUnderway /\ ChainIsBounded
  <2>1. trip.at = "storage" /\ DownloadTyped /\ ChainUnderway /\ ChainIsBounded
    BY DEF StorageRedirects, DownloadInv, TokenStaysHome
  <2> QED
    BY <2>1 DEF DownloadTyped, Trip
<1>2. CASE url.host = trip.host /\ trip.left > 0
  <2>1. AtStorage(trip.host, trip.left - 1) /\ trip.left - 1 \in Nat
    BY <1>1, <1>2 DEF StorageRedirects
  <2>2. /\ trip.host # Home /\ Len(chain) > 0 /\ chain[1].file = trip.file
        /\ Len(chain) + 1 + (trip.left - 1) <= MaxRedirects + 1
    BY <1>1, <1>2 DEF ChainUnderway, DownloadTyped
  <2>3. \A i \in DOMAIN chain : chain[i].host \in {Home, trip.host}
    BY <1>1 DEF ChainUnderway, DownloadTyped, ChainIsBounded
  <2> QED
    BY <1>1, <2>1, <2>2, <2>3, AtStorageKeeps
<1>3. CASE GivesUp
  BY <1>3, GivesUpKeeps
<1> QED
  BY <1>2, <1>3 DEF StorageRedirects

LEMMA DownloadStep == DownloadInv /\ [DownloadNext]_downloadVars => DownloadInv'
<1> SUFFICES ASSUME DownloadInv, [DownloadNext]_downloadVars PROVE DownloadInv'
  OBVIOUS
<1>1. ASSUME NEW addresses \in Addresses, OpenConn(addresses) PROVE DownloadInv'
  <2>1. trip' \in [at : {"idle"}] \cup [at : {"done"}, result : {"failed"}] /\ UNCHANGED <<chain, sent>>
    BY <1>1 DEF OpenConn, Connected, Settled
  <2>2. /\ conn' \in [open : BOOLEAN, count : Nat, limit : {MaxRequests, ObservationMax}]
        /\ conn'.count = conn.count /\ conn'.limit = conn.limit
    BY <1>1 DEF OpenConn, DownloadInv, DownloadTyped
  <2>3. DownloadTyped'
    BY <2>1, <2>2 DEF DownloadInv, DownloadTyped, Trip
  <2>4. ChainUnderway'
    BY <2>1 DEF ChainUnderway
  <2> QED
    BY <2>1, <2>2, <2>3, <2>4 DEF DownloadInv, WithinLimit, TokenStaysHome, ChainIsBounded, RequestsAreBounded
<1>2. ASSUME CloseConn PROVE DownloadInv'
  <2>1. /\ conn' \in [open : BOOLEAN, count : Nat, limit : {MaxRequests, ObservationMax}]
        /\ conn'.count = conn.count /\ conn'.limit = conn.limit
    BY <1>2 DEF CloseConn, DownloadInv, DownloadTyped
  <2>2. DownloadTyped' /\ ChainUnderway'
    BY <1>2, <2>1 DEF CloseConn, DownloadInv, DownloadTyped, ChainUnderway
  <2> QED
    BY <1>2, <2>1, <2>2 DEF CloseConn, DownloadInv, WithinLimit, TokenStaysHome, ChainIsBounded, RequestsAreBounded
<1>3. ASSUME NEW admitted \in BOOLEAN, Read(admitted) \/ Observe(admitted) PROVE DownloadInv'
  BY <1>3, ReadKeeps, ObserveKeeps
<1>4. ASSUME NEW answer \in HttpAnswer, ReadAnswered(answer) \/ HomeAnswers(answer) \/ StorageAnswers(answer)
      PROVE  DownloadInv'
  BY <1>4, SettledKeeps, SettledIs DEF ReadAnswered, HomeAnswers, StorageAnswers
<1>5. ASSUME NEW wanted \in FileId, NEW url \in Url, Download(wanted, url) PROVE DownloadInv'
  <2>1. CASE IsDownload(url, wanted)
    <3>1. PICK before \in Seq(Hop) : before = <<>> /\ Len(before) = 0 /\ DOMAIN before = {}
      <4>1. <<>> \in Seq(Hop) /\ Len(<<>>) = 0 /\ DOMAIN <<>> = {}
        OBVIOUS
      <4> QED
        BY <4>1, Zenon
    <3>2. AtHome(wanted, 0, before)
      BY <1>5, <2>1, <3>1 DEF Download
    <3>3. 0 \in Nat /\ 0 <= MaxRedirects
      BY DownloadAssumption
    <3>4. \A i \in DOMAIN before : before[i].host = Home /\ before[i].file = wanted /\ before[i].token
      BY <3>1
    <3> QED
      BY <3>1, <3>2, <3>3, <3>4, AtHomeKeeps
  <2>2. CASE ~IsDownload(url, wanted)
    BY <1>5, <2>2, GivesUpKeeps DEF Download
  <2> QED
    BY <2>1, <2>2
<1>6. ASSUME NEW url \in Url, NEW addresses \in Addresses, HomeRedirects(url, addresses) PROVE DownloadInv'
  BY <1>6, HomeRedirectsKeeps
<1>7. ASSUME NEW url \in Url, StorageRedirects(url) PROVE DownloadInv'
  BY <1>7, StorageRedirectsKeeps
<1>8. CASE UNCHANGED downloadVars
  BY <1>8 DEF downloadVars, DownloadInv, DownloadTyped, ChainUnderway, WithinLimit, TokenStaysHome, ChainIsBounded, RequestsAreBounded
<1> QED
  BY <1>1, <1>2, <1>3, <1>4, <1>5, <1>6, <1>7, <1>8 DEF DownloadNext

(* A connection to Canvas sends the token to Canvas only, for the file     *)
(* that was asked for; it follows MaxRedirects redirects at most, leaves   *)
(* for one storage that is allowed and stays there, and sends no more      *)
(* requests than its limit, whatever Canvas and the storages answer.       *)
THEOREM TokenAlwaysStaysHome == DownloadSpec => []TokenStaysHome
<1>1. DownloadInv => TokenStaysHome
  BY DEF DownloadInv
<1> QED
  BY <1>1, DownloadStarts, DownloadStep, PTL DEF DownloadSpec

-----------------------------------------------------------------------------
(* The sessions of the windows.                                            *)

Errand ==
  [at : {"free", "sent", "answered", "lost", "responding", "recovering", "navigating"}, window : Window,
   kind : {"use", "exchange"}, token : Nat, sid : Nat, status : Nat, cookie : Nat]
Shown ==
  [at : {"loading", "exchanging", "ready", "refused", "destroyed"}, token : Nat, session : Nat]

(* Every variable of the argument has its type.                            *)
CoreTyped ==
  /\ minted \in Nat /\ token \in [Window -> 0..minted] /\ byWindow \in [Window -> 0..minted]
  /\ live \subseteq [sid : Nat, window : Window]
ShellTyped == jar \in [Window -> Nat] /\ page \in [Window -> Shown] /\ relay \in [Relay -> Errand]

(* What a page or a thread exchanges is a token.                           *)
TokensCarried ==
  /\ \A w \in Window : page[w].at = "loading" => page[w].token # None
  /\ \A c \in Relay :
       /\ relay[c].at = "sent" /\ relay[c].kind = "exchange" => relay[c].token # None
       /\ relay[c].at = "navigating" => relay[c].token # None

(* No number stands for two tokens, or for a token and a session, or for   *)
(* the sessions of two windows.                                            *)
NumbersDiffer ==
  \A v, w \in Window :
    /\ token[v] = token[w] /\ token[v] # None => v = w
    /\ byWindow[v] = byWindow[w] /\ byWindow[v] # None => v = w
    /\ token[v] # None => token[v] # byWindow[w]

(* The sessions known are those found by their windows.                    *)
TablesAgree ==
  \A l \in [sid : Nat, window : Window] : l \in live <=> l.sid # None /\ byWindow[l.window] = l.sid

Numbered == CoreTyped /\ NumbersDiffer /\ TablesAgree
Carried == ShellTyped /\ TokensCarried
SessionsInv == Numbered /\ Carried

-----------------------------------------------------------------------------
(* The numbers and tables are all that the property is about.              *)
LEMMA NumberedGivesSessions == Numbered => OneSessionPerWindow
<1> SUFFICES ASSUME Numbered PROVE OneSessionPerWindow
  OBVIOUS
<1>1. \A l \in live : l \in [sid : Nat, window : Window] /\ l = [sid |-> l.sid, window |-> l.window]
  BY DEF Numbered, CoreTyped
<1>2. \A l \in live : l.sid # None /\ byWindow[l.window] = l.sid
  BY DEF Numbered, CoreTyped, TablesAgree
<1>3. \A k, l \in live : k.window = l.window => k = l
  BY <1>1, <1>2
<1>4. ASSUME NEW w \in Window, byWindow[w] # None PROVE [sid |-> byWindow[w], window |-> w] \in live
  <2>1. byWindow[w] \in Nat
    BY DEF Numbered, CoreTyped
  <2> QED
    BY <1>4, <2>1 DEF Numbered, TablesAgree
<1>5. \A w \in Window, l \in live : token[w] # None /\ l.window = w => token[w] # l.sid
  BY <1>1, <1>2 DEF Numbered, NumbersDiffer
<1> QED
  BY <1>2, <1>3, <1>4, <1>5 DEF OneSessionPerWindow

LEMMA NumbersKept == ASSUME Numbered, UNCHANGED <<token, minted, live, byWindow>> PROVE Numbered'
BY DEF Numbered, CoreTyped, NumbersDiffer, TablesAgree

(* Tokens disappear.                                                       *)
LEMMA TokensGo ==
  ASSUME Numbered, NEW w \in Window, token' = [token EXCEPT ![w] = None], UNCHANGED <<minted, live, byWindow>>
  PROVE  Numbered'
<1>1. CoreTyped'
  BY DEF Numbered, CoreTyped, None
<1>2. NumbersDiffer'
  BY DEF Numbered, CoreTyped, NumbersDiffer, None
<1>3. TablesAgree'
  BY DEF Numbered, TablesAgree
<1> QED
  BY <1>1, <1>2, <1>3 DEF Numbered

(* A session is forgotten, in both tables.                                 *)
LEMMA SessionGoes ==
  ASSUME Numbered, NEW s \in Nat, live' = Forgotten(s),
         \A w \in Window : byWindow'[w] = IF byWindow[w] = s THEN None ELSE byWindow[w],
         byWindow' = [w \in Window |-> byWindow'[w]], UNCHANGED <<token, minted>>
  PROVE  Numbered'
<1>1. CoreTyped'
  <2>1. \A w \in Window : byWindow'[w] \in 0..minted
    BY DEF Numbered, CoreTyped, None
  <2>2. byWindow' \in [Window -> 0..minted']
    BY <2>1, Zenon
  <2> QED
    BY <2>2 DEF Numbered, CoreTyped, Forgotten
<1>2. NumbersDiffer'
  BY DEF Numbered, NumbersDiffer, None
<1>3. TablesAgree'
  <2> SUFFICES ASSUME NEW l \in [sid : Nat, window : Window]
               PROVE  l \in live' <=> l.sid # None /\ byWindow'[l.window] = l.sid
    BY DEF TablesAgree
  <2>1. l \in live <=> l.sid # None /\ byWindow[l.window] = l.sid
    BY DEF Numbered, TablesAgree
  <2>2. l \in live' <=> l \in live /\ l.sid # s
    BY DEF Forgotten
  <2> QED
    BY <2>1, <2>2 DEF None
<1> QED
  BY <1>1, <1>2, <1>3 DEF Numbered

(* A thread's record, changed in its place and in another field.           *)
LEMMA AnswerIs ==
  ASSUME Carried, NEW c \in Relay, NEW status \in Nat,
         relay' = [relay EXCEPT ![c].at = "answered", ![c].status = status]
  PROVE  \E e \in Errand : e.at = "answered" /\ relay' = [relay EXCEPT ![c] = e]
<1>1. relay[c] \in Errand /\ relay \in [Relay -> Errand]
  BY DEF Carried, ShellTyped
<1>2. PICK a \in Errand : a = [relay[c] EXCEPT !.at = "answered"]
  BY <1>1 DEF Errand
<1>3. PICK e \in Errand : e = [a EXCEPT !.status = status]
  BY DEF Errand
<1>4. a.at = "answered"
  BY <1>1, <1>2 DEF Errand
<1>5. e.at = "answered"
  BY <1>3, <1>4 DEF Errand
<1>6. PICK r \in [Relay -> Errand] : r = [relay EXCEPT ![c] = a]
  BY <1>1
<1>7. r = [relay EXCEPT ![c].at = "answered"] /\ r[c] = a
  BY <1>1, <1>2, <1>6
<1>8. relay' = [r EXCEPT ![c].status = status]
  BY <1>7, Zenon
<1>9. relay' = [relay EXCEPT ![c] = e]
  BY <1>1, <1>3, <1>6, <1>7, <1>8
<1> QED
  BY <1>5, <1>9

LEMMA NewTokenIs ==
  ASSUME Carried, NEW c \in Relay, NEW number \in Nat,
         relay' = [relay EXCEPT ![c].at = "navigating", ![c].token = number]
  PROVE  \E e \in Errand : e.at = "navigating" /\ e.token = number /\ relay' = [relay EXCEPT ![c] = e]
<1>1. relay[c] \in Errand /\ relay \in [Relay -> Errand]
  BY DEF Carried, ShellTyped
<1>2. PICK a \in Errand : a = [relay[c] EXCEPT !.at = "navigating"]
  BY <1>1 DEF Errand
<1>3. PICK e \in Errand : e = [a EXCEPT !.token = number]
  BY DEF Errand
<1>4. a.at = "navigating"
  BY <1>1, <1>2 DEF Errand
<1>5. e.at = "navigating" /\ e.token = number
  BY <1>3, <1>4 DEF Errand
<1>6. PICK r \in [Relay -> Errand] : r = [relay EXCEPT ![c] = a]
  BY <1>1
<1>7. r = [relay EXCEPT ![c].at = "navigating"] /\ r[c] = a
  BY <1>1, <1>2, <1>6
<1>8. relay' = [r EXCEPT ![c].token = number]
  BY <1>7, Zenon
<1>9. relay' = [relay EXCEPT ![c] = e]
  BY <1>1, <1>3, <1>6, <1>7, <1>8
<1> QED
  BY <1>5, <1>9

(* A thread goes on with its errand.                                       *)
LEMMA ErrandGoesOn ==
  ASSUME Carried, NEW c \in Relay, NEW e \in Errand, relay' = [relay EXCEPT ![c] = e],
         e.at = "sent" /\ e.kind = "exchange" => e.token # None,
         e.at = "navigating" => e.token # None,
         jar' \in [Window -> Nat], page' \in [Window -> Shown],
         \A w \in Window : page'[w].at = "loading" => page'[w].token # None
  PROVE  Carried'
<1>1. relay' \in [Relay -> Errand] /\ \A d \in Relay : relay'[d] = IF d = c THEN e ELSE relay[d]
  BY DEF Carried, ShellTyped
<1>2. TokensCarried'
  BY <1>1 DEF Carried, TokensCarried
<1> QED
  BY <1>1, <1>2 DEF Carried, ShellTyped

LEMMA ShellKept == ASSUME Carried, UNCHANGED <<jar, page, relay>> PROVE Carried'
BY DEF Carried, ShellTyped, TokensCarried

LEMMA FreeIs == Free \in Errand /\ Free.at = "free" /\ Free.kind = "use" /\ Free.token = None
BY SessionsAssumption DEF Free, Errand, None

LEMMA PagesKept ==
  ASSUME Carried, UNCHANGED page
  PROVE  page' \in [Window -> Shown] /\ \A w \in Window : page'[w].at = "loading" => page'[w].token # None
BY DEF Carried, ShellTyped, TokensCarried

-----------------------------------------------------------------------------
LEMMA SessionsStart == SessionsInit => SessionsInv
<1> SUFFICES ASSUME SessionsInit PROVE SessionsInv
  OBVIOUS
<1>1. minted \in Nat
  BY SessionsAssumption, FS_CardinalityType DEF SessionsInit
<1>2. token \in [Window -> 0..minted] /\ \A w \in Window : token[w] \in Nat /\ token[w] # None
  BY <1>1 DEF SessionsInit, None
<1>3. CoreTyped
  BY <1>1, <1>2 DEF SessionsInit, CoreTyped, None
<1>4. NumbersDiffer
  BY <1>2 DEF SessionsInit, NumbersDiffer
<1>5. TablesAgree
  BY DEF SessionsInit, TablesAgree
<1>6. page \in [Window -> Shown] /\ \A w \in Window : page[w].token # None
  BY <1>2 DEF SessionsInit, Shown, None
<1>7. jar \in [Window -> Nat] /\ relay \in [Relay -> Errand] /\ \A c \in Relay : relay[c] = Free
  BY FreeIs DEF SessionsInit, None
<1>8. Carried
  BY <1>6, <1>7, FreeIs DEF Carried, ShellTyped, TokensCarried
<1> QED
  BY <1>3, <1>4, <1>5, <1>8 DEF SessionsInv, Numbered

(* A token is exchanged for a session, and the one before is forgotten.    *)
LEMMA ExchangeKeeps ==
  ASSUME SessionsInv, NEW c \in Relay, relay[c].at = "sent", relay[c].kind = "exchange", Exchange(c),
         UNCHANGED <<minted, jar, page>>
  PROVE  SessionsInv'
<1> DEFINE w == relay[c].window
           t == relay[c].token
<1>1. w \in Window /\ t \in Nat /\ t # None /\ relay[c] \in Errand
  BY DEF SessionsInv, Carried, ShellTyped, TokensCarried, Errand
<1>2. CASE token[w] = t
  <2>1. /\ token' = [token EXCEPT ![w] = None]
        /\ live' = Replaced(w, t) /\ byWindow' = [byWindow EXCEPT ![w] = t]
        /\ relay' = [relay EXCEPT ![c].at = "answered", ![c].status = 200, ![c].cookie = t]
    BY <1>2 DEF Exchange
  <2>2. PICK a \in Errand : a = [relay[c] EXCEPT !.at = "answered"]
    BY <1>1 DEF Errand
  <2>3. PICK e \in Errand : relay' = [relay EXCEPT ![c] = e] /\ e.at = "answered"
    <3>1. PICK b \in Errand : b = [a EXCEPT !.status = 200]
      BY ZenonT(40) DEF Errand
    <3>2. PICK e \in Errand : e = [b EXCEPT !.cookie = t]
      BY <1>1 DEF Errand
    <3>3. e.at = "answered"
      <4>1. a.at = "answered"
        BY <1>1, <2>2 DEF Errand
      <4>2. b.at = "answered"
        BY <3>1, <4>1 DEF Errand
      <4> QED
        BY <3>2, <4>2 DEF Errand
    <3>4. PICK r \in [Relay -> Errand] : r = [relay EXCEPT ![c] = a]
      BY DEF SessionsInv, Carried, ShellTyped
    <3>5. PICK q \in [Relay -> Errand] : q = [r EXCEPT ![c] = b]
      OBVIOUS
    <3>6. r = [relay EXCEPT ![c].at = "answered"] /\ r[c] = a
      BY <2>2, <3>4 DEF SessionsInv, Carried, ShellTyped
    <3>7. q = [r EXCEPT ![c].status = 200] /\ q[c] = b
      BY <3>1, <3>5, <3>6
    <3>8. relay' = [q EXCEPT ![c].cookie = t]
      BY <2>1, <3>6, <3>7, Zenon
    <3>9. relay' = [q EXCEPT ![c] = e]
      BY <3>2, <3>7, <3>8
    <3>10. relay' = [relay EXCEPT ![c] = e]
      BY <3>4, <3>5, <3>9 DEF SessionsInv, Carried, ShellTyped
    <3> QED
      BY <3>3, <3>10
  <2>4. Carried'
    BY <2>3, PagesKept, ErrandGoesOn DEF SessionsInv, Carried, ShellTyped
  <2> HIDE DEF w, t
  <2>5. token \in [Window -> 0..minted] /\ byWindow \in [Window -> 0..minted] /\ minted \in Nat /\ t \in 0..minted
    BY <1>1, <1>2 DEF SessionsInv, Numbered, CoreTyped
  <2>6. /\ \A v \in Window : token'[v] = IF v = w THEN None ELSE token[v]
        /\ \A v \in Window : byWindow'[v] = IF v = w THEN t ELSE byWindow[v]
    BY <2>1, <2>5
  <2>7. \A l : l \in live' <=> (l \in live /\ l.sid # byWindow[w]) \/ l = [sid |-> t, window |-> w]
    BY <2>1 DEF Replaced
  <2>8. CoreTyped'
    <3>1. None \in 0..minted
      BY <2>5 DEF None
    <3>2. token' \in [Window -> 0..minted] /\ byWindow' \in [Window -> 0..minted]
      BY <2>1, <2>5, <3>1
    <3>3. live' \subseteq [sid : Nat, window : Window]
      BY <1>1, <2>7 DEF SessionsInv, Numbered, CoreTyped
    <3> QED
      BY <2>1, <2>5, <3>2, <3>3 DEF CoreTyped
  <2>9. NumbersDiffer'
    BY <1>1, <1>2, <2>6 DEF SessionsInv, Numbered, NumbersDiffer
  <2>10. TablesAgree'
    <3> SUFFICES ASSUME NEW l \in [sid : Nat, window : Window]
                 PROVE  l \in live' <=> l.sid # None /\ byWindow'[l.window] = l.sid
      BY DEF TablesAgree
    <3>1. l \in live <=> l.sid # None /\ byWindow[l.window] = l.sid
      BY DEF SessionsInv, Numbered, TablesAgree
    <3>2. l.window \in Window /\ l = [sid |-> l.sid, window |-> l.window]
      OBVIOUS
    <3>3. CASE l.window = w
      <4>1. l \in live' <=> l.sid = t
        BY <2>7, <3>1, <3>2, <3>3
      <4> QED
        BY <1>1, <2>6, <3>3, <4>1
    <3>4. CASE l.window # w
      <4>1. l # [sid |-> t, window |-> w]
        BY <3>4
      <4>2. l \in live' <=> l \in live /\ l.sid # byWindow[w]
        BY <2>7, <4>1
      <4>3. l \in live => l.sid # byWindow[w]
        BY <1>1, <3>1, <3>2, <3>4 DEF SessionsInv, Numbered, NumbersDiffer
      <4> QED
        BY <2>6, <3>1, <3>2, <3>4, <4>2, <4>3
    <3> QED
      BY <3>3, <3>4
  <2> QED
    BY <2>4, <2>8, <2>9, <2>10 DEF SessionsInv, Numbered
<1>3. CASE token[w] # t
  <2>1. relay' = [relay EXCEPT ![c].at = "answered", ![c].status = 403] /\ UNCHANGED <<token, live, byWindow>>
    BY <1>3 DEF Exchange
  <2>2. PICK e \in Errand : e.at = "answered" /\ relay' = [relay EXCEPT ![c] = e]
    <3>1. 403 \in Nat /\ Carried
      BY DEF SessionsInv
    <3>2. relay' = [relay EXCEPT ![c].at = "answered", ![c].status = 403]
      BY <2>1
    <3> QED
      BY <3>1, <3>2, AnswerIs
  <2>3. Carried'
    BY <2>2, PagesKept, ErrandGoesOn DEF SessionsInv, Carried, ShellTyped
  <2> QED
    BY <2>1, <2>3, NumbersKept DEF SessionsInv
<1> QED
  BY <1>2, <1>3

LEMMA LookupKeeps ==
  ASSUME SessionsInv, NEW c \in Relay, Lookup(c), UNCHANGED <<minted, jar, page>>
  PROVE  SessionsInv'
<1> DEFINE s == relay[c].sid
<1>1. s \in Nat /\ relay[c] \in Errand
  BY DEF SessionsInv, Carried, ShellTyped, Errand
<1>2. ASSUME NEW status \in Nat, relay' = [relay EXCEPT ![c].at = "answered", ![c].status = status] PROVE Carried'
  <2>1. PICK e \in Errand : e.at = "answered" /\ relay' = [relay EXCEPT ![c] = e]
    BY <1>2, AnswerIs DEF SessionsInv
  <2> QED
    BY <2>1, PagesKept, ErrandGoesOn DEF SessionsInv, Carried, ShellTyped
<1>3. Carried'
  BY <1>2 DEF Lookup
<1>4. CASE UNCHANGED <<token, live, byWindow>>
  BY <1>3, <1>4, NumbersKept DEF SessionsInv
<1>5. CASE UNCHANGED token /\ live' = Forgotten(s) /\ byWindow' = Unnamed(s)
  <2>1. \A w \in Window : byWindow'[w] = IF byWindow[w] = s THEN None ELSE byWindow[w]
    BY <1>5 DEF Unnamed
  <2>2. byWindow' = [w \in Window |-> byWindow'[w]]
    BY <1>5 DEF Unnamed
  <2>3. Numbered'
    BY <1>1, <1>5, <2>1, <2>2, SessionGoes DEF SessionsInv
  <2> QED
    BY <1>3, <2>3 DEF SessionsInv
<1> QED
  BY <1>4, <1>5 DEF Lookup

LEMMA HandleKeeps == ASSUME SessionsInv, NEW c \in Relay, Handle(c) PROVE SessionsInv'
BY ExchangeKeeps, LookupKeeps DEF Handle

LEMMA TimePassesKeeps == ASSUME SessionsInv, TimePasses PROVE SessionsInv'
<1>1. Carried'
  BY ShellKept DEF SessionsInv, TimePasses
<1>2. Numbered'
  BY NumbersKept, TokensGo DEF SessionsInv, TimePasses
<1> QED
  BY <1>1, <1>2 DEF SessionsInv

(* The page sends, and reads what comes back.                              *)
LEMMA SendKeeps == ASSUME SessionsInv, NEW c \in Relay, NEW w \in Window, Send(c, w) PROVE SessionsInv'
<1>1. Numbered'
  BY NumbersKept DEF SessionsInv, Send
<1>2. page[w] \in Shown /\ jar[w] \in Nat /\ jar' \in [Window -> Nat] /\ page \in [Window -> Shown]
  BY DEF Send, SessionsInv, Carried, ShellTyped
<1>3. CASE page[w].at = "loading" /\ page' = [page EXCEPT ![w].at = "exchanging"]
            /\ relay' = [relay EXCEPT ![c] = [Free EXCEPT !.at = "sent", !.window = w, !.kind = "exchange",
                                                !.token = page[w].token, !.sid = jar[w]]]
  <2>1. page[w].token \in Nat /\ page[w].token # None
    BY <1>2, <1>3 DEF SessionsInv, Carried, TokensCarried, Shown
  <2>2. PICK e \in Errand : e = [Free EXCEPT !.at = "sent", !.window = w, !.kind = "exchange",
                                   !.token = page[w].token, !.sid = jar[w]]
    BY <1>2, <2>1, FreeIs DEF Errand
  <2>3. relay' = [relay EXCEPT ![c] = e] /\ e.at = "sent" /\ e.token # None
    BY <1>3, <2>1, <2>2, FreeIs DEF Errand
  <2>4. PICK p \in Shown : p = [page[w] EXCEPT !.at = "exchanging"]
    BY <1>2 DEF Shown
  <2>5. page' = [page EXCEPT ![w] = p] /\ p.at = "exchanging"
    BY <1>2, <1>3, <2>4 DEF Shown
  <2>6. page' \in [Window -> Shown] /\ \A v \in Window : page'[v].at = "loading" => page'[v].token # None
    BY <1>2, <2>5 DEF SessionsInv, Carried, TokensCarried
  <2>7. Carried'
    BY <1>2, <2>3, <2>6, ErrandGoesOn DEF SessionsInv
  <2> QED
    BY <1>1, <2>7 DEF SessionsInv
<1>4. CASE UNCHANGED page /\ relay' = [relay EXCEPT ![c] = [Free EXCEPT !.at = "sent", !.window = w, !.sid = jar[w]]]
  <2>1. PICK e \in Errand : e = [Free EXCEPT !.at = "sent", !.window = w, !.sid = jar[w]]
    BY <1>2, FreeIs DEF Errand
  <2>2. relay' = [relay EXCEPT ![c] = e] /\ e.at = "sent" /\ e.kind = "use"
    BY <1>4, <2>1, FreeIs DEF Errand
  <2>3. Carried'
    BY <1>2, <1>4, <2>2, PagesKept, ErrandGoesOn DEF SessionsInv
  <2> QED
    BY <1>1, <2>3 DEF SessionsInv
<1> QED
  BY <1>3, <1>4 DEF Send

(* A thread is free again.                                                 *)
LEMMA FreedKeeps ==
  ASSUME Carried, NEW c \in Relay, relay' = [relay EXCEPT ![c] = Free], jar' \in [Window -> Nat],
         page' \in [Window -> Shown], \A w \in Window : page'[w].at = "loading" => page'[w].token # None
  PROVE  Carried'
BY FreeIs, ErrandGoesOn

LEMMA UnreachableKeeps == ASSUME SessionsInv, NEW c \in Relay, Unreachable(c) PROVE SessionsInv'
<1> DEFINE w == relay[c].window
<1>1. Numbered'
  BY NumbersKept DEF SessionsInv, Unreachable
<1>2. w \in Window /\ page \in [Window -> Shown] /\ page[w] \in Shown /\ jar' \in [Window -> Nat]
  BY DEF Unreachable, SessionsInv, Carried, ShellTyped, Errand
<1>3. PICK at \in {"refused", page[w].at} : page' = [page EXCEPT ![w].at = at]
  BY DEF Unreachable
<1> HIDE DEF w
<1>4. PICK p \in Shown : p = [page[w] EXCEPT !.at = at]
  BY <1>2 DEF Shown
<1>5. page' = [page EXCEPT ![w] = p] /\ p.at = at /\ p.token = page[w].token
  BY <1>2, <1>3, <1>4 DEF Shown
<1>6. page' \in [Window -> Shown] /\ \A v \in Window : page'[v].at = "loading" => page'[v].token # None
  BY <1>2, <1>5 DEF SessionsInv, Carried, TokensCarried
<1>7. Carried'
  BY <1>2, <1>6, FreedKeeps DEF Unreachable, SessionsInv
<1> QED
  BY <1>1, <1>7 DEF SessionsInv

LEMMA AbsorbKeeps == ASSUME SessionsInv, NEW c \in Relay, Absorb(c) PROVE SessionsInv'
<1>1. Numbered'
  BY NumbersKept DEF SessionsInv, Absorb
<1>2. relay[c] \in Errand /\ relay \in [Relay -> Errand] /\ jar \in [Window -> Nat]
  BY DEF SessionsInv, Carried, ShellTyped
<1>3. jar' \in [Window -> Nat]
  <2>1. relay[c].cookie \in Nat
    BY <1>2 DEF Errand
  <2> QED
    BY <1>2, <2>1 DEF Absorb
<1>4. PICK at \in {"lost", "responding"} : relay' = [relay EXCEPT ![c].at = at]
  BY DEF Absorb
<1>5. PICK e \in Errand : e = [relay[c] EXCEPT !.at = at]
  BY <1>2 DEF Errand
<1>6. relay' = [relay EXCEPT ![c] = e] /\ e.at = at
  BY <1>2, <1>4, <1>5 DEF Errand
<1>7. Carried'
  BY <1>3, <1>6, PagesKept, ErrandGoesOn DEF Absorb, SessionsInv
<1> QED
  BY <1>1, <1>7 DEF SessionsInv

LEMMA ForgetKeeps == ASSUME SessionsInv, NEW c \in Relay, Forget(c) PROVE SessionsInv'
<1>1. Numbered'
  BY NumbersKept DEF SessionsInv, Forget
<1>2. relay[c] \in Errand /\ relay \in [Relay -> Errand] /\ jar \in [Window -> Nat]
  BY DEF SessionsInv, Carried, ShellTyped
<1>3. jar' \in [Window -> Nat]
  BY <1>2 DEF Forget, None
<1>4. PICK e \in Errand : e = [relay[c] EXCEPT !.at = "responding"]
  BY <1>2 DEF Errand
<1>5. relay' = [relay EXCEPT ![c] = e] /\ e.at = "responding"
  BY <1>2, <1>4 DEF Forget, Errand
<1>6. Carried'
  BY <1>3, <1>5, PagesKept, ErrandGoesOn DEF Forget, SessionsInv
<1> QED
  BY <1>1, <1>6 DEF SessionsInv

LEMMA RespondKeeps == ASSUME SessionsInv, NEW c \in Relay, Respond(c) PROVE SessionsInv'
<1> DEFINE w == relay[c].window
<1>1. Numbered'
  BY NumbersKept DEF SessionsInv, Respond
<1>2. /\ relay[c] \in Errand /\ relay \in [Relay -> Errand] /\ jar' \in [Window -> Nat]
      /\ w \in Window /\ page \in [Window -> Shown] /\ page[w] \in Shown /\ relay[c].token \in Nat
  BY DEF Respond, SessionsInv, Carried, ShellTyped, Errand
<1>3. page' \in [Window -> Shown] /\ \A v \in Window : page'[v].at = "loading" => page'[v].token # None
  <2>1. CASE page' = page
    BY <2>1, PagesKept DEF SessionsInv
  <2>2. CASE page' = [page EXCEPT ![w].at = "ready", ![w].session = relay[c].token]
    <3>1. PICK p \in Shown : p = [page[w] EXCEPT !.at = "ready", !.session = relay[c].token]
      BY <1>2 DEF Shown
    <3>2. page' = [page EXCEPT ![w] = p] /\ p.at = "ready"
      BY <1>2, <2>2, <3>1 DEF Shown
    <3> QED
      BY <1>2, <3>2 DEF SessionsInv, Carried, TokensCarried
  <2>3. CASE page' = [page EXCEPT ![w].at = "refused"]
    <3>1. PICK p \in Shown : p = [page[w] EXCEPT !.at = "refused"]
      BY <1>2 DEF Shown
    <3>2. page' = [page EXCEPT ![w] = p] /\ p.at = "refused"
      BY <1>2, <2>3, <3>1 DEF Shown
    <3> QED
      BY <1>2, <3>2 DEF SessionsInv, Carried, TokensCarried
  <2> QED
    BY <2>1, <2>2, <2>3 DEF Respond
<1>4. CASE relay' = [relay EXCEPT ![c] = [relay[c] EXCEPT !.at = "recovering"]]
  <2>1. PICK e \in Errand : e = [relay[c] EXCEPT !.at = "recovering"]
    BY <1>2 DEF Errand
  <2>2. relay' = [relay EXCEPT ![c] = e] /\ e.at = "recovering"
    BY <1>2, <1>4, <2>1 DEF Errand
  <2> QED
    BY <1>1, <1>2, <1>3, <2>2, ErrandGoesOn DEF SessionsInv
<1>5. CASE relay' = [relay EXCEPT ![c] = Free]
  BY <1>1, <1>2, <1>3, <1>5, FreedKeeps DEF SessionsInv
<1> QED
  BY <1>4, <1>5 DEF Respond

(* The token that is asked for is a new one.                               *)
LEMMA RecoverKeeps == ASSUME SessionsInv, NEW c \in Relay, Recover(c) PROVE SessionsInv'
<1> DEFINE w == relay[c].window
           new == minted + 1
<1>1. /\ relay[c] \in Errand /\ relay \in [Relay -> Errand] /\ jar' \in [Window -> Nat]
      /\ w \in Window /\ minted \in Nat
  BY DEF Recover, SessionsInv, Carried, Numbered, CoreTyped, ShellTyped, Errand
<1>2. CASE /\ minted' = new /\ token' = [token EXCEPT ![w] = new]
           /\ relay' = [relay EXCEPT ![c].at = "navigating", ![c].token = new]
  <2>1. new \in Nat /\ new # None
    BY <1>1 DEF None
  <2>2. PICK e \in Errand : relay' = [relay EXCEPT ![c] = e] /\ e.at = "navigating" /\ e.token # None
    BY ZenonT(40), <1>2, <2>1, NewTokenIs DEF SessionsInv
  <2>3. Carried'
    BY <1>1, <2>2, PagesKept, ErrandGoesOn DEF Recover, SessionsInv
  <2> HIDE DEF w
  <2>4. live' = live /\ byWindow' = byWindow
    BY DEF Recover
  <2>5. \A v \in Window : token[v] \in 0..minted /\ byWindow[v] \in 0..minted
    BY DEF SessionsInv, Numbered, CoreTyped
  <2>6. \A v \in Window : token'[v] = IF v = w THEN new ELSE token[v]
    BY <1>2 DEF SessionsInv, Numbered, CoreTyped
  <2>7. CoreTyped'
    <3>1. token' \in [Window -> 0..minted']
      <4>1. \A v \in Window : token'[v] \in 0..minted'
        BY <1>1, <1>2, <2>5, <2>6
      <4>2. token' = [v \in Window |-> token'[v]]
        BY <1>2 DEF SessionsInv, Numbered, CoreTyped
      <4> QED
        BY <4>1, <4>2, Zenon
    <3>2. byWindow \in [Window -> 0..minted']
      BY <1>1, <1>2 DEF SessionsInv, Numbered, CoreTyped
    <3> QED
      BY <1>1, <1>2, <2>4, <3>1, <3>2 DEF SessionsInv, Numbered, CoreTyped
  <2>8. NumbersDiffer'
    BY <1>1, <2>4, <2>5, <2>6 DEF SessionsInv, Numbered, NumbersDiffer
  <2>9. TablesAgree'
    BY <2>4 DEF SessionsInv, Numbered, TablesAgree
  <2> QED
    BY <2>3, <2>7, <2>8, <2>9 DEF SessionsInv, Numbered
<1>3. CASE relay' = [relay EXCEPT ![c] = Free] /\ UNCHANGED <<minted, token>>
  <2>1. Carried'
    BY <1>1, <1>3, PagesKept, FreedKeeps DEF Recover, SessionsInv
  <2> QED
    BY <1>3, <2>1, NumbersKept DEF Recover, SessionsInv
<1> QED
  BY <1>2, <1>3 DEF Recover

LEMMA NavigateKeeps == ASSUME SessionsInv, NEW c \in Relay, Navigate(c) PROVE SessionsInv'
<1> DEFINE w == relay[c].window
<1>1. Numbered'
  BY NumbersKept DEF SessionsInv, Navigate
<1>2. /\ w \in Window /\ page \in [Window -> Shown] /\ jar' \in [Window -> Nat]
      /\ relay[c].token \in Nat /\ relay[c].token # None
  BY DEF Navigate, SessionsInv, Carried, ShellTyped, TokensCarried, Errand
<1>3. page' \in [Window -> Shown] /\ \A v \in Window : page'[v].at = "loading" => page'[v].token # None
  <2>1. CASE page' = page
    BY <2>1, PagesKept DEF SessionsInv
  <2>2. CASE page' = [page EXCEPT ![w] = [at |-> "loading", token |-> relay[c].token, session |-> None]]
    <3>1. PICK p \in Shown : p = [at |-> "loading", token |-> relay[c].token, session |-> None]
      BY <1>2 DEF Shown, None
    <3>2. page' = [page EXCEPT ![w] = p] /\ p.token # None
      BY <1>2, <2>2, <3>1
    <3> QED
      BY <1>2, <3>2 DEF SessionsInv, Carried, TokensCarried
  <2> QED
    BY <2>1, <2>2 DEF Navigate
<1>4. Carried'
  BY <1>2, <1>3, FreedKeeps DEF Navigate, SessionsInv
<1> QED
  BY <1>1, <1>4 DEF SessionsInv

LEMMA DestroyKeeps == ASSUME SessionsInv, NEW w \in Window, Destroy(w) PROVE SessionsInv'
<1>1. Numbered'
  BY NumbersKept DEF SessionsInv, Destroy
<1>2. PICK p \in Shown : p = [at |-> "destroyed", token |-> None, session |-> None]
  BY DEF Shown, None
<1>3. page' = [page EXCEPT ![w] = p] /\ p.at = "destroyed"
  BY <1>2 DEF Destroy
<1>4. jar' \in [Window -> Nat]
  BY DEF Destroy, SessionsInv, Carried, ShellTyped, None
<1>5. page' \in [Window -> Shown] /\ \A v \in Window : page'[v].at = "loading" => page'[v].token # None
  BY <1>3 DEF SessionsInv, Carried, ShellTyped, TokensCarried
<1>6. ShellTyped'
  BY <1>4, <1>5 DEF Destroy, SessionsInv, Carried, ShellTyped
<1>7. TokensCarried'
  BY <1>5 DEF Destroy, SessionsInv, Carried, TokensCarried
<1> QED
  BY <1>1, <1>6, <1>7 DEF SessionsInv, Carried

LEMMA EndWindowKeeps == ASSUME SessionsInv, NEW w \in Window, EndWindow(w) PROVE SessionsInv'
<1>1. Carried'
  BY ShellKept DEF SessionsInv, EndWindow
<1>2. byWindow[w] \in Nat /\ byWindow \in [Window -> 0..minted]
  BY DEF SessionsInv, Numbered, CoreTyped
<1>3. \A v \in Window : byWindow'[v] = IF byWindow[v] = byWindow[w] THEN None ELSE byWindow[v]
  BY <1>2 DEF EndWindow, SessionsInv, Numbered, NumbersDiffer
<1>4. byWindow' = [v \in Window |-> byWindow'[v]]
  BY <1>2 DEF EndWindow
<1>5. Numbered'
  BY <1>2, <1>3, <1>4, SessionGoes DEF EndWindow, SessionsInv
<1> QED
  BY <1>1, <1>5 DEF SessionsInv

LEMMA SessionsStep == SessionsInv /\ [SessionsNext]_sessionVars => SessionsInv'
<1> SUFFICES ASSUME SessionsInv, [SessionsNext]_sessionVars PROVE SessionsInv'
  OBVIOUS
<1>1. CASE TimePasses
  BY <1>1, TimePassesKeeps
<1>2. ASSUME NEW c \in Relay,
             \/ Handle(c) \/ Unreachable(c) \/ Absorb(c) \/ Forget(c) \/ Respond(c) \/ Recover(c) \/ Navigate(c)
             \/ \E w \in Window : Send(c, w)
      PROVE  SessionsInv'
  BY <1>2, HandleKeeps, UnreachableKeeps, AbsorbKeeps, ForgetKeeps, RespondKeeps, RecoverKeeps, NavigateKeeps, SendKeeps
<1>3. ASSUME NEW w \in Window, Destroy(w) \/ EndWindow(w) PROVE SessionsInv'
  BY <1>3, DestroyKeeps, EndWindowKeeps
<1>4. CASE UNCHANGED sessionVars
  BY <1>4, NumbersKept, ShellKept DEF sessionVars, SessionsInv
<1> QED
  BY <1>1, <1>2, <1>3, <1>4 DEF SessionsNext

(* A window has one session at most, under the number of a token that is   *)
(* no longer good, and the Core's two tables agree; for any number of      *)
(* windows and threads, in whatever order tokens are exchanged, sessions   *)
(* end and answers come back.                                              *)
THEOREM AlwaysOneSessionPerWindow == SessionsSpec => []OneSessionPerWindow
<1>1. SessionsInv => OneSessionPerWindow
  BY NumberedGivesSessions DEF SessionsInv
<1> QED
  BY <1>1, SessionsStart, SessionsStep, PTL DEF SessionsSpec
-----------------------------------------------------------------------------
(* The transcript pipeline.  A call of it goes from place to place, and    *)
(* what is done by then can be told from the place (StepsAreDone); the     *)
(* attempts a job has had are those the runner counts (AttemptsAgree).     *)

TakenAt == {"begin", "version", "stage", "publish", "notion", "record", "complete", "return", "raised", "refused"}
Taken ==
  [at : TakenAt, hash : Hash, claimed : BOOLEAN, attempts : Nat, error : Error \cup {"none"}, wasDone : BOOLEAN]
JobOf == [status : {"none", "PENDING", "PROCESSING", "FAILED", "READY", "PARTIAL"}, attempts : Nat]

(* Every variable of the argument has its type.                            *)
TranscriptTyped ==
  /\ jobs \in [Hash -> JobOf]
  /\ published \in [now : Hash \cup {NoHash}, ever : SUBSET Hash]
  /\ notion \in [now : Hash \cup {NoHash}, shown : [Hash -> {"none", "READY", "PARTIAL"}]]
  /\ records \subseteq Hash /\ versions \subseteq Hash
  /\ tick \in Taken \cup {NoTick} /\ calls \in Nat

(* A version is registered before it is staged, published before the       *)
(* Session page names it, and so on; only a job that is not done gets so   *)
(* far.                                                                    *)
StepsAreDone ==
  tick # NoTick =>
    /\ tick.at = "begin" => (tick.wasDone <=> jobs[H].status \in Finished)
    /\ tick.at \in {"version", "stage", "publish", "notion", "record", "complete"} => ~tick.wasDone
    /\ tick.at \in {"stage", "publish", "notion", "record", "complete"} => H \in versions
    /\ tick.at \in {"notion", "record", "complete"} => H \in published.ever
    /\ tick.at \in {"record", "complete"} => notion.shown[H] = Outcome(H)
    /\ tick.at = "complete" => H \in records

(* A job that waits has attempts left, counted as the runner counts them.  *)
AttemptsAgree ==
  /\ \A h \in Hash :
       /\ jobs[h].status = "none" => jobs[h].attempts = 0
       /\ jobs[h].status = "PENDING" => jobs[h].attempts < MaxAttempts
  /\ tick # NoTick /\ tick.claimed => jobs[H].attempts = tick.attempts

(* The first conjunct of ReadyComesLast, without the attempts.             *)
OneAfterTheOther ==
  \A h \in Hash :
    /\ jobs[h].status \in Finished => h \in records /\ jobs[h].status = notion.shown[h]
    /\ h \in records => notion.shown[h] = Outcome(h)
    /\ notion.shown[h] # "none" => h \in published.ever
    /\ h \in published.ever => h \in versions

TranscriptInv == TranscriptTyped /\ StepsAreDone /\ AttemptsAgree /\ OneAfterTheOther

(* A place of a call is none of the runner at rest.                        *)
LEMMA TakenIsNoRest == \A t \in Taken : t # NoTick /\ t.at # "idle"
<1> TAKE t \in Taken
<1>1. t.at # "idle"
  BY DEF Taken, TakenAt
<1> QED
  BY <1>1 DEF NoTick

(* What the invariant says.                                                *)
LEMMA TranscriptInvIsEnough == TranscriptInv => ReadyComesLast
<1> SUFFICES ASSUME TranscriptInv PROVE ReadyComesLast
  OBVIOUS
<1>1. tick.at \in {"notion", "record", "complete"} => tick # NoTick
  BY DEF NoTick
<1> QED
  BY <1>1 DEF TranscriptInv, StepsAreDone, AttemptsAgree, OneAfterTheOther, ReadyComesLast

(* Nothing is known of any version at first.                               *)
LEMMA TranscriptStarts == TranscriptInit => TranscriptInv
<1> SUFFICES ASSUME TranscriptInit PROVE TranscriptInv
  OBVIOUS
<1> USE DEF TranscriptInit
<1>1. TranscriptTyped
  BY DEF TranscriptTyped, JobOf
<1>2. StepsAreDone /\ AttemptsAgree
  BY DEF StepsAreDone, AttemptsAgree
<1>3. OneAfterTheOther
  BY DEF OneAfterTheOther, Finished
<1> QED
  BY <1>1, <1>2, <1>3 DEF TranscriptInv

(* A call goes on from one place to another and nothing else changes.      *)
LEMMA CallGoesOn ==
  ASSUME TranscriptInv, tick # NoTick, NEW place \in TakenAt, NEW e \in Error \cup {"none"},
         tick' = [tick EXCEPT !.at = place, !.error = e]
  PROVE  /\ tick' \in Taken /\ tick' # NoTick /\ tick'.at = place /\ H' = H /\ H \in Hash /\ tick'.error = e
         /\ tick'.claimed = tick.claimed /\ tick'.attempts = tick.attempts /\ tick'.wasDone = tick.wasDone
<1>1. tick \in Taken
  BY DEF TranscriptInv, TranscriptTyped
<1>2. tick' \in Taken
  BY <1>1 DEF Taken
<1> QED
  BY <1>1, <1>2, TakenIsNoRest DEF Taken, H

(* The two ways a call goes on are such.                                   *)
LEMMA WaysToGoOn ==
  ASSUME TranscriptInv, tick # NoTick
  PROVE  /\ \A place \in TakenAt : Proceeds(place) => tick' = [tick EXCEPT !.at = place, !.error = tick.error]
         /\ tick.error \in Error \cup {"none"} /\ tick \in Taken
         /\ \A e \in Error : Raised(e) => tick' = [tick EXCEPT !.at = "raised", !.error = e]
<1>1. tick \in Taken
  BY DEF TranscriptInv, TranscriptTyped
<1>2. [tick EXCEPT !.error = tick.error] = tick
  BY <1>1 DEF Taken
<1> QED
  BY <1>1, <1>2 DEF Taken, Proceeds, Raised

(* The call goes on, or raises.                                            *)
LEMMA ThenGoesOn ==
  ASSUME TranscriptInv, tick # NoTick, NEW place \in TakenAt, Then(place)
  PROVE  \E e \in Error \cup {"none"}, to \in {place, "raised"} : tick' = [tick EXCEPT !.at = to, !.error = e]
<1>1. CASE Proceeds(place)
  BY <1>1, WaysToGoOn
<1>2. CASE \E e \in Error : Raised(e)
  BY <1>2, WaysToGoOn
<1> QED
  BY <1>1, <1>2 DEF Then

(* What a call has done is done, if it does no more than go on.            *)
LEMMA OnlyGoesOn ==
  ASSUME TranscriptInv, tick # NoTick, UNCHANGED <<published, notion, records, versions, jobs, calls>>,
         NEW place \in TakenAt, NEW e \in Error \cup {"none"}, tick' = [tick EXCEPT !.at = place, !.error = e],
         place = "begin" => FALSE,
         place \in {"version", "stage", "publish", "notion", "record", "complete"} => ~tick.wasDone,
         place \in {"stage", "publish", "notion", "record", "complete"} => H \in versions,
         place \in {"notion", "record", "complete"} => H \in published.ever,
         place \in {"record", "complete"} => notion.shown[H] = Outcome(H),
         place = "complete" => H \in records
  PROVE  TranscriptInv'
<1>1. /\ tick' \in Taken /\ tick' # NoTick /\ tick'.at = place /\ H' = H /\ H \in Hash
      /\ tick'.claimed = tick.claimed /\ tick'.attempts = tick.attempts /\ tick'.wasDone = tick.wasDone
  BY CallGoesOn
<1>2. TranscriptTyped'
  BY <1>1 DEF TranscriptInv, TranscriptTyped
<1>3. StepsAreDone'
  BY <1>1 DEF StepsAreDone, Outcome
<1>4. AttemptsAgree'
  BY <1>1 DEF TranscriptInv, AttemptsAgree
<1>5. OneAfterTheOther'
  BY DEF TranscriptInv, OneAfterTheOther, Outcome
<1> QED
  BY <1>2, <1>3, <1>4, <1>5 DEF TranscriptInv

(* The status of one job changes, to one the others allow.                 *)
LEMMA StatusChanges ==
  ASSUME TranscriptInv, NEW h \in Hash, NEW s \in {"PENDING", "PROCESSING", "FAILED", "READY", "PARTIAL"},
         NEW n \in Nat, jobs' = [jobs EXCEPT ![h] = [status |-> s, attempts |-> n]],
         UNCHANGED <<published, notion, records, versions>>,
         s = "PENDING" => n < MaxAttempts,
         s \in Finished => h \in records /\ s = Outcome(h)
  PROVE  /\ jobs' \in [Hash -> JobOf] /\ OneAfterTheOther'
         /\ \A g \in Hash : /\ jobs'[g].status = "none" => jobs'[g].attempts = 0
                            /\ jobs'[g].status = "PENDING" => jobs'[g].attempts < MaxAttempts
         /\ jobs'[h].attempts = n /\ jobs'[h].status = s
<1>1. jobs \in [Hash -> JobOf] /\ [status |-> s, attempts |-> n] \in JobOf
  BY DEF TranscriptInv, TranscriptTyped, JobOf
<1>2. jobs' \in [Hash -> JobOf]
  BY <1>1
<1>3. \A g \in Hash : g # h => jobs'[g] = jobs[g]
  BY <1>1
<1>4. jobs'[h].status = s /\ jobs'[h].attempts = n
  BY <1>1
<1>5. OneAfterTheOther'
  <2>1. \A g \in Hash : jobs'[g].status \in Finished => g \in records /\ jobs'[g].status = notion.shown[g]
    <3> TAKE g \in Hash
    <3>1. CASE g = h
      BY <3>1, <1>4 DEF TranscriptInv, OneAfterTheOther
    <3>2. CASE g # h
      BY <3>2, <1>3 DEF TranscriptInv, OneAfterTheOther
    <3> QED
      BY <3>1, <3>2
  <2> QED
    BY <2>1 DEF TranscriptInv, OneAfterTheOther, Outcome
<1>6. \A g \in Hash : /\ jobs'[g].status = "none" => jobs'[g].attempts = 0
                      /\ jobs'[g].status = "PENDING" => jobs'[g].attempts < MaxAttempts
  BY <1>3, <1>4 DEF TranscriptInv, AttemptsAgree
<1> QED
  BY <1>2, <1>4, <1>5, <1>6

(* An update of the status alone is such a change.                         *)
LEMMA StatusAlone ==
  ASSUME TranscriptInv, NEW h \in Hash, NEW s, jobs' = [jobs EXCEPT ![h].status = s]
  PROVE  jobs' = [jobs EXCEPT ![h] = [status |-> s, attempts |-> jobs[h].attempts]] /\ jobs[h].attempts \in Nat
<1>1. jobs[h] \in JobOf /\ jobs \in [Hash -> JobOf]
  BY DEF TranscriptInv, TranscriptTyped
<1>2. [jobs[h] EXCEPT !.status = s] = [status |-> s, attempts |-> jobs[h].attempts]
  BY <1>1 DEF JobOf
<1> QED
  BY <1>1, <1>2 DEF JobOf

(* The runner discovers a job, or takes one up.                            *)
LEMMA RunnerTakes ==
  ASSUME TranscriptInv, NEW h \in Hash, Discover(h) \/ Claim(h) \/ Call(h)
  PROVE  TranscriptInv'
<1> USE DEF TranscriptInv
<1>0. jobs[h] \in JobOf /\ jobs[h].attempts \in Nat
  BY DEF TranscriptTyped, JobOf
<1>1. CASE Discover(h)
  <2>1. jobs' = [jobs EXCEPT ![h].status = "PENDING"] /\ jobs[h].status = "none"
        /\ UNCHANGED <<published, notion, records, versions, tick, calls>> /\ tick = NoTick
    BY <1>1 DEF Discover, outside
  <2>2. jobs' = [jobs EXCEPT ![h] = [status |-> "PENDING", attempts |-> jobs[h].attempts]]
    BY <2>1, StatusAlone
  <2>3. jobs[h].attempts < MaxAttempts
    BY <2>1, TranscriptAssumption DEF AttemptsAgree
  <2>4. /\ jobs' \in [Hash -> JobOf] /\ OneAfterTheOther'
        /\ \A g \in Hash : /\ jobs'[g].status = "none" => jobs'[g].attempts = 0
                           /\ jobs'[g].status = "PENDING" => jobs'[g].attempts < MaxAttempts
    BY <1>0, <2>1, <2>2, <2>3, StatusChanges DEF Finished
  <2> QED
    BY <2>1, <2>4 DEF TranscriptTyped, StepsAreDone, AttemptsAgree
<1>2. CASE Claim(h)
  <2>1. /\ jobs' = [jobs EXCEPT ![h] = [status |-> "PROCESSING", attempts |-> @.attempts + 1]]
        /\ jobs[h].status \in {"PENDING", "PROCESSING"}
        /\ UNCHANGED <<published, notion, records, versions>> /\ calls' = calls + 1
        /\ tick' = [at |-> "begin", hash |-> h, claimed |-> TRUE, attempts |-> jobs[h].attempts + 1, error |-> "none",
                    wasDone |-> FALSE]
    <3>1. jobs[h].status \in {"PENDING", "PROCESSING"}
      BY <1>2 DEF Claim
    <3>2. (jobs[h].status \in Finished) = FALSE
      BY <3>1 DEF Finished
    <3> QED
      BY <1>2, <3>1, <3>2 DEF Claim, Takes, outside
  <2>2. jobs[h].attempts + 1 \in Nat
    BY <1>0
  <2>3. /\ jobs' \in [Hash -> JobOf] /\ OneAfterTheOther'
        /\ \A g \in Hash : /\ jobs'[g].status = "none" => jobs'[g].attempts = 0
                           /\ jobs'[g].status = "PENDING" => jobs'[g].attempts < MaxAttempts
        /\ jobs'[h].attempts = jobs[h].attempts + 1 /\ jobs'[h].status = "PROCESSING"
    BY <2>1, <2>2, StatusChanges DEF Finished
  <2>4. tick' \in Taken /\ H' = h /\ tick'.at = "begin" /\ ~tick'.wasDone /\ tick'.attempts = jobs[h].attempts + 1
    BY <2>1, <2>2 DEF Taken, TakenAt, H
  <2>5. TranscriptTyped'
    BY <2>1, <2>3, <2>4 DEF TranscriptTyped
  <2>6. StepsAreDone'
    BY <2>3, <2>4 DEF StepsAreDone, Finished
  <2>7. AttemptsAgree'
    BY <2>3, <2>4 DEF AttemptsAgree
  <2> QED
    BY <2>3, <2>5, <2>6, <2>7
<1>3. CASE Call(h)
  <2>1. /\ UNCHANGED <<jobs, published, notion, records, versions>> /\ calls' = calls + 1
        /\ tick' = [at |-> "begin", hash |-> h, claimed |-> FALSE, attempts |-> 0, error |-> "none",
                    wasDone |-> jobs[h].status \in Finished]
    BY <1>3 DEF Call, Takes, outside
  <2>2. PICK b \in BOOLEAN : (jobs[h].status \in Finished) = b
    <3>1. CASE jobs[h].status \in Finished
      <4>1. (jobs[h].status \in Finished) = TRUE
        BY <3>1
      <4> QED
        BY <4>1, Zenon
    <3>2. CASE jobs[h].status \notin Finished
      <4>1. (jobs[h].status \in Finished) = FALSE
        BY <3>2
      <4> QED
        BY <4>1, Zenon
    <3> QED
      BY <3>1, <3>2
  <2>3. tick' \in Taken /\ H' = h /\ tick'.at = "begin" /\ (tick'.wasDone <=> jobs[h].status \in Finished) /\ ~tick'.claimed
    <3>1. tick' = [at |-> "begin", hash |-> h, claimed |-> FALSE, attempts |-> 0, error |-> "none", wasDone |-> b]
      BY <2>1, <2>2
    <3>2. tick' \in Taken /\ H' = h /\ tick'.at = "begin" /\ tick'.wasDone = b /\ ~tick'.claimed
      BY <3>1 DEF Taken, TakenAt, H
    <3> QED
      BY <2>2, <3>2
  <2>4. TranscriptTyped'
    BY <2>1, <2>3 DEF TranscriptTyped
  <2>5. StepsAreDone'
    BY <2>1, <2>3 DEF StepsAreDone
  <2>6. AttemptsAgree' /\ OneAfterTheOther'
    BY <2>1, <2>3 DEF AttemptsAgree, OneAfterTheOther, Outcome
  <2> QED
    BY <2>4, <2>5, <2>6
<1> QED
  BY <1>1, <1>2, <1>3

(* The call ends, or the process dies.                                     *)
LEMMA CallEnds ==
  ASSUME TranscriptInv, Return \/ WorkerDies
  PROVE  TranscriptInv'
<1>1. tick' = NoTick /\ UNCHANGED <<jobs, published, notion, records, versions, calls>>
  BY DEF Return, WorkerDies, outside
<1> QED
  BY <1>1 DEF TranscriptInv, TranscriptTyped, StepsAreDone, AttemptsAgree, OneAfterTheOther, Outcome

(* The steps that leave the job as it is.                                  *)
LEMMA CallSteps ==
  ASSUME TranscriptInv, FindDone \/ CreateJobFails \/ RegisterVersion \/ Stage \/ Publish \/ UpdateNotion \/ Record \/ StepFails
  PROVE  TranscriptInv'
<1>0. tick # NoTick /\ tick \in Taken /\ H \in Hash /\ tick.error \in Error \cup {"none"}
  <2>1. tick # NoTick
    BY DEF FindDone, CreateJobFails, RegisterVersion, Stage, Publish, UpdateNotion, Record, StepFails, NoTick
  <2> QED
    BY <2>1, WaysToGoOn DEF TranscriptInv, TranscriptTyped, Taken, H
<1>1. CASE FindDone
  <2>1. versions' = versions \cup {H} /\ UNCHANGED <<jobs, published, notion, records, calls>> /\ Proceeds("return")
    BY <1>1 DEF FindDone
  <2>2. tick' = [tick EXCEPT !.at = "return", !.error = tick.error]
    BY <1>0, <2>1, WaysToGoOn DEF TakenAt
  <2>3. /\ tick' \in Taken /\ tick'.at = "return" /\ H' = H
        /\ tick'.claimed = tick.claimed /\ tick'.attempts = tick.attempts
    BY <1>0, <2>2, CallGoesOn DEF TakenAt
  <2> QED
    BY <1>0, <2>1, <2>3 DEF TranscriptInv, TranscriptTyped, StepsAreDone, AttemptsAgree, OneAfterTheOther, Outcome
<1>2. CASE CreateJobFails
  <2>1. tick' = [tick EXCEPT !.at = "refused", !.error = "source"]
        /\ UNCHANGED <<jobs, published, notion, records, versions, calls>>
    BY <1>2 DEF CreateJobFails, outside
  <2> QED
    BY <1>0, <2>1, OnlyGoesOn DEF TakenAt, Error
<1>3. CASE RegisterVersion
  <2>1. /\ versions' = versions \cup {H} /\ UNCHANGED <<jobs, published, notion, records, calls>>
        /\ Proceeds("stage") /\ ~tick.wasDone
    BY <1>0, <1>3 DEF RegisterVersion, TranscriptInv, StepsAreDone
  <2>2. tick' = [tick EXCEPT !.at = "stage", !.error = tick.error]
    BY <1>0, <2>1, WaysToGoOn DEF TakenAt
  <2>3. /\ tick' \in Taken /\ tick'.at = "stage" /\ H' = H
        /\ tick'.claimed = tick.claimed /\ tick'.attempts = tick.attempts /\ tick'.wasDone = tick.wasDone
    BY <1>0, <2>2, CallGoesOn DEF TakenAt
  <2> QED
    BY <1>0, <2>1, <2>3 DEF TranscriptInv, TranscriptTyped, StepsAreDone, AttemptsAgree, OneAfterTheOther, Outcome
<1>4. CASE Stage
  <2>1. /\ UNCHANGED <<jobs, published, notion, records, versions, calls>> /\ tick.at = "stage" /\ Proceeds("publish")
    BY <1>4 DEF Stage, outside
  <2>2. tick' = [tick EXCEPT !.at = "publish", !.error = tick.error]
    BY <1>0, <2>1, WaysToGoOn DEF TakenAt
  <2> QED
    BY <1>0, <2>1, <2>2, OnlyGoesOn DEF TakenAt, TranscriptInv, StepsAreDone
<1>5. CASE Publish
  <2>1. /\ published' = [now |-> H, ever |-> published.ever \cup {H}]
        /\ UNCHANGED <<jobs, notion, records, versions, calls>> /\ tick.at = "publish" /\ Then("notion")
    BY <1>5 DEF Publish
  <2>2. PICK e \in Error \cup {"none"}, to \in {"notion", "raised"} : tick' = [tick EXCEPT !.at = to, !.error = e]
    BY <1>0, <2>1, ThenGoesOn DEF TakenAt
  <2>3. /\ tick' \in Taken /\ tick'.at = to /\ H' = H
        /\ tick'.claimed = tick.claimed /\ tick'.attempts = tick.attempts /\ tick'.wasDone = tick.wasDone
    BY <1>0, <2>2, CallGoesOn DEF TakenAt
  <2>4. published' \in [now : Hash \cup {NoHash}, ever : SUBSET Hash] /\ published'.ever = published.ever \cup {H}
    BY <1>0, <2>1 DEF TranscriptInv, TranscriptTyped
  <2>5. H \in versions /\ ~tick.wasDone
    BY <1>0, <2>1 DEF TranscriptInv, StepsAreDone
  <2> QED
    BY <1>0, <2>1, <2>3, <2>4, <2>5 DEF TranscriptInv, TranscriptTyped, StepsAreDone, AttemptsAgree, OneAfterTheOther, Outcome
<1>6. CASE UpdateNotion
  <2>1. /\ notion' = [now |-> H, shown |-> [notion.shown EXCEPT ![H] = Outcome(H)]]
        /\ UNCHANGED <<jobs, published, records, versions, calls>> /\ tick.at = "notion" /\ Then("record")
    BY <1>6 DEF UpdateNotion
  <2>2. PICK e \in Error \cup {"none"}, to \in {"record", "raised"} : tick' = [tick EXCEPT !.at = to, !.error = e]
    BY <1>0, <2>1, ThenGoesOn DEF TakenAt
  <2>3. /\ tick' \in Taken /\ tick'.at = to /\ H' = H
        /\ tick'.claimed = tick.claimed /\ tick'.attempts = tick.attempts /\ tick'.wasDone = tick.wasDone
    BY <1>0, <2>2, CallGoesOn DEF TakenAt
  <2>4. H \in versions /\ ~tick.wasDone /\ H \in published.ever
    BY <1>0, <2>1 DEF TranscriptInv, StepsAreDone
  <2>5. Outcome(H) \in {"READY", "PARTIAL"} /\ notion.shown \in [Hash -> {"none", "READY", "PARTIAL"}]
    BY DEF Outcome, TranscriptInv, TranscriptTyped
  <2>6. /\ notion' \in [now : Hash \cup {NoHash}, shown : [Hash -> {"none", "READY", "PARTIAL"}]]
        /\ notion'.shown[H] = Outcome(H) /\ \A g \in Hash : g # H => notion'.shown[g] = notion.shown[g]
    BY <1>0, <2>1, <2>5
  <2>7. TranscriptTyped' /\ StepsAreDone' /\ AttemptsAgree'
    BY <1>0, <2>1, <2>3, <2>4, <2>6 DEF TranscriptInv, TranscriptTyped, StepsAreDone, AttemptsAgree, Outcome
  <2>8. OneAfterTheOther'
    <3> SUFFICES ASSUME NEW g \in Hash
                 PROVE  /\ jobs[g].status \in Finished => g \in records /\ jobs[g].status = notion'.shown[g]
                        /\ g \in records => notion'.shown[g] = Outcome(g)
                        /\ notion'.shown[g] # "none" => g \in published.ever
                        /\ g \in published.ever => g \in versions
      BY <2>1 DEF OneAfterTheOther, Outcome
    <3> QED
      BY <2>4, <2>6 DEF TranscriptInv, OneAfterTheOther
  <2> QED
    BY <2>7, <2>8 DEF TranscriptInv
<1>7. CASE Record
  <2>1. /\ records' = records \cup {H} /\ UNCHANGED <<jobs, published, notion, versions, calls>>
        /\ tick.at = "record" /\ Then("complete")
    BY <1>7 DEF Record
  <2>2. PICK e \in Error \cup {"none"}, to \in {"complete", "raised"} : tick' = [tick EXCEPT !.at = to, !.error = e]
    BY <1>0, <2>1, ThenGoesOn DEF TakenAt
  <2>3. /\ tick' \in Taken /\ tick'.at = to /\ H' = H
        /\ tick'.claimed = tick.claimed /\ tick'.attempts = tick.attempts /\ tick'.wasDone = tick.wasDone
    BY <1>0, <2>2, CallGoesOn DEF TakenAt
  <2>4. H \in versions /\ ~tick.wasDone /\ H \in published.ever /\ notion.shown[H] = Outcome(H)
    BY <1>0, <2>1 DEF TranscriptInv, StepsAreDone
  <2> QED
    BY <1>0, <2>1, <2>3, <2>4 DEF TranscriptInv, TranscriptTyped, StepsAreDone, AttemptsAgree, OneAfterTheOther, Outcome
<1>8. CASE StepFails
  <2>1. PICK e \in Error : Raised(e)
    BY <1>8 DEF StepFails
  <2>2. tick' = [tick EXCEPT !.at = "raised", !.error = e] /\ UNCHANGED <<jobs, published, notion, records, versions, calls>>
    BY <1>0, <1>8, <2>1, WaysToGoOn DEF StepFails, outside
  <2> QED
    BY <1>0, <2>2, OnlyGoesOn DEF TakenAt
<1> QED
  BY <1>1, <1>2, <1>3, <1>4, <1>5, <1>6, <1>7, <1>8

(* The steps that change the job's status.                                 *)
LEMMA JobSteps ==
  ASSUME TranscriptInv, CreateJob \/ Complete \/ FailJob \/ Settle
  PROVE  TranscriptInv'
<1>0. /\ tick # NoTick /\ tick \in Taken /\ H \in Hash /\ tick.error \in Error \cup {"none"}
      /\ jobs[H] \in JobOf /\ jobs[H].attempts \in Nat
  <2>1. tick # NoTick
    BY DEF CreateJob, Complete, FailJob, Settle, NoTick
  <2> QED
    BY <2>1, WaysToGoOn DEF TranscriptInv, TranscriptTyped, Taken, H, JobOf
<1>1. CASE CreateJob
  <2>1. /\ jobs' = [jobs EXCEPT ![H].status = "PROCESSING"] /\ UNCHANGED <<published, notion, records, versions, calls>>
        /\ ~tick.wasDone /\ Proceeds("version")
    BY <1>0, <1>1 DEF CreateJob, outside, AlreadyDone, TranscriptInv, StepsAreDone
  <2>2. tick' = [tick EXCEPT !.at = "version", !.error = tick.error]
    BY <1>0, <2>1, WaysToGoOn DEF TakenAt
  <2>3. /\ tick' \in Taken /\ tick'.at = "version" /\ H' = H
        /\ tick'.claimed = tick.claimed /\ tick'.attempts = tick.attempts /\ tick'.wasDone = tick.wasDone
    BY <1>0, <2>2, CallGoesOn DEF TakenAt
  <2>4. jobs' = [jobs EXCEPT ![H] = [status |-> "PROCESSING", attempts |-> jobs[H].attempts]]
    BY <1>0, <2>1, StatusAlone
  <2>5. /\ jobs' \in [Hash -> JobOf] /\ OneAfterTheOther'
        /\ \A g \in Hash : /\ jobs'[g].status = "none" => jobs'[g].attempts = 0
                           /\ jobs'[g].status = "PENDING" => jobs'[g].attempts < MaxAttempts
        /\ jobs'[H].attempts = jobs[H].attempts
    BY <1>0, <2>1, <2>4, StatusChanges DEF Finished
  <2>6. TranscriptTyped' /\ StepsAreDone'
    BY <2>1, <2>3, <2>5 DEF TranscriptInv, TranscriptTyped, StepsAreDone
  <2>7. AttemptsAgree'
    BY <1>0, <2>3, <2>5 DEF TranscriptInv, AttemptsAgree
  <2> QED
    BY <2>5, <2>6, <2>7 DEF TranscriptInv
<1>2. CASE Complete
  <2>1. /\ jobs' = [jobs EXCEPT ![H].status = Outcome(H)] /\ UNCHANGED <<published, notion, records, versions, calls>>
        /\ H \in records /\ Then("return")
    BY <1>0, <1>2 DEF Complete, outside, TranscriptInv, StepsAreDone
  <2>2. PICK e \in Error \cup {"none"}, to \in {"return", "raised"} : tick' = [tick EXCEPT !.at = to, !.error = e]
    BY <1>0, <2>1, ThenGoesOn DEF TakenAt
  <2>3. /\ tick' \in Taken /\ tick'.at = to /\ H' = H
        /\ tick'.claimed = tick.claimed /\ tick'.attempts = tick.attempts
    BY <1>0, <2>2, CallGoesOn DEF TakenAt
  <2>4. jobs' = [jobs EXCEPT ![H] = [status |-> Outcome(H), attempts |-> jobs[H].attempts]]
    BY <1>0, <2>1, StatusAlone
  <2>5. Outcome(H) \in {"READY", "PARTIAL"}
    BY DEF Outcome
  <2>6. /\ jobs' \in [Hash -> JobOf] /\ OneAfterTheOther'
        /\ \A g \in Hash : /\ jobs'[g].status = "none" => jobs'[g].attempts = 0
                           /\ jobs'[g].status = "PENDING" => jobs'[g].attempts < MaxAttempts
        /\ jobs'[H].attempts = jobs[H].attempts
    <3>1. PICK s \in {"PENDING", "PROCESSING", "FAILED", "READY", "PARTIAL"} : s = Outcome(H)
      BY <2>5
    <3>2. s # "PENDING" /\ jobs' = [jobs EXCEPT ![H] = [status |-> s, attempts |-> jobs[H].attempts]]
      BY <2>4, <2>5, <3>1
    <3> QED
      <4>1. UNCHANGED <<published, notion, records, versions>> /\ (s \in Finished => H \in records /\ s = Outcome(H))
        BY <2>1, <3>1
      <4>2. s = "PENDING" => jobs[H].attempts < MaxAttempts
        BY <3>2
      <4>3. H \in Hash /\ jobs[H].attempts \in Nat
        BY <1>0
      <4> QED
        BY <3>1, <3>2, <4>1, <4>2, <4>3, StatusChanges
  <2>7. TranscriptTyped' /\ StepsAreDone'
    BY <2>1, <2>3, <2>6 DEF TranscriptInv, TranscriptTyped, StepsAreDone
  <2>8. AttemptsAgree'
    BY <1>0, <2>3, <2>6 DEF TranscriptInv, AttemptsAgree
  <2> QED
    BY <2>6, <2>7, <2>8 DEF TranscriptInv
<1>3. CASE FailJob
  <2>1. /\ jobs' = jobs \/ jobs' = [jobs EXCEPT ![H].status = "FAILED"]
        /\ UNCHANGED <<published, notion, records, versions, calls>> /\ Proceeds("refused")
    BY <1>3 DEF FailJob, outside
  <2>2. tick' = [tick EXCEPT !.at = "refused", !.error = tick.error]
    BY <1>0, <2>1, WaysToGoOn DEF TakenAt
  <2>3. CASE jobs' = jobs
    BY <1>0, <2>1, <2>2, <2>3, OnlyGoesOn DEF TakenAt
  <2>4. CASE jobs' = [jobs EXCEPT ![H].status = "FAILED"]
    <3>1. /\ tick' \in Taken /\ tick'.at = "refused" /\ H' = H
          /\ tick'.claimed = tick.claimed /\ tick'.attempts = tick.attempts
      BY <1>0, <2>2, CallGoesOn DEF TakenAt
    <3>2. jobs' = [jobs EXCEPT ![H] = [status |-> "FAILED", attempts |-> jobs[H].attempts]]
      BY <1>0, <2>4, StatusAlone
    <3>3. /\ jobs' \in [Hash -> JobOf] /\ OneAfterTheOther'
          /\ \A g \in Hash : /\ jobs'[g].status = "none" => jobs'[g].attempts = 0
                             /\ jobs'[g].status = "PENDING" => jobs'[g].attempts < MaxAttempts
          /\ jobs'[H].attempts = jobs[H].attempts
      BY <1>0, <2>1, <3>2, StatusChanges DEF Finished
    <3>4. TranscriptTyped' /\ StepsAreDone'
      BY <2>1, <3>1, <3>3 DEF TranscriptInv, TranscriptTyped, StepsAreDone
    <3>5. AttemptsAgree'
      BY <1>0, <3>1, <3>3 DEF TranscriptInv, AttemptsAgree
    <3> QED
      BY <3>3, <3>4, <3>5 DEF TranscriptInv
  <2> QED
    BY <2>1, <2>3, <2>4
<1>4. CASE Settle
  <2> DEFINE failed == IF jobs[H].status = "PROCESSING" THEN "FAILED" ELSE jobs[H].status
             next == IF failed \notin Finished /\ ShouldRetry(tick.error, tick.attempts) THEN "PENDING" ELSE failed
  <2>1. /\ jobs' = [jobs EXCEPT ![H].status = next] /\ UNCHANGED <<published, notion, records, versions, calls>>
        /\ tick' = NoTick /\ jobs[H].attempts = tick.attempts
    BY <1>0, <1>4 DEF Settle, outside, TranscriptInv, AttemptsAgree
  <2>2. jobs' = [jobs EXCEPT ![H] = [status |-> next, attempts |-> jobs[H].attempts]]
    BY <1>0, <2>1, StatusAlone
  <2>3. CASE next = jobs[H].status
    <3>1. jobs' = jobs
      BY <1>0, <2>1, <2>3 DEF TranscriptInv, TranscriptTyped, JobOf
    <3>2. TranscriptTyped' /\ StepsAreDone'
      BY <2>1, <3>1 DEF TranscriptInv, TranscriptTyped, StepsAreDone
    <3>3. AttemptsAgree' /\ OneAfterTheOther'
      BY <2>1, <3>1 DEF TranscriptInv, AttemptsAgree, OneAfterTheOther, Outcome
    <3> QED
      BY <3>2, <3>3 DEF TranscriptInv
  <2>4. CASE next # jobs[H].status
    <3>1. next \in {"PENDING", "FAILED"} /\ (next = "PENDING" => jobs[H].attempts < MaxAttempts)
      BY <2>1, <2>4 DEF ShouldRetry
    <3>2. /\ jobs' \in [Hash -> JobOf] /\ OneAfterTheOther'
          /\ \A g \in Hash : /\ jobs'[g].status = "none" => jobs'[g].attempts = 0
                             /\ jobs'[g].status = "PENDING" => jobs'[g].attempts < MaxAttempts
      <4> HIDE DEF next
      <4>1. PICK s \in {"PENDING", "FAILED"} : s = next
        BY <3>1
      <4>2. /\ jobs' = [jobs EXCEPT ![H] = [status |-> s, attempts |-> jobs[H].attempts]]
            /\ s = "PENDING" => jobs[H].attempts < MaxAttempts
            /\ s \notin Finished
        BY <2>2, <3>1, <4>1 DEF Finished
      <4>3. s \in {"PENDING", "PROCESSING", "FAILED", "READY", "PARTIAL"}
        BY <4>1
      <4> QED
        <5>1. UNCHANGED <<published, notion, records, versions>>
          BY <2>1
        <5>2. H \in Hash /\ jobs[H].attempts \in Nat
          BY <1>0
        <5> QED
          BY <4>2, <4>3, <5>1, <5>2, StatusChanges
    <3> QED
      BY <2>1, <3>2 DEF TranscriptInv, TranscriptTyped, StepsAreDone, AttemptsAgree
  <2> QED
    BY <2>3, <2>4
<1> QED
  BY <1>1, <1>2, <1>3, <1>4

(* The invariant is inductive.                                             *)
LEMMA TranscriptGoesOn == TranscriptInv /\ [TranscriptNext]_transcriptVars => TranscriptInv'
<1> SUFFICES ASSUME TranscriptInv, [TranscriptNext]_transcriptVars PROVE TranscriptInv'
  OBVIOUS
<1>1. CASE \E h \in Hash : Discover(h) \/ Claim(h) \/ Call(h)
  BY <1>1, RunnerTakes
<1>2. CASE FindDone \/ CreateJobFails \/ RegisterVersion \/ Stage \/ Publish \/ UpdateNotion \/ Record \/ StepFails
  BY <1>2, CallSteps
<1>3. CASE CreateJob \/ Complete \/ FailJob \/ Settle
  BY <1>3, JobSteps
<1>4. CASE Return \/ WorkerDies
  BY <1>4, CallEnds
<1>5. CASE UNCHANGED transcriptVars
  BY <1>5 DEF transcriptVars, TranscriptInv, TranscriptTyped, StepsAreDone, AttemptsAgree, OneAfterTheOther, Outcome, H
<1> QED
  BY <1>1, <1>2, <1>3, <1>4, <1>5 DEF TranscriptNext

(* Whatever fails, is retried or dies: a job is done last, each step of    *)
(* the pipeline comes only after the one before, what was done is not      *)
(* published again, and a job waits only while it has an attempt left.     *)
THEOREM ReadyAlwaysComesLast == TranscriptSpec => []ReadyComesLast
<1>1. TranscriptSpec => []TranscriptInv
  BY TranscriptStarts, TranscriptGoesOn, PTL DEF TranscriptSpec
<1> QED
  BY <1>1, TranscriptInvIsEnough, PTL
-----------------------------------------------------------------------------
(***************************************************************************)
(* A package says what is there, no more and no less, for any materials,   *)
(* layouts, sessions, budgets and changes of the library.                  *)
(*                                                                         *)
(* The argument: RetrievalInv is inductive.  The library only grows, so    *)
(* that what a call has read stays what it was (LibraryKeeps); a source is *)
(* not older than what was current when the call began, and as far as the  *)
(* call has come there is one of each material that is not hidden          *)
(* (SourcesAreCurrent); each derivative is one of a source, and without a  *)
(* trouble noted it is the whole one of each (ReadsAreUsable); and the     *)
(* groups are cut off in order from what was read, with a warning unless   *)
(* they are all of it (GroupsAreCut).  A chunk that was authorized is one  *)
(* of the caller's own package (ChunkIsPinned).                            *)
(***************************************************************************)

(* What a call is tells which fields it has.                               *)
LEMMA WhichCall ==
  ASSUME RetrievalTypeOK
  PROVE  /\ serving.at \in {"sources", "collect", "missing", "cut", "issue", "note"} => serving \in PackageCalls
         /\ serving.at \in {"authorize", "read"} => serving \in ChunkCalls
         /\ serving.at = "answered" /\ serving.kind # "chunk" => serving \in PackageCalls
         /\ serving.at = "answered" /\ serving.kind = "chunk" => serving \in ChunkCalls
         /\ serving \in PackageCalls => serving \notin ChunkCalls
         /\ NotServing \notin PackageCalls /\ NotServing \notin ChunkCalls
  BY DEF RetrievalTypeOK, PackageCalls, ChunkCalls, NotServing

(* An item of what was read is a place in a derivative that was read.      *)
LEMMA CandidatesAre ==
  /\ \A item : item \in Candidates <=>
       \E k \in DOMAIN serving.read : \E i \in DOMAIN derivatives[serving.read[k]].layout : item = <<k, i>>
  /\ \A k \in DOMAIN serving.read : \A i \in DOMAIN derivatives[serving.read[k]].layout : <<k, i>> \in Candidates
  BY DEF Candidates

(* What was read is one of the derivatives, and so the items are pairs.    *)
LEMMA ReadsAreDerivatives ==
  ASSUME RetrievalInv, serving \in PackageCalls
  PROVE  /\ \A k \in DOMAIN serving.read :
              serving.read[k] \in DOMAIN derivatives /\ derivatives[serving.read[k]].layout \in Layout
         /\ Candidates \subseteq Nat \X Nat
  <1>1. \A k \in DOMAIN serving.read : serving.read[k] \in DOMAIN derivatives
    BY DEF RetrievalInv, ReadsAreUsable, Usable
  <1>2. \A d \in DOMAIN derivatives : derivatives[d].layout \in Layout
    <2> DEFINE Derivative == [material : Material, version : Nat, own : BOOLEAN, whole : BOOLEAN, layout : Layout]
    <2>1. derivatives \in Seq(Derivative)
      BY DEF RetrievalInv, RetrievalTypeOK
    <2>2. \A d \in DOMAIN derivatives : derivatives[d] \in Derivative
      <3> HIDE DEF Derivative
      <3> QED BY <2>1
    <2> QED BY <2>2
  <1>3. \A l \in Layout : DOMAIN l \subseteq Nat
    BY RetrievalAssumption
  <1>4. DOMAIN serving.read \subseteq Nat
    BY DEF PackageCalls
  <1> QED BY <1>1, <1>2, <1>3, <1>4, CandidatesAre

(* What is cut from the front precedes what is left.                       *)
LEMMA InOrderCuts ==
  ASSUME NEW items \in SUBSET (Nat \X Nat), NEW limit, NEW lead \in InOrder(items, limit)
  PROVE  lead \subseteq items /\ \A x \in lead, y \in items \ lead : Precedes(x, y)
  <1>1. lead = {} \/ \E x \in items : lead = {y \in items : y = x \/ Precedes(y, x)}
    BY DEF InOrder, Leading
  <1>2. CASE lead = {}
    BY <1>2
  <1>3. ASSUME NEW x \in items, lead = {y \in items : y = x \/ Precedes(y, x)}
        PROVE  lead \subseteq items /\ \A z \in lead, y \in items \ lead : Precedes(z, y)
    <2>1. SUFFICES ASSUME NEW z \in lead, NEW y \in items \ lead
                   PROVE  Precedes(z, y)
      BY <1>3
    <2>2. x[1] \in Nat /\ x[2] \in Nat /\ y[1] \in Nat /\ y[2] \in Nat /\ z \in Nat \X Nat /\ z[1] \in Nat /\ z[2] \in Nat
          /\ x = <<x[1], x[2]>> /\ y = <<y[1], y[2]>>
      BY <1>3
    <2>3. y # x /\ ~Precedes(y, x) /\ (z = x \/ Precedes(z, x))
      BY <1>3
    <2>4. ~(x[1] = y[1] /\ x[2] = y[2])
      BY <2>2, <2>3
    <2> QED BY <2>2, <2>3, <2>4 DEF Precedes
  <1> QED BY <1>1, <1>2, <1>3

(* The library only grows, and nothing a call has read is taken back.      *)
LEMMA LibraryKeeps ==
  ASSUME RetrievalInv, RetrievalTypeOK', UNCHANGED <<packages, serving>>,
         deleted \subseteq deleted', \A m \in Material : version[m] <= version'[m],
         DOMAIN derivatives \subseteq DOMAIN derivatives',
         \A d \in DOMAIN derivatives : derivatives'[d] = derivatives[d]
  PROVE  RetrievalInv'
  <1>1. ASSUME serving \in PackageCalls
        PROVE  SourcesAreCurrent' /\ ReadsAreUsable' /\ GroupsAreCut'
    <2>1. SourcesAreCurrent /\ ReadsAreUsable /\ GroupsAreCut
      BY <1>1 DEF RetrievalInv
    <2>2. \A source : Usable(source) \subseteq Usable(source)'
      BY DEF Usable
    <2>3. \A k \in DOMAIN serving.read : serving.read[k] \in DOMAIN derivatives
      BY <1>1, ReadsAreDerivatives
    <2>4. Candidates' = Candidates
      <3>1. \A k \in DOMAIN serving.read : derivatives'[serving.read[k]].layout = derivatives[serving.read[k]].layout
        BY <2>3
      <3> QED BY <3>1 DEF Candidates
    <2>5. SourcesAreCurrent'
      <3>1. \A m \in Material : serving.floor[m] \in Nat /\ version[m] \in Nat /\ version'[m] \in Nat
        BY <1>1 DEF RetrievalInv, RetrievalTypeOK, PackageCalls
      <3> QED BY <2>1, <3>1 DEF SourcesAreCurrent
    <2>6. ReadsAreUsable'
      BY <2>1, <2>2, <2>3 DEF ReadsAreUsable, Foreign
    <2>7. GroupsAreCut'
      BY <2>1, <2>4 DEF GroupsAreCut, AllOf, GroupsFollow, Precedes
    <2> QED BY <2>5, <2>6, <2>7
  <1>2. serving \in ChunkCalls => ChunkIsPinned'
    BY DEF RetrievalInv, ChunkIsPinned
  <1> QED BY <1>1, <1>2 DEF RetrievalInv

LEMMA LibraryStep ==
  ASSUME RetrievalInv
  PROVE  /\ \A m \in Material : ReplaceFile(m) \/ PublishChunks(m) \/ DeleteMaterial(m) => RetrievalInv'
         /\ \A d \in DOMAIN derivatives : DamageBlob(d) => RetrievalInv'
  <1> USE DEF LibraryChanges
  <1> DEFINE Derivative == [material : Material, version : Nat, own : BOOLEAN, whole : BOOLEAN, layout : Layout]
  <1>0. version \in [Material -> Nat] /\ deleted \subseteq Material /\ derivatives \in Seq(Derivative) /\ updates \in Nat
    BY DEF RetrievalInv, RetrievalTypeOK
  <1>1. ASSUME NEW m \in Material, ReplaceFile(m) PROVE RetrievalInv'
    <2>1. version' \in [Material -> Nat] /\ \A o \in Material : version[o] <= version'[o]
      BY <1>0, <1>1 DEF ReplaceFile
    <2>2. RetrievalTypeOK'
      BY <1>1, <2>1 DEF ReplaceFile, RetrievalInv, RetrievalTypeOK
    <2> QED BY <1>1, <2>1, <2>2, LibraryKeeps DEF ReplaceFile
  <1>2. ASSUME NEW m \in Material, PublishChunks(m) PROVE RetrievalInv'
    <2>1. PICK v \in 1..version[m], layout \in Layout, own \in BOOLEAN, whole \in BOOLEAN :
            derivatives' = Append(derivatives, [material |-> m, version |-> v, own |-> own, whole |-> whole, layout |-> layout])
      BY <1>2 DEF PublishChunks
    <2>2. [material |-> m, version |-> v, own |-> own, whole |-> whole, layout |-> layout] \in Derivative
      BY <1>0
    <2>3. /\ derivatives' \in Seq(Derivative) /\ DOMAIN derivatives \subseteq DOMAIN derivatives'
          /\ \A d \in DOMAIN derivatives : derivatives'[d] = derivatives[d]
      <3> HIDE DEF Derivative
      <3> QED BY <1>0, <2>1, <2>2
    <2>4. RetrievalTypeOK'
      BY <1>2, <2>3 DEF PublishChunks, RetrievalInv, RetrievalTypeOK
    <2>5. \A o \in Material : version[o] <= version'[o]
      BY <1>0, <1>2 DEF PublishChunks
    <2> QED BY <1>2, <2>3, <2>4, <2>5, LibraryKeeps DEF PublishChunks
  <1>3. ASSUME NEW m \in Material, DeleteMaterial(m) PROVE RetrievalInv'
    <2>1. RetrievalTypeOK' /\ \A o \in Material : version[o] <= version'[o]
      BY <1>0, <1>3 DEF DeleteMaterial, RetrievalInv, RetrievalTypeOK
    <2> QED BY <1>3, <2>1, LibraryKeeps DEF DeleteMaterial
  <1>4. ASSUME NEW d \in DOMAIN derivatives, DamageBlob(d) PROVE RetrievalInv'
    <2>1. RetrievalTypeOK' /\ \A o \in Material : version[o] <= version'[o]
      BY <1>0, <1>4 DEF DamageBlob, RetrievalInv, RetrievalTypeOK
    <2> QED BY <1>4, <2>1, LibraryKeeps DEF DamageBlob
  <1> QED BY <1>1, <1>2, <1>3, <1>4

(* What a step of a package's call leaves as it was.                       *)
LEMMA SameReads ==
  ASSUME UNCHANGED library, serving'.read = serving.read
  PROVE  /\ Candidates' = Candidates /\ \A source : Usable(source)' = Usable(source)
         /\ \A d : Foreign(d)' = Foreign(d)
  BY DEF library, Candidates, Usable, Foreign

(* A step of a package's call is a step of the whole if it keeps the       *)
(* call's own three parts.                                                 *)
LEMMA PackageGoesOn ==
  ASSUME RetrievalInv, UNCHANGED <<library, packages>>, serving' \in PackageCalls,
         SourcesAreCurrent', ReadsAreUsable', GroupsAreCut'
  PROVE  RetrievalInv'
  <1>1. serving' \notin ChunkCalls
    BY DEF PackageCalls, ChunkCalls
  <1>2. RetrievalTypeOK'
    BY DEF RetrievalInv, RetrievalTypeOK, library
  <1> QED BY <1>1, <1>2 DEF RetrievalInv

LEMMA AskPackageStep ==
  ASSUME RetrievalInv, NEW c \in Caller, NEW kind \in {"context", "query", "windows"}, AskPackage(c, kind)
  PROVE  RetrievalInv'
  <1> DEFINE call == [at |-> "sources", kind |-> kind, caller |-> c, next |-> 1, sources |-> <<>>, read |-> <<>>,
                      rest |-> {}, groups |-> <<>>, given |-> 0, warnings |-> {}, floor |-> version, hidden |-> deleted]
  <1>1. serving' = call /\ UNCHANGED <<library, packages>>
    BY DEF AskPackage, Served
  <1>2. version \in [Material -> Nat] /\ deleted \subseteq Material
    BY DEF RetrievalInv, RetrievalTypeOK
  <1>3. serving' \in PackageCalls
    BY <1>1, <1>2 DEF PackageCalls
  <1>4. SourcesAreCurrent'
    BY <1>1, <1>2 DEF SourcesAreCurrent, library, Material
  <1>5. ReadsAreUsable'
    BY <1>1 DEF ReadsAreUsable
  <1>6. GroupsAreCut'
    BY <1>1 DEF GroupsAreCut, AllOf, GroupsFollow
  <1> QED BY <1>1, <1>3, <1>4, <1>5, <1>6, PackageGoesOn

LEMMA ReadSourceStep ==
  ASSUME RetrievalInv, ReadSource
  PROVE  RetrievalInv'
  <1>1. /\ serving \in PackageCalls /\ serving.at = "sources" /\ serving.next <= Materials
        /\ serving.next \in Nat /\ 0 < serving.next
        /\ UNCHANGED <<library, packages>> /\ SourcesAreCurrent /\ ReadsAreUsable /\ GroupsAreCut
    BY WhichCall DEF ReadSource, Served, RetrievalInv, PackageCalls, SourcesAreCurrent
  <1>2. version \in [Material -> Nat] /\ deleted \subseteq Material /\ Materials \in Nat
    BY RetrievalAssumption DEF RetrievalInv, RetrievalTypeOK
  <1> DEFINE added == IF serving.next \in deleted THEN serving.sources ELSE Append(serving.sources, SourceOf(serving.next))
  <1>3. serving' = [serving EXCEPT !.next = serving.next + 1, !.sources = added]
    BY DEF ReadSource, Served
  <1>4. /\ serving.sources \in Seq([material : Material, version : Nat])
        /\ added \in Seq([material : Material, version : Nat])
        /\ DOMAIN serving.sources \subseteq DOMAIN added /\ \A s \in DOMAIN serving.sources : added[s] = serving.sources[s]
        /\ \A s \in DOMAIN added : s \in DOMAIN serving.sources \/ (serving.next \notin deleted /\ added[s] = SourceOf(serving.next))
        /\ serving.next \notin deleted => \E s \in DOMAIN added : added[s] = SourceOf(serving.next)
    <2>0. serving.sources \in Seq([material : Material, version : Nat])
      BY <1>1 DEF PackageCalls
    <2>1. CASE serving.next \in deleted
      BY <2>0, <2>1
    <2>2. CASE serving.next \notin deleted
      <3>1. added = Append(serving.sources, SourceOf(serving.next))
        BY <2>2
      <3>2. SourceOf(serving.next) \in [material : Material, version : Nat]
        BY <1>1, <1>2 DEF SourceOf, Material
      <3>3. Len(serving.sources) + 1 \in DOMAIN added /\ added[Len(serving.sources) + 1] = SourceOf(serving.next)
        BY <2>0, <3>1, <3>2
      <3> HIDE DEF added
      <3>4. \A s \in DOMAIN added : s \in DOMAIN serving.sources \/ s = Len(serving.sources) + 1
        BY <2>0, <3>1, <3>2
      <3>5. DOMAIN serving.sources \subseteq DOMAIN added /\ \A s \in DOMAIN serving.sources : added[s] = serving.sources[s]
        BY <2>0, <3>1, <3>2
      <3>6. added \in Seq([material : Material, version : Nat])
        BY <2>0, <3>1, <3>2
      <3> QED BY <2>0, <2>2, <3>3, <3>4, <3>5, <3>6
    <2> QED BY <2>1, <2>2
  <1>5. /\ serving' \in PackageCalls /\ serving'.next = serving.next + 1 /\ serving'.sources = added
        /\ serving'.at = serving.at /\ serving'.read = serving.read /\ serving'.groups = serving.groups
        /\ serving'.warnings = serving.warnings /\ serving'.floor = serving.floor /\ serving'.hidden = serving.hidden
        /\ serving'.kind = serving.kind
    <2> DEFINE later == serving.next + 1
    <2>1. later \in Nat
      BY <1>1
    <2>2. added \in Seq([material : Material, version : Nat])
      BY <1>4
    <2> HIDE DEF added, later
    <2>3. serving' = [serving EXCEPT !.next = later, !.sources = added]
      BY <1>3 DEF later
    <2>4. serving' \in PackageCalls
      BY <1>1, <2>1, <2>2, <2>3 DEF PackageCalls
    <2>5. serving'.next = later /\ serving'.sources = added
      BY <1>1, <2>3 DEF PackageCalls
    <2> QED BY <1>1, <2>3, <2>4, <2>5 DEF PackageCalls, later
  <1> HIDE DEF added
  <1>6. SourcesAreCurrent'
    <2>1. \A s \in DOMAIN added : added[s].version >= serving.floor[added[s].material] /\ added[s].material \notin serving.hidden
      <3>1. serving.hidden \subseteq deleted /\ serving.next \in Material
        BY <1>1, <1>2 DEF SourcesAreCurrent, Material
      <3>2. SourceOf(serving.next).version = version[serving.next] /\ SourceOf(serving.next).material = serving.next
            /\ version[serving.next] >= serving.floor[serving.next]
        <4>1. serving.floor[serving.next] <= version[serving.next] /\ serving.floor[serving.next] \in Nat /\ version[serving.next] \in Nat
          BY <1>1, <1>2, <3>1 DEF SourcesAreCurrent, PackageCalls
        <4> QED BY <4>1 DEF SourceOf
      <3> QED BY <1>1, <1>4, <3>1, <3>2 DEF SourcesAreCurrent
    <2>2. \A m \in Material \ deleted : m < serving.next + 1 => \E s \in DOMAIN added : added[s].material = m
      <3>1. \A m \in Material : m < serving.next + 1 => m < serving.next \/ m = serving.next
        BY <1>1 DEF Material
      <3>2. SourceOf(serving.next).material = serving.next
        BY DEF SourceOf
      <3> QED BY <1>1, <1>4, <3>1, <3>2 DEF SourcesAreCurrent
    <2> QED BY <1>1, <1>5, <2>1, <2>2 DEF SourcesAreCurrent, library
  <1>7. ReadsAreUsable'
    <2>1. serving.read = <<>>
      BY <1>1 DEF ReadsAreUsable
    <2> QED BY <1>1, <1>5, <2>1 DEF ReadsAreUsable
  <1>8. GroupsAreCut'
    <2>1. serving.groups = <<>> /\ "COMPLETE" \notin serving.warnings
      BY <1>1 DEF GroupsAreCut
    <2> QED BY <1>1, <1>5, <2>1 DEF GroupsAreCut, AllOf, GroupsFollow
  <1> QED BY <1>1, <1>5, <1>6, <1>7, <1>8, PackageGoesOn

LEMMA CollectStep ==
  ASSUME RetrievalInv, Collect
  PROVE  RetrievalInv'
  <1>1. /\ serving \in PackageCalls /\ serving.at = "sources" /\ serving.next = Materials + 1
        /\ UNCHANGED <<library, packages>> /\ SourcesAreCurrent /\ ReadsAreUsable /\ GroupsAreCut
    BY WhichCall DEF Collect, Served, RetrievalInv
  <1>2. serving' = [serving EXCEPT !.at = "collect", !.next = 1]
    BY DEF Collect, Served
  <1>3. /\ serving' \in PackageCalls /\ serving'.next = 1 /\ serving'.at = "collect"
        /\ serving'.sources = serving.sources /\ serving'.read = serving.read /\ serving'.groups = serving.groups
        /\ serving'.warnings = serving.warnings /\ serving'.floor = serving.floor /\ serving'.hidden = serving.hidden
        /\ serving'.kind = serving.kind
    BY <1>1, <1>2 DEF PackageCalls
  <1>4. SourcesAreCurrent'
    <2>1. \A m \in Material : m < serving.next
      BY <1>1, RetrievalAssumption DEF Material
    <2> QED BY <1>1, <1>3, <2>1 DEF SourcesAreCurrent, library
  <1>5. ReadsAreUsable'
    <2>1. serving.read = <<>> /\ Len(serving.sources) \in Nat
      BY <1>1 DEF ReadsAreUsable, PackageCalls
    <2> QED BY <1>1, <1>3, <2>1 DEF ReadsAreUsable
  <1>6. GroupsAreCut'
    <2>1. serving.groups = <<>> /\ "COMPLETE" \notin serving.warnings
      BY <1>1 DEF GroupsAreCut
    <2> QED BY <1>1, <1>3, <2>1 DEF GroupsAreCut, AllOf, GroupsFollow
  <1> QED BY <1>1, <1>3, <1>4, <1>5, <1>6, PackageGoesOn

LEMMA CollectOneStep ==
  ASSUME RetrievalInv, CollectOne
  PROVE  RetrievalInv'
  <1>1. /\ serving \in PackageCalls /\ serving.at = "collect" /\ serving.next <= Len(serving.sources)
        /\ serving.next \in Nat /\ 0 < serving.next /\ serving.sources \in Seq([material : Material, version : Nat])
        /\ serving.read \in Seq(Nat) /\ serving.warnings \subseteq Warnings /\ Len(serving.sources) \in Nat
        /\ UNCHANGED <<library, packages>> /\ SourcesAreCurrent /\ ReadsAreUsable /\ GroupsAreCut
    <2>1. serving.at = "collect" /\ serving.next <= Len(serving.sources) /\ serving \in PackageCalls /\ UNCHANGED <<library, packages>>
      BY WhichCall DEF CollectOne, Served, RetrievalInv
    <2>2. SourcesAreCurrent /\ ReadsAreUsable /\ GroupsAreCut
      BY <2>1 DEF RetrievalInv
    <2>3. /\ serving.next \in Nat /\ serving.sources \in Seq([material : Material, version : Nat])
          /\ serving.read \in Seq(Nat) /\ serving.warnings \subseteq Warnings /\ Len(serving.sources) \in Nat
      BY <2>1 DEF PackageCalls
    <2> QED BY <2>1, <2>2, <2>3 DEF SourcesAreCurrent
  <1>2. serving.next \in DOMAIN serving.sources
    BY <1>1
  <1> DEFINE source == serving.sources[serving.next]
             later == serving.next + 1
  <1>3. later \in Nat /\ 0 < later /\ later <= Len(serving.sources) + 1
    BY <1>1
  <1>4. serving.groups = <<>> /\ "COMPLETE" \notin serving.warnings
    BY <1>1 DEF GroupsAreCut
  <1>5. ASSUME NEW code \in SourceTrouble, serving' = [serving EXCEPT !.next = later, !.warnings = serving.warnings \cup {code}]
        PROVE  RetrievalInv'
    <2> DEFINE noted == serving.warnings \cup {code}
    <2>1. noted \in SUBSET Warnings /\ code \in noted /\ "COMPLETE" \notin noted
      BY <1>1, <1>4 DEF SourceTrouble, Warnings
    <2> HIDE DEF later, noted
    <2>2. serving' = [serving EXCEPT !.next = later, !.warnings = noted]
      BY <1>5 DEF noted
    <2>3. serving' \in PackageCalls
      BY <1>1, <1>3, <2>1, <2>2 DEF PackageCalls
    <2>4. /\ serving'.next = later /\ serving'.at = serving.at /\ serving'.sources = serving.sources
          /\ serving'.read = serving.read /\ serving'.groups = serving.groups /\ serving'.warnings = noted
          /\ serving'.floor = serving.floor /\ serving'.hidden = serving.hidden /\ serving'.kind = serving.kind
      BY <1>1, <2>2 DEF PackageCalls
    <2>5. SourcesAreCurrent'
      BY <1>1, <1>3, <2>4 DEF SourcesAreCurrent, library
    <2>6. ReadsAreUsable'
      <3>1. (\A s : Usable(s)' = Usable(s)) /\ \A d : Foreign(d)' = Foreign(d)
        BY <1>1, <2>4, SameReads
      <3>2. serving'.warnings \cap SourceTrouble # {}
        BY <2>1, <2>4
      <3> QED BY <1>1, <1>3, <2>4, <3>1, <3>2 DEF ReadsAreUsable
    <2>7. GroupsAreCut'
      BY <1>1, <1>4, <2>1, <2>4 DEF GroupsAreCut, AllOf, GroupsFollow
    <2> QED BY <1>1, <2>3, <2>5, <2>6, <2>7, PackageGoesOn
  <1>6. ASSUME NEW d \in Usable(source), ~Foreign(d), NEW codes \in SUBSET SourceTrouble,
               derivatives[d].whole \/ codes # {},
               serving' = [serving EXCEPT !.next = later, !.warnings = serving.warnings \cup codes, !.read = Append(serving.read, d)]
        PROVE  RetrievalInv'
    <2> DEFINE noted == serving.warnings \cup codes
               reads == Append(serving.read, d)
    <2>1. noted \in SUBSET Warnings /\ codes \subseteq noted /\ "COMPLETE" \notin noted /\ serving.warnings \subseteq noted
      BY <1>1, <1>4 DEF SourceTrouble, Warnings
    <2>2. d \in Nat
      BY DEF Usable, RetrievalInv, RetrievalTypeOK
    <2>3. /\ reads \in Seq(Nat) /\ Len(reads) = Len(serving.read) + 1 /\ Len(serving.read) \in Nat
          /\ \A k \in DOMAIN reads : (k \in DOMAIN serving.read /\ reads[k] = serving.read[k]) \/ (k = Len(serving.read) + 1 /\ reads[k] = d)
      <3>1. serving.read \in Seq(Nat)
        BY <1>1
      <3>2. reads \in Seq(Nat) /\ Len(reads) = Len(serving.read) + 1 /\ Len(serving.read) \in Nat
        BY <2>2, <3>1
      <3>3. \A k \in 1..Len(serving.read) + 1 : reads[k] = IF k <= Len(serving.read) THEN serving.read[k] ELSE d
        BY <2>2, <3>1
      <3> HIDE DEF reads
      <3>4. DOMAIN reads = 1..Len(serving.read) + 1
        BY <3>2
      <3>5. DOMAIN serving.read = 1..Len(serving.read)
        BY <3>1
      <3>6. ASSUME NEW k \in 1..Len(serving.read) + 1
            PROVE  (k \in 1..Len(serving.read) /\ reads[k] = serving.read[k]) \/ (k = Len(serving.read) + 1 /\ reads[k] = d)
        BY <3>2, <3>3
      <3> QED BY <3>2, <3>4, <3>5, <3>6
    <2> HIDE DEF later, noted, reads
    <2>4. serving' = [serving EXCEPT !.next = later, !.warnings = noted, !.read = reads]
      BY <1>6 DEF noted, reads
    <2>5. serving' \in PackageCalls
      BY <1>1, <1>3, <2>1, <2>3, <2>4 DEF PackageCalls
    <2>6. /\ serving'.next = later /\ serving'.at = serving.at /\ serving'.sources = serving.sources
          /\ serving'.read = reads /\ serving'.groups = serving.groups /\ serving'.warnings = noted
          /\ serving'.floor = serving.floor /\ serving'.hidden = serving.hidden /\ serving'.kind = serving.kind
      BY <1>1, <2>4 DEF PackageCalls
    <2>7. SourcesAreCurrent'
      BY <1>1, <1>3, <2>6 DEF SourcesAreCurrent, library
    <2>8. ReadsAreUsable'
      <3>1. (\A s : Usable(s)' = Usable(s)) /\ derivatives' = derivatives /\ \A e : Foreign(e)' = Foreign(e)
        BY <1>1 DEF library, Usable, Foreign
      <3>2. \A k \in DOMAIN reads : ~Foreign(reads[k]) /\ \E s \in DOMAIN serving.sources : reads[k] \in Usable(serving.sources[s])
        BY <1>1, <1>2, <1>6, <2>3 DEF ReadsAreUsable
      <3>3. ASSUME noted \cap SourceTrouble = {}
            PROVE  Len(reads) + 1 = later
                   /\ \A k \in DOMAIN reads : k \in DOMAIN serving.sources /\ reads[k] \in Usable(serving.sources[k]) /\ derivatives[reads[k]].whole
        <4>1. serving.warnings \cap SourceTrouble = {} /\ codes = {}
          BY <2>1, <3>3
        <4>2. Len(serving.read) + 1 = serving.next /\ derivatives[d].whole
          BY <1>1, <1>6, <4>1 DEF ReadsAreUsable
        <4>3. Len(reads) + 1 = later
          BY <1>1, <2>3, <4>2 DEF later
        <4> QED BY <1>1, <1>2, <2>3, <4>1, <4>2, <4>3 DEF ReadsAreUsable
      <3> QED BY <1>1, <1>3, <2>6, <3>1, <3>2, <3>3 DEF ReadsAreUsable
    <2>9. GroupsAreCut'
      BY <1>1, <1>4, <2>1, <2>6 DEF GroupsAreCut, AllOf, GroupsFollow
    <2> QED BY <1>1, <2>5, <2>7, <2>8, <2>9, PackageGoesOn
  <1>7. ASSUME serving' = [serving EXCEPT !.at = "missing"]
        PROVE  RetrievalInv'
    <2>1. /\ serving' \in PackageCalls /\ serving'.at = "missing" /\ serving'.next = serving.next
          /\ serving'.sources = serving.sources /\ serving'.read = serving.read /\ serving'.groups = serving.groups
          /\ serving'.warnings = serving.warnings /\ serving'.floor = serving.floor /\ serving'.hidden = serving.hidden
          /\ serving'.kind = serving.kind
      BY <1>1, <1>7 DEF PackageCalls
    <2>2. SourcesAreCurrent'
      BY <1>1, <2>1 DEF SourcesAreCurrent, library
    <2>3. ReadsAreUsable'
      <3>1. (\A s : Usable(s)' = Usable(s)) /\ derivatives' = derivatives /\ \A d : Foreign(d)' = Foreign(d)
        BY <1>1, <2>1, SameReads DEF library
      <3> QED BY <1>1, <2>1, <3>1 DEF ReadsAreUsable
    <2>4. GroupsAreCut'
      BY <1>1, <1>4, <2>1 DEF GroupsAreCut, AllOf, GroupsFollow
    <2> QED BY <1>1, <2>1, <2>2, <2>3, <2>4, PackageGoesOn
  <1>8. \/ serving' = [serving EXCEPT !.at = "missing"]
        \/ \E code \in SourceTrouble : serving' = [serving EXCEPT !.next = later, !.warnings = serving.warnings \cup {code}]
        \/ \E d \in Usable(source), codes \in SUBSET SourceTrouble :
             /\ ~Foreign(d) /\ (derivatives[d].whole \/ codes # {})
             /\ serving' = [serving EXCEPT !.next = later, !.warnings = serving.warnings \cup codes, !.read = Append(serving.read, d)]
    <2>1. ASSUME NEW code \in SourceTrouble, Served(Noting({code}))
          PROVE  serving' = [serving EXCEPT !.next = later, !.warnings = serving.warnings \cup {code}]
      BY <2>1 DEF Served, Noting
    <2>2. "BLOB_UNAVAILABLE" \in SourceTrouble /\ "LOCATOR_ENTITY_MISMATCH" \in SourceTrouble
      BY DEF SourceTrouble
    <2>3. ASSUME NEW d \in Newest(Usable(source)) \ damaged,
                 Served([Noting(IF derivatives[d].whole THEN {} ELSE {"PARTIAL_SOURCE"}) EXCEPT !.read = Append(@, d)])
          PROVE  \E codes \in SUBSET SourceTrouble :
                   /\ derivatives[d].whole \/ codes # {}
                   /\ serving' = [serving EXCEPT !.next = later, !.warnings = serving.warnings \cup codes, !.read = Append(serving.read, d)]
      <3> DEFINE some == IF derivatives[d].whole THEN {} ELSE {"PARTIAL_SOURCE"}
      <3>1. some \in SUBSET SourceTrouble /\ (derivatives[d].whole \/ some # {})
        BY DEF SourceTrouble
      <3>2. serving' = [Noting(some) EXCEPT !.read = Append(@, d)]
        BY <2>3 DEF Served
      <3> HIDE DEF some
      <3>3. Noting(some) = [serving EXCEPT !.next = later, !.warnings = serving.warnings \cup some]
        BY DEF Noting
      <3> HIDE DEF later
      <3>4. Noting(some).read = serving.read
        BY <1>1, <3>3 DEF PackageCalls
      <3>5. serving' = [serving EXCEPT !.next = later, !.warnings = serving.warnings \cup some, !.read = Append(serving.read, d)]
        BY <1>1, <3>2, <3>3, <3>4 DEF PackageCalls
      <3> QED BY <3>1, <3>5
    <2>4. \A d \in Newest(Usable(source)) : d \in Usable(source)
      BY DEF Newest
    <2>5. \/ Served([serving EXCEPT !.at = "missing"])
          \/ Served(Noting({"BLOB_UNAVAILABLE"})) \/ Served(Noting({"LOCATOR_ENTITY_MISMATCH"}))
          \/ \E d \in Newest(Usable(source)) \ damaged :
               /\ ~Foreign(d)
               /\ Served([Noting(IF derivatives[d].whole THEN {} ELSE {"PARTIAL_SOURCE"}) EXCEPT !.read = Append(@, d)])
      BY DEF CollectOne
    <2> HIDE DEF source, later
    <2>6. CASE Served([serving EXCEPT !.at = "missing"])
      BY <2>6 DEF Served
    <2> QED BY <2>1, <2>2, <2>3, <2>4, <2>5, <2>6
  <1> QED BY <1>5, <1>6, <1>7, <1>8

LEMMA NoteMissingStep ==
  ASSUME RetrievalInv, NoteMissing
  PROVE  RetrievalInv'
  <1>1. /\ serving \in PackageCalls /\ serving.at = "missing" /\ UNCHANGED <<library, packages>>
        /\ SourcesAreCurrent /\ ReadsAreUsable /\ GroupsAreCut
    BY WhichCall DEF NoteMissing, Served, RetrievalInv
  <1>2. /\ serving.next \in Nat /\ Len(serving.sources) \in Nat /\ serving.warnings \subseteq Warnings
        /\ serving.next <= Len(serving.sources) /\ serving.groups = <<>> /\ "COMPLETE" \notin serving.warnings
    BY <1>1 DEF PackageCalls, ReadsAreUsable, GroupsAreCut
  <1> DEFINE later == serving.next + 1
  <1>3. PICK code \in SourceTrouble : serving' = [serving EXCEPT !.next = later, !.warnings = serving.warnings \cup {code}, !.at = "collect"]
    <2> DEFINE code == IF StaleExists(serving.sources[serving.next]) THEN "STALE_DERIVATIVE" ELSE "NOT_NORMALIZED"
    <2>1. code \in SourceTrouble
      BY DEF SourceTrouble
    <2>2. serving' = [Noting({code}) EXCEPT !.at = "collect"]
      BY DEF NoteMissing, Served
    <2> HIDE DEF code
    <2>3. Noting({code}) = [serving EXCEPT !.next = later, !.warnings = serving.warnings \cup {code}]
      BY DEF Noting
    <2> HIDE DEF later
    <2>4. serving' = [serving EXCEPT !.next = later, !.warnings = serving.warnings \cup {code}, !.at = "collect"]
      BY <1>1, <2>2, <2>3 DEF PackageCalls
    <2> QED BY <2>1, <2>4
  <1> DEFINE noted == serving.warnings \cup {code}
  <1>4. noted \in SUBSET Warnings /\ code \in noted /\ "COMPLETE" \notin noted
    BY <1>2 DEF SourceTrouble, Warnings
  <1>5. later \in Nat /\ 0 < later /\ later <= Len(serving.sources) + 1
    BY <1>2
  <1> HIDE DEF noted
  <1>6. serving' = [serving EXCEPT !.next = later, !.warnings = noted, !.at = "collect"]
    BY <1>3 DEF noted
  <1> HIDE DEF later
  <1>7. /\ serving' \in PackageCalls /\ serving'.next = later /\ serving'.at = "collect" /\ serving'.sources = serving.sources
        /\ serving'.read = serving.read /\ serving'.groups = serving.groups /\ serving'.warnings = noted
        /\ serving'.floor = serving.floor /\ serving'.hidden = serving.hidden /\ serving'.kind = serving.kind
    BY <1>1, <1>4, <1>5, <1>6 DEF PackageCalls
  <1>8. SourcesAreCurrent'
    BY <1>1, <1>5, <1>7 DEF SourcesAreCurrent, library
  <1>9. ReadsAreUsable'
    <2>1. (\A s : Usable(s)' = Usable(s)) /\ \A d : Foreign(d)' = Foreign(d)
      BY <1>1, <1>7, SameReads
    <2>2. serving'.warnings \cap SourceTrouble # {}
      BY <1>3, <1>4, <1>7
    <2> QED BY <1>1, <1>5, <1>7, <2>1, <2>2 DEF ReadsAreUsable
  <1>10. GroupsAreCut'
    BY <1>2, <1>4, <1>7 DEF GroupsAreCut, AllOf, GroupsFollow
  <1> QED BY <1>1, <1>7, <1>8, <1>9, <1>10, PackageGoesOn

(* Whatever is cut from what was read may be handed out, if it says so     *)
(* when something is missing.                                              *)
LEMMA IssueStep ==
  ASSUME RetrievalInv, serving \in PackageCalls,
         serving.at = "collect" => serving.next = Len(serving.sources) + 1, serving.at \in {"collect", "cut"},
         NEW groups \in Seq(SUBSET (Nat \X Nat)), NEW codes \in SUBSET Warnings, Issue(groups, codes),
         AllOf(groups) \subseteq Candidates, GroupsFollow(groups),
         (IF serving.kind = "windows" THEN "COMPLETE" \in codes ELSE codes \cup serving.warnings = {}) =>
           AllOf(groups) = Candidates /\ (codes \cup serving.warnings) \cap SourceTrouble = {}
  PROVE  RetrievalInv'
  <1> DEFINE noted == serving.warnings \cup codes
  <1>1. /\ serving' = [serving EXCEPT !.at = "issue", !.groups = groups, !.warnings = noted] /\ UNCHANGED <<library, packages>>
        /\ SourcesAreCurrent /\ ReadsAreUsable /\ GroupsAreCut
    BY DEF Issue, Served, RetrievalInv
  <1>2. noted \in SUBSET Warnings /\ serving.warnings \subseteq noted /\ noted = codes \cup serving.warnings
    BY DEF PackageCalls
  <1> HIDE DEF noted
  <1>3. serving' \in PackageCalls
    BY <1>1, <1>2 DEF PackageCalls
  <1>4. /\ serving'.next = serving.next /\ serving'.at = "issue" /\ serving'.sources = serving.sources
        /\ serving'.read = serving.read /\ serving'.groups = groups /\ serving'.warnings = noted
        /\ serving'.floor = serving.floor /\ serving'.hidden = serving.hidden /\ serving'.kind = serving.kind
    BY <1>1 DEF PackageCalls
  <1>5. SourcesAreCurrent'
    BY <1>1, <1>4 DEF SourcesAreCurrent, library
  <1>6. ReadsAreUsable'
    <2>1. (\A s : Usable(s)' = Usable(s)) /\ derivatives' = derivatives /\ \A d : Foreign(d)' = Foreign(d)
      BY <1>1 DEF library, Usable, Foreign
    <2>2. noted \cap SourceTrouble = {} => serving.warnings \cap SourceTrouble = {} /\ Len(serving.read) = Len(serving.sources)
      <3>1. Len(serving.read) \in Nat /\ Len(serving.sources) \in Nat
        BY DEF PackageCalls
      <3> QED BY <1>1, <1>2, <3>1 DEF ReadsAreUsable
    <2> QED BY <1>1, <1>4, <2>1, <2>2 DEF ReadsAreUsable
  <1>7. GroupsAreCut'
    <2>1. Candidates' = Candidates
      BY <1>1, <1>4, SameReads
    <2>2. serving.kind = "windows" /\ "COMPLETE" \in noted => "COMPLETE" \in codes
      BY <1>1, <1>2 DEF GroupsAreCut
    <2>3. (IF serving.kind = "windows" THEN "COMPLETE" \in noted ELSE noted = {}) =>
            AllOf(groups) = Candidates /\ noted \cap SourceTrouble = {}
      BY <1>2, <2>2
    <2>4. AllOf(groups)' = AllOf(groups) /\ GroupsFollow(groups)'
      BY DEF AllOf, GroupsFollow, Precedes
    <2> QED BY <1>4, <2>1, <2>3 DEF GroupsAreCut, AllOf, GroupsFollow, Precedes
  <1> QED BY <1>1, <1>3, <1>5, <1>6, <1>7, PackageGoesOn

(* One package is a list of one group.                                     *)
LEMMA OneGroup ==
  ASSUME NEW selected \in SUBSET (Nat \X Nat)
  PROVE  <<selected>> \in Seq(SUBSET (Nat \X Nat)) /\ AllOf(<<selected>>) = selected /\ GroupsFollow(<<selected>>)
  <1>1. DOMAIN <<selected>> = {1} /\ <<selected>>[1] = selected
    OBVIOUS
  <1>2. GroupsFollow(<<selected>>)
    BY <1>1 DEF GroupsFollow
  <1> QED BY <1>1, <1>2 DEF AllOf

(* A selection of what was read may be handed out.                         *)
LEMMA SelectionStep ==
  ASSUME RetrievalInv, NEW kind \in {"context", "query"}, Collected(kind),
         NEW selected \in SUBSET Candidates, NEW codes \in SUBSET Warnings,
         Issue(<<selected>>, codes), codes = {} => selected = Candidates
  PROVE  RetrievalInv'
  <1>1. serving \in PackageCalls /\ serving.at = "collect" /\ serving.kind # "windows" /\ serving.next = Len(serving.sources) + 1
    BY WhichCall DEF Collected, RetrievalInv
  <1>2. selected \in SUBSET (Nat \X Nat)
    BY <1>1, ReadsAreDerivatives
  <1>3. <<selected>> \in Seq(SUBSET (Nat \X Nat)) /\ AllOf(<<selected>>) = selected /\ GroupsFollow(<<selected>>)
    BY <1>2, OneGroup
  <1>4. codes \cup serving.warnings = {} => AllOf(<<selected>>) = Candidates /\ (codes \cup serving.warnings) \cap SourceTrouble = {}
    BY <1>3
  <1> QED BY <1>1, <1>3, <1>4, IssueStep

LEMMA SelectStep ==
  ASSUME RetrievalInv, SelectInOrder \/ SelectByScore
  PROVE  RetrievalInv'
  <1>1. serving \in PackageCalls
    BY WhichCall DEF SelectInOrder, SelectByScore, Collected, RetrievalInv
  <1>2. Fitting(Candidates) \subseteq Candidates /\ Fitting(Candidates) \in SUBSET (Nat \X Nat)
    BY <1>1, ReadsAreDerivatives DEF Fitting
  <1>3. Oversize \subseteq Warnings /\ \A used : Short(used) \subseteq Warnings /\ (Short(used) = {} => used = Candidates)
    BY DEF Oversize, Short, Warnings
  <1>4. ASSUME NEW selected \in InOrder(Fitting(Candidates), MaxItems), Collected("context"),
               Issue(<<selected>>, Oversize \cup Short(selected))
        PROVE  RetrievalInv'
    <2>1. selected \in SUBSET Candidates
      BY <1>2, <1>4, InOrderCuts
    <2>2. Oversize \cup Short(selected) \in SUBSET Warnings /\ (Oversize \cup Short(selected) = {} => selected = Candidates)
      BY <1>3
    <2> QED BY <1>4, <2>1, <2>2, SelectionStep
  <1>5. ASSUME NEW selected \in InOrder(Fitting(Candidates), Smaller(MaxItems, Lead)), Collected("query"),
               Issue(<<selected>>, Oversize \cup {"LOW_RELEVANCE"} \cup Short(selected))
        PROVE  RetrievalInv'
    <2>1. selected \in SUBSET Candidates
      BY <1>2, <1>5, InOrderCuts
    <2>2. /\ Oversize \cup {"LOW_RELEVANCE"} \cup Short(selected) \in SUBSET Warnings
          /\ Oversize \cup {"LOW_RELEVANCE"} \cup Short(selected) # {}
      BY <1>3 DEF Warnings
    <2> QED BY <1>5, <2>1, <2>2, SelectionStep
  <1>6. ASSUME NEW scoring \in (SUBSET Fitting(Candidates)) \ {{}}, NEW ranked \in Rankings(scoring),
               NEW selected \in Best(scoring, ranked), Collected("query"), Issue(<<selected>>, Oversize \cup Short(selected))
        PROVE  RetrievalInv'
    <2>1. selected \in SUBSET Candidates
      BY <1>2, <1>6 DEF Best
    <2>2. Oversize \cup Short(selected) \in SUBSET Warnings /\ (Oversize \cup Short(selected) = {} => selected = Candidates)
      BY <1>3
    <2> QED BY <1>6, <2>1, <2>2, SelectionStep
  <1>7. CASE SelectInOrder
    BY <1>4, <1>7 DEF SelectInOrder
  <1>8. CASE SelectByScore
    BY <1>5, <1>6, <1>8 DEF SelectByScore
  <1> QED BY <1>7, <1>8

LEMMA BeginWindowsStep ==
  ASSUME RetrievalInv, BeginWindows
  PROVE  RetrievalInv'
  <1> DEFINE rest == Fitting(Candidates)
  <1>1. /\ serving \in PackageCalls /\ serving.at = "collect" /\ serving.kind = "windows" /\ serving.next = Len(serving.sources) + 1
        /\ UNCHANGED <<library, packages>> /\ SourcesAreCurrent /\ ReadsAreUsable /\ GroupsAreCut
        /\ serving' = [serving EXCEPT !.at = "cut", !.rest = rest]
    <2>1. serving \in PackageCalls
      BY WhichCall DEF BeginWindows, Collected, RetrievalInv
    <2> QED BY <2>1 DEF BeginWindows, Collected, Served, RetrievalInv
  <1>2. rest \in SUBSET (Nat \X Nat) /\ rest \subseteq Candidates
    BY <1>1, ReadsAreDerivatives DEF Fitting
  <1> HIDE DEF rest
  <1>3. serving' \in PackageCalls
    BY <1>1, <1>2 DEF PackageCalls
  <1>4. /\ serving'.next = serving.next /\ serving'.at = "cut" /\ serving'.sources = serving.sources
        /\ serving'.read = serving.read /\ serving'.groups = serving.groups /\ serving'.warnings = serving.warnings
        /\ serving'.floor = serving.floor /\ serving'.hidden = serving.hidden /\ serving'.kind = "windows" /\ serving'.rest = rest
    BY <1>1 DEF PackageCalls
  <1>5. SourcesAreCurrent'
    BY <1>1, <1>4 DEF SourcesAreCurrent, library
  <1>6. ReadsAreUsable'
    <2>1. (\A s : Usable(s)' = Usable(s)) /\ derivatives' = derivatives /\ \A d : Foreign(d)' = Foreign(d)
      BY <1>1 DEF library, Usable, Foreign
    <2>2. Len(serving.read) \in Nat /\ Len(serving.sources) \in Nat
      BY <1>1 DEF PackageCalls
    <2> QED BY <1>1, <1>4, <2>1, <2>2 DEF ReadsAreUsable
  <1>7. GroupsAreCut'
    <2>1. Candidates' = Candidates
      BY <1>1, <1>4, SameReads
    <2>2. serving.groups = <<>> /\ "COMPLETE" \notin serving.warnings
      BY <1>1 DEF GroupsAreCut
    <2> QED BY <1>2, <1>4, <2>1, <2>2 DEF GroupsAreCut, AllOf, GroupsFollow
  <1> QED BY <1>1, <1>3, <1>5, <1>6, <1>7, PackageGoesOn

LEMMA CutWindowStep ==
  ASSUME RetrievalInv, CutWindow
  PROVE  RetrievalInv'
  <1>1. serving \in PackageCalls /\ serving.at = "cut" /\ SourcesAreCurrent /\ ReadsAreUsable /\ GroupsAreCut
    BY WhichCall DEF CutWindow, RetrievalInv
  <1>2. PICK window \in InOrder(serving.rest, MaxItems) :
          serving' = [serving EXCEPT !.groups = Append(@, window), !.rest = @ \ window] /\ UNCHANGED <<library, packages>>
    BY DEF CutWindow, Served
  <1> DEFINE groups == Append(serving.groups, window)
             rest == serving.rest \ window
  <1>3. serving.rest \in SUBSET (Nat \X Nat) /\ serving.groups \in Seq(SUBSET (Nat \X Nat))
    BY <1>1 DEF PackageCalls
  <1>4. window \subseteq serving.rest /\ \A x \in window, y \in rest : Precedes(x, y)
    BY <1>3, InOrderCuts
  <1>5. window \in SUBSET (Nat \X Nat) /\ rest \in SUBSET (Nat \X Nat)
    BY <1>3, <1>4
  <1>6. /\ groups \in Seq(SUBSET (Nat \X Nat))
        /\ Len(serving.groups) \in Nat /\ DOMAIN groups = 1..Len(serving.groups) + 1 /\ DOMAIN serving.groups = 1..Len(serving.groups)
        /\ \A g \in DOMAIN groups : groups[g] = IF g <= Len(serving.groups) THEN serving.groups[g] ELSE window
    <2> DEFINE Items == SUBSET (Nat \X Nat)
    <2>1. serving.groups \in Seq(Items) /\ window \in Items
      BY <1>3, <1>5
    <2> HIDE DEF Items
    <2>2. groups \in Seq(Items)
      BY <2>1
    <2>3. Len(serving.groups) \in Nat /\ DOMAIN groups = 1..Len(serving.groups) + 1 /\ DOMAIN serving.groups = 1..Len(serving.groups)
      BY <2>1
    <2>4. \A g \in DOMAIN groups : groups[g] = IF g <= Len(serving.groups) THEN serving.groups[g] ELSE window
      BY <2>1, <2>3
    <2> QED BY <2>2, <2>3, <2>4 DEF Items
  <1> HIDE DEF groups, rest
  <1>7. serving' = [serving EXCEPT !.groups = groups, !.rest = rest]
    BY <1>1, <1>2 DEF groups, rest, PackageCalls
  <1>8. serving' \in PackageCalls
    BY <1>1, <1>5, <1>6, <1>7 DEF PackageCalls
  <1>9. /\ serving'.next = serving.next /\ serving'.at = "cut" /\ serving'.sources = serving.sources
        /\ serving'.read = serving.read /\ serving'.groups = groups /\ serving'.warnings = serving.warnings
        /\ serving'.floor = serving.floor /\ serving'.hidden = serving.hidden /\ serving'.kind = serving.kind /\ serving'.rest = rest
    BY <1>1, <1>7 DEF PackageCalls
  <1>10. SourcesAreCurrent'
    BY <1>1, <1>2, <1>9 DEF SourcesAreCurrent, library
  <1>11. ReadsAreUsable'
    <2>1. (\A s : Usable(s)' = Usable(s)) /\ derivatives' = derivatives /\ \A d : Foreign(d)' = Foreign(d)
      BY <1>2 DEF library, Usable, Foreign
    <2> QED BY <1>1, <1>9, <2>1 DEF ReadsAreUsable
  <1>12. GroupsAreCut'
    <2>1. Candidates' = Candidates
      BY <1>2, <1>9, SameReads
    <2>2. /\ AllOf(serving.groups) \subseteq Candidates /\ GroupsFollow(serving.groups) /\ serving.kind = "windows"
          /\ serving.rest \subseteq Candidates /\ "COMPLETE" \notin serving.warnings
          /\ \A g \in DOMAIN serving.groups : \A x \in serving.groups[g], y \in serving.rest : Precedes(x, y)
      BY <1>1 DEF GroupsAreCut
    <2>3. AllOf(groups) \subseteq Candidates
      BY <1>4, <1>6, <2>2 DEF AllOf
    <2>4. \A g \in DOMAIN groups : \A x \in groups[g], y \in rest : Precedes(x, y)
      BY <1>4, <1>6, <2>2 DEF rest
    <2>5. ASSUME NEW g \in DOMAIN groups, NEW h \in DOMAIN groups, g < h, NEW x \in groups[g], NEW y \in groups[h]
          PROVE  Precedes(x, y)
      <3>1. g \in DOMAIN serving.groups /\ groups[g] = serving.groups[g]
        BY <1>6, <2>5
      <3>2. CASE h <= Len(serving.groups)
        BY <1>6, <2>2, <2>5, <3>1, <3>2 DEF GroupsFollow
      <3>3. CASE ~(h <= Len(serving.groups))
        BY <1>4, <1>6, <2>2, <3>1, <3>3
      <3> QED BY <3>2, <3>3
    <2>6. rest \subseteq Candidates
      BY <2>2 DEF rest
    <2>7. GroupsFollow(groups)
      BY <2>5 DEF GroupsFollow
    <2> QED BY <1>9, <2>1, <2>2, <2>3, <2>4, <2>6, <2>7 DEF GroupsAreCut, AllOf, GroupsFollow, Precedes
  <1> QED BY <1>2, <1>8, <1>10, <1>11, <1>12, PackageGoesOn

LEMMA IssueWindowsStep ==
  ASSUME RetrievalInv, IssueWindows
  PROVE  RetrievalInv'
  <1> DEFINE n == Smaller(Len(serving.groups), MaxWindows)
             covered == SubSeq(serving.groups, 1, n)
             codes == Oversize \cup Short(AllOf(covered))
                      \cup (IF Len(serving.groups) > MaxWindows THEN {"PARTIAL_COVERAGE"} ELSE {})
                      \cup (IF covered = <<>> THEN {"NO_EVIDENCE"} ELSE {})
                      \cup (IF AllCovered(covered) THEN {"COMPLETE"} ELSE {})
  <1>1. serving \in PackageCalls /\ serving.at = "cut" /\ GroupsAreCut /\ Issue(covered, codes)
    BY WhichCall DEF IssueWindows, RetrievalInv
  <1>2. /\ AllOf(serving.groups) \subseteq Candidates /\ GroupsFollow(serving.groups) /\ serving.kind = "windows"
        /\ "COMPLETE" \notin serving.warnings /\ serving.groups \in Seq(SUBSET (Nat \X Nat))
    BY <1>1 DEF GroupsAreCut, PackageCalls
  <1>3. /\ covered \in Seq(SUBSET (Nat \X Nat))
        /\ \A g \in DOMAIN covered : g \in DOMAIN serving.groups /\ covered[g] = serving.groups[g]
    <2> DEFINE Items == SUBSET (Nat \X Nat)
    <2>1. serving.groups \in Seq(Items)
      BY <1>2
    <2> HIDE DEF Items
    <2>2. Len(serving.groups) \in Nat /\ n \in Nat /\ n <= Len(serving.groups)
      BY <2>1, RetrievalAssumption DEF Smaller
    <2> HIDE DEF n
    <2>3. covered \in Seq(Items) /\ DOMAIN covered = 1..n /\ \A g \in 1..n : covered[g] = serving.groups[g]
      BY <2>1, <2>2
    <2> QED BY <2>1, <2>2, <2>3 DEF Items
  <1>4. /\ codes \in SUBSET Warnings /\ codes \cap SourceTrouble = {}
        /\ "COMPLETE" \in codes => AllCovered(covered)
    <2> HIDE DEF covered
    <2>1. Oversize \subseteq {"OVERSIZE_CHUNK"} /\ Short(AllOf(covered)) \subseteq {"PARTIAL_CONTEXT"}
      BY DEF Oversize, Short
    <2> QED BY <2>1 DEF Warnings, SourceTrouble
  <1> HIDE DEF codes, covered
  <1>5. AllOf(covered) \subseteq Candidates
    BY <1>2, <1>3 DEF AllOf
  <1>6. GroupsFollow(covered)
    BY <1>2, <1>3 DEF GroupsFollow
  <1>7. "COMPLETE" \in codes => AllOf(covered) = Candidates /\ (codes \cup serving.warnings) \cap SourceTrouble = {}
    BY <1>4 DEF AllCovered
  <1> QED BY <1>1, <1>2, <1>3, <1>4, <1>5, <1>6, <1>7, IssueStep

(* Handing out the groups one by one changes nothing of what they are.     *)
LEMMA HandingOut ==
  ASSUME RetrievalInv, UNCHANGED library, serving \in PackageCalls, serving' \in PackageCalls,
         packages' \in Seq([caller : Caller, alive : BOOLEAN, noted : BOOLEAN, pins : SUBSET Pins]),
         serving.at \in {"issue", "note"}, serving'.at \in {"issue", "note", "answered"},
         serving'.kind = serving.kind, serving'.next = serving.next, serving'.sources = serving.sources,
         serving'.read = serving.read, serving'.groups = serving.groups, serving'.warnings = serving.warnings,
         serving'.floor = serving.floor, serving'.hidden = serving.hidden
  PROVE  RetrievalInv'
  <1>1. SourcesAreCurrent /\ ReadsAreUsable /\ GroupsAreCut
    BY DEF RetrievalInv
  <1>2. SourcesAreCurrent'
    BY <1>1 DEF SourcesAreCurrent, library
  <1>3. ReadsAreUsable'
    <2>1. (\A s : Usable(s)' = Usable(s)) /\ derivatives' = derivatives /\ \A d : Foreign(d)' = Foreign(d)
      BY DEF library, Usable, Foreign
    <2> QED BY <1>1, <2>1 DEF ReadsAreUsable
  <1>4. GroupsAreCut'
    <2>1. Candidates' = Candidates
      BY SameReads
    <2> QED BY <1>1, <2>1 DEF GroupsAreCut, AllOf, GroupsFollow, Precedes
  <1>5. serving' \notin ChunkCalls
    BY DEF PackageCalls, ChunkCalls
  <1>6. RetrievalTypeOK'
    BY DEF RetrievalInv, RetrievalTypeOK, library
  <1> QED BY <1>2, <1>3, <1>4, <1>5, <1>6 DEF RetrievalInv

LEMMA CreateCapabilityStep ==
  ASSUME RetrievalInv, CreateCapability
  PROVE  RetrievalInv'
  <1> DEFINE group == serving.groups[serving.given + 1]
             pins == {Pin(item) : item \in group}
             Package == [caller : Caller, alive : BOOLEAN, noted : BOOLEAN, pins : SUBSET Pins]
             issued == [caller |-> serving.caller, alive |-> TRUE, noted |-> FALSE, pins |-> pins]
  <1>1. /\ serving \in PackageCalls /\ serving.at = "issue" /\ serving.given < Len(serving.groups)
        /\ packages' = Append(packages, issued) /\ UNCHANGED library /\ serving' = [serving EXCEPT !.at = "note"]
    BY WhichCall DEF CreateCapability, RetrievalInv
  <1>2. serving.given + 1 \in DOMAIN serving.groups
    <2>1. serving.given \in Nat /\ serving.groups \in Seq(SUBSET (Nat \X Nat))
      BY <1>1 DEF PackageCalls
    <2> QED BY <1>1, <2>1
  <1>3. group \subseteq Candidates
    <2>1. AllOf(serving.groups) \subseteq Candidates
      BY <1>1 DEF RetrievalInv, GroupsAreCut
    <2> QED BY <1>2, <2>1 DEF AllOf
  <1>4. \A item \in group : Pin(item) \in Pins
    <2>1. SUFFICES ASSUME NEW k \in DOMAIN serving.read, NEW i \in DOMAIN derivatives[serving.read[k]].layout
                   PROVE  Pin(<<k, i>>) \in Pins
      BY <1>3, CandidatesAre
    <2> DEFINE d == serving.read[k]
    <2>2. d \in DOMAIN derivatives /\ derivatives[d].layout \in Layout
      BY <1>1, ReadsAreDerivatives
    <2>3. d \in Nat /\ derivatives[d].material \in Material /\ derivatives[d].version \in Nat
      <3> DEFINE Derivative == [material : Material, version : Nat, own : BOOLEAN, whole : BOOLEAN, layout : Layout]
      <3>1. derivatives \in Seq(Derivative)
        BY DEF RetrievalInv, RetrievalTypeOK
      <3>2. derivatives[d] \in Derivative /\ d \in Nat
        <4> HIDE DEF Derivative
        <4> QED BY <2>2, <3>1
      <3> QED BY <3>2
    <2>4. derivatives[d].layout[i].at \in Nat /\ derivatives[d].layout[i].part \in Nat
      <3> DEFINE Piece == [at : Nat, part : Nat, size : Nat]
      <3>1. derivatives[d].layout \in Seq(Piece)
        BY <2>2, RetrievalAssumption
      <3>2. derivatives[d].layout[i] \in Piece
        <4> HIDE DEF Piece
        <4> QED BY <3>1
      <3> QED BY <3>2
    <2>5. /\ CutFrom(<<k, i>>) = derivatives[d] /\ PieceAt(<<k, i>>) = derivatives[d].layout[i]
          /\ serving.read[<<k, i>>[1]] = d
      BY DEF CutFrom, PieceAt
    <2> HIDE DEF d
    <2> QED BY <2>3, <2>4, <2>5 DEF Pin, Pins
  <1>5. packages' \in Seq(Package)
    <2>1. pins \in SUBSET Pins
      BY <1>4
    <2>2. serving.caller \in Caller
      BY <1>1 DEF PackageCalls
    <2> HIDE DEF pins
    <2>3. issued \in Package
      BY <2>1, <2>2
    <2>4. packages \in Seq(Package)
      BY DEF RetrievalInv, RetrievalTypeOK
    <2> HIDE DEF issued, Package
    <2> QED BY <1>1, <2>3, <2>4
  <1>6. /\ serving' \in PackageCalls /\ serving'.at = "note"
        /\ serving'.kind = serving.kind /\ serving'.next = serving.next /\ serving'.sources = serving.sources
        /\ serving'.read = serving.read /\ serving'.groups = serving.groups /\ serving'.warnings = serving.warnings
        /\ serving'.floor = serving.floor /\ serving'.hidden = serving.hidden
    BY <1>1 DEF PackageCalls
  <1> QED BY <1>1, <1>5, <1>6, HandingOut

LEMMA NotePackageStep ==
  ASSUME RetrievalInv, NotePackage
  PROVE  RetrievalInv'
  <1> DEFINE Package == [caller : Caller, alive : BOOLEAN, noted : BOOLEAN, pins : SUBSET Pins]
             Kept(k) == k = Len(packages) \/ (packages[k].noted /\ packages[k].alive)
  <1>1. serving \in PackageCalls /\ serving.at = "note" /\ UNCHANGED library
        /\ packages' = [k \in DOMAIN packages |-> [packages[k] EXCEPT !.noted = Kept(k)]]
        /\ serving' = [serving EXCEPT !.at = "issue", !.given = @ + 1]
    BY WhichCall DEF NotePackage, RetrievalInv
  <1>2. packages' \in Seq(Package)
    <2>1. packages \in Seq(Package)
      BY DEF RetrievalInv, RetrievalTypeOK
    <2>2. ASSUME NEW k \in DOMAIN packages
          PROVE  [packages[k] EXCEPT !.noted = Kept(k)] \in Package
      <3>1. packages[k] \in Package /\ packages[k].noted \in BOOLEAN /\ packages[k].alive \in BOOLEAN
        <4>1. packages[k] \in Package
          <5> HIDE DEF Package
          <5> QED BY <2>1
        <4> QED BY <4>1
      <3>2. Kept(k) \in BOOLEAN
        BY <3>1
      <3> HIDE DEF Kept
      <3> QED BY <3>1, <3>2
    <2>3. DOMAIN packages = 1..Len(packages) /\ Len(packages) \in Nat
      <3> HIDE DEF Package
      <3> QED BY <2>1
    <2> HIDE DEF Package, Kept
    <2> QED BY <1>1, <2>2, <2>3
  <1>3. serving.given + 1 \in Nat
    BY <1>1 DEF PackageCalls
  <1>4. /\ serving' \in PackageCalls /\ serving'.at = "issue"
        /\ serving'.kind = serving.kind /\ serving'.next = serving.next /\ serving'.sources = serving.sources
        /\ serving'.read = serving.read /\ serving'.groups = serving.groups /\ serving'.warnings = serving.warnings
        /\ serving'.floor = serving.floor /\ serving'.hidden = serving.hidden
    BY <1>1, <1>3 DEF PackageCalls
  <1> QED BY <1>1, <1>2, <1>4, HandingOut

LEMMA GivePackageStep ==
  ASSUME RetrievalInv, GivePackage
  PROVE  RetrievalInv'
  <1>1. serving \in PackageCalls /\ serving.at = "issue" /\ serving' = [serving EXCEPT !.at = "answered"]
        /\ UNCHANGED <<library, packages>>
    BY WhichCall DEF GivePackage, Served, RetrievalInv
  <1>2. packages' \in Seq([caller : Caller, alive : BOOLEAN, noted : BOOLEAN, pins : SUBSET Pins])
    BY <1>1 DEF RetrievalInv, RetrievalTypeOK
  <1>3. /\ serving' \in PackageCalls /\ serving'.at = "answered"
        /\ serving'.kind = serving.kind /\ serving'.next = serving.next /\ serving'.sources = serving.sources
        /\ serving'.read = serving.read /\ serving'.groups = serving.groups /\ serving'.warnings = serving.warnings
        /\ serving'.floor = serving.floor /\ serving'.hidden = serving.hidden
    BY <1>1 DEF PackageCalls
  <1> QED BY <1>1, <1>2, <1>3, HandingOut

(* Between two calls there is nothing to keep.                             *)
LEMMA NoCall ==
  ASSUME RetrievalInv, Served(NotServing)
  PROVE  RetrievalInv'
  <1>1. serving' = NotServing /\ UNCHANGED <<library, packages>>
    BY DEF Served
  <1>2. RetrievalTypeOK'
    BY <1>1 DEF RetrievalInv, RetrievalTypeOK, library
  <1>3. serving' \notin PackageCalls /\ serving' \notin ChunkCalls
    BY <1>1 DEF NotServing, PackageCalls, ChunkCalls
  <1> QED BY <1>2, <1>3 DEF RetrievalInv

(* A step of a chunk's call.                                               *)
LEMMA ChunkGoesOn ==
  ASSUME RetrievalInv, UNCHANGED <<library, packages>>, serving' \in ChunkCalls, ChunkIsPinned'
  PROVE  RetrievalInv'
  <1>1. serving' \notin PackageCalls
    BY DEF PackageCalls, ChunkCalls
  <1>2. RetrievalTypeOK'
    BY DEF RetrievalInv, RetrievalTypeOK, library
  <1> QED BY <1>1, <1>2 DEF RetrievalInv

LEMMA AskChunkStep ==
  ASSUME RetrievalInv, NEW c \in Caller, NEW k \in DOMAIN packages, NEW pin \in UNION {packages[j].pins : j \in DOMAIN packages},
         NEW part \in {1, 2}, AskChunk(c, k, pin.material, pin.at, part)
  PROVE  RetrievalInv'
  <1> DEFINE call == [at |-> "authorize", kind |-> "chunk", caller |-> c, package |-> k,
                      text |-> [material |-> pin.material, version |-> version[pin.material], derivative |-> 0, at |-> pin.at, part |-> part]]
  <1>1. CASE Served(NotServing)
    BY <1>1, NoCall
  <1>2. CASE Served(call)
    <2>1. serving' = call /\ UNCHANGED <<library, packages>>
      BY <1>2 DEF Served
    <2>2. pin \in Pins /\ k \in Nat
      <3> DEFINE Package == [caller : Caller, alive : BOOLEAN, noted : BOOLEAN, pins : SUBSET Pins]
      <3>1. packages \in Seq(Package)
        BY DEF RetrievalInv, RetrievalTypeOK
      <3>2. k \in Nat /\ \A j \in DOMAIN packages : packages[j] \in Package
        <4> HIDE DEF Package
        <4> QED BY <3>1
      <3> QED BY <3>2
    <2>3. version[pin.material] \in Nat /\ pin.material \in Material /\ pin.at \in Nat
      BY <2>2 DEF RetrievalInv, RetrievalTypeOK, Pins
    <2>4. serving' \in ChunkCalls
      BY <2>1, <2>2, <2>3 DEF ChunkCalls, Pins
    <2>5. ChunkIsPinned'
      BY <2>1 DEF ChunkIsPinned
    <2> QED BY <2>1, <2>4, <2>5, ChunkGoesOn
  <1> QED BY <1>1, <1>2 DEF AskChunk, RefuseChunk

LEMMA AuthorizeChunkStep ==
  ASSUME RetrievalInv, AuthorizeChunk
  PROVE  RetrievalInv'
  <1>1. serving \in ChunkCalls /\ serving.at = "authorize" /\ ChunkIsPinned
    BY WhichCall DEF AuthorizeChunk, RetrievalInv
  <1>2. CASE RefuseChunk
    BY <1>2, NoCall DEF RefuseChunk
  <1>3. ASSUME NEW pin \in Packaged, Authorized, Served([serving EXCEPT !.at = "read", !.text.derivative = pin.derivative])
        PROVE  RetrievalInv'
    <2>1. /\ pin \in packages[serving.package].pins /\ packages[serving.package].caller = serving.caller
          /\ pin.material = serving.text.material /\ pin.at = serving.text.at
          /\ pin.part = serving.text.part /\ pin.version = serving.text.version
      BY <1>3 DEF Packaged, Matches, Authorized
    <2>2. pin \in Pins
      <3> DEFINE Package == [caller : Caller, alive : BOOLEAN, noted : BOOLEAN, pins : SUBSET Pins]
      <3>1. packages \in Seq(Package) /\ serving.package \in DOMAIN packages
        BY <1>1 DEF RetrievalInv, RetrievalTypeOK, ChunkIsPinned
      <3>2. packages[serving.package] \in Package
        <4> HIDE DEF Package
        <4> QED BY <3>1
      <3> QED BY <2>1, <3>2
    <2>3. [serving.text EXCEPT !.derivative = pin.derivative] = pin
      <3>1. serving.text \in Pins
        BY <1>1 DEF ChunkCalls
      <3> QED BY <2>1, <2>2, <3>1 DEF Pins
    <2>4. serving' = [serving EXCEPT !.at = "read", !.text = pin] /\ UNCHANGED <<library, packages>>
      BY <1>1, <1>3, <2>3 DEF Served, ChunkCalls
    <2>5. serving' \in ChunkCalls /\ serving'.package = serving.package /\ serving'.caller = serving.caller /\ serving'.text = pin
      BY <1>1, <2>2, <2>4 DEF ChunkCalls
    <2>6. ChunkIsPinned'
      BY <1>1, <2>1, <2>4, <2>5 DEF ChunkIsPinned
    <2> QED BY <2>4, <2>5, <2>6, ChunkGoesOn
  <1> QED BY <1>2, <1>3 DEF AuthorizeChunk

LEMMA ReadChunkStep ==
  ASSUME RetrievalInv, ReadChunk
  PROVE  RetrievalInv'
  <1>1. serving \in ChunkCalls /\ serving.at = "read" /\ ChunkIsPinned
    BY WhichCall DEF ReadChunk, RetrievalInv
  <1>2. CASE RefuseChunk
    BY <1>2, NoCall DEF RefuseChunk
  <1>3. ASSUME NEW d \in Pinned(serving.text.derivative), Served([serving EXCEPT !.at = "answered", !.text.derivative = d])
        PROVE  RetrievalInv'
    <2>1. d = serving.text.derivative
      BY DEF Pinned
    <2>2. serving.text \in Pins
      BY <1>1 DEF ChunkCalls
    <2>3. [serving.text EXCEPT !.derivative = d] = serving.text
      BY <2>1, <2>2 DEF Pins
    <2>4. serving' = [serving EXCEPT !.at = "answered"] /\ UNCHANGED <<library, packages>>
      BY <1>1, <1>3, <2>3 DEF Served, ChunkCalls
    <2>5. /\ serving' \in ChunkCalls /\ serving'.package = serving.package /\ serving'.caller = serving.caller
          /\ serving'.text = serving.text /\ serving'.at = "answered"
      BY <1>1, <2>4 DEF ChunkCalls
    <2>6. ChunkIsPinned'
      BY <1>1, <2>4, <2>5 DEF ChunkIsPinned
    <2> QED BY <2>4, <2>5, <2>6, ChunkGoesOn
  <1> QED BY <1>2, <1>3 DEF ReadChunk

LEMMA ExpirePackageStep ==
  ASSUME RetrievalInv, NEW k \in DOMAIN packages, ExpirePackage(k)
  PROVE  RetrievalInv'
  <1> DEFINE Package == [caller : Caller, alive : BOOLEAN, noted : BOOLEAN, pins : SUBSET Pins]
  <1>1. packages' = [packages EXCEPT ![k].alive = FALSE] /\ UNCHANGED <<library, serving>>
    BY DEF ExpirePackage
  <1>2. packages \in Seq(Package) /\ packages[k] \in Package
    <2>1. packages \in Seq(Package)
      BY DEF RetrievalInv, RetrievalTypeOK
    <2> HIDE DEF Package
    <2> QED BY <2>1
  <1> DEFINE gone == [packages[k] EXCEPT !.alive = FALSE]
  <1>3. gone \in Package /\ gone.caller = packages[k].caller /\ gone.pins = packages[k].pins
    BY <1>2
  <1>4. packages' = [packages EXCEPT ![k] = gone]
    BY <1>1
  <1>5. packages' \in Seq(Package)
    <2> HIDE DEF Package, gone
    <2> QED BY <1>2, <1>3, <1>4
  <1>6. DOMAIN packages' = DOMAIN packages
        /\ \A j \in DOMAIN packages : packages'[j].caller = packages[j].caller /\ packages'[j].pins = packages[j].pins
    <2> HIDE DEF gone
    <2> QED BY <1>3, <1>4
  <1>7. RetrievalTypeOK'
    BY <1>1, <1>5 DEF RetrievalInv, RetrievalTypeOK, library
  <1>8. serving \in ChunkCalls => ChunkIsPinned'
    BY <1>1, <1>6 DEF RetrievalInv, ChunkIsPinned
  <1>9. ASSUME serving \in PackageCalls
        PROVE  SourcesAreCurrent' /\ ReadsAreUsable' /\ GroupsAreCut'
    <2>1. SourcesAreCurrent /\ ReadsAreUsable /\ GroupsAreCut
      BY <1>9 DEF RetrievalInv
    <2>2. (\A s : Usable(s)' = Usable(s)) /\ derivatives' = derivatives /\ \A d : Foreign(d)' = Foreign(d)
      BY <1>1 DEF library, Usable, Foreign
    <2>3. Candidates' = Candidates
      BY <1>1, SameReads
    <2>4. SourcesAreCurrent'
      BY <1>1, <2>1 DEF SourcesAreCurrent, library
    <2>5. ReadsAreUsable'
      BY <1>1, <2>1, <2>2 DEF ReadsAreUsable
    <2>6. GroupsAreCut'
      BY <1>1, <2>1, <2>3 DEF GroupsAreCut, AllOf, GroupsFollow, Precedes
    <2> QED BY <2>4, <2>5, <2>6
  <1> QED BY <1>1, <1>7, <1>8, <1>9 DEF RetrievalInv

LEMMA RetrievalStarts ==
  ASSUME RetrievalInit
  PROVE  RetrievalInv
  <1> DEFINE Derivative == [material : Material, version : Nat, own : BOOLEAN, whole : BOOLEAN, layout : Layout]
  <1>1. PICK layouts \in [Material -> Layout] :
          derivatives = [m \in Material |-> [material |-> m, version |-> 1, own |-> TRUE, whole |-> TRUE, layout |-> layouts[m]]]
    BY DEF RetrievalInit
  <1>2. derivatives \in Seq(Derivative)
    <2>1. \A m \in Material : [material |-> m, version |-> 1, own |-> TRUE, whole |-> TRUE, layout |-> layouts[m]] \in Derivative
      OBVIOUS
    <2> HIDE DEF Derivative
    <2> QED BY <1>1, <2>1, RetrievalAssumption DEF Material
  <1>3. RetrievalTypeOK
    BY <1>2 DEF RetrievalInit, RetrievalTypeOK
  <1>4. serving = NotServing
    BY DEF RetrievalInit
  <1> QED BY <1>3, <1>4, WhichCall DEF RetrievalInv

LEMMA RetrievalStep ==
  ASSUME RetrievalInv, [RetrievalNext]_retrievalVars
  PROVE  RetrievalInv'
  <1>1. CASE UNCHANGED retrievalVars
    <2>1. UNCHANGED <<library, packages, serving>>
      BY <1>1 DEF retrievalVars, library
    <2>2. RetrievalTypeOK'
      BY <2>1 DEF RetrievalInv, RetrievalTypeOK, library
    <2>3. Candidates' = Candidates /\ (\A s : Usable(s)' = Usable(s)) /\ \A d : Foreign(d)' = Foreign(d)
      BY <2>1, SameReads
    <2>4. SourcesAreCurrent => SourcesAreCurrent'
      BY <2>1 DEF SourcesAreCurrent, library
    <2>5. ReadsAreUsable => ReadsAreUsable'
      BY <2>1, <2>3 DEF ReadsAreUsable, library
    <2>6. GroupsAreCut => GroupsAreCut'
      BY <2>1, <2>3 DEF GroupsAreCut, AllOf, GroupsFollow, Precedes
    <2>7. ChunkIsPinned => ChunkIsPinned'
      BY <2>1 DEF ChunkIsPinned
    <2> QED BY <2>1, <2>2, <2>4, <2>5, <2>6, <2>7 DEF RetrievalInv
  <1>2. CASE EndCall
    BY <1>2, NoCall DEF EndCall
  <1> QED BY <1>1, <1>2, LibraryStep, AskPackageStep, ReadSourceStep, CollectStep, CollectOneStep, NoteMissingStep, SelectStep,
             BeginWindowsStep, CutWindowStep, IssueWindowsStep, CreateCapabilityStep, NotePackageStep, GivePackageStep,
             AskChunkStep, AuthorizeChunkStep, ReadChunkStep, ExpirePackageStep DEF RetrievalNext

LEMMA HonestOnceInvariant ==
  ASSUME RetrievalInv
  PROVE  AnswersAreHonest
  <1>1. ASSUME serving.at = "answered", serving.kind # "chunk"
        PROVE  serving \in PackageCalls /\ SourcesAreCurrent /\ ReadsAreUsable /\ GroupsAreCut
    BY <1>1, WhichCall DEF RetrievalInv
  <1>2. OnlyCurrentText
    <2>1. ASSUME serving.at = "answered", serving.kind # "chunk", NEW g \in DOMAIN serving.groups, NEW item \in serving.groups[g]
          PROVE  /\ CutFrom(item).version >= serving.floor[CutFrom(item).material]
                 /\ CutFrom(item).material \notin serving.hidden /\ CutFrom(item).own
      <3>1. item \in Candidates
        BY <1>1, <2>1 DEF GroupsAreCut, AllOf
      <3>2. PICK k \in DOMAIN serving.read : item[1] = k /\ derivatives[serving.read[k]].layout # <<>>
        <4>1. PICK k \in DOMAIN serving.read : \E i \in DOMAIN derivatives[serving.read[k]].layout : item = <<k, i>>
          BY <3>1, CandidatesAre
        <4> QED BY <4>1
      <3>3. PICK s \in DOMAIN serving.sources : serving.read[k] \in Usable(serving.sources[s])
        BY <1>1, <2>1 DEF ReadsAreUsable
      <3>4. CutFrom(item).own
        BY <1>1, <2>1, <3>2 DEF ReadsAreUsable, Foreign, CutFrom
      <3> QED BY <1>1, <2>1, <3>2, <3>3, <3>4 DEF SourcesAreCurrent, Usable, CutFrom
    <2>2. ASSUME serving.at = "answered", serving.kind = "chunk"
          PROVE  packages[serving.package].caller = serving.caller /\ serving.text \in packages[serving.package].pins
      BY <2>2, WhichCall DEF RetrievalInv, ChunkIsPinned
    <2> QED BY <2>1, <2>2 DEF OnlyCurrentText
  <1>3. NothingMissingUnsaid
    BY <1>1 DEF NothingMissingUnsaid, SourcesAreCurrent, ReadsAreUsable, GroupsAreCut
  <1> QED BY <1>2, <1>3 DEF AnswersAreHonest

(* Whatever is published, replaced, hidden or damaged meanwhile: what is   *)
(* handed out is current, pinned to the caller's own package, and said to  *)
(* be incomplete unless it is the whole text (retrieval/service.py).       *)
THEOREM AnswersAlwaysHonest == RetrievalSpec => []AnswersAreHonest
  <1>1. RetrievalInit => RetrievalInv
    BY RetrievalStarts
  <1>2. RetrievalInv /\ [RetrievalNext]_retrievalVars => RetrievalInv'
    BY RetrievalStep
  <1>3. RetrievalInv => AnswersAreHonest
    BY HonestOnceInvariant
  <1> QED BY <1>1, <1>2, <1>3, PTL DEF RetrievalSpec

=============================================================================
