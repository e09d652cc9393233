----------------------------- MODULE StateStore -----------------------------
(***************************************************************************)
(* The library's database and blobs: its lock (library/dblock.py), how it  *)
(* is opened, backed up and migrated (state/v2/database.py, migrate.py),   *)
(* the transactions of the one writer (state/v2/writer.py) and the files   *)
(* of content the rows name (library/blobs.py).                            *)
(*                                                                         *)
(* What is abstracted.  A row is the transaction that wrote it, its place  *)
(* in it, the blob it names and the schema of the time; a migration file   *)
(* is its number.  Processes are killed, the machine is not: what the disk *)
(* loses with its power is left out.  Who may write what is not here.      *)
(* Copies have names of their own: the code names them by the second       *)
(* (database.py:148), so a Core that dies between two migrations and is    *)
(* opened again within that second would write its copy over the first,    *)
(* which this leaves out.                                                  *)
(***************************************************************************)
EXTENDS Naturals, Sequences

CONSTANTS
  Core, NoCore,         \* processes that open the library
  Thread, NoThread,     \* threads of the Core that is up
  Content,
  MaxSchema,            \* the newest schema a build knows
  MaxTx, MaxRow,        \* bounds on transactions, and on the rows of each
  MaxCrash              \* bound on processes killed or failing to start

ASSUME StoreAssumption ==
  /\ NoCore \notin Core /\ NoThread \notin Thread /\ Content # {}
  /\ MaxSchema \in Nat \ {0} /\ MaxTx \in Nat /\ MaxRow \in Nat /\ MaxCrash \in Nat

VARIABLES
  stage,        \* what each process is doing
  build,        \* the newest migration it knows
  lock,         \* who holds db.lock
  file,         \* the database file exists
  schema,       \* migrations applied
  backups,      \* copies of the database: [schema, rows]
  durable,      \* the rows committed
  written,      \* the rows of the open transaction of the connection
  tx,           \* "none", "open", or "left" open by a COMMIT that failed
  owner, depth, \* who holds the writer's lock, and its nesting
  thread,       \* [at, tx, content, rows] of each thread
  ended,        \* how each transaction ended
  tmp, blobs,   \* temporary files, and the contents stored
  crashes

opening == <<stage, build, lock, file, schema, backups>>
rows == <<durable, written, tx, owner, depth, ended>>
files == <<tmp, blobs>>
storeVars == <<opening, rows, thread, files, crashes>>

NoWork == [at |-> "idle", tx |-> 0, content |-> CHOOSE c \in Content : TRUE, rows |-> 0]

StoreInit ==
  /\ stage = [p \in Core |-> "off"] /\ build = [p \in Core |-> 1]
  /\ lock = NoCore /\ file = FALSE /\ schema = 0 /\ backups = {}
  /\ durable = {} /\ written = {} /\ tx = "none" /\ owner = NoThread /\ depth = 0
  /\ thread = [t \in Thread |-> NoWork] /\ ended = <<>>
  /\ tmp = {} /\ blobs = {} /\ crashes = 0

----------------------------------------------------------------------------
(* open_database, and clean_tmp after it.                                  *)

Go(p, where) == stage' = [stage EXCEPT ![p] = where]

Lock(p) ==
  /\ stage[p] = "off" /\ lock = NoCore /\ lock' = p /\ Go(p, "locked")
  /\ \E b \in 1..MaxSchema : build' = [build EXCEPT ![p] = b]
  /\ UNCHANGED <<file, schema, backups, rows, thread, files, crashes>>

(* A library that exists is copied before it is migrated.                  *)
BackedUp(p) == IF file /\ schema < build[p] THEN backups \cup {[schema |-> schema, rows |-> durable]} ELSE backups

(* The database of a newer build, or one whose quick_check fails, is left  *)
(* alone.                                                                  *)
Refuse(p) ==
  /\ stage[p] \in {"locked", "migrating"} /\ lock' = NoCore /\ Go(p, "off")
  /\ \/ stage[p] = "locked" /\ schema > build[p] /\ UNCHANGED crashes
     \/ crashes < MaxCrash /\ crashes' = crashes + 1                   \* corrupt, or a migration fails
  /\ file' = TRUE
  /\ UNCHANGED <<build, schema, backups, rows, thread, files>>

Check(p) ==
  /\ stage[p] = "locked" /\ schema <= build[p] /\ Go(p, "migrating")
  /\ backups' = BackedUp(p) /\ file' = TRUE
  /\ UNCHANGED <<build, lock, schema, rows, thread, files, crashes>>

(* Each file of migrations is one transaction.                             *)
Migrate(p) ==
  /\ stage[p] = "migrating" /\ schema < build[p] /\ schema' = schema + 1
  /\ UNCHANGED <<stage, build, lock, file, backups, rows, thread, files, crashes>>

Serve(p) ==
  /\ stage[p] = "migrating" /\ schema = build[p] /\ Go(p, "up")
  /\ tmp' = {}
  /\ UNCHANGED <<build, lock, file, schema, backups, rows, thread, blobs, crashes>>

(* The process ends: what was not committed is gone, the kernel releases   *)
(* the lock, and temporary files stay.                                     *)
Ends(p) ==
  /\ lock' = NoCore /\ Go(p, "off")
  /\ written' = {} /\ tx' = "none" /\ owner' = NoThread /\ depth' = 0
  /\ ended' = [x \in DOMAIN ended |-> IF ended[x].how = "running" THEN [ended[x] EXCEPT !.how = "cut"] ELSE ended[x]]
  /\ thread' = [t \in Thread |-> NoWork]
  /\ UNCHANGED <<build, file, schema, backups, durable, files>>

Killed(p) == stage[p] # "off" /\ crashes < MaxCrash /\ crashes' = crashes + 1 /\ Ends(p)
Close(p) == stage[p] = "up" /\ (\A t \in Thread : thread[t] = NoWork) /\ UNCHANGED crashes /\ Ends(p)

----------------------------------------------------------------------------
(* BlobStore.put_chunks.                                                   *)

Serving == \E p \in Core : stage[p] = "up"
Set(t, value) == thread' = [thread EXCEPT ![t] = value]

PutBegin(t) ==
  /\ Serving /\ thread[t] = NoWork
  /\ \E c \in Content : Set(t, [NoWork EXCEPT !.at = "put", !.content = c])
  /\ tmp' = tmp \cup {t}
  /\ UNCHANGED <<opening, rows, blobs, crashes>>

(* Stored now, or found there; too large, changed or not written.          *)
PutEnd(t) ==
  /\ thread[t].at = "put" /\ tmp' = tmp \ {t}
  /\ \/ t \in tmp /\ blobs' = blobs \cup {thread[t].content} /\ Set(t, [thread[t] EXCEPT !.at = "stored"])
     \/ Set(t, NoWork) /\ UNCHANGED blobs
  /\ UNCHANGED <<opening, rows, crashes>>

----------------------------------------------------------------------------
(* StateWriter.transaction.                                                *)

(* As faulty: a transaction that was left open is taken over.              *)
MayBegin_Adopts == TRUE

MayBegin == tx = "none"

Begin(t) ==
  /\ thread[t].at = "stored" /\ owner = NoThread
  /\ \/ /\ MayBegin /\ Len(ended) < MaxTx
        /\ tx' = "open" /\ owner' = t /\ depth' = 1
        /\ ended' = Append(ended, [how |-> "running", wrote |-> {}])
        /\ Set(t, [thread[t] EXCEPT !.at = "inside", !.tx = Len(ended) + 1])
     \/ Set(t, NoWork) /\ UNCHANGED <<tx, owner, depth, ended>>   \* it raises
  /\ UNCHANGED <<opening, durable, written, files, crashes>>

Write(t) ==
  LET row == [tx |-> thread[t].tx, n |-> thread[t].rows + 1, content |-> thread[t].content, schema |-> schema]
  IN /\ thread[t].at = "inside" /\ thread[t].rows < MaxRow
     /\ written' = written \cup {row}
     /\ ended' = [ended EXCEPT ![thread[t].tx].wrote = @ \cup {row}]
     /\ Set(t, [thread[t] EXCEPT !.rows = @ + 1])
     /\ UNCHANGED <<opening, durable, tx, owner, depth, files, crashes>>

(* A transaction inside one joins it; if it raises, the outer one may go   *)
(* on, with what the inner one had written.                                *)
Nest(t) ==
  /\ thread[t].at = "inside"
  /\ \/ depth = 1 /\ depth' = 2
     \/ depth = 2 /\ depth' = 1
  /\ UNCHANGED <<opening, durable, written, tx, owner, ended, thread, files, crashes>>

Done(t, how) ==
  /\ owner' = NoThread /\ depth' = 0 /\ Set(t, NoWork)
  /\ ended' = [ended EXCEPT ![thread[t].tx].how = how]
  /\ UNCHANGED <<opening, files, crashes>>

Commit(t) ==
  /\ thread[t].at = "inside" /\ depth = 1
  /\ durable' = durable \cup written /\ written' = {} /\ tx' = "none"
  /\ Done(t, "committed")

(* The body raises at any depth, or the COMMIT does; sqlite has undone the *)
(* transaction, or has left it open.                                       *)
Raise(t) ==
  /\ thread[t].at = "inside"
  /\ \/ written' = {} /\ tx' = "none"
     \/ depth = 1 /\ UNCHANGED written /\ tx' = "left"
  /\ Done(t, "raised") /\ UNCHANGED durable

StoreNext ==
  \/ \E p \in Core : Lock(p) \/ Refuse(p) \/ Check(p) \/ Migrate(p) \/ Serve(p) \/ Killed(p) \/ Close(p)
  \/ \E t \in Thread : PutBegin(t) \/ PutEnd(t) \/ Begin(t) \/ Write(t) \/ Nest(t) \/ Commit(t) \/ Raise(t)

StoreSpec == StoreInit /\ [][StoreNext]_storeVars

----------------------------------------------------------------------------
(* A transaction that returned has all its rows in the library, and one    *)
(* that raised or was cut has none, also when its COMMIT left it open and  *)
(* others want to write after it; every row names a stored blob.           *)
AllOrNothing ==
  /\ \A x \in DOMAIN ended :
       IF ended[x].how = "committed" THEN ended[x].wrote \subseteq durable ELSE ended[x].wrote \cap durable = {}
  /\ \A r \in durable : r.content \in blobs

(* One Core at a time writes, under exactly the schema it knows; whatever  *)
(* was in the library before a migration is in the copy made before it,    *)
(* also when migrations are cut and started again.                         *)
OpenedSafely ==
  /\ \A p, q \in Core : stage[p] # "off" /\ stage[q] # "off" => p = q
  /\ \A p \in Core : stage[p] = "up" => schema = build[p]
  /\ \A r \in durable : r.schema < schema => \E b \in backups : b.schema = r.schema /\ r \in b.rows

(* What is in the library is whole, and was opened under the right schema. *)
StoreIsSound == AllOrNothing /\ OpenedSafely

=============================================================================
