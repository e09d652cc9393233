------------------------------ MODULE SecretFile -------------------------------
(***************************************************************************)
(* The protected files of config/_secure_file.py, and the key for private  *)
(* state ids that settings/credential_stores.py keeps in one of them.      *)
(* Processes write, read and delete such files at the same time and with   *)
(* no lock, except that the key is read and made under a lock file.  Each  *)
(* system call is a step.                                                  *)
(*                                                                         *)
(* What is abstracted.  A file is an inode: a value, how many of its Size  *)
(* parts are written, and whether its mode or access list passes the       *)
(* checks: of what this module creates it does, of what somebody else put  *)
(* in its place it does not.  Owner and type are right, of the folder too, *)
(* and the folder is there; who may enter it can change.  A process, which *)
(* is its pid, makes one call at a time: callers within a process hold a   *)
(* lock of their own (the admission of a credential operation, the lock of *)
(* the key).  The lock file of the key is free again when its holder dies, *)
(* which is what LockFile shows.  A power failure is left out.             *)
(***************************************************************************)
EXTENDS Naturals

CONSTANTS
    Process,
    File,       \* the names of the folder that may hold a secret
    KeyFile,    \* the one of them that holds the key
    Value,      \* contents
    Size,       \* the parts of a content
    MaxNode     \* bound on the inodes

Nobody == "nobody"

ASSUME SecretAssumption ==
    /\ KeyFile \in File /\ Value # {} /\ Nobody \notin Process
    /\ Size \in Nat \ {0}
    /\ MaxNode \in Nat

VARIABLES
    windows,    \* the platform
    private,    \* nobody else may enter the folder
    entry,      \* the inode each name stands for, 0 for none
    draft,      \* the inode of each temporary name
    node,       \* the inodes
    made,       \* how many there are
    call,       \* what each process does
    keyLock,    \* who holds the lock file of the key
    keys,       \* the keys that were handed out
    misread,    \* the key was taken for missing when it could not be opened
    litter      \* the temporary names left by processes that died or could not remove them

secretVars == <<windows, private, entry, draft, node, made, call, keyLock, keys, misread, litter>>

Nodes   == 1 .. MaxNode
NoCall  == [at |-> "idle"]
NewCall(at, op, f, v) == [at |-> at, op |-> op, file |-> f, value |-> v, inode |-> 0, parts |-> 0]
NoNode  == [value |-> CHOOSE v \in Value : TRUE, parts |-> 0, trusted |-> FALSE]
Whole(i) == node[i].parts = Size

\* The temporary name of a target: one for each process.
TempName(f, p) == <<f, p>>

SecretInit ==
    /\ windows \in BOOLEAN /\ private \in BOOLEAN
    /\ entry = [f \in File |-> 0]
    /\ draft = [n \in File \X Process |-> 0]
    /\ node = [i \in Nodes |-> NoNode]
    /\ made = 0
    /\ call = [p \in Process |-> NoCall]
    /\ keyLock = Nobody /\ keys = {} /\ misread = FALSE /\ litter = {}

Goes(p, where)  == call' = [call EXCEPT ![p].at = where]
EndsCall(p)     == call' = [call EXCEPT ![p] = NoCall]
LeavesKey(p)    == keyLock' = IF keyLock = p THEN Nobody ELSE keyLock
Makes(v, trusted, parts) ==
    /\ made < MaxNode /\ made' = made + 1
    /\ node' = [node EXCEPT ![made'] = [value |-> v, parts |-> parts, trusted |-> trusted]]

-----------------------------------------------------------------------------
(* The calls.  A write and a deletion end with a reading of what is there. *)

StartWrite(p, f, v) ==
    /\ call[p] = NoCall /\ f # KeyFile
    /\ call' = [call EXCEPT ![p] = NewCall("create", "write", f, v)]
    /\ UNCHANGED <<windows, private, entry, draft, node, made, keyLock, keys, misread, litter>>

StartRead(p, f) ==
    /\ call[p] = NoCall
    /\ call' = [call EXCEPT ![p] = NewCall("open", "read", f, NoNode.value)]
    /\ UNCHANGED <<windows, private, entry, draft, node, made, keyLock, keys, misread, litter>>

\* Not offered on Windows.
StartDelete(p, f) ==
    /\ call[p] = NoCall /\ f # KeyFile /\ ~windows /\ private
    /\ call' = [call EXCEPT ![p] = NewCall(IF entry[f] = 0 THEN "open" ELSE "unlink",
                                           "delete", f, NoNode.value)]
    /\ UNCHANGED <<windows, private, entry, draft, node, made, keyLock, keys, misread, litter>>

\* Only state_key makes the key; v is the one it would draw.
StartKey(p, v) ==
    /\ call[p] = NoCall /\ keyLock = Nobody
    /\ keyLock' = p
    /\ call' = [call EXCEPT ![p] = NewCall("open", "key", KeyFile, v)]
    /\ UNCHANGED <<windows, private, entry, draft, node, made, keys, misread, litter>>

-----------------------------------------------------------------------------
(* read_secure_file: the folder, then the file, then what the open file    *)
(* holds.  Of all refusals only that of a missing file makes a new key.    *)

OpenFile(p) ==
    LET f == call[p].file IN
    /\ call[p].at = "open"
    /\ IF private /\ entry[f] # 0
       THEN /\ call' = [call EXCEPT ![p].at = "check", ![p].inode = entry[f]]
            /\ UNCHANGED keyLock
       ELSE IF private /\ call[p].op = "key"
       THEN /\ Goes(p, "create")
            /\ UNCHANGED keyLock
       ELSE /\ EndsCall(p) /\ LeavesKey(p)
    /\ UNCHANGED <<windows, private, entry, draft, node, made, keys, misread, litter>>

\* On POSIX a file that is there and cannot be opened is also called missing: a new key
\* takes its place.
MisreadKey(p) ==
    /\ call[p].at = "open" /\ call[p].op = "key" /\ ~windows
    /\ private /\ entry[KeyFile] # 0
    /\ Goes(p, "create") /\ misread' = TRUE
    /\ UNCHANGED <<windows, private, entry, draft, node, made, keyLock, keys, litter>>

CheckFile(p) ==
    /\ call[p].at = "check"
    /\ IF node[call[p].inode].trusted
       THEN Goes(p, "read") /\ UNCHANGED keyLock
       ELSE EndsCall(p) /\ LeavesKey(p)
    /\ UNCHANGED <<windows, private, entry, draft, node, made, keys, misread, litter>>

\* A faulty form: the name is opened again.
ReadFile_ByName(p) ==
    LET i == entry[call[p].file] IN
    /\ call[p].at = "read" /\ i # 0
    /\ call' = [call EXCEPT ![p].at = "got", ![p].value = node[i].value, ![p].parts = node[i].parts]
    /\ UNCHANGED <<windows, private, entry, draft, node, made, keyLock, keys, misread, litter>>

\* The bytes of the inode that was opened and checked, whatever the name stands for now.
ReadFile(p) ==
    /\ call[p].at = "read"
    /\ call' = [call EXCEPT ![p].at = "got", ![p].value = node[call[p].inode].value,
                            ![p].parts = node[call[p].inode].parts]
    /\ UNCHANGED <<windows, private, entry, draft, node, made, keyLock, keys, misread, litter>>

\* The caller has what was read; a key of the wrong length is refused.
Give(p) ==
    /\ call[p].at = "got"
    /\ keys' = IF call[p].op = "key" /\ call[p].parts = Size THEN keys \cup {call[p].value} ELSE keys
    /\ EndsCall(p) /\ LeavesKey(p)
    /\ UNCHANGED <<windows, private, entry, draft, node, made, misread, litter>>

-----------------------------------------------------------------------------
(* write_secure_file                                                       *)

Hardens == private' = TRUE

\* O_EXCL, CREATE_NEW: a name that is taken is not touched.  As faulty: it is.
Untaken_Any(n) == TRUE
Untaken(n) == draft[n] = 0

\* The folder is made private first.
CreateDraft(p) ==
    LET n == TempName(call[p].file, p) IN
    /\ call[p].at = "create"
    /\ IF Untaken(n)
       THEN /\ Makes(call[p].value, TRUE, 0)
            /\ draft' = [draft EXCEPT ![n] = made']
            /\ call' = [call EXCEPT ![p].at = "fill", ![p].inode = made']
            /\ UNCHANGED keyLock
       ELSE /\ EndsCall(p) /\ LeavesKey(p)
            /\ UNCHANGED <<draft, node, made>>
    /\ Hardens
    /\ UNCHANGED <<windows, entry, keys, misread, litter>>

Fill(p) ==
    /\ call[p].at = "fill" /\ ~Whole(call[p].inode)
    /\ node' = [node EXCEPT ![call[p].inode].parts = @ + 1]
    /\ UNCHANGED <<windows, private, entry, draft, made, call, keyLock, keys, misread, litter>>

\* On Windows a file that is open for reading cannot be replaced.
Replaceable(f) ==
    windows /\ entry[f] # 0 => \A q \in Process : call[q].at \in {"check", "read"} => call[q].inode # entry[f]

\* Both names, as they stand.
Replace(p) ==
    LET f == call[p].file
        n == TempName(f, p)
    IN  /\ call[p].at = "fill" /\ Whole(call[p].inode)
        /\ draft[n] # 0 /\ Replaceable(f)
        /\ entry' = [entry EXCEPT ![f] = draft[n]]
        /\ draft' = [draft EXCEPT ![n] = 0]
        /\ Goes(p, "sync")
        /\ UNCHANGED <<windows, private, node, made, keyLock, keys, misread, litter>>

\* The folder is flushed.  A new key is handed out as it was drawn.
Written(p) ==
    /\ call[p].at = "sync"
    /\ IF call[p].op = "key"
       THEN keys' = keys \cup {call[p].value} /\ EndsCall(p) /\ LeavesKey(p)
       ELSE Goes(p, "open") /\ UNCHANGED <<keys, keyLock>>
    /\ UNCHANGED <<windows, private, entry, draft, node, made, misread, litter>>

\* delete_secure_file, after its stat; the name may be gone by now.
Unlink(p) ==
    LET f == call[p].file IN
    /\ call[p].at = "unlink"
    /\ IF entry[f] = 0 THEN EndsCall(p) ELSE Goes(p, "open")
    /\ entry' = [entry EXCEPT ![f] = 0]
    /\ UNCHANGED <<windows, private, draft, node, made, keyLock, keys, misread, litter>>

\* The folder may be private already.
MayHarden(p) == private' = private \/ (call[p].at = "create" /\ Hardens)

LeavesDraft(n) == litter' = litter \cup {n} /\ UNCHANGED draft

\* Any system call may fail.  A writer then removes its temporary name, unless it never
\* created it; that may fail as well, and is not reported.
Fails(p) ==
    LET n == TempName(call[p].file, p) IN
    /\ call[p] # NoCall
    /\ IF call[p].at = "fill"
       THEN (draft' = [draft EXCEPT ![n] = 0] /\ UNCHANGED litter) \/ LeavesDraft(n)
       ELSE UNCHANGED <<draft, litter>>
    /\ EndsCall(p) /\ LeavesKey(p) /\ MayHarden(p)
    /\ UNCHANGED <<windows, entry, node, made, keys, misread>>

Dies(p) ==
    /\ call[p] # NoCall
    /\ IF call[p].at = "fill" THEN LeavesDraft(TempName(call[p].file, p)) ELSE UNCHANGED <<draft, litter>>
    /\ EndsCall(p) /\ LeavesKey(p) /\ MayHarden(p)
    /\ UNCHANGED <<windows, entry, node, made, keys, misread>>

(* Others: somebody opens the folder up, or puts a file of their own in a  *)
(* place, whole or in part.                                                *)

OpensUp ==
    /\ private /\ private' = FALSE
    /\ UNCHANGED <<windows, entry, draft, node, made, call, keyLock, keys, misread, litter>>

PutsFile(f, v, parts) ==
    /\ Makes(v, FALSE, parts)
    /\ entry' = [entry EXCEPT ![f] = made']
    /\ UNCHANGED <<windows, private, draft, call, keyLock, keys, misread, litter>>

SecretNext ==
    \/ \E p \in Process :
          \/ \E f \in File, v \in Value : StartWrite(p, f, v)
          \/ \E f \in File : StartRead(p, f) \/ StartDelete(p, f)
          \/ \E v \in Value : StartKey(p, v)
          \/ OpenFile(p) \/ MisreadKey(p) \/ CheckFile(p) \/ ReadFile(p) \/ Give(p)
          \/ CreateDraft(p) \/ Fill(p) \/ Replace(p) \/ Written(p) \/ Unlink(p)
          \/ Fails(p) \/ Dies(p)
    \/ OpensUp
    \/ \E f \in File, v \in Value, parts \in 0 .. Size : PutsFile(f, v, parts)

SecretSpec == SecretInit /\ [][SecretNext]_secretVars

-----------------------------------------------------------------------------
(* What is read is the whole content of a file that passed the checks,     *)
(* while others write, delete or replace it ("the caller never reopens the *)
(* path by name").                                                         *)
ReadsAreWhole ==
    \A p \in Process : call[p].at = "got" => call[p].parts = Size /\ node[call[p].inode].trusted

(* All who ask for the key get the same one (it is "created once"),         *)
(* whoever dies or fails while making it, and it stays in its file, unless *)
(* somebody puts another file there, which is refused and never replaced,  *)
(* or the file could once not be opened.                                   *)
OneKey == ~misread =>
    /\ \A k, l \in keys : k = l
    /\ keys # {} =>
          /\ entry[KeyFile] # 0
          /\ node[entry[KeyFile]].trusted => Whole(entry[KeyFile]) /\ node[entry[KeyFile]].value \in keys

(* A temporary file is that of a writer at work, or was left by one that   *)
(* died or could not remove it, and never both: what was left is not gone  *)
(* on with by a later writer of the same name, and no temporary file that  *)
(* is still there is a protected file at the same time.                    *)
DraftsAreOwned ==
    \A f \in File, p \in Process :
        draft[<<f, p>>] # 0 =>
            /\ \A g \in File : entry[g] # draft[<<f, p>>]
            /\ (call[p].at = "fill" /\ call[p].file = f /\ call[p].inode = draft[<<f, p>>]) <=> <<f, p>> \notin litter

(* The protected files keep what they are for.                             *)
SecretsAreWhole == ReadsAreWhole /\ OneKey /\ DraftsAreOwned
=============================================================================
