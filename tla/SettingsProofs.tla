---------------------------- MODULE SettingsProofs ----------------------------
(***************************************************************************)
(* What the settings keep.  For any number of processes, files, values and *)
(* inodes, on both platforms: the protected files keep what they are for.  *)
(* For any number of requests, accounts, tokens and courses: the Canvas    *)
(* settings are what was reviewed, given and verified.                     *)
(*                                                                         *)
(* The argument: IndInv is inductive.  An inode has one name at most while *)
(* it is written, the temporary name of its writer (Apart, Filling), so    *)
(* that what a name stands for, or what a reader has opened, is not        *)
(* written any more (OpenIsWhole) and is whole if it passes the checks     *)
(* (Published).  The key is only looked for and made under the lock:       *)
(* whoever makes it has seen that there is none, and nobody can have got   *)
(* one since (KeyIsKnown).                                                 *)
(*                                                                         *)
(* The second part is about the Canvas settings (SelectionInv).            *)
(*                                                                         *)
(* The third is about one process of the Local Settings server, for any    *)
(* number of worker threads and accounts.  SessionInv is inductive: the    *)
(* flow a worker commits stays as it is until that worker gives the        *)
(* verdict, whatever the provider and the other workers do (WorkOK); the   *)
(* pair lock leaves what a worker has read of the other purpose's store    *)
(* true until it writes its own (StoredOK); and the session ends only when *)
(* the barrier is closed and empty (EndsOK).                               *)
(*                                                                         *)
(* The fourth is about the reads of a user's courses (DiscoveryInv), for   *)
(* any number of threads, profiles and courses and any bounds: a discovery *)
(* that saw no change has the listing up to its page (ListedSoFar), a      *)
(* reread the first of the chosen courses, of one term (RereadSoFar), and  *)
(* the gate knows every end whose cooldown is not over (EndsAreRemembered).*)
(***************************************************************************)
EXTENDS SecretFile, CanvasSettings, SettingsSession, CanvasDiscovery, FiniteSetTheorems, SequenceTheorems, TLAPS

Names   == File \X Process
Places  == {"open", "unlink", "check", "read", "got", "create", "fill", "sync"}
Reading == {"check", "read", "got"}
Kind    == {"write", "read", "delete", "key"}

NodeType == [value : Value, parts : 0 .. Size, trusted : BOOLEAN]
CallType == [at : Places, op : Kind, file : File, value : Value, inode : 0 .. made, parts : 0 .. Size]

(* Every variable has its type.                                            *)
SecretTypeOK ==
    /\ windows \in BOOLEAN /\ private \in BOOLEAN
    /\ made \in 0 .. MaxNode
    /\ entry \in [File -> 0 .. made]
    /\ draft \in [Names -> 0 .. made]
    /\ node \in [Nodes -> NodeType]
    /\ call \in [Process -> CallType \cup {NoCall}]
    /\ keyLock \in Process \cup {Nobody}
    /\ keys \subseteq Value
    /\ misread \in BOOLEAN

(* An inode that is being written has one name.                            *)
Apart ==
    /\ \A n \in Names, f \in File : draft[n] # 0 => draft[n] # entry[f]
    /\ \A n, m \in Names : draft[n] # 0 /\ draft[n] = draft[m] => n = m

(* A writer knows its inode by its temporary name.                         *)
Filling ==
    \A p \in Process : call[p].at = "fill" =>
        /\ call[p].inode # 0 /\ draft[<<call[p].file, p>>] = call[p].inode
        /\ node[call[p].inode].trusted /\ node[call[p].inode].value = call[p].value

(* What a reader has opened is not written any more.                       *)
OpenedBy(c) ==
    c.at \in Reading =>
        /\ c.inode # 0
        /\ \A n \in Names : draft[n] # c.inode
        /\ node[c.inode].trusted => Whole(c.inode)
        /\ c.at # "check" => node[c.inode].trusted
        /\ c.at = "got" => c.value = node[c.inode].value /\ c.parts = Size

OpenIsWhole == \A p \in Process : OpenedBy(call[p])

(* What a name stands for is whole, if it passes the checks.               *)
Published == \A f \in File : entry[f] # 0 /\ node[entry[f]].trusted => Whole(entry[f])

(* The key that is there, of which v is the value.                         *)
Holds(v) ==
    /\ keys \subseteq {v}
    /\ entry[KeyFile] # 0
    /\ node[entry[KeyFile]].trusted => node[entry[KeyFile]].value = v

(* Only state_key works on the key's file, only under its lock, and what   *)
(* it knows of the key there, unless the file could once not be opened.    *)
KeyKnownTo(p, c) ==
    c # NoCall =>
        IF c.op = "key"
        THEN /\ keyLock = p /\ c.file = KeyFile /\ c.at # "unlink"
             /\ c.at \in {"create", "fill"} => keys = {}
             /\ c.at = "sync" => keys = {} /\ Holds(c.value)
             /\ c.at \in Reading /\ node[c.inode].trusted => Holds(node[c.inode].value)
        ELSE c.at \in {"create", "fill", "sync", "unlink"} => c.file # KeyFile

KeyIsKnown == ~misread =>
    /\ \A p \in Process : KeyKnownTo(p, call[p])
    /\ keys # {} => \E v \in keys : Holds(v)

(* A temporary file is a writer's or left, and what is left stays: a       *)
(* writer has another one.                                                 *)
DraftsKnown ==
    \A f \in File, p \in Process : draft[<<f, p>>] # 0 =>
        \/ call[p].at = "fill" /\ call[p].file = f /\ call[p].inode = draft[<<f, p>>]
        \/ <<f, p>> \in litter

LitterStays ==
    /\ \A n \in litter : n \in Names /\ draft[n] # 0
    /\ \A p \in Process : call[p].at = "fill" => <<call[p].file, p>> \notin litter

IndInv == SecretTypeOK /\ Apart /\ Filling /\ OpenIsWhole /\ Published /\ KeyIsKnown /\ DraftsKnown /\ LitterStays

-----------------------------------------------------------------------------
LEMMA ValueIs == NoNode \in NodeType /\ NoNode.value \in Value
BY SecretAssumption DEF NoNode, NodeType

(* A process in the middle of a call.                                      *)
LEMMA InCall ==
  ASSUME SecretTypeOK, NEW p \in Process, call[p].at # "idle"
  PROVE  call[p] \in CallType
BY DEF SecretTypeOK, NoCall

(* A process starts a call or goes on to another place of it.              *)
LEMMA GoesOn ==
  ASSUME IndInv, NEW p \in Process, NEW c \in CallType, call[p].at # "fill", c.at # "fill",
         call' = [call EXCEPT ![p] = c], OpenedBy(c), ~misread' => KeyKnownTo(p, c),
         misread => misread', misread' \in BOOLEAN,
         UNCHANGED <<windows, private, entry, draft, node, made, keyLock, keys, litter>>
  PROVE  IndInv'
<1>1. SecretTypeOK'
  BY DEF IndInv, SecretTypeOK, CallType
<1>2. call'[p] = c /\ \A q \in Process : q # p => call'[q] = call[q]
  BY DEF IndInv, SecretTypeOK
<1>3. Apart' /\ Published'
  BY DEF IndInv, Apart, Published, Whole
<1>4. Filling'
  BY <1>2 DEF IndInv, Filling
<1>5. \A d : (OpenedBy(d) => OpenedBy(d)') /\ \A q : KeyKnownTo(q, d) => KeyKnownTo(q, d)'
  BY DEF OpenedBy, KeyKnownTo, Holds, Whole
<1>6. OpenedBy(c)' /\ (~misread' => KeyKnownTo(p, c)')
  BY <1>5
<1>7. OpenIsWhole'
  BY <1>2, <1>5, <1>6 DEF IndInv, OpenIsWhole
<1>8. KeyIsKnown'
  BY <1>2, <1>5, <1>6 DEF IndInv, KeyIsKnown, Holds
<1>9. DraftsKnown'
  BY <1>2 DEF IndInv, DraftsKnown
<1>10. LitterStays'
  BY <1>2 DEF IndInv, LitterStays
<1> QED BY <1>1, <1>3, <1>4, <1>7, <1>8, <1>9, <1>10 DEF IndInv

(* A call ends: its temporary name is removed or left to the litter, and a *)
(* key is handed out only by who knows it.                                 *)
LEMMA Ends ==
  ASSUME IndInv, NEW p \in Process, EndsCall(p), keyLock' = keyLock \/ LeavesKey(p),
         \/ keys' = keys
         \/ misread /\ keys' \subseteq Value
         \/ call[p] # NoCall /\ call[p].op = "key" /\ \E v \in Value : Holds(v) /\ keys' = {v},
         \/ call[p].at # "fill" /\ draft' = draft /\ litter' = litter
         \/ call[p].at = "fill" /\ draft' = draft /\ litter' = litter \cup {<<call[p].file, p>>}
         \/ call[p].at = "fill" /\ draft' = [draft EXCEPT ![<<call[p].file, p>>] = 0] /\ litter' = litter,
         private' \in BOOLEAN, UNCHANGED <<windows, entry, node, made, misread>>
  PROVE  IndInv'
<1>1. SecretTypeOK'
  <2>1. draft' \in [Names -> 0 .. made]
    BY DEF IndInv, SecretTypeOK
  <2>2. call' \in [Process -> CallType \cup {NoCall}]
    BY DEF IndInv, SecretTypeOK, EndsCall
  <2> QED BY <2>1, <2>2 DEF IndInv, SecretTypeOK, LeavesKey, CallType
<1>2. call'[p] = NoCall /\ \A q \in Process : q # p => call'[q] = call[q]
  BY DEF IndInv, SecretTypeOK, EndsCall
<1>3. /\ \A n \in Names : draft'[n] = draft[n] \/ draft'[n] = 0
      /\ \A q \in Process, f \in File : q # p => draft'[<<f, q>>] = draft[<<f, q>>]
      /\ \A f \in File : (call[p] # NoCall /\ f = call[p].file) \/ draft'[<<f, p>>] = draft[<<f, p>>]
  <2>1. draft' = draft \/ (call[p] # NoCall /\ draft' = [draft EXCEPT ![<<call[p].file, p>>] = 0])
    BY DEF NoCall
  <2> QED BY <2>1 DEF IndInv, SecretTypeOK, Names
<1>4. Apart' /\ Published'
  BY <1>3 DEF IndInv, Apart, Published, Whole
<1>5. Filling'
  <2> SUFFICES ASSUME NEW q \in Process, call'[q].at = "fill"
               PROVE  /\ call'[q].inode # 0 /\ draft'[<<call'[q].file, q>>] = call'[q].inode
                      /\ node'[call'[q].inode].trusted /\ node'[call'[q].inode].value = call'[q].value
    BY DEF Filling
  <2>1. q # p /\ call'[q] = call[q]
    BY <1>2 DEF NoCall
  <2>2. call[q] \in CallType
    BY <2>1, InCall DEF IndInv
  <2> QED BY <1>3, <2>1, <2>2 DEF IndInv, Filling, CallType
<1>6. OpenIsWhole'
  <2>1. ASSUME NEW q \in Process PROVE OpenedBy(call[q])'
    <3>1. CASE q = p
      <4>1. call'[q].at \notin Reading
        BY <1>2, <3>1 DEF NoCall, Reading
      <4> QED BY <4>1 DEF OpenedBy
    <3>2. CASE q # p
      <4>1. call'[q] = call[q]
        BY <1>2, <3>2
      <4>2. call[q].at \in Reading => call[q].inode # 0 /\ \A n \in Names : draft'[n] # call[q].inode
        BY <1>3 DEF IndInv, OpenIsWhole, OpenedBy
      <4> QED BY <4>1, <4>2 DEF IndInv, OpenIsWhole, OpenedBy, Whole
    <3> QED BY <3>1, <3>2
  <2> QED BY <2>1 DEF OpenIsWhole
<1>7. KeyIsKnown'
  <2>1. CASE keys' = keys
    <3>1. \A v : Holds(v) => Holds(v)'
      BY <2>1 DEF Holds
    <3>2. ~misread' => \A q \in Process : KeyKnownTo(q, call[q])'
      BY <1>2, <2>1, <3>1 DEF IndInv, KeyIsKnown, KeyKnownTo, LeavesKey
    <3> QED BY <2>1, <3>1, <3>2 DEF IndInv, KeyIsKnown
  <2>2. CASE misread
    BY <2>2 DEF KeyIsKnown
  <2>3. CASE ~misread /\ call[p] # NoCall /\ call[p].op = "key" /\ \E v \in Value : Holds(v) /\ keys' = {v}
    <3>1. PICK v \in Value : Holds(v) /\ keys' = {v}
      BY <2>3
    <3>2. Holds(v)'
      BY <3>1 DEF Holds
    <3>3. keyLock = p
      BY <2>3 DEF IndInv, KeyIsKnown, KeyKnownTo
    <3>4. ASSUME NEW q \in Process PROVE KeyKnownTo(q, call[q])'
      <4>1. CASE q = p
        BY <1>2, <4>1 DEF KeyKnownTo
      <4>2. CASE q # p
        BY <1>2, <2>3, <3>3, <4>2 DEF IndInv, KeyIsKnown, KeyKnownTo
      <4> QED BY <4>1, <4>2
    <3> QED BY <3>1, <3>2, <3>4 DEF KeyIsKnown
  <2> QED BY <2>1, <2>2, <2>3
<1>8. DraftsKnown'
  <2> SUFFICES ASSUME NEW f \in File, NEW q \in Process, draft'[<<f, q>>] # 0
               PROVE  \/ call'[q].at = "fill" /\ call'[q].file = f /\ call'[q].inode = draft'[<<f, q>>]
                      \/ <<f, q>> \in litter'
    BY DEF DraftsKnown
  <2>1. CASE q # p
    BY <1>2, <1>3, <2>1 DEF IndInv, DraftsKnown
  <2>2. CASE q = p
    <3>1. draft'[<<f, p>>] = draft[<<f, p>>]
      BY <1>3, <2>2 DEF Names
    <3>2. <<f, p>> \in litter \/ (call[p].at = "fill" /\ call[p].file = f)
      BY <2>2, <3>1 DEF IndInv, DraftsKnown
    <3>3. CASE call[p].at = "fill" /\ call[p].file = f
      <4>1. draft' = draft
        BY <2>2, <3>3, <1>3 DEF IndInv, SecretTypeOK, Names
      <4> QED BY <2>2, <3>3, <4>1 DEF IndInv, SecretTypeOK, Names
    <3> QED BY <2>2, <3>2, <3>3
  <2> QED BY <2>1, <2>2
<1>9. LitterStays'
  <2>1. ASSUME NEW q \in Process, call'[q].at = "fill"
        PROVE  <<call'[q].file, q>> \notin litter'
    <3>1. q # p /\ call'[q] = call[q]
      BY <1>2, <2>1 DEF NoCall
    <3> QED BY <2>1, <3>1 DEF IndInv, LitterStays
  <2>2. ASSUME NEW n \in litter' PROVE n \in Names /\ draft'[n] # 0
    <3>1. CASE n \in litter
      <4>1. n \in Names /\ draft[n] # 0
        BY <3>1 DEF IndInv, LitterStays
      <4>2. call[p].at = "fill" => n # <<call[p].file, p>>
        BY <3>1 DEF IndInv, LitterStays
      <4> QED BY <4>1, <4>2 DEF IndInv, SecretTypeOK
    <3>2. CASE n \notin litter
      <4>1. call[p].at = "fill" /\ draft' = draft /\ n = <<call[p].file, p>>
        BY <2>2, <3>2
      <4>2. call[p] \in CallType
        BY <4>1, InCall DEF IndInv
      <4> QED BY <4>1, <4>2 DEF IndInv, Filling, Names, CallType
    <3> QED BY <3>1, <3>2
  <2> QED BY <2>1, <2>2 DEF LitterStays
<1> QED BY <1>1, <1>4, <1>5, <1>6, <1>7, <1>8, <1>9 DEF IndInv

(* A call starts; only state_key touches the file of the key.              *)
LEMMA StartKeeps ==
  ASSUME IndInv, NEW p \in Process, NEW f \in File, NEW v \in Value,
         StartWrite(p, f, v) \/ StartRead(p, f) \/ StartDelete(p, f)
  PROVE  IndInv'
<1>1. call[p] = NoCall /\ call[p].at # "fill"
  BY DEF StartWrite, StartRead, StartDelete, NoCall
<1>2. PICK at \in {"create", "open", "unlink"}, op \in {"write", "read", "delete"}, w \in Value :
         call' = [call EXCEPT ![p] = NewCall(at, op, f, w)] /\ (at # "open" => f # KeyFile)
  <2>1. CASE StartWrite(p, f, v)
    BY <2>1 DEF StartWrite
  <2>2. CASE StartRead(p, f)
    BY <2>2, ValueIs DEF StartRead
  <2>3. CASE StartDelete(p, f)
    <3>1. CASE entry[f] = 0
      BY <2>3, <3>1, ValueIs DEF StartDelete
    <3>2. CASE entry[f] # 0
      BY <2>3, <3>2, ValueIs DEF StartDelete
    <3> QED BY <3>1, <3>2
  <2> QED BY <2>1, <2>2, <2>3
<1> DEFINE c == NewCall(at, op, f, w)
<1>3. /\ c \in CallType /\ c.at = at /\ c.op = op /\ c.file = f
  BY SecretAssumption DEF NewCall, CallType, Places, Kind, IndInv, SecretTypeOK
<1>4. call' = [call EXCEPT ![p] = c]
  BY <1>2
<1> HIDE DEF c
<1>5. OpenedBy(c) /\ KeyKnownTo(p, c)
  BY <1>2, <1>3 DEF OpenedBy, Reading, KeyKnownTo
<1>6. UNCHANGED <<windows, private, entry, draft, node, made, keyLock, keys, misread, litter>>
  BY DEF StartWrite, StartRead, StartDelete
<1> QED BY <1>1, <1>2, <1>3, <1>4, <1>5, <1>6, GoesOn DEF IndInv, SecretTypeOK

(* The lock is free: nobody else is at the key.                            *)
LEMMA StartKeyKeeps ==
  ASSUME IndInv, NEW p \in Process, NEW v \in Value, StartKey(p, v)
  PROVE  IndInv'
<1> DEFINE c == NewCall("open", "key", KeyFile, v)
<1>1. /\ c \in CallType /\ c.at = "open" /\ c.op = "key" /\ c.file = KeyFile
  BY SecretAssumption DEF NewCall, CallType, Places, Kind, IndInv, SecretTypeOK
<1>2. call' = [call EXCEPT ![p] = c]
  BY DEF StartKey
<1> HIDE DEF c
<1>3. call'[p] = c /\ \A q \in Process : q # p => call'[q] = call[q]
  BY <1>2 DEF IndInv, SecretTypeOK
<1>4. SecretTypeOK'
  BY <1>1, <1>2 DEF StartKey, IndInv, SecretTypeOK, CallType
<1>5. Apart' /\ Published'
  BY DEF StartKey, IndInv, Apart, Published, Whole
<1>6. Filling'
  BY <1>1, <1>3 DEF StartKey, IndInv, Filling
<1>7. OpenIsWhole'
  <2>1. \A d : OpenedBy(d) => OpenedBy(d)'
    BY DEF StartKey, OpenedBy, Whole
  <2>2. OpenedBy(c)'
    BY <1>1 DEF OpenedBy, Reading
  <2> QED BY <1>3, <2>1, <2>2 DEF IndInv, OpenIsWhole
<1>8. KeyIsKnown'
  <2> SUFFICES ASSUME ~misread PROVE KeyIsKnown'
    BY DEF KeyIsKnown, StartKey
  <2>1. \A w : Holds(w) => Holds(w)'
    BY DEF StartKey, Holds
  <2>2. KeyKnownTo(p, c)'
    BY <1>1 DEF StartKey, KeyKnownTo, Reading
  <2>3. ASSUME NEW q \in Process, q # p PROVE KeyKnownTo(q, call[q])'
    <3>1. keyLock # q
      BY SecretAssumption DEF StartKey
    <3>2. KeyKnownTo(q, call[q])
      BY DEF IndInv, KeyIsKnown
    <3>3. call'[q] = call[q]
      BY <1>3, <2>3
    <3> QED BY <3>1, <3>2, <3>3 DEF KeyKnownTo
  <2>4. keys' = keys
    BY DEF StartKey
  <2> QED BY <1>3, <2>1, <2>2, <2>3, <2>4 DEF IndInv, KeyIsKnown
<1>9. DraftsKnown'
  <2>1. call[p].at # "fill"
    BY DEF StartKey, NoCall
  <2> QED BY <1>3, <2>1 DEF StartKey, IndInv, DraftsKnown
<1>10. LitterStays'
  BY <1>3 DEF StartKey, NewCall, IndInv, LitterStays
<1> QED BY <1>4, <1>5, <1>6, <1>7, <1>8, <1>9, <1>10 DEF IndInv

(* A key that could not be opened is made again.                           *)
LEMMA MisreadKeyKeeps ==
  ASSUME IndInv, NEW p \in Process, MisreadKey(p)
  PROVE  IndInv'
<1>1. call[p].at = "open" /\ call[p] \in CallType
  BY InCall DEF IndInv, MisreadKey
<1> DEFINE c == [call[p] EXCEPT !.at = "create"]
<1>2. c \in CallType /\ c.at = "create"
  BY <1>1 DEF CallType, Places
<1>3. call' = [call EXCEPT ![p] = c]
  BY <1>1 DEF MisreadKey, Goes, IndInv, SecretTypeOK
<1> HIDE DEF c
<1>4. OpenedBy(c)
  BY <1>2 DEF OpenedBy, Reading
<1> QED BY <1>1, <1>2, <1>3, <1>4, GoesOn DEF MisreadKey

(* A missing key is made by who holds its lock: there was none before.     *)
LEMMA OpenFileKeeps ==
  ASSUME IndInv, NEW p \in Process, OpenFile(p)
  PROVE  IndInv'
<1>1. call[p].at = "open" /\ call[p] \in CallType /\ call[p].file \in File
  BY InCall DEF IndInv, OpenFile, CallType
<1>2. CASE private /\ entry[call[p].file] # 0
  <2> DEFINE c == [call[p] EXCEPT !.at = "check", !.inode = entry[call[p].file]]
  <2>1. /\ c \in CallType /\ c.at = "check" /\ c.inode = entry[call[p].file]
        /\ c.op = call[p].op /\ c.file = call[p].file
    BY <1>1 DEF CallType, Places, IndInv, SecretTypeOK
  <2>2. call' = [call EXCEPT ![p] = c]
    BY <1>2, <1>1 DEF OpenFile, IndInv, SecretTypeOK
  <2> HIDE DEF c
  <2>3. OpenedBy(c)
    BY <1>1, <1>2, <2>1 DEF OpenedBy, IndInv, Apart, Published
  <2>4. ASSUME ~misread PROVE KeyKnownTo(p, c)
    <3>1. CASE c.op = "key"
      <4> call[p] # NoCall /\ KeyKnownTo(p, call[p])
        BY <1>1, <2>4 DEF IndInv, KeyIsKnown, NoCall
      <4>1. keyLock = p /\ c.file = KeyFile
        BY <1>1, <2>1, <3>1 DEF KeyKnownTo
      <4>2. node[c.inode].trusted => Holds(node[c.inode].value)
        BY <1>2, <2>1, <2>4, <4>1 DEF IndInv, KeyIsKnown, Holds
      <4> QED BY <2>1, <3>1, <4>1, <4>2 DEF KeyKnownTo
    <3>2. CASE c.op # "key"
      BY <2>1, <3>2 DEF KeyKnownTo
    <3> QED BY <3>1, <3>2
  <2> QED BY <1>1, <1>2, <2>1, <2>2, <2>3, <2>4, GoesOn DEF OpenFile, IndInv, SecretTypeOK
<1>3. CASE ~(private /\ entry[call[p].file] # 0) /\ private /\ call[p].op = "key"
  <2> DEFINE c == [call[p] EXCEPT !.at = "create"]
  <2>1. c \in CallType /\ c.at = "create" /\ c.op = "key" /\ c.file = call[p].file
    BY <1>1, <1>3 DEF CallType, Places
  <2>2. call' = [call EXCEPT ![p] = c]
    BY <1>3, <1>1 DEF OpenFile, Goes, IndInv, SecretTypeOK
  <2> HIDE DEF c
  <2>3. OpenedBy(c)
    BY <2>1 DEF OpenedBy, Reading
  <2>4. ASSUME ~misread PROVE KeyKnownTo(p, c)
    <3>1. call[p] # NoCall /\ KeyKnownTo(p, call[p])
      BY <1>1, <2>4 DEF IndInv, KeyIsKnown, NoCall
    <3>2. keyLock = p /\ call[p].file = KeyFile
      BY <1>3, <3>1 DEF KeyKnownTo
    <3>3. keys = {}
      BY <1>3, <2>4, <3>2 DEF IndInv, KeyIsKnown, Holds
    <3> QED BY <2>1, <3>2, <3>3 DEF KeyKnownTo, Reading
  <2> QED BY <1>1, <1>3, <2>1, <2>2, <2>3, <2>4, GoesOn DEF OpenFile, IndInv, SecretTypeOK
<1>4. CASE ~(private /\ entry[call[p].file] # 0) /\ ~(private /\ call[p].op = "key")
  BY <1>1, <1>4, Ends DEF OpenFile, IndInv, SecretTypeOK
<1> QED BY <1>2, <1>3, <1>4

LEMMA CheckFileKeeps ==
  ASSUME IndInv, NEW p \in Process, CheckFile(p)
  PROVE  IndInv'
<1>1. call[p].at = "check" /\ call[p] \in CallType
  BY InCall DEF IndInv, CheckFile
<1>2. CASE node[call[p].inode].trusted
  <2> DEFINE c == [call[p] EXCEPT !.at = "read"]
  <2>1. /\ c \in CallType /\ c.at = "read" /\ c.inode = call[p].inode
        /\ c.op = call[p].op /\ c.file = call[p].file
    BY <1>1 DEF CallType, Places
  <2>2. call' = [call EXCEPT ![p] = c]
    BY <1>2, <1>1 DEF CheckFile, Goes, IndInv, SecretTypeOK
  <2> HIDE DEF c
  <2>3. OpenedBy(c)
    BY <1>1, <1>2, <2>1 DEF OpenedBy, IndInv, OpenIsWhole, Reading
  <2>4. ASSUME ~misread PROVE KeyKnownTo(p, c)
    BY <1>1, <2>1, <2>4 DEF IndInv, KeyIsKnown, KeyKnownTo, NoCall, Reading
  <2> QED BY <1>1, <1>2, <2>1, <2>2, <2>3, <2>4, GoesOn DEF CheckFile, IndInv, SecretTypeOK
<1>3. CASE ~node[call[p].inode].trusted
  BY <1>1, <1>3, Ends DEF CheckFile, IndInv, SecretTypeOK
<1> QED BY <1>2, <1>3

LEMMA ReadFileKeeps ==
  ASSUME IndInv, NEW p \in Process, ReadFile(p)
  PROVE  IndInv'
<1>1. call[p].at = "read" /\ call[p] \in CallType
  BY InCall DEF IndInv, ReadFile
<1>2. OpenedBy(call[p]) /\ call[p].inode \in Nodes /\ node[call[p].inode] \in NodeType
  <2>1. OpenedBy(call[p])
    BY DEF IndInv, OpenIsWhole
  <2>2. call[p].inode # 0
    BY <1>1, <2>1 DEF OpenedBy, Reading
  <2>3. call[p].inode \in 0 .. made /\ made \in 0 .. MaxNode
    BY <1>1 DEF CallType, IndInv, SecretTypeOK
  <2>4. call[p].inode \in Nodes
    BY <2>2, <2>3, SecretAssumption DEF Nodes
  <2> QED BY <2>1, <2>4 DEF IndInv, SecretTypeOK
<1>3. node[call[p].inode].trusted /\ node[call[p].inode].parts = Size
  BY <1>1, <1>2 DEF OpenedBy, Reading, Whole
<1> DEFINE c == [call[p] EXCEPT !.at = "got", !.value = node[call[p].inode].value,
                                !.parts = node[call[p].inode].parts]
<1>4. /\ c \in CallType /\ c.at = "got" /\ c.inode = call[p].inode
      /\ c.op = call[p].op /\ c.file = call[p].file
      /\ c.value = node[call[p].inode].value /\ c.parts = Size
  BY <1>1, <1>2, <1>3 DEF CallType, Places, NodeType
<1>5. call' = [call EXCEPT ![p] = c]
  BY <1>1 DEF ReadFile, IndInv, SecretTypeOK
<1> HIDE DEF c
<1>6. OpenedBy(c)
  BY <1>1, <1>2, <1>4 DEF OpenedBy, Reading
<1>7. ASSUME ~misread PROVE KeyKnownTo(p, c)
  BY <1>1, <1>4, <1>7 DEF IndInv, KeyIsKnown, KeyKnownTo, NoCall, Reading
<1> QED BY <1>1, <1>4, <1>5, <1>6, <1>7, GoesOn DEF ReadFile, IndInv, SecretTypeOK

LEMMA GiveKeeps ==
  ASSUME IndInv, NEW p \in Process, Give(p)
  PROVE  IndInv'
<1>1. call[p].at = "got" /\ call[p] \in CallType /\ call[p] # NoCall
  BY InCall DEF IndInv, Give, NoCall
<1>2. /\ OpenedBy(call[p]) /\ (~misread => KeyKnownTo(p, call[p])) /\ call[p].value \in Value
      /\ keys \subseteq Value /\ private \in BOOLEAN /\ misread \in BOOLEAN
  BY <1>1 DEF IndInv, OpenIsWhole, KeyIsKnown, CallType, SecretTypeOK
<1>3. CASE call[p].op = "key" /\ ~misread
  <2>1. Holds(call[p].value)
    BY <1>1, <1>2, <1>3 DEF OpenedBy, KeyKnownTo, Reading
  <2>2. keys' = keys \/ keys' = {call[p].value}
    BY <2>1 DEF Give, Holds
  <2> QED BY <1>1, <1>2, <1>3, <2>1, <2>2, Ends DEF Give
<1>4. CASE call[p].op # "key"
  BY <1>1, <1>2, <1>4, Ends DEF Give
<1>5. CASE misread
  <2>1. keys' \subseteq Value
    BY <1>2 DEF Give
  <2> QED BY <1>1, <1>2, <1>5, <2>1, Ends DEF Give
<1> QED BY <1>2, <1>3, <1>4, <1>5

LEMMA WrittenKeeps ==
  ASSUME IndInv, NEW p \in Process, Written(p)
  PROVE  IndInv'
<1>1. call[p].at = "sync" /\ call[p] \in CallType /\ call[p] # NoCall
  BY InCall DEF IndInv, Written, NoCall
<1> private \in BOOLEAN /\ misread \in BOOLEAN /\ keys \subseteq Value
  BY DEF IndInv, SecretTypeOK
<1>2. CASE call[p].op = "key" /\ ~misread
  <2>1. Holds(call[p].value) /\ call[p].value \in Value /\ keys = {}
    BY <1>1, <1>2 DEF IndInv, KeyIsKnown, KeyKnownTo, CallType
  <2>2. keys' = {call[p].value}
    BY <1>2, <2>1 DEF Written
  <2> QED BY <1>1, <1>2, <2>1, <2>2, Ends DEF Written
<1>3. CASE call[p].op # "key"
  <2> DEFINE c == [call[p] EXCEPT !.at = "open"]
  <2>1. c \in CallType /\ c.at = "open" /\ c.op = call[p].op
    BY <1>1 DEF CallType, Places
  <2>2. call' = [call EXCEPT ![p] = c]
    BY <1>3, <1>1 DEF Written, Goes, IndInv, SecretTypeOK
  <2> HIDE DEF c
  <2>3. OpenedBy(c) /\ KeyKnownTo(p, c)
    BY <1>3, <2>1 DEF OpenedBy, Reading, KeyKnownTo
  <2> QED BY <1>1, <1>3, <2>1, <2>2, <2>3, GoesOn DEF Written
<1>4. CASE call[p].op = "key" /\ misread
  <2>1. keys' \subseteq Value
    BY <1>1, <1>4 DEF Written, CallType
  <2> QED BY <1>1, <1>4, <2>1, Ends DEF Written
<1> QED BY <1>2, <1>3, <1>4

LEMMA FailsKeeps ==
  ASSUME IndInv, NEW p \in Process, Fails(p) \/ Dies(p)
  PROVE  IndInv'
<1>1. private' \in BOOLEAN
  BY DEF Fails, Dies, MayHarden, Hardens, IndInv, SecretTypeOK
<1> DEFINE n == <<call[p].file, p>>
<1>0. /\ EndsCall(p) /\ LeavesKey(p) /\ UNCHANGED <<windows, entry, node, made, keys, misread>>
      /\ \/ call[p].at # "fill" /\ draft' = draft /\ litter' = litter
         \/ call[p].at = "fill" /\ draft' = draft /\ litter' = litter \cup {n}
         \/ call[p].at = "fill" /\ draft' = [draft EXCEPT ![n] = 0] /\ litter' = litter
  <2>1. EndsCall(p) /\ LeavesKey(p) /\ UNCHANGED <<windows, entry, node, made, keys, misread>>
    BY DEF Fails, Dies
  <2>2. CASE call[p].at = "fill"
    <3> PICK m : m = TempName(call[p].file, p)
      OBVIOUS
    <3>1. Fails(p) => (draft' = [draft EXCEPT ![m] = 0] /\ litter' = litter) \/ LeavesDraft(m)
      BY <2>2 DEF Fails
    <3>2. Dies(p) => LeavesDraft(m)
      BY <2>2 DEF Dies
    <3>3. m = n
      BY DEF TempName
    <3> QED BY <2>1, <2>2, <3>1, <3>2, <3>3 DEF LeavesDraft
  <2>3. CASE call[p].at # "fill"
    BY <2>1, <2>3 DEF Fails, Dies
  <2> QED BY <2>2, <2>3
<1> QED BY <1>0, <1>1, Ends

(* A new inode: nobody knows it yet, and the others stay as they are.      *)
LEMMA MakesFresh ==
  ASSUME IndInv, NEW v \in Value, NEW trusted \in BOOLEAN, NEW parts \in 0 .. Size, Makes(v, trusted, parts)
  PROVE  /\ made' = made + 1 /\ made' \in Nodes /\ made \in Nat /\ made' \in 0 .. MaxNode
         /\ node' \in [Nodes -> NodeType]
         /\ node'[made'] = [value |-> v, parts |-> parts, trusted |-> trusted]
         /\ \A i \in 0 .. made : i # made' /\ i \in 0 .. made' /\ (i # 0 => node'[i] = node[i])
         /\ \A p \in Process : call[p] # NoCall =>
               /\ call[p].inode \in 0 .. made
               /\ call[p] \in [at : Places, op : Kind, file : File, value : Value,
                               inode : 0 .. made', parts : 0 .. Size]
<1>1. made' = made + 1 /\ made' \in Nodes /\ made \in Nat /\ made' \in 0 .. MaxNode
  BY SecretAssumption DEF IndInv, SecretTypeOK, Makes, Nodes
<1>2. [value |-> v, parts |-> parts, trusted |-> trusted] \in NodeType
  BY DEF NodeType
<1>3. /\ node' \in [Nodes -> NodeType]
      /\ node'[made'] = [value |-> v, parts |-> parts, trusted |-> trusted]
  BY <1>1, <1>2 DEF IndInv, SecretTypeOK, Makes
<1>4. \A i \in 0 .. made : i # made' /\ i \in 0 .. made'
  BY <1>1
<1>5. \A i \in 0 .. made : i # 0 => node'[i] = node[i]
  BY <1>1, <1>4 DEF IndInv, SecretTypeOK, Makes, Nodes
<1>6. ASSUME NEW p \in Process, call[p] # NoCall
      PROVE  /\ call[p].inode \in 0 .. made
             /\ call[p] \in [at : Places, op : Kind, file : File, value : Value,
                             inode : 0 .. made', parts : 0 .. Size]
  <2>1. call[p] \in CallType
    BY <1>6 DEF IndInv, SecretTypeOK
  <2> QED BY <1>4, <2>1 DEF CallType
<1> QED BY <1>1, <1>3, <1>4, <1>5, <1>6

(* The new file has one name, its writer's own; where the name is taken    *)
(* the call ends.                                                          *)
LEMMA CreateDraftKeeps ==
  ASSUME IndInv, NEW p \in Process, CreateDraft(p)
  PROVE  IndInv'
<1>1. call[p].at = "create" /\ call[p] \in CallType /\ call[p] # NoCall /\ call[p].file \in File /\ call[p].value \in Value
  BY InCall DEF IndInv, CreateDraft, CallType, NoCall
<1> DEFINE n == TempName(call[p].file, p)
<1>2. CASE draft[n] # 0
  <2>1. private' \in BOOLEAN
    BY DEF CreateDraft, Hardens
  <2> QED BY <1>1, <1>2, <2>1, Ends DEF CreateDraft, Untaken
<1>3. CASE draft[n] = 0
  <2>1. 0 \in 0 .. Size /\ n \in Names
    BY <1>1, SecretAssumption DEF TempName, Names
  <2>2. Makes(call[p].value, TRUE, 0)
    BY <1>3 DEF CreateDraft, Untaken
  <2>3. /\ made' = made + 1 /\ made' \in Nodes /\ made \in Nat /\ made' \in 0 .. MaxNode
        /\ node' \in [Nodes -> NodeType]
        /\ node'[made'] = [value |-> call[p].value, parts |-> 0, trusted |-> TRUE]
        /\ \A i \in 0 .. made : i # made' /\ i \in 0 .. made' /\ (i # 0 => node'[i] = node[i])
    BY <1>1, <2>1, <2>2, MakesFresh
  <2>4. \A q \in Process : call[q] # NoCall =>
               /\ call[q].inode \in 0 .. made
               /\ call[q] \in [at : Places, op : Kind, file : File, value : Value,
                               inode : 0 .. made', parts : 0 .. Size]
    BY <1>1, <2>1, <2>2, MakesFresh
  <2> PICK i \in Nat : i = made'
    BY <2>3
  <2> PICK c : c = [call[p] EXCEPT !.at = "fill", !.inode = i]
    OBVIOUS
  <2>5. /\ c \in [at : Places, op : Kind, file : File, value : Value, inode : 0 .. made', parts : 0 .. Size]
        /\ c.at = "fill" /\ c.inode = made' /\ c.op = call[p].op /\ c.file = call[p].file
        /\ c.value = call[p].value
    <3>1. i \in 0 .. made'
      BY <2>3
    <3> QED BY <1>1, <2>4, <3>1 DEF Places
  <2>6. call' = [call EXCEPT ![p] = c] /\ draft' = [draft EXCEPT ![n] = made']
    BY <1>1, <1>3 DEF CreateDraft, Untaken, IndInv, SecretTypeOK
  <2>7. call'[p] = c /\ \A q \in Process : q # p => call'[q] = call[q]
    BY <2>6 DEF IndInv, SecretTypeOK
  <2>8. draft'[n] = made' /\ \A m \in Names : m # n => draft'[m] = draft[m]
    BY <2>1, <2>6 DEF IndInv, SecretTypeOK
  <2>9. UNCHANGED <<windows, entry, keyLock, keys, misread, litter>> /\ private' = TRUE
    BY <1>3 DEF CreateDraft, Untaken, Hardens
  <2>10. /\ \A m \in Names : draft[m] \in 0 .. made
         /\ \A f \in File : entry[f] \in 0 .. made
    BY DEF IndInv, SecretTypeOK
  <2>11. SecretTypeOK'
    <3>1. draft' \in [Names -> 0 .. made']
      BY <2>1, <2>3, <2>6, <2>10 DEF IndInv, SecretTypeOK
    <3>2. entry' \in [File -> 0 .. made']
      BY <2>3, <2>9, <2>10 DEF IndInv, SecretTypeOK
    <3>3. call' \in [Process -> CallType' \cup {NoCall}]
      BY <2>4, <2>5, <2>6 DEF IndInv, SecretTypeOK, CallType
    <3> QED BY <2>3, <2>9, <3>1, <3>2, <3>3 DEF IndInv, SecretTypeOK
  <2>12. Apart'
    BY <2>3, <2>8, <2>9, <2>10 DEF IndInv, Apart
  <2>13. Filling'
    <3> SUFFICES ASSUME NEW q \in Process, call'[q].at = "fill"
                 PROVE  /\ call'[q].inode # 0 /\ draft'[<<call'[q].file, q>>] = call'[q].inode
                        /\ node'[call'[q].inode].trusted /\ node'[call'[q].inode].value = call'[q].value
      BY DEF Filling
    <3>1. CASE q = p
      <4>1. call'[q] = c /\ c.inode = made' /\ made' # 0
        BY <2>3, <2>5, <2>7, <3>1
      <4>2. draft'[<<c.file, q>>] = made'
        BY <2>5, <2>8, <3>1 DEF TempName
      <4>3. node'[made'].trusted /\ node'[made'].value = c.value
        BY <2>3, <2>5
      <4> QED BY <4>1, <4>2, <4>3
    <3>2. CASE q # p
      <4>1. call'[q] = call[q] /\ call[q] \in CallType
        BY <2>7, <3>2, InCall DEF IndInv
      <4>2. <<call[q].file, q>> # n /\ <<call[q].file, q>> \in Names
        BY <3>2, <4>1 DEF TempName, Names, CallType
      <4>3. call[q].inode \in 0 .. made
        BY <4>1 DEF CallType
      <4> QED BY <2>3, <2>8, <4>1, <4>2, <4>3 DEF IndInv, Filling
    <3> QED BY <3>1, <3>2
  <2>14. OpenIsWhole'
    <3>1. ASSUME NEW q \in Process PROVE OpenedBy(call[q])'
      <4>1. CASE q = p
        BY <2>5, <2>7, <4>1 DEF OpenedBy, Reading
      <4>2. CASE q # p /\ call[q].at \in Reading
        <5>1. call'[q] = call[q] /\ OpenedBy(call[q]) /\ call[q] # NoCall
          BY <2>7, <4>2 DEF IndInv, OpenIsWhole, Reading, NoCall
        <5>2. call[q].inode \in 0 .. made /\ call[q].inode # 0
          BY <2>4, <4>2, <5>1 DEF OpenedBy
        <5>3. node'[call[q].inode] = node[call[q].inode]
          BY <2>3, <5>2
        <5>4. \A m \in Names : draft'[m] # call[q].inode
          BY <2>3, <2>8, <4>2, <5>1, <5>2 DEF OpenedBy
        <5> QED BY <4>2, <5>1, <5>2, <5>3, <5>4 DEF OpenedBy, Whole
      <4>3. CASE q # p /\ call[q].at \notin Reading
        BY <2>7, <4>3 DEF OpenedBy
      <4> QED BY <4>1, <4>2, <4>3
    <3> QED BY <3>1 DEF OpenIsWhole
  <2>15. Published'
    BY <2>3, <2>9, <2>10 DEF IndInv, Published, Whole
  <2>16. ASSUME ~misread PROVE KeyIsKnown'
    <3>1. \A v : Holds(v) => Holds(v)'
      <4> SUFFICES ASSUME NEW v, Holds(v) PROVE Holds(v)'
        OBVIOUS
      <4>1. entry[KeyFile] # 0 /\ entry[KeyFile] \in 0 .. made
        BY <2>10, SecretAssumption DEF Holds
      <4> QED BY <2>3, <2>9, <4>1 DEF Holds
    <3>2. ASSUME NEW q \in Process, q # p PROVE KeyKnownTo(q, call[q])'
      <4>1. KeyKnownTo(q, call[q]) /\ OpenedBy(call[q])
        BY <2>16 DEF IndInv, KeyIsKnown, OpenIsWhole
      <4>2. call[q].at \in Reading => node'[call[q].inode] = node[call[q].inode]
        <5> SUFFICES ASSUME call[q].at \in Reading PROVE node'[call[q].inode] = node[call[q].inode]
          OBVIOUS
        <5>1. call[q] # NoCall /\ call[q].inode # 0
          BY <4>1 DEF OpenedBy, Reading, NoCall
        <5> QED BY <2>3, <2>4, <5>1
      <4>3. call'[q] = call[q]
        BY <2>7, <3>2
      <4> QED BY <2>9, <3>1, <4>1, <4>2, <4>3 DEF KeyKnownTo
    <3>3. KeyKnownTo(p, c)'
      <4>1. KeyKnownTo(p, call[p])
        BY <2>16 DEF IndInv, KeyIsKnown
      <4>2. (call[p].op = "key" => keyLock = p /\ call[p].file = KeyFile /\ keys = {})
        BY <1>1, <4>1 DEF KeyKnownTo
      <4>3. call[p].op # "key" => call[p].file # KeyFile
        BY <1>1, <4>1 DEF KeyKnownTo
      <4>4. CASE c.op = "key"
        BY <2>5, <2>9, <4>2, <4>4 DEF KeyKnownTo, Reading
      <4>5. CASE c.op # "key"
        BY <2>5, <2>9, <4>3, <4>5 DEF KeyKnownTo
      <4> QED BY <4>4, <4>5
    <3>4. keys # {} => \E v \in keys : Holds(v)'
      BY <2>16, <3>1 DEF IndInv, KeyIsKnown
    <3>5. \A q \in Process : KeyKnownTo(q, call[q])'
      BY <2>7, <3>2, <3>3 DEF KeyKnownTo
    <3>6. keys' = keys
      BY <2>9
    <3> QED BY <3>4, <3>5, <3>6 DEF KeyIsKnown
  <2>17. DraftsKnown'
    <3> SUFFICES ASSUME NEW f \in File, NEW q \in Process, draft'[<<f, q>>] # 0
                 PROVE  \/ call'[q].at = "fill" /\ call'[q].file = f /\ call'[q].inode = draft'[<<f, q>>]
                        \/ <<f, q>> \in litter'
      BY DEF DraftsKnown
    <3>1. CASE <<f, q>> = n
      <4>1. f = call[p].file /\ q = p
        BY <3>1 DEF TempName
      <4> QED BY <2>5, <2>7, <2>8, <3>1, <4>1
    <3>2. CASE <<f, q>> # n
      <4>1. draft'[<<f, q>>] = draft[<<f, q>>]
        BY <2>8, <3>2 DEF Names
      <4>2. q = p => call[q].at # "fill"
        BY <1>1
      <4> QED BY <2>7, <2>9, <4>1, <4>2 DEF IndInv, DraftsKnown
    <3> QED BY <3>1, <3>2
  <2>18. KeyIsKnown'
    BY <2>9, <2>16 DEF KeyIsKnown
  <2>19. LitterStays'
    <3>1. n \notin litter
      BY <1>3 DEF IndInv, LitterStays
    <3>2. ASSUME NEW m \in litter PROVE m \in Names /\ draft'[m] # 0
      BY <2>8, <3>1 DEF IndInv, LitterStays
    <3>3. ASSUME NEW q \in Process, call'[q].at = "fill"
          PROVE  <<call'[q].file, q>> \notin litter
      <4>1. CASE q = p
        BY <2>5, <2>7, <3>1, <4>1 DEF TempName
      <4>2. CASE q # p
        BY <2>7, <3>3, <4>2 DEF IndInv, LitterStays
      <4> QED BY <4>1, <4>2
    <3> HIDE DEF n
    <3> QED BY <2>9, <3>2, <3>3 DEF LitterStays
  <2> QED BY <2>11, <2>12, <2>13, <2>14, <2>15, <2>17, <2>18, <2>19 DEF IndInv
<1> QED BY <1>2, <1>3

(* Only the writer's own file grows, and nobody has opened it.             *)
LEMMA FillKeeps ==
  ASSUME IndInv, NEW p \in Process, Fill(p)
  PROVE  IndInv'
<1>1. call[p].at = "fill" /\ call[p] \in CallType /\ call[p].file \in File
  BY InCall DEF IndInv, Fill, CallType
<1> DEFINE i == call[p].inode
           n == <<call[p].file, p>>
<1>2. n \in Names /\ i # 0 /\ draft[n] = i /\ i \in 0 .. made /\ made \in 0 .. MaxNode
  BY <1>1 DEF Names, CallType, IndInv, Filling, SecretTypeOK
<1>3. i \in Nodes /\ node[i] \in NodeType /\ node[i].parts # Size
  BY <1>1, <1>2, SecretAssumption DEF Fill, Nodes, Whole, IndInv, SecretTypeOK
<1>4. /\ node' \in [Nodes -> NodeType]
      /\ node'[i].trusted = node[i].trusted /\ node'[i].value = node[i].value
      /\ \A j : j \in Nodes /\ j # i => node'[j] = node[j]
  <2>1. node[i].parts + 1 \in 0 .. Size
    BY <1>3, SecretAssumption DEF NodeType
  <2> PICK m : m = [node[i] EXCEPT !.parts = node[i].parts + 1]
    OBVIOUS
  <2>2. m \in NodeType /\ m.trusted = node[i].trusted /\ m.value = node[i].value
    BY <1>3, <2>1 DEF NodeType
  <2>3. node' = [node EXCEPT ![i] = m]
    BY DEF Fill
  <2> QED BY <1>3, <2>2, <2>3 DEF IndInv, SecretTypeOK
<1>5. UNCHANGED <<windows, private, entry, draft, made, call, keyLock, keys, misread, litter>>
  BY DEF Fill
<1>6. /\ \A f \in File : entry[f] # i /\ entry[f] \in 0 .. made
      /\ \A q \in Process : call[q].at \in Reading =>
            call[q].inode # i /\ call[q].inode # 0 /\ call[q].inode \in 0 .. made
  <2>1. \A f \in File : entry[f] # i /\ entry[f] \in 0 .. made
    BY <1>2 DEF IndInv, Apart, SecretTypeOK
  <2>2. ASSUME NEW q \in Process, call[q].at \in Reading
        PROVE  call[q].inode # i /\ call[q].inode # 0 /\ call[q].inode \in 0 .. made
    <3>1. call[q] \in CallType
      BY <2>2, InCall DEF IndInv, Reading
    <3> QED BY <1>2, <2>2, <3>1 DEF IndInv, OpenIsWhole, OpenedBy, CallType
  <2> QED BY <2>1, <2>2
<1>7. \A j \in 0 .. made : j # 0 /\ j # i => node'[j] = node[j]
  BY <1>2, <1>4, SecretAssumption DEF Nodes
<1>8. SecretTypeOK'
  BY <1>4, <1>5 DEF IndInv, SecretTypeOK, CallType
<1>9. Apart' /\ DraftsKnown'
  BY <1>5 DEF IndInv, Apart, DraftsKnown
<1>10. Published'
  BY <1>5, <1>6, <1>7 DEF IndInv, Published, Whole
<1>11. Filling'
  <2> SUFFICES ASSUME NEW q \in Process, call[q].at = "fill"
               PROVE  node'[call[q].inode].trusted /\ node'[call[q].inode].value = call[q].value
    BY <1>5 DEF IndInv, Filling
  <2>1. call[q] \in CallType
    BY InCall DEF IndInv
  <2>2. call[q].inode # 0 /\ call[q].inode \in 0 .. made
    BY <2>1 DEF IndInv, Filling, CallType
  <2> QED BY <1>4, <1>7, <2>2 DEF IndInv, Filling
<1>12. OpenIsWhole'
  <2>1. ASSUME NEW q \in Process PROVE OpenedBy(call[q])'
    <3>1. call[q].at \in Reading => node'[call[q].inode] = node[call[q].inode]
      BY <1>6, <1>7
    <3> QED BY <1>5, <3>1 DEF IndInv, OpenIsWhole, OpenedBy, Whole
  <2> QED BY <2>1 DEF OpenIsWhole
<1>13. KeyIsKnown'
  <2> SUFFICES ASSUME ~misread PROVE KeyIsKnown'
    BY <1>5 DEF KeyIsKnown
  <2>1. \A v : Holds(v) => Holds(v)'
    BY <1>5, <1>6, <1>7, SecretAssumption DEF Holds
  <2>2. ASSUME NEW q \in Process PROVE KeyKnownTo(q, call[q])'
    <3>1. call[q].at \in Reading => node'[call[q].inode] = node[call[q].inode]
      BY <1>6, <1>7
    <3> QED BY <1>5, <2>1, <3>1 DEF IndInv, KeyIsKnown, KeyKnownTo
  <2> QED BY <1>5, <2>1, <2>2 DEF IndInv, KeyIsKnown
<1>14. LitterStays'
  BY <1>5 DEF IndInv, LitterStays
<1> QED BY <1>8, <1>9, <1>10, <1>11, <1>12, <1>13, <1>14 DEF IndInv

(* What gets the name is whole, and the temporary name is free again.      *)
LEMMA ReplaceKeeps ==
  ASSUME IndInv, NEW p \in Process, Replace(p)
  PROVE  IndInv'
<1>1. call[p].at = "fill" /\ call[p] \in CallType /\ call[p] # NoCall /\ call[p].file \in File
  BY InCall DEF IndInv, Replace, CallType, NoCall
<1> PICK f \in File : f = call[p].file
  BY <1>1
<1> PICK n \in Names : n = <<f, p>>
  BY DEF Names
<1> PICK i : i = draft[n]
  OBVIOUS
<1>2. i # 0 /\ i = call[p].inode /\ Whole(i) /\ node[i].trusted /\ node[i].value = call[p].value
  BY <1>1 DEF Replace, TempName, IndInv, Filling
<1> PICK c : c = [call[p] EXCEPT !.at = "sync"]
  OBVIOUS
<1>3. /\ c \in CallType /\ c.at = "sync" /\ c.op = call[p].op /\ c.file = f /\ c.value = call[p].value
  BY <1>1 DEF CallType, Places
<1>4. /\ call' = [call EXCEPT ![p] = c] /\ entry' = [entry EXCEPT ![f] = i] /\ draft' = [draft EXCEPT ![n] = 0]
      /\ UNCHANGED <<windows, private, node, made, keyLock, keys, misread, litter>>
  BY <1>1 DEF Replace, TempName, Goes, IndInv, SecretTypeOK
<1>5. /\ call'[p] = c /\ \A q \in Process : q # p => call'[q] = call[q]
      /\ entry'[f] = i /\ \A g \in File : g # f => entry'[g] = entry[g]
      /\ draft'[n] = 0 /\ \A m \in Names : m # n => draft'[m] = draft[m]
  BY <1>4 DEF IndInv, SecretTypeOK
<1>6. SecretTypeOK'
  <2>1. i \in 0 .. made /\ 0 \in 0 .. made
    BY DEF IndInv, SecretTypeOK
  <2>2. entry' \in [File -> 0 .. made] /\ draft' \in [Names -> 0 .. made] /\ call' \in [Process -> CallType \cup {NoCall}]
    BY <1>3, <1>4, <2>1 DEF IndInv, SecretTypeOK
  <2> QED BY <1>4, <2>2 DEF IndInv, SecretTypeOK, CallType
<1>7. Apart'
  <2>1. ASSUME NEW m \in Names, draft'[m] # 0
        PROVE  m # n /\ draft'[m] = draft[m] /\ draft[m] # i
    <3>1. m # n /\ draft'[m] = draft[m]
      BY <1>5, <2>1
    <3> QED BY <1>2, <2>1, <3>1 DEF IndInv, Apart
  <2>2. \A m \in Names, g \in File : draft'[m] # 0 => draft'[m] # entry'[g]
    BY <1>5, <2>1 DEF IndInv, Apart
  <2>3. \A m, o \in Names : draft'[m] # 0 /\ draft'[m] = draft'[o] => m = o
    BY <2>1 DEF IndInv, Apart
  <2> QED BY <2>2, <2>3 DEF Apart
<1>8. Filling'
  <2> SUFFICES ASSUME NEW q \in Process, call'[q].at = "fill"
               PROVE  /\ call'[q].inode # 0 /\ draft'[<<call'[q].file, q>>] = call'[q].inode
                      /\ node'[call'[q].inode].trusted /\ node'[call'[q].inode].value = call'[q].value
    BY DEF Filling
  <2>1. q # p /\ call'[q] = call[q] /\ call[q] \in CallType
    BY <1>3, <1>5, InCall DEF IndInv
  <2>2. <<call[q].file, q>> # n /\ <<call[q].file, q>> \in Names
    BY <2>1 DEF Names, CallType
  <2> QED BY <1>4, <1>5, <2>1, <2>2 DEF IndInv, Filling
<1>9. OpenIsWhole'
  <2>1. ASSUME NEW q \in Process PROVE OpenedBy(call[q])'
    <3>1. CASE q = p
      BY <1>3, <1>5, <3>1 DEF OpenedBy, Reading
    <3>2. CASE q # p
      <4>1. call'[q] = call[q] /\ OpenedBy(call[q])
        BY <1>5, <3>2 DEF IndInv, OpenIsWhole
      <4>2. call[q].at \in Reading => \A m \in Names : draft'[m] # call[q].inode
        BY <1>5, <4>1 DEF OpenedBy
      <4> QED BY <1>4, <4>1, <4>2 DEF OpenedBy, Whole
    <3> QED BY <3>1, <3>2
  <2> QED BY <2>1 DEF OpenIsWhole
<1>10. Published'
  BY <1>2, <1>4, <1>5 DEF IndInv, Published, Whole
<1>11. KeyIsKnown'
  <2> SUFFICES ASSUME ~misread PROVE KeyIsKnown'
    BY <1>4 DEF KeyIsKnown
  <2>1. KeyKnownTo(p, call[p])
    BY DEF IndInv, KeyIsKnown
  <2>2. CASE call[p].op = "key"
    <3>1. keyLock = p /\ f = KeyFile /\ keys = {}
      BY <1>1, <2>1, <2>2 DEF KeyKnownTo
    <3>2. Holds(c.value)'
      BY <1>2, <1>3, <1>4, <1>5, <3>1 DEF Holds
    <3>3. KeyKnownTo(p, c)'
      BY <1>3, <1>4, <2>2, <3>1, <3>2 DEF KeyKnownTo, Reading
    <3>4. ASSUME NEW q \in Process, q # p PROVE KeyKnownTo(q, call[q])'
      <4>1. KeyKnownTo(q, call[q]) /\ keyLock # q
        BY <3>1, <3>4 DEF IndInv, KeyIsKnown
      <4>2. call'[q] = call[q]
        BY <1>5, <3>4
      <4> QED BY <4>1, <4>2 DEF KeyKnownTo
    <3>5. \A q \in Process : KeyKnownTo(q, call[q])'
      BY <1>5, <3>3, <3>4 DEF KeyKnownTo
    <3> QED BY <1>4, <3>1, <3>5 DEF KeyIsKnown
  <2>3. CASE call[p].op # "key"
    <3>1. f # KeyFile
      BY <1>1, <2>1, <2>3 DEF KeyKnownTo
    <3>2. \A v : Holds(v) => Holds(v)'
      BY <1>4, <1>5, <3>1, SecretAssumption DEF Holds
    <3>3. KeyKnownTo(p, c)'
      BY <1>3, <2>3, <3>1 DEF KeyKnownTo
    <3>4. ASSUME NEW q \in Process, q # p PROVE KeyKnownTo(q, call[q])'
      <4>1. KeyKnownTo(q, call[q])
        BY DEF IndInv, KeyIsKnown
      <4>2. call'[q] = call[q]
        BY <1>5, <3>4
      <4> QED BY <1>4, <3>2, <4>1, <4>2 DEF KeyKnownTo
    <3>5. \A q \in Process : KeyKnownTo(q, call[q])'
      BY <1>5, <3>3, <3>4 DEF KeyKnownTo
    <3> QED BY <1>4, <3>2, <3>5 DEF IndInv, KeyIsKnown
  <2> QED BY <2>2, <2>3
<1>12. DraftsKnown'
  <2> SUFFICES ASSUME NEW g \in File, NEW q \in Process, draft'[<<g, q>>] # 0
               PROVE  \/ call'[q].at = "fill" /\ call'[q].file = g /\ call'[q].inode = draft'[<<g, q>>]
                      \/ <<g, q>> \in litter'
    BY DEF DraftsKnown
  <2>1. <<g, q>> # n /\ draft'[<<g, q>>] = draft[<<g, q>>]
    BY <1>5 DEF Names
  <2>2. CASE q # p
    BY <1>4, <1>5, <2>1, <2>2 DEF IndInv, DraftsKnown
  <2>3. CASE q = p
    <3>1. g # f
      BY <2>1, <2>3
    <3> QED BY <1>4, <2>1, <2>3, <3>1 DEF IndInv, DraftsKnown
  <2> QED BY <2>2, <2>3
<1>13. LitterStays'
  <2>1. n \notin litter
    BY <1>1 DEF IndInv, LitterStays
  <2>2. ASSUME NEW m \in litter PROVE m \in Names /\ draft'[m] # 0
    BY <1>5, <2>1 DEF IndInv, LitterStays
  <2>3. ASSUME NEW q \in Process, call'[q].at = "fill" PROVE <<call'[q].file, q>> \notin litter
    <3>1. q # p /\ call'[q] = call[q]
      BY <1>3, <1>5, <2>3
    <3> QED BY <2>3, <3>1 DEF IndInv, LitterStays
  <2> QED BY <1>4, <2>2, <2>3 DEF LitterStays
<1> QED BY <1>6, <1>7, <1>8, <1>9, <1>10, <1>11, <1>12, <1>13 DEF IndInv

(* The key is never deleted.                                               *)
LEMMA UnlinkKeeps ==
  ASSUME IndInv, NEW p \in Process, Unlink(p)
  PROVE  IndInv'
<1>1. call[p].at = "unlink" /\ call[p] \in CallType /\ call[p] # NoCall /\ call[p].file \in File
  BY InCall DEF IndInv, Unlink, CallType, NoCall
<1> PICK f \in File : f = call[p].file
  BY <1>1
<1> PICK c : c = IF entry[f] = 0 THEN NoCall ELSE [call[p] EXCEPT !.at = "open"]
  OBVIOUS
<1>2. c \in CallType \cup {NoCall} /\ c.at \in {"idle", "open"} /\ (c # NoCall => c.op = call[p].op /\ c.at = "open")
  <2>1. CASE entry[f] = 0
    BY <2>1 DEF NoCall
  <2>2. CASE entry[f] # 0
    BY <1>1, <2>2 DEF CallType, Places
  <2> QED BY <2>1, <2>2
<1>3. /\ call' = [call EXCEPT ![p] = c] /\ entry' = [entry EXCEPT ![f] = 0]
      /\ UNCHANGED <<windows, private, draft, node, made, keyLock, keys, misread, litter>>
  BY <1>1 DEF Unlink, Goes, EndsCall, IndInv, SecretTypeOK
<1>4. /\ call'[p] = c /\ \A q \in Process : q # p => call'[q] = call[q]
      /\ entry'[f] = 0 /\ \A g \in File : g # f => entry'[g] = entry[g]
  BY <1>3 DEF IndInv, SecretTypeOK
<1>5. SecretTypeOK'
  <2>1. 0 \in 0 .. made
    BY DEF IndInv, SecretTypeOK
  <2>2. entry' \in [File -> 0 .. made] /\ call' \in [Process -> CallType \cup {NoCall}]
    BY <1>2, <1>3, <2>1 DEF IndInv, SecretTypeOK
  <2> QED BY <1>3, <2>2 DEF IndInv, SecretTypeOK, CallType
<1>6. Apart' /\ Published'
  BY <1>3, <1>4 DEF IndInv, Apart, Published, Whole
<1>7. Filling'
  BY <1>2, <1>3, <1>4 DEF IndInv, Filling
<1>8. OpenIsWhole'
  <2>1. \A d : OpenedBy(d) => OpenedBy(d)'
    BY <1>3 DEF OpenedBy, Whole
  <2>2. OpenedBy(c)'
    BY <1>2 DEF OpenedBy, Reading
  <2> QED BY <1>4, <2>1, <2>2 DEF IndInv, OpenIsWhole
<1>9. KeyIsKnown'
  <2> SUFFICES ASSUME ~misread PROVE KeyIsKnown'
    BY <1>3 DEF KeyIsKnown
  <2>1. call[p].op # "key" /\ f # KeyFile
    BY <1>1 DEF IndInv, KeyIsKnown, KeyKnownTo
  <2>2. \A v : Holds(v) => Holds(v)'
    BY <1>3, <1>4, <2>1, SecretAssumption DEF Holds
  <2>3. KeyKnownTo(p, c)'
    BY <1>2, <2>1 DEF KeyKnownTo
  <2>4. ASSUME NEW q \in Process, q # p PROVE KeyKnownTo(q, call[q])'
    <3>1. KeyKnownTo(q, call[q])
      BY DEF IndInv, KeyIsKnown
    <3>2. call'[q] = call[q]
      BY <1>4, <2>4
    <3> QED BY <1>3, <2>2, <3>1, <3>2 DEF KeyKnownTo
  <2>5. \A q \in Process : KeyKnownTo(q, call[q])'
    BY <1>4, <2>3, <2>4 DEF KeyKnownTo
  <2> QED BY <1>3, <2>2, <2>5 DEF IndInv, KeyIsKnown
<1>10. DraftsKnown'
  BY <1>1, <1>3, <1>4 DEF IndInv, DraftsKnown
<1>11. LitterStays'
  BY <1>2, <1>3, <1>4 DEF IndInv, LitterStays
<1> QED BY <1>5, <1>6, <1>7, <1>8, <1>9, <1>10, <1>11 DEF IndInv

(* What somebody else puts in a place does not pass the checks.            *)
LEMMA PutsFileKeeps ==
  ASSUME IndInv, NEW f \in File, NEW v \in Value, NEW parts \in 0 .. Size, PutsFile(f, v, parts)
  PROVE  IndInv'
<1>1. Makes(v, FALSE, parts)
  BY DEF PutsFile
<1>2. /\ made' = made + 1 /\ made' \in Nodes /\ made \in Nat /\ made' \in 0 .. MaxNode
      /\ node' \in [Nodes -> NodeType]
      /\ node'[made'] = [value |-> v, parts |-> parts, trusted |-> FALSE]
      /\ \A i \in 0 .. made : i # made' /\ i \in 0 .. made' /\ (i # 0 => node'[i] = node[i])
  BY <1>1, MakesFresh
<1>3. \A q \in Process : call[q] # NoCall =>
             /\ call[q].inode \in 0 .. made
             /\ call[q] \in [at : Places, op : Kind, file : File, value : Value,
                             inode : 0 .. made', parts : 0 .. Size]
  BY <1>1, MakesFresh
<1>4. UNCHANGED <<windows, private, draft, call, keyLock, keys, misread, litter>> /\ entry' = [entry EXCEPT ![f] = made']
  BY DEF PutsFile
<1>5. entry'[f] = made' /\ \A g \in File : g # f => entry'[g] = entry[g]
  BY <1>4 DEF IndInv, SecretTypeOK
<1>6. /\ \A m \in Names : draft[m] \in 0 .. made
      /\ \A g \in File : entry[g] \in 0 .. made
  BY DEF IndInv, SecretTypeOK
<1>7. ~node'[made'].trusted
  BY <1>2
<1>8. ASSUME NEW q \in Process, call[q].at \in Reading \cup {"fill"}
      PROVE  call[q].inode # 0 /\ node'[call[q].inode] = node[call[q].inode]
  <2>1. call[q] # NoCall
    BY <1>8 DEF Reading, NoCall
  <2>2. CASE call[q].at \in Reading
    <3>1. call[q].inode # 0
      BY <2>2 DEF IndInv, OpenIsWhole, OpenedBy
    <3> QED BY <1>2, <1>3, <2>1, <3>1
  <2>3. CASE call[q].at = "fill"
    <3>1. call[q].inode # 0
      BY <2>3 DEF IndInv, Filling
    <3> QED BY <1>2, <1>3, <2>1, <3>1
  <2> QED BY <1>8, <2>2, <2>3
<1>9. SecretTypeOK'
  <2>1. draft' \in [Names -> 0 .. made'] /\ entry' \in [File -> 0 .. made']
    BY <1>2, <1>4, <1>6 DEF IndInv, SecretTypeOK
  <2>2. call' \in [Process -> CallType' \cup {NoCall}]
    BY <1>3, <1>4 DEF IndInv, SecretTypeOK, CallType
  <2> QED BY <1>2, <1>4, <2>1, <2>2 DEF IndInv, SecretTypeOK
<1>10. Apart'
  BY <1>2, <1>4, <1>5, <1>6 DEF IndInv, Apart
<1>11. Filling' /\ DraftsKnown' /\ LitterStays'
  BY <1>4, <1>8 DEF IndInv, Filling, DraftsKnown, LitterStays
<1>12. OpenIsWhole'
  <2>1. ASSUME NEW q \in Process PROVE OpenedBy(call[q])'
    BY <1>4, <1>8 DEF IndInv, OpenIsWhole, OpenedBy, Whole
  <2> QED BY <2>1 DEF OpenIsWhole
<1>13. Published'
  BY <1>2, <1>5, <1>6, <1>7 DEF IndInv, Published, Whole
<1>14. KeyIsKnown'
  <2> SUFFICES ASSUME ~misread PROVE KeyIsKnown'
    BY <1>4 DEF KeyIsKnown
  <2>1. ASSUME NEW w, Holds(w) PROVE Holds(w)'
    <3>1. CASE f = KeyFile
      <4>1. entry'[KeyFile] = made' /\ made' # 0
        BY <1>2, <1>5, <3>1
      <4> QED BY <1>4, <1>7, <2>1, <4>1 DEF Holds
    <3>2. CASE f # KeyFile
      <4>1. entry'[KeyFile] = entry[KeyFile] /\ entry[KeyFile] \in 0 .. made /\ entry[KeyFile] # 0
        BY <1>5, <1>6, <2>1, <3>2, SecretAssumption DEF Holds
      <4> QED BY <1>2, <1>4, <2>1, <4>1 DEF Holds
    <3> QED BY <3>1, <3>2
  <2>2. ASSUME NEW q \in Process PROVE KeyKnownTo(q, call[q])'
    BY <1>4, <1>8, <2>1 DEF IndInv, KeyIsKnown, KeyKnownTo
  <2> QED BY <1>4, <2>1, <2>2 DEF IndInv, KeyIsKnown
<1> QED BY <1>9, <1>10, <1>11, <1>12, <1>13, <1>14 DEF IndInv

(* The access to the folder does not matter to what is there.              *)
LEMMA OpensUpKeeps ==
  ASSUME IndInv, OpensUp
  PROVE  IndInv'
<1>1. UNCHANGED <<windows, entry, draft, node, made, call, keyLock, keys, misread, litter>> /\ private' \in BOOLEAN
  BY DEF OpensUp
<1>2. SecretTypeOK'
  BY <1>1 DEF IndInv, SecretTypeOK, CallType
<1>3. Apart' /\ Filling' /\ Published' /\ DraftsKnown' /\ LitterStays'
  BY <1>1 DEF IndInv, Apart, Filling, Published, DraftsKnown, LitterStays, Whole
<1>4. OpenIsWhole'
  BY <1>1 DEF IndInv, OpenIsWhole, OpenedBy, Whole
<1>5. KeyIsKnown'
  BY <1>1 DEF IndInv, KeyIsKnown, KeyKnownTo, Holds
<1> QED BY <1>2, <1>3, <1>4, <1>5 DEF IndInv

-----------------------------------------------------------------------------
LEMMA Initial == SecretInit => IndInv
<1> SUFFICES ASSUME SecretInit PROVE IndInv
  OBVIOUS
<1>1. SecretTypeOK
  <2>1. made \in 0 .. MaxNode /\ 0 \in 0 .. made
    BY SecretAssumption DEF SecretInit
  <2>2. entry \in [File -> 0 .. made] /\ draft \in [Names -> 0 .. made]
    BY <2>1 DEF SecretInit, Names
  <2>3. node \in [Nodes -> NodeType] /\ call \in [Process -> CallType \cup {NoCall}]
    BY ValueIs DEF SecretInit
  <2> QED BY <2>1, <2>2, <2>3 DEF SecretInit, SecretTypeOK
<1>2. \A p \in Process : call[p] = NoCall /\ call[p].at = "idle"
  BY DEF SecretInit, NoCall
<1>3. Apart /\ Filling /\ Published /\ DraftsKnown /\ LitterStays
  BY <1>2 DEF SecretInit, Apart, Filling, Published, DraftsKnown, LitterStays, Names
<1>4. OpenIsWhole /\ KeyIsKnown
  BY <1>2 DEF SecretInit, OpenIsWhole, OpenedBy, Reading, KeyIsKnown, KeyKnownTo
<1> QED BY <1>1, <1>3, <1>4 DEF IndInv

LEMMA Inductive == IndInv /\ [SecretNext]_secretVars => IndInv'
<1> SUFFICES ASSUME IndInv, [SecretNext]_secretVars PROVE IndInv'
  OBVIOUS
<1>1. CASE UNCHANGED secretVars
  <2>1. SecretTypeOK' /\ Apart' /\ Filling' /\ Published' /\ DraftsKnown' /\ LitterStays'
    BY <1>1 DEF secretVars, IndInv, SecretTypeOK, CallType, Apart, Filling, Published, DraftsKnown, LitterStays, Whole
  <2>2. OpenIsWhole' /\ KeyIsKnown'
    BY <1>1 DEF secretVars, IndInv, OpenIsWhole, OpenedBy, KeyIsKnown, KeyKnownTo, Holds, Whole
  <2> QED BY <2>1, <2>2 DEF IndInv
<1>2. ASSUME NEW p \in Process, NEW f \in File, NEW v \in Value,
             StartWrite(p, f, v) \/ StartRead(p, f) \/ StartDelete(p, f) \/ StartKey(p, v)
      PROVE  IndInv'
  BY <1>2, StartKeeps, StartKeyKeeps
<1>3. ASSUME NEW p \in Process,
             \/ OpenFile(p) \/ MisreadKey(p) \/ CheckFile(p) \/ ReadFile(p) \/ Give(p)
             \/ CreateDraft(p) \/ Fill(p) \/ Replace(p) \/ Written(p) \/ Unlink(p) \/ Fails(p) \/ Dies(p)
      PROVE  IndInv'
  BY <1>3, OpenFileKeeps, MisreadKeyKeeps, CheckFileKeeps, ReadFileKeeps, GiveKeeps, CreateDraftKeeps, FillKeeps,
     ReplaceKeeps, WrittenKeeps, UnlinkKeeps, FailsKeeps
<1>4. CASE OpensUp
  BY <1>4, OpensUpKeeps
<1>5. CASE \E f \in File, v \in Value, parts \in 0 .. Size : PutsFile(f, v, parts)
  BY <1>5, PutsFileKeeps
<1> QED BY SecretAssumption, <1>1, <1>2, <1>3, <1>4, <1>5 DEF SecretNext

(* What is handed out of the invariant.                                    *)
LEMMA WholeFollows == IndInv => SecretsAreWhole
<1> SUFFICES ASSUME IndInv PROVE SecretsAreWhole
  OBVIOUS
<1>1. ReadsAreWhole
  BY DEF IndInv, OpenIsWhole, OpenedBy, Reading, ReadsAreWhole
<1>2. OneKey
  <2> SUFFICES ASSUME ~misread, keys # {}
               PROVE  /\ \A k, l \in keys : k = l
                      /\ entry[KeyFile] # 0
                      /\ node[entry[KeyFile]].trusted =>
                            Whole(entry[KeyFile]) /\ node[entry[KeyFile]].value \in keys
    BY DEF OneKey
  <2>1. PICK v \in keys : Holds(v)
    BY DEF IndInv, KeyIsKnown
  <2> QED BY <2>1, SecretAssumption DEF Holds, IndInv, Published
<1>3. DraftsAreOwned
  <2> SUFFICES ASSUME NEW f \in File, NEW p \in Process, draft[<<f, p>>] # 0
               PROVE  /\ \A g \in File : entry[g] # draft[<<f, p>>]
                      /\ (call[p].at = "fill" /\ call[p].file = f /\ call[p].inode = draft[<<f, p>>])
                            <=> <<f, p>> \notin litter
    BY DEF DraftsAreOwned
  <2>1. \A g \in File : entry[g] # draft[<<f, p>>]
    BY DEF IndInv, Apart, Names
  <2>2. \/ call[p].at = "fill" /\ call[p].file = f /\ call[p].inode = draft[<<f, p>>]
        \/ <<f, p>> \in litter
    BY DEF IndInv, DraftsKnown
  <2>3. call[p].at = "fill" /\ call[p].file = f => <<f, p>> \notin litter
    BY DEF IndInv, LitterStays
  <2> QED BY <2>1, <2>2, <2>3
<1> QED BY <1>1, <1>2, <1>3 DEF SecretsAreWhole

(* For any number of processes, files, values and inodes, on both          *)
(* platforms: what is read is whole, all who ask for the key get the same  *)
(* one, and a temporary file that was left, by a writer that died or could *)
(* not remove it, is never gone on with and never becomes a protected file.*)
THEOREM SecretsAreAlwaysWhole == SecretSpec => []SecretsAreWhole
<1>1. SecretSpec => []IndInv
  BY Initial, Inductive, PTL DEF SecretSpec
<1> QED BY <1>1, WholeFollows, PTL

-----------------------------------------------------------------------------
(* The Canvas settings.  What a request will write was made from the       *)
(* configuration it loaded (WritesAreDue), and is written only if that is  *)
(* still there; what is cut is recorded, and the record leads only to what *)
(* the properties allow (OutcomesAreDue).  A token and an account may miss *)
(* each other only while there is a record of the account.                 *)

Registry == [courses : SUBSET Course, title : 0..1]
Lease == [account : Account \cup {NoAccount}, courses : SUBSET Course, issued : Nat]
Config ==
  [account : Account \cup {NoAccount}, registry : Registry, lease : Lease, sync : BOOLEAN, other : 0..1, revision : Nat]
Tokens == [Account -> CanvasToken \cup {NoCanvasToken}]

(* A request that waits: with the token it brings, with nothing but what   *)
(* it was made from, with the courses it is about, and with what it will   *)
(* write.                                                                  *)
Verifying == [op : {"connect", "replace"}, at : {"verify"}, from : Config, token : CanvasToken]
Saving == [op : {"connect", "replace"}, at : {"save"}, from : Config, token : CanvasToken, account : Account]
Forgetting == [op : {"forget"}, at : {"save"}, from : Config]
Looking == [op : {"test", "discover"}, at : {"lock", "check", "reload"}, from : Config]
Listing == [op : {"discover"}, at : {"read"}, from : Config]
Renewing == [op : {"renew"}, at : {"lock", "check"}, from : Config]
Reviewing == [op : {"review"}, at : {"lock", "check", "read"}, from : Config, courses : SUBSET Course]
Applying == [op : {"apply"}, at : {"lock", "check", "read"}, from : Config, courses : SUBSET Course, hash : Config]
Renewal == [op : {"renew"}, at : {"write", "swap"}, from : Config, candidate : Config]
Disabling == [op : {"disable"}, at : {"lock", "write", "swap"}, from : Config, candidate : Config]
Proposal == [op : {"review"}, at : {"reload"}, from : Config, candidate : Config, hash : {NotAsked}]
Application == [op : {"apply"}, at : {"reload", "write", "swap"}, from : Config, candidate : Config, hash : Config]
Asking ==
  {NotAsked} \cup Verifying \cup Saving \cup Forgetting \cup Looking \cup Listing \cup Renewing \cup Reviewing \cup Applying
    \cup Renewal \cup Disabling \cup Proposal \cup Application

(* What the journal holds of an operation that was cut.                    *)
OpenOperation ==
  [kind : {"connect", "replace", "forget", "write", "undo"}, account : Account \cup {NoAccount}, before : Config, after : Config,
   token : CanvasToken \cup {NoCanvasToken}, was : CanvasToken \cup {NoCanvasToken}, committed : BOOLEAN]

(* Every variable of the argument has its type.                            *)
SelectionTyped ==
  /\ config \in Config /\ slot \in Tokens
  /\ offered \in [Account -> SUBSET Course] /\ title \in 0..1 /\ clock \in Nat
  /\ interrupted \subseteq OpenOperation
  /\ reviewed \subseteq Config /\ renewed \subseteq Lease
  /\ asked \in [Submission -> Asking]

(* A stored token is its owner's, who is connected, and whoever is         *)
(* connected has one, but for accounts with an open operation; and a lease *)
(* is one that was given.                                                  *)
SlotsMatch ==
  /\ \A a \in Account : slot[a] # NoCanvasToken => OwnerOf(slot[a]) = a /\ (config.account = a \/ OpenOn(a))
  /\ config.account # NoAccount => slot[config.account] # NoCanvasToken \/ OpenOn(config.account)
LeaseIsGiven(c) == c.lease \in renewed \cup {NoLease}

(* What NothingIsTakenBack says of a step from one configuration to        *)
(* another.                                                                *)
MayBecome(c, d) ==
  /\ d.registry \notin {c.registry, NoRegistry} => d \in reviewed /\ d = [c EXCEPT !.registry = d.registry]
  /\ d.lease \notin {c.lease, NoLease} => d = [c EXCEPT !.lease = d.lease]
  /\ d.account # c.account => NoAccount \in {c.account, d.account} /\ d = Revised([Detached(c) EXCEPT !.account = d.account])
  /\ d.account = c.account /\ d.sync # c.sync => d = [c EXCEPT !.sync = d.sync]
  /\ d.other # c.other => d = [c EXCEPT !.other = d.other]

(* From the configuration it was recorded for, an operation does what it   *)
(* may; one on an account gives it a token of its own with the profile, or *)
(* takes both, and can give back what was.                                 *)
OfItsAccount(op, c, token) ==
  /\ c.account \in {op.account, NoAccount}
  /\ token # NoCanvasToken <=> c.account = op.account
  /\ token # NoCanvasToken => OwnerOf(token) = op.account
OperationIsDue(op) ==
  /\ LeaseIsGiven(op.before) /\ LeaseIsGiven(op.after) /\ MayBecome(op.before, op.after)
  /\ IF op.account = NoAccount THEN op.after.account = op.before.account
     ELSE OfItsAccount(op, op.before, op.was) /\ OfItsAccount(op, op.after, op.token)

OutcomesAreDue ==
  /\ SlotsMatch /\ LeaseIsGiven(config)
  /\ \A op \in interrupted : OperationIsDue(op)

(* A request that was not turned away was right to come, and what it will  *)
(* write is its configuration but for the one setting it is about.         *)
IsDue(x) ==
  x.at # "idle" =>
    /\ LeaseIsGiven(x.from)
    /\ x.op = "connect" => x.from.account = NoAccount
    /\ x.op = "replace" => x.from.account # NoAccount
    /\ x.at = "save" =>
         /\ x.op = "connect" => x.account = OwnerOf(x.token)
         /\ x.op = "replace" => x.account = x.from.account /\ x.account = OwnerOf(x.token)
         /\ x.op = "forget" => x.from.account # NoAccount
    /\ x.op \in {"test", "discover", "renew", "review", "apply"} => x.from.account # NoAccount
    /\ x.op = "apply" => x.hash \in reviewed
    /\ x.at = "reload" /\ x.op = "apply" => x.candidate = [x.from EXCEPT !.registry = x.candidate.registry]
    /\ x.op = "disable" => x.candidate = [x.from EXCEPT !.sync = FALSE]
    /\ x.at \in {"write", "swap"} =>
         x.candidate.account = x.from.account /\ LeaseIsGiven(x.candidate) /\ MayBecome(x.from, x.candidate)
WritesAreDue == \A r \in Submission : IsDue(asked[r])

SelectionInv == SelectionTyped /\ OutcomesAreDue /\ WritesAreDue

-----------------------------------------------------------------------------
(* A request at rest is due, and is at rest.                               *)
LEMMA RestIsDue == NotAsked \in Asking /\ IsDue(NotAsked) /\ IsDue(NotAsked)' /\ NotAsked.at = "idle"
  BY DEF NotAsked, Asking, IsDue

(* What a request is can be told from where it is.                         *)
LEMMA KindOfPlace ==
  ASSUME NEW x \in Asking
  PROVE  /\ x.at = "verify" => x \in Verifying
         /\ x.at = "save" => x \in Saving \cup Forgetting
         /\ x.at = "lock" => x \in Looking \cup Renewing \cup Reviewing \cup Applying \cup Disabling
         /\ x.at = "check" => x \in Looking \cup Renewing \cup Reviewing \cup Applying
         /\ x.at = "read" => x \in Listing \cup Reviewing \cup Applying
         /\ x.at = "reload" => x \in Looking \cup Proposal \cup Application
         /\ x.at \in {"write", "swap"} => x \in Renewal \cup Disabling \cup Application
         /\ x.at = "idle" => x = NotAsked
         /\ x.at # "idle" => x.from \in Config
  BY DEF Asking, NotAsked, Verifying, Saving, Forgetting, Looking, Listing, Renewing, Reviewing, Applying, Renewal, Disabling,
         Proposal, Application

(* A configuration may stay as it is.                                      *)
LEMMA MayStay == \A c : MayBecome(c, c)
  BY DEF MayBecome

(* Whatever is shown and given besides, a request stays due.               *)
LEMMA StaysDue ==
  ASSUME NEW x, IsDue(x), renewed \subseteq renewed', reviewed \subseteq reviewed'
  PROVE  IsDue(x)'
<1>1. LeaseIsGiven(x.from) => LeaseIsGiven(x.from)'
  BY DEF LeaseIsGiven
<1>2. LeaseIsGiven(x.candidate) => LeaseIsGiven(x.candidate)'
  BY DEF LeaseIsGiven
<1>3. MayBecome(x.from, x.candidate) => MayBecome(x.from, x.candidate)'
  BY DEF MayBecome
<1> QED
  BY <1>1, <1>2, <1>3 DEF IsDue

(* And so does an operation.                                               *)
LEMMA StaysADue ==
  ASSUME NEW op, OperationIsDue(op), renewed \subseteq renewed', reviewed \subseteq reviewed'
  PROVE  OperationIsDue(op)'
<1>1. LeaseIsGiven(op.before)' /\ LeaseIsGiven(op.after)'
  BY DEF OperationIsDue, LeaseIsGiven
<1>2. MayBecome(op.before, op.after)'
  BY DEF OperationIsDue, MayBecome
<1> QED
  BY <1>1, <1>2 DEF OperationIsDue, OfItsAccount

(* One request goes on.                                                    *)
LEMMA OneGoesOn ==
  ASSUME SelectionInv, NEW r \in Submission, NEW y \in Asking, asked' = [asked EXCEPT ![r] = y], IsDue(y)',
         renewed \subseteq renewed', reviewed \subseteq reviewed'
  PROVE  asked' \in [Submission -> Asking] /\ WritesAreDue'
<1>1. asked \in [Submission -> Asking] /\ \A q \in Submission : IsDue(asked[q])
  BY DEF SelectionInv, SelectionTyped, WritesAreDue
<1>2. asked' \in [Submission -> Asking] /\ asked'[r] = y /\ \A q \in Submission : q # r => asked'[q] = asked[q]
  BY <1>1
<1>3. ASSUME NEW q \in Submission PROVE IsDue(asked[q])'
  <2>1. CASE q = r
    BY <1>2, <2>1
  <2>2. CASE q # r
    <3>1. PICK x \in Asking : x = asked[q]
      BY <1>1
    <3>2. IsDue(x)'
      BY <1>1, <3>1, StaysDue
    <3> QED
      BY <1>2, <2>2, <3>1, <3>2
  <2> QED
    BY <2>1, <2>2
<1> QED
  BY <1>2, <1>3 DEF WritesAreDue

(* The configuration, the tokens and what recovery may leave stay.         *)
LEMMA NothingWritten ==
  ASSUME SelectionInv, UNCHANGED <<config, slot, interrupted>>, renewed \subseteq renewed', reviewed \subseteq reviewed',
         renewed' \subseteq Lease, reviewed' \subseteq Config
  PROVE  OutcomesAreDue' /\ MayBecome(config, config')
<1>1. LeaseIsGiven(config)' /\ SlotsMatch'
  BY DEF SelectionInv, OutcomesAreDue, LeaseIsGiven, SlotsMatch, OpenOn
<1>2. ASSUME NEW op \in interrupted PROVE OperationIsDue(op)'
  BY StaysADue DEF SelectionInv, OutcomesAreDue
<1> QED
  BY <1>1, <1>2, MayStay DEF OutcomesAreDue

(* What an operation is that was just recorded.                            *)
LEMMA Recorded ==
  ASSUME SelectionInv, NEW kind \in {"connect", "replace", "forget", "write"}, NEW a \in Account \cup {NoAccount},
         NEW before \in Config, NEW after \in Config, NEW token \in CanvasToken \cup {NoCanvasToken}
  PROVE  /\ Operation(kind, a, before, after, token) \in OpenOperation
         /\ Operation(kind, a, before, after, token).account = a
         /\ Operation(kind, a, before, after, token).before = before
         /\ Operation(kind, a, before, after, token).after = after
         /\ Operation(kind, a, before, after, token).token = token
         /\ a \in Account => Operation(kind, a, before, after, token).was = slot[a]
<1>1. (IF a = NoAccount THEN NoCanvasToken ELSE slot[a]) \in CanvasToken \cup {NoCanvasToken}
  BY DEF SelectionInv, SelectionTyped, Tokens
<1> QED
  BY <1>1, SelectionAssumption DEF Operation, OpenOperation

(* An operation that takes effect or is cut is sound, if it began from the *)
(* configuration it knows and the others that are no longer open were on   *)
(* its account or on none.                                                 *)
LEMMA CarryIsDue ==
  ASSUME SelectionInv, NEW op \in OpenOperation, OperationIsDue(op), config \in {op.before, op.after},
         NEW others \in SUBSET interrupted, \A o \in interrupted \ others : o.account \in {op.account, NoAccount},
         Carry(op, others), UNCHANGED <<renewed, reviewed>>
  PROVE  /\ OutcomesAreDue' /\ MayBecome(config, config')
         /\ config' \in Config /\ slot' \in Tokens /\ interrupted' \subseteq OpenOperation
<1>0. /\ config \in Config /\ slot \in Tokens /\ SlotsMatch /\ interrupted \subseteq OpenOperation
      /\ \A o \in interrupted : OperationIsDue(o)
  BY DEF SelectionInv, SelectionTyped, OutcomesAreDue
<1>1. MayBecome(config, op.after) /\ LeaseIsGiven(config) /\ LeaseIsGiven(op.after) /\ op.after \in Config
  BY MayStay DEF OperationIsDue, OpenOperation
<1>2. Stored(op) \in Tokens
  BY <1>0 DEF Stored, Tokens, OpenOperation
<1>3. /\ config' \in {config, op.after} /\ slot' \in {slot, Stored(op)}
      /\ \/ config' = op.after /\ slot' = Stored(op) /\ interrupted' = others
         \/ \E committed \in BOOLEAN : interrupted' = others \cup {[op EXCEPT !.committed = committed]}
  <2>1. CASE config' = op.after /\ slot' = Stored(op) /\ interrupted' = others
    BY <2>1
  <2>2. ASSUME NEW m \in Moments(op), config' = m.config, slot' = m.slot,
               interrupted' = others \cup {[op EXCEPT !.committed = m.committed]}
        PROVE  /\ config' \in {config, op.after} /\ slot' \in {slot, Stored(op)}
               /\ \E committed \in BOOLEAN : interrupted' = others \cup {[op EXCEPT !.committed = committed]}
    <3>1. m.config \in {config, op.after} /\ m.slot \in {slot, Stored(op)} /\ m.committed \in BOOLEAN
      <4>1. \/ m = [config |-> config, slot |-> slot, committed |-> FALSE]
            \/ m = [config |-> op.after, slot |-> Stored(op), committed |-> TRUE]
            \/ m = [config |-> config, slot |-> Stored(op), committed |-> FALSE]
            \/ m = [config |-> op.after, slot |-> Stored(op), committed |-> FALSE]
            \/ m = [config |-> op.after, slot |-> slot, committed |-> FALSE]
            \/ m = [config |-> op.after, slot |-> slot, committed |-> TRUE]
        <5>1. CASE op.kind = "replace"
          BY <5>1 DEF Moments
        <5>2. CASE op.kind # "replace"
          BY <5>2 DEF Moments
        <5> QED
          BY <5>1, <5>2
      <4>2. PICK c \in {config, op.after}, tokens \in {slot, Stored(op)}, done \in BOOLEAN :
              m = [config |-> c, slot |-> tokens, committed |-> done]
        BY <4>1, Zenon
      <4>3. m.config = c /\ m.slot = tokens /\ m.committed = done
        BY <4>2
      <4> QED
        BY <4>3
    <3> QED
      BY <2>2, <3>1
  <2> QED
    BY <2>1, <2>2 DEF Carry
<1>4. MayBecome(config, config') /\ LeaseIsGiven(config)'
  BY <1>1, <1>3, MayStay DEF LeaseIsGiven
<1>5. interrupted' \subseteq OpenOperation /\ others \subseteq interrupted'
  BY <1>0, <1>3 DEF OpenOperation
<1>6. ASSUME NEW o \in interrupted' PROVE OperationIsDue(o)'
  <2>1. CASE o \in others
    BY <1>0, <2>1, StaysADue
  <2>2. CASE o \notin others
    <3>1. PICK committed \in BOOLEAN : o = [op EXCEPT !.committed = committed]
      BY <1>3, <2>2
    <3>2. /\ o.before = op.before /\ o.after = op.after /\ o.account = op.account /\ o.token = op.token
          /\ o.was = op.was
      BY <3>1 DEF OpenOperation
    <3>3. OperationIsDue(o)
      BY <3>2 DEF OperationIsDue, OfItsAccount
    <3> QED
      BY <3>3, StaysADue
  <2> QED
    BY <2>1, <2>2
<1>7. ASSUME NEW b \in Account, b # op.account, OpenOn(b) PROVE OpenOn(b)'
  <2>1. PICK o \in interrupted : o.account = b
    BY <1>7 DEF OpenOn
  <2>2. o \in others
    BY <1>7, <2>1, SelectionAssumption
  <2> QED
    BY <1>5, <2>1, <2>2 DEF OpenOn
<1>8. SlotsMatch'
  <2>1. CASE op.account = NoAccount
    <3>1. config'.account = config.account /\ slot' = slot
      BY <1>3, <2>1 DEF Stored, OperationIsDue
    <3>2. config.account # NoAccount => config.account \in Account
      BY <1>0 DEF Config
    <3> QED
      BY <1>0, <1>7, <2>1, <3>1, <3>2, SelectionAssumption DEF SlotsMatch
  <2>2. CASE op.account # NoAccount
    <3>1. PICK a \in Account : a = op.account
      BY <2>2 DEF OpenOperation
    <3>2. OfItsAccount(op, op.before, op.was) /\ OfItsAccount(op, op.after, op.token)
      BY <2>2 DEF OperationIsDue
    <3>3. config.account \in {a, NoAccount} /\ config'.account \in {a, NoAccount}
      BY <1>3, <3>1, <3>2 DEF OfItsAccount
    <3>4. slot'[a] \in {slot[a], op.token} /\ \A b \in Account : b # a => slot'[b] = slot[b]
      BY <1>0, <1>3, <2>2, <3>1 DEF Stored, Tokens
    <3>5. slot'[a] # NoCanvasToken => OwnerOf(slot'[a]) = a
      BY <1>0, <3>1, <3>2, <3>4 DEF SlotsMatch, OfItsAccount
    <3>6. (config'.account = a /\ slot'[a] # NoCanvasToken) \/ (config'.account = NoAccount /\ slot'[a] = NoCanvasToken)
          \/ OpenOn(a)'
      <4>1. CASE config' = op.after /\ slot' = Stored(op) /\ interrupted' = others
        <5>1. slot'[a] = op.token
          BY <1>0, <2>2, <3>1, <4>1 DEF Stored, Tokens
        <5> QED
          BY <3>1, <3>2, <4>1, <5>1 DEF OfItsAccount
      <4>2. CASE \E committed \in BOOLEAN : interrupted' = others \cup {[op EXCEPT !.committed = committed]}
        <5>1. PICK committed \in BOOLEAN : interrupted' = others \cup {[op EXCEPT !.committed = committed]}
          BY <4>2
        <5>2. [op EXCEPT !.committed = committed].account = a
          BY <3>1 DEF OpenOperation
        <5>3. [op EXCEPT !.committed = committed] \in interrupted'
          BY <5>1
        <5> QED
          BY <5>2, <5>3 DEF OpenOn
      <4> QED
        BY <1>3, <4>1, <4>2
    <3>7. ASSUME NEW b \in Account, b # a, slot'[b] # NoCanvasToken PROVE OwnerOf(slot'[b]) = b /\ OpenOn(b)'
      BY <1>0, <1>7, <3>1, <3>3, <3>4, <3>7, SelectionAssumption DEF SlotsMatch
    <3> QED
      BY <3>3, <3>5, <3>6, <3>7 DEF SlotsMatch
  <2> QED
    BY <2>1, <2>2
<1> QED
  BY <1>0, <1>1, <1>2, <1>3, <1>4, <1>5, <1>6, <1>8 DEF OutcomesAreDue

(* Nobody goes on.                                                         *)
LEMMA NobodyGoesOn ==
  ASSUME SelectionInv, UNCHANGED <<asked, renewed, reviewed>>
  PROVE  asked' \in [Submission -> Asking] /\ WritesAreDue'
<1>1. ASSUME NEW q \in Submission PROVE IsDue(asked[q])'
  <2>1. PICK x \in Asking : x = asked[q]
    BY DEF SelectionInv, SelectionTyped
  <2>2. IsDue(x)'
    BY <2>1, StaysDue DEF SelectionInv, WritesAreDue
  <2> QED
    BY <2>1, <2>2
<1> QED
  BY <1>1 DEF WritesAreDue, SelectionInv, SelectionTyped

(* One request goes on, and something may be shown or given by it.         *)
LEMMA RequestStep ==
  ASSUME SelectionInv, NEW r \in Submission, NEW y \in Asking, asked' = [asked EXCEPT ![r] = y], IsDue(y)',
         renewed \subseteq renewed', reviewed \subseteq reviewed', renewed' \subseteq Lease, reviewed' \subseteq Config,
         UNCHANGED <<config, slot, interrupted, offered, title, clock>>
  PROVE  SelectionInv' /\ MayBecome(config, config')
<1>1. asked' \in [Submission -> Asking] /\ WritesAreDue'
  BY OneGoesOn
<1>2. OutcomesAreDue' /\ MayBecome(config, config')
  BY NothingWritten
<1> QED
  BY <1>1, <1>2 DEF SelectionInv, SelectionTyped

(* The same, if nothing is.                                                *)
LEMMA PlainStep ==
  ASSUME SelectionInv, NEW r \in Submission, NEW y \in Asking, asked' = [asked EXCEPT ![r] = y], IsDue(y),
         UNCHANGED <<config, slot, interrupted, offered, title, clock, renewed, reviewed>>
  PROVE  SelectionInv' /\ MayBecome(config, config')
<1>1. IsDue(y)'
  BY StaysDue
<1> QED
  BY <1>1, RequestStep DEF SelectionInv, SelectionTyped

(* What a request is.                                                      *)
LEMMA Asked ==
  ASSUME SelectionInv, NEW r \in Submission
  PROVE  \E x \in Asking : x = asked[r] /\ IsDue(x)
  BY DEF SelectionInv, SelectionTyped, WritesAreDue

(* A request leaves.                                                       *)
LEMMA LeavingStep ==
  ASSUME SelectionInv, NEW r \in Submission, Leaves(r),
         UNCHANGED <<config, slot, interrupted, offered, title, clock, renewed, reviewed>>
  PROVE  SelectionInv' /\ MayBecome(config, config')
  BY RestIsDue, PlainStep DEF Leaves, Puts

-----------------------------------------------------------------------------
(* Canvas, the clock, the other writers, and recovery.                     *)
LEMMA OthersStep ==
  ASSUME SelectionInv,
         \/ \E a \in Account, courses \in SUBSET Course : CanvasChanges(a, courses)
         \/ ClockTicks \/ OtherWrites \/ RecoverSave \/ RecoverWrite
  PROVE  SelectionInv' /\ MayBecome(config, config')
<1>0. SelectionTyped /\ config \in Config
  BY DEF SelectionInv, SelectionTyped
<1>1. ASSUME NEW a \in Account, NEW courses \in SUBSET Course, CanvasChanges(a, courses)
      PROVE  SelectionInv' /\ MayBecome(config, config')
  <2>1. UNCHANGED <<config, slot, clock, interrupted, reviewed, renewed, asked>>
    BY <1>1 DEF CanvasChanges, ghosts
  <2>2. offered' \in [Account -> SUBSET Course] /\ title' \in 0..1
    BY <1>0, <1>1 DEF CanvasChanges, SelectionTyped
  <2>3. OutcomesAreDue' /\ MayBecome(config, config')
    BY <1>0, <2>1, NothingWritten DEF SelectionTyped
  <2>4. asked' \in [Submission -> Asking] /\ WritesAreDue'
    BY <2>1, NobodyGoesOn
  <2> QED
    BY <1>0, <2>1, <2>2, <2>3, <2>4 DEF SelectionInv, SelectionTyped
<1>2. CASE ClockTicks
  <2>1. UNCHANGED <<config, slot, offered, title, interrupted, reviewed, renewed, asked>> /\ clock' \in Nat
    BY <1>0, <1>2 DEF ClockTicks, ghosts, SelectionTyped
  <2>3. OutcomesAreDue' /\ MayBecome(config, config')
    BY <1>0, <2>1, NothingWritten DEF SelectionTyped
  <2>4. asked' \in [Submission -> Asking] /\ WritesAreDue'
    BY <2>1, NobodyGoesOn
  <2> QED
    BY <1>0, <2>1, <2>3, <2>4 DEF SelectionInv, SelectionTyped
<1>3. CASE OtherWrites
  <2>1. UNCHANGED <<offered, title, clock, reviewed, renewed, asked>>
    BY <1>3 DEF OtherWrites, ghosts, world
  <2>2. asked' \in [Submission -> Asking] /\ WritesAreDue'
    BY <2>1, NobodyGoesOn
  <2>3. CASE config' \in {[config EXCEPT !.other = 1 - @], [config EXCEPT !.sync = ~@]} /\ UNCHANGED <<slot, interrupted>>
    <3>1. /\ config' \in Config /\ config'.account = config.account /\ config'.registry = config.registry
          /\ config'.lease = config.lease /\ (config'.other # config.other => config' = [config EXCEPT !.other = config'.other])
          /\ (config'.sync # config.sync => config' = [config EXCEPT !.sync = config'.sync])
      <4>1. CASE config' = [config EXCEPT !.other = 1 - @]
        BY <1>0, <4>1 DEF Config
      <4>2. CASE config' = [config EXCEPT !.sync = ~@]
        BY <1>0, <4>2 DEF Config
      <4> QED
        BY <2>3, <4>1, <4>2
    <3>2. MayBecome(config, config')
      BY <3>1 DEF MayBecome
    <3>3. ASSUME NEW op \in interrupted' PROVE OperationIsDue(op)'
      BY <2>1, <2>3, StaysADue DEF SelectionInv, OutcomesAreDue
    <3>4. OutcomesAreDue'
      BY <2>1, <2>3, <3>1, <3>3 DEF SelectionInv, OutcomesAreDue, SlotsMatch, LeaseIsGiven, OpenOn
    <3> QED
      BY <1>0, <2>1, <2>2, <2>3, <3>1, <3>2, <3>4 DEF SelectionInv, SelectionTyped
  <2>4. CASE Carry(Writing(config, [config EXCEPT !.sync = FALSE]), interrupted)
    <3>1. PICK c \in Config : c = config
      BY <1>0
    <3>2. PICK d \in Config : d = [c EXCEPT !.sync = FALSE]
      BY DEF Config
    <3>3. /\ d.account = c.account /\ d.registry = c.registry /\ d.lease = c.lease /\ d.other = c.other
          /\ d = [c EXCEPT !.sync = d.sync]
      BY <3>2 DEF Config
    <3>4. LeaseIsGiven(c)
      BY <3>1 DEF SelectionInv, OutcomesAreDue, LeaseIsGiven
    <3>5. PICK op \in OpenOperation : op = Writing(c, d) /\ op.account = NoAccount /\ op.before = c /\ op.after = d
      BY Recorded DEF Writing
    <3>6. OperationIsDue(op)
      BY <3>3, <3>4, <3>5 DEF OperationIsDue, LeaseIsGiven, MayBecome
    <3>7. Carry(op, interrupted)
      BY <2>4, <3>1, <3>2, <3>5
    <3>8. /\ OutcomesAreDue' /\ MayBecome(config, config')
          /\ config' \in Config /\ slot' \in Tokens /\ interrupted' \subseteq OpenOperation
      BY <2>1, <3>1, <3>5, <3>6, <3>7, CarryIsDue
    <3> QED
      BY <1>0, <2>1, <2>2, <3>8 DEF SelectionInv, SelectionTyped
  <2> QED
    BY <1>3, <2>3, <2>4 DEF OtherWrites
<1>4. CASE RecoverSave
  <2>1. UNCHANGED <<offered, title, clock, reviewed, renewed, asked>>
    BY <1>4 DEF RecoverSave, ghosts, world
  <2>2. asked' \in [Submission -> Asking] /\ WritesAreDue'
    BY <2>1, NobodyGoesOn
  <2>3. PICK op \in interrupted :
          /\ op.account # NoAccount /\ Fits(op)
          /\ Carry(op, interrupted \ {op}) \/ (config = op.before /\ Carry(Undone(op), interrupted \ {op}))
    BY <1>4 DEF RecoverSave
  <2>4. op \in OpenOperation /\ OperationIsDue(op) /\ config \in {op.before, op.after}
    BY <1>0, <2>3 DEF SelectionInv, SelectionTyped, OutcomesAreDue, Fits
  <2>5. /\ OutcomesAreDue' /\ MayBecome(config, config')
        /\ config' \in Config /\ slot' \in Tokens /\ interrupted' \subseteq OpenOperation
    <3>1. CASE Carry(op, interrupted \ {op})
      BY <2>1, <2>4, <3>1, CarryIsDue
    <3>2. CASE config = op.before /\ Carry(Undone(op), interrupted \ {op})
      <4>1. PICK u \in OpenOperation : u = Undone(op)
        BY <2>4 DEF Undone, OpenOperation
      <4>2. /\ u.before = op.before /\ u.after = op.before /\ u.account = op.account /\ u.token = op.was
            /\ u.was = op.was
        BY <2>4, <4>1 DEF Undone, OpenOperation
      <4>3. OperationIsDue(u)
        BY <2>3, <2>4, <4>2, MayStay DEF OperationIsDue, OfItsAccount
      <4>4. Carry(u, interrupted \ {op}) /\ config \in {u.before, u.after}
        BY <3>2, <4>1, <4>2
      <4>5. \A o \in interrupted \ (interrupted \ {op}) : o.account \in {u.account, NoAccount}
        BY <4>2
      <4> QED
        BY <2>1, <4>3, <4>4, <4>5, CarryIsDue
    <3> QED
      BY <2>3, <3>1, <3>2
  <2> QED
    BY <1>0, <2>1, <2>2, <2>5 DEF SelectionInv, SelectionTyped
<1>5. CASE RecoverWrite
  <2>1. UNCHANGED <<config, slot, offered, title, clock, reviewed, renewed, asked>>
    BY <1>5 DEF RecoverWrite, ghosts, world
  <2>2. asked' \in [Submission -> Asking] /\ WritesAreDue'
    BY <2>1, NobodyGoesOn
  <2>3. PICK op \in interrupted : op.account = NoAccount /\ interrupted' = interrupted \ {op}
    BY <1>5 DEF RecoverWrite
  <2>4. ASSUME NEW a \in Account PROVE OpenOn(a)' <=> OpenOn(a)
    BY <2>3, SelectionAssumption DEF OpenOn
  <2>5. SlotsMatch'
    <3>1. config.account # NoAccount => config.account \in Account
      BY <1>0 DEF Config
    <3> QED
      BY <2>1, <2>4, <3>1 DEF SelectionInv, OutcomesAreDue, SlotsMatch
  <2>6. ASSUME NEW o \in interrupted' PROVE OperationIsDue(o)'
    BY <2>1, <2>3, StaysADue DEF SelectionInv, OutcomesAreDue
  <2>7. OutcomesAreDue' /\ MayBecome(config, config')
    BY <2>1, <2>5, <2>6, MayStay DEF SelectionInv, OutcomesAreDue, LeaseIsGiven
  <2> QED
    BY <1>0, <2>1, <2>2, <2>3, <2>7 DEF SelectionInv, SelectionTyped
<1> QED
  BY <1>1, <1>2, <1>3, <1>4, <1>5

(* A request begins.                                                       *)
LEMMA BeginningStep ==
  ASSUME SelectionInv, NEW r \in Submission,
         \/ \E token \in CanvasToken : BeginConnect(r, token) \/ BeginReplace(r, token)
         \/ \E op \in {"test", "discover", "renew"} : BeginLocked(r, op)
         \/ \E courses \in SUBSET Course \ {{}} : BeginReview(r, courses)
         \/ \E candidate \in reviewed : BeginApply(r, candidate)
         \/ BeginForget(r) \/ BeginDisable(r)
  PROVE  SelectionInv' /\ MayBecome(config, config')
<1>0. config \in Config /\ LeaseIsGiven(config) /\ reviewed \subseteq Config
  BY DEF SelectionInv, SelectionTyped, OutcomesAreDue
<1>a. UNCHANGED <<config, slot, interrupted, offered, title, clock, renewed, reviewed>>
  BY DEF BeginConnect, BeginReplace, BeginLocked, BeginReview, BeginApply, BeginForget, BeginDisable, still, world, ghosts
<1>b. PICK c \in Config : c = config
  BY <1>0
<1>c. LeaseIsGiven(c)
  BY <1>0, <1>b DEF LeaseIsGiven
<1>1. ASSUME NEW token \in CanvasToken, BeginConnect(r, token) PROVE SelectionInv' /\ MayBecome(config, config')
  <2>1. CASE config.account = NoAccount
    <3>1. PICK y \in Verifying : y = [op |-> "connect", at |-> "verify", from |-> c, token |-> token]
      BY DEF Verifying
    <3>2. y \in Asking /\ IsDue(y)
      BY <1>b, <1>c, <2>1, <3>1 DEF Asking, IsDue
    <3>3. asked' = [asked EXCEPT ![r] = y]
      BY <1>1, <1>b, <2>1, <3>1 DEF BeginConnect, Puts
    <3> QED
      BY <1>a, <3>2, <3>3, PlainStep
  <2>2. CASE config.account # NoAccount
    BY <1>1, <1>a, <2>2, LeavingStep DEF BeginConnect
  <2> QED
    BY <2>1, <2>2
<1>2. ASSUME NEW token \in CanvasToken, BeginReplace(r, token) PROVE SelectionInv' /\ MayBecome(config, config')
  <2>1. PICK y \in Verifying : y = [op |-> "replace", at |-> "verify", from |-> c, token |-> token]
    BY DEF Verifying
  <2>2. y \in Asking /\ IsDue(y)
    BY <1>2, <1>b, <1>c, <2>1 DEF Asking, IsDue, BeginReplace
  <2>3. asked' = [asked EXCEPT ![r] = y]
    BY <1>2, <1>b, <2>1 DEF BeginReplace, Puts
  <2> QED
    BY <1>a, <2>2, <2>3, PlainStep
<1>3. ASSUME NEW op \in {"test", "discover", "renew"}, BeginLocked(r, op) PROVE SelectionInv' /\ MayBecome(config, config')
  <2>1. PICK y \in Looking \cup Renewing : y = [op |-> op, at |-> "lock", from |-> c]
    BY DEF Looking, Renewing
  <2>2. y \in Asking /\ IsDue(y)
    BY <1>3, <1>b, <1>c, <2>1 DEF Asking, IsDue, BeginLocked
  <2>3. asked' = [asked EXCEPT ![r] = y]
    BY <1>3, <1>b, <2>1 DEF BeginLocked, Puts, LoadedBy
  <2> QED
    BY <1>a, <2>2, <2>3, PlainStep
<1>4. ASSUME NEW courses \in SUBSET Course \ {{}}, BeginReview(r, courses) PROVE SelectionInv' /\ MayBecome(config, config')
  <2>1. PICK y \in Reviewing : y = [op |-> "review", at |-> "lock", from |-> c, courses |-> courses]
    BY DEF Reviewing
  <2>2. y \in Asking /\ IsDue(y)
    BY <1>4, <1>b, <1>c, <2>1 DEF Asking, IsDue, BeginReview
  <2>3. asked' = [asked EXCEPT ![r] = y]
    BY <1>4, <1>b, <2>1 DEF BeginReview, Puts
  <2> QED
    BY <1>a, <2>2, <2>3, PlainStep
<1>5. ASSUME NEW candidate \in reviewed, BeginApply(r, candidate) PROVE SelectionInv' /\ MayBecome(config, config')
  <2>1. candidate \in Config /\ candidate.registry.courses \in SUBSET Course
    BY <1>0 DEF Config, Registry
  <2>2. PICK y \in Applying :
          y = [op |-> "apply", at |-> "lock", from |-> c, courses |-> candidate.registry.courses, hash |-> candidate]
    BY <2>1 DEF Applying
  <2>3. y \in Asking /\ IsDue(y)
    BY <1>5, <1>b, <1>c, <2>2 DEF Asking, IsDue, BeginApply
  <2>4. asked' = [asked EXCEPT ![r] = y]
    BY <1>5, <1>b, <2>2 DEF BeginApply, Puts
  <2> QED
    BY <1>a, <2>3, <2>4, PlainStep
<1>6. CASE BeginForget(r)
  <2>1. PICK y \in Forgetting : y = [op |-> "forget", at |-> "save", from |-> c]
    BY DEF Forgetting
  <2>2. y \in Asking /\ IsDue(y)
    BY <1>6, <1>b, <1>c, <2>1 DEF Asking, IsDue, BeginForget
  <2>3. asked' = [asked EXCEPT ![r] = y]
    BY <1>6, <1>b, <2>1 DEF BeginForget, Puts, LoadedBy
  <2> QED
    BY <1>a, <2>2, <2>3, PlainStep
<1>7. CASE BeginDisable(r)
  <2>1. CASE ~config.sync
    BY <1>7, <1>a, <2>1, LeavingStep DEF BeginDisable
  <2>2. CASE config.sync
    <3>1. PICK d \in Config : d = [c EXCEPT !.sync = FALSE]
      BY DEF Config
    <3>2. PICK p \in {"lock", "write"} : p = IF config.account = NoAccount THEN "write" ELSE "lock"
      OBVIOUS
    <3>3. PICK y \in Disabling : y = [op |-> "disable", at |-> p, from |-> c, candidate |-> d]
      BY <3>1 DEF Disabling
    <3>4. /\ d.account = c.account /\ d.registry = c.registry /\ d.lease = c.lease /\ d.other = c.other
          /\ d = [c EXCEPT !.sync = d.sync]
      BY <3>1 DEF Config
    <3>5. LeaseIsGiven(d) /\ MayBecome(c, d)
      BY <1>c, <3>4 DEF LeaseIsGiven, MayBecome
    <3>6. y \in Asking /\ IsDue(y)
      BY <1>c, <3>1, <3>3, <3>4, <3>5 DEF Asking, IsDue
    <3>7. asked' = [asked EXCEPT ![r] = y]
      BY <1>7, <1>b, <2>2, <3>1, <3>2, <3>3 DEF BeginDisable, Puts
    <3> QED
      BY <1>a, <3>6, <3>7, PlainStep
  <2> QED
    BY <2>1, <2>2
<1> QED
  BY <1>1, <1>2, <1>3, <1>4, <1>5, <1>6, <1>7

(* The token is verified, or something fails.                              *)
LEMMA VerifyingStep ==
  ASSUME SelectionInv, NEW r \in Submission, Verify(r) \/ VerifyFails(r)
  PROVE  SelectionInv' /\ MayBecome(config, config')
<1>a. UNCHANGED <<config, slot, interrupted, offered, title, clock, renewed, reviewed>>
  BY DEF Verify, VerifyFails, still, world, ghosts
<1>1. CASE VerifyFails(r)
  BY <1>1, <1>a, LeavingStep DEF VerifyFails
<1>2. CASE Verify(r)
  <2>1. PICK x \in Asking : x = asked[r] /\ IsDue(x)
    BY Asked
  <2>2. x.at = "verify" /\ x \in Verifying
    BY <1>2, <2>1, KindOfPlace DEF Verify
  <2>3. CASE x.op = "replace" /\ OwnerOf(x.token) # x.from.account
    BY <1>2, <1>a, <2>1, <2>3, LeavingStep DEF Verify
  <2>4. CASE ~(x.op = "replace" /\ OwnerOf(x.token) # x.from.account)
    <3>1. OwnerOf(x.token) \in Account
      BY <2>2, SelectionAssumption DEF Verifying
    <3>2. PICK y \in Saving : y = [op |-> x.op, at |-> "save", from |-> x.from, token |-> x.token, account |-> OwnerOf(x.token)]
      BY <2>2, <3>1 DEF Verifying, Saving
    <3>3. y \in Asking
      BY DEF Asking
    <3>4. y.op = x.op /\ y.at = "save" /\ y.from = x.from /\ y.token = x.token /\ y.account = OwnerOf(x.token)
          /\ y.op \in {"connect", "replace"}
      BY <2>2, <3>2 DEF Verifying
    <3>5. IsDue(y)
      BY <2>1, <2>2, <2>4, <3>4 DEF IsDue
    <3>6. asked' = [asked EXCEPT ![r] = y]
      BY <1>2, <2>1, <2>4, <3>2 DEF Verify, Puts
    <3> QED
      BY <1>a, <3>3, <3>5, <3>6, PlainStep
  <2> QED
    BY <2>3, <2>4
<1> QED
  BY <1>1, <1>2

(* What is done under the lock: it is taken, the token read and verified.  *)
LEMMA AdmittedStep ==
  ASSUME SelectionInv, NEW r \in Submission, Admit(r) \/ CheckToken(r) \/ ReadCourses(r)
  PROVE  SelectionInv' /\ MayBecome(config, config')
<1>a. UNCHANGED <<config, slot, interrupted, offered, title, clock, reviewed>> /\ title \in 0..1 /\ clock \in Nat
  BY DEF Admit, CheckToken, ReadCourses, world, ghosts, SelectionInv, SelectionTyped
<1>b. PICK x \in Asking : x = asked[r] /\ IsDue(x)
  BY Asked
<1>1. CASE Admit(r)
  <2>1. UNCHANGED renewed /\ x.at = "lock"
    BY <1>1, <1>b DEF Admit, ghosts
  <2>2. CASE Leaves(r)
    BY <1>a, <2>1, <2>2, LeavingStep
  <2>3. CASE ~Leaves(r)
    <3>1. asked' = [asked EXCEPT ![r].at = IF x.op = "disable" THEN "write" ELSE "check"]
      BY <1>1, <1>b, <2>3 DEF Admit
    <3>2. x \in Looking \cup Renewing \cup Reviewing \cup Applying \cup Disabling
      BY <2>1, KindOfPlace
    <3>3. CASE x \in Disabling
      <4>1. PICK y \in Disabling : y = [x EXCEPT !.at = "write"]
        BY <3>3 DEF Disabling
      <4>2. y.op = "disable" /\ x.op = "disable" /\ y.at = "write" /\ y.from = x.from /\ y.candidate = x.candidate
            /\ x.from \in Config
        BY <3>3, <4>1 DEF Disabling
      <4>3. LeaseIsGiven(x.from) /\ x.candidate = [x.from EXCEPT !.sync = FALSE]
        BY <1>b, <2>1, <4>2 DEF IsDue
      <4>4. /\ x.candidate.account = x.from.account /\ x.candidate.registry = x.from.registry
            /\ x.candidate.lease = x.from.lease /\ x.candidate.other = x.from.other
            /\ x.candidate = [x.from EXCEPT !.sync = x.candidate.sync]
        BY <4>2, <4>3 DEF Config
      <4>5. LeaseIsGiven(x.candidate) /\ MayBecome(x.from, x.candidate)
        BY <4>3, <4>4 DEF LeaseIsGiven, MayBecome
      <4>6. y \in Asking /\ IsDue(y)
        BY <4>2, <4>3, <4>4, <4>5 DEF Asking, IsDue
      <4>7. asked' = [asked EXCEPT ![r] = y]
        BY <1>b, <3>1, <4>1, <4>2
      <4> QED
        BY <1>a, <2>1, <4>6, <4>7, PlainStep
    <3>4. CASE x \in Looking \cup Renewing \cup Reviewing \cup Applying
      <4>1. PICK y \in Looking \cup Renewing \cup Reviewing \cup Applying : y = [x EXCEPT !.at = "check"]
        BY <3>4 DEF Looking, Renewing, Reviewing, Applying
      <4>2. /\ y.op = x.op /\ x.op \in {"test", "discover", "renew", "review", "apply"} /\ y.at = "check" /\ y.from = x.from
            /\ x.op = "apply" => y.hash = x.hash
        BY <3>4, <4>1 DEF Looking, Renewing, Reviewing, Applying
      <4>3. y \in Asking /\ IsDue(y)
        BY <1>b, <2>1, <4>2 DEF Asking, IsDue
      <4>4. asked' = [asked EXCEPT ![r] = y]
        BY <1>b, <3>1, <4>1, <4>2
      <4> QED
        BY <1>a, <2>1, <4>3, <4>4, PlainStep
    <3> QED
      BY <3>2, <3>3, <3>4
  <2> QED
    BY <2>2, <2>3
<1>2. CASE CheckToken(r)
  <2>1. x.at = "check" /\ x \in Looking \cup Renewing \cup Reviewing \cup Applying
    BY <1>2, <1>b, KindOfPlace DEF CheckToken
  <2> DEFINE good == slot[x.from.account] # NoCanvasToken /\ OwnerOf(slot[x.from.account]) = x.from.account
  <2>2. CASE ~good
    <3>1. Leaves(r) /\ UNCHANGED renewed
      BY <1>2, <1>b, <2>2 DEF CheckToken
    <3> QED
      BY <1>a, <3>1, LeavingStep
  <2>3. CASE good /\ x.op = "renew"
    <3>1. x \in Renewing /\ x.from \in Config
      BY <2>1, <2>3 DEF Looking, Renewing, Reviewing, Applying
    <3>2. PICK l \in Lease : l = [account |-> x.from.account, courses |-> x.from.registry.courses, issued |-> clock]
      BY <1>a, <3>1 DEF Config, Registry, Lease
    <3>3. PICK d \in Config : d = [x.from EXCEPT !.lease = l]
      BY <3>1 DEF Config
    <3>4. PICK y \in Renewal : y = [op |-> "renew", at |-> "write", from |-> x.from, candidate |-> d]
      BY <3>1 DEF Renewal
    <3>5. asked' = [asked EXCEPT ![r] = y] /\ renewed' = renewed \cup {l}
      BY <1>2, <1>b, <2>3, <3>2, <3>3, <3>4 DEF CheckToken, Puts
    <3>6. /\ d.account = x.from.account /\ d.lease = l /\ d.registry = x.from.registry /\ d.other = x.from.other
          /\ d.sync = x.from.sync
      BY <3>1, <3>3 DEF Config
    <3>7. MayBecome(x.from, d)'
      BY <3>3, <3>6 DEF MayBecome
    <3>8. LeaseIsGiven(d)' /\ LeaseIsGiven(x.from)' /\ x.from.account # NoAccount
      BY <1>b, <2>1, <2>3, <3>5, <3>6 DEF LeaseIsGiven, IsDue
    <3>9. y.op = "renew" /\ y.at = "write" /\ y.from = x.from /\ y.candidate = d
      BY <3>4
    <3>10. y \in Asking /\ IsDue(y)'
      BY <3>6, <3>7, <3>8, <3>9 DEF Asking, IsDue
    <3>11. renewed' \subseteq Lease /\ renewed \subseteq renewed' /\ reviewed \subseteq Config
      BY <3>5 DEF SelectionInv, SelectionTyped
    <3> QED
      BY <1>a, <3>5, <3>10, <3>11, RequestStep
  <2>4. CASE good /\ x.op # "renew"
    <3>1. asked' = [asked EXCEPT ![r].at = IF x.op = "test" THEN "reload" ELSE "read"] /\ UNCHANGED renewed
      BY <1>2, <1>b, <2>4 DEF CheckToken
    <3>2. x \in Looking \cup Reviewing \cup Applying
      BY <2>1, <2>4 DEF Renewing
    <3>3. PICK p \in {"reload", "read"} : p = IF x.op = "test" THEN "reload" ELSE "read"
      OBVIOUS
    <3>4. PICK y \in Looking \cup Listing \cup Reviewing \cup Applying : y = [x EXCEPT !.at = p]
      BY <3>2, <3>3 DEF Looking, Listing, Reviewing, Applying
    <3>5. /\ y.op = x.op /\ x.op \in {"test", "discover", "review", "apply"} /\ y.at = p /\ y.from = x.from
          /\ x.op = "apply" => y.hash = x.hash /\ y.at = "read"
      BY <3>2, <3>3, <3>4 DEF Looking, Listing, Reviewing, Applying
    <3>6. y \in Asking /\ IsDue(y)
      BY <1>b, <2>1, <3>5 DEF Asking, IsDue
    <3>7. asked' = [asked EXCEPT ![r] = y]
      BY <1>b, <3>1, <3>3, <3>4
    <3> QED
      BY <1>a, <3>1, <3>6, <3>7, PlainStep
  <2> QED
    BY <2>2, <2>3, <2>4
<1>3. CASE ReadCourses(r)
  <2>1. x.at = "read" /\ x \in Listing \cup Reviewing \cup Applying /\ UNCHANGED renewed
    BY <1>3, <1>b, KindOfPlace DEF ReadCourses, ghosts
  <2>2. CASE x.op = "discover"
    <3>1. asked' = [asked EXCEPT ![r].at = "reload"] /\ x \in Listing
      BY <1>3, <1>b, <2>1, <2>2 DEF ReadCourses, Reviewing, Applying
    <3>2. PICK y \in Looking : y = [x EXCEPT !.at = "reload"]
      BY <3>1 DEF Listing, Looking
    <3>3. y.op = "discover" /\ y.at = "reload" /\ y.from = x.from
      BY <2>2, <3>1, <3>2 DEF Listing
    <3>4. y \in Asking /\ IsDue(y)
      BY <1>b, <2>1, <2>2, <3>3 DEF Asking, IsDue
    <3>5. asked' = [asked EXCEPT ![r] = y]
      BY <1>b, <3>1, <3>2
    <3> QED
      BY <1>a, <2>1, <3>4, <3>5, PlainStep
  <2>3. CASE Leaves(r)
    BY <1>a, <2>1, <2>3, LeavingStep
  <2>4. CASE x.op # "discover" /\ ~Leaves(r)
    <3>1. x \in Reviewing \cup Applying /\ x.from \in Config /\ x.courses \in SUBSET Course
      BY <2>1, <2>4 DEF Listing, Reviewing, Applying
    <3>2. PICK d \in Config : d = [x.from EXCEPT !.registry = [courses |-> x.courses, title |-> title]]
      BY <1>a, <3>1 DEF Config, Registry
    <3>3. d = [x.from EXCEPT !.registry = d.registry]
      BY <3>1, <3>2 DEF Config
    <3>4. asked' = [asked EXCEPT ![r] =
            [candidate |-> d, op |-> x.op, at |-> "reload", from |-> x.from, hash |-> IF x.op = "apply" THEN x.hash ELSE NotAsked]]
      BY <1>3, <1>b, <2>4, <3>2 DEF ReadCourses, Puts
    <3>5. CASE x \in Reviewing
      <4>1. PICK y \in Proposal : y = [candidate |-> d, op |-> "review", at |-> "reload", from |-> x.from, hash |-> NotAsked]
        BY <3>1 DEF Proposal
      <4>2. x.op = "review" /\ y.op = "review" /\ y.at = "reload" /\ y.from = x.from /\ y.candidate = d
        BY <3>5, <4>1 DEF Reviewing
      <4>3. y \in Asking /\ IsDue(y)
        BY <1>b, <2>1, <4>2 DEF Asking, IsDue
      <4>4. asked' = [asked EXCEPT ![r] = y]
        BY <3>4, <4>1, <4>2
      <4> QED
        BY <1>a, <2>1, <4>3, <4>4, PlainStep
    <3>6. CASE x \in Applying
      <4>1. PICK y \in Application : y = [candidate |-> d, op |-> "apply", at |-> "reload", from |-> x.from, hash |-> x.hash]
        BY <3>1, <3>6 DEF Application, Applying
      <4>2. x.op = "apply" /\ y.op = "apply" /\ y.at = "reload" /\ y.from = x.from /\ y.candidate = d /\ y.hash = x.hash
        BY <3>6, <4>1 DEF Applying
      <4>3. y \in Asking /\ IsDue(y)
        BY <1>b, <2>1, <3>3, <4>2 DEF Asking, IsDue
      <4>4. asked' = [asked EXCEPT ![r] = y]
        BY <3>4, <4>1, <4>2
      <4> QED
        BY <1>a, <2>1, <4>3, <4>4, PlainStep
    <3> QED
      BY <3>1, <3>5, <3>6
  <2> QED
    BY <2>2, <2>3, <2>4
<1> QED
  BY <1>1, <1>2, <1>3

(* A request that is answered after an operation: what is left of it is    *)
(* due.                                                                    *)
LEMMA WritingStep ==
  ASSUME SelectionInv, NEW r \in Submission, Leaves(r), NEW op \in OpenOperation, OperationIsDue(op),
         config \in {op.before, op.after}, Carry(op, interrupted), UNCHANGED <<offered, title, clock, renewed, reviewed>>
  PROVE  SelectionInv' /\ MayBecome(config, config')
<1>1. /\ OutcomesAreDue' /\ MayBecome(config, config')
      /\ config' \in Config /\ slot' \in Tokens /\ interrupted' \subseteq OpenOperation
  BY CarryIsDue
<1>2. asked' \in [Submission -> Asking] /\ WritesAreDue'
  BY RestIsDue, OneGoesOn DEF Leaves, Puts
<1> QED
  BY <1>1, <1>2 DEF SelectionInv, SelectionTyped

(* A token is stored, replaced or forgotten.                               *)
LEMMA SavingStep ==
  ASSUME SelectionInv, NEW r \in Submission, Save(r)
  PROVE  SelectionInv' /\ MayBecome(config, config')
<1>a. UNCHANGED <<offered, title, clock, renewed, reviewed>> /\ Leaves(r)
  BY DEF Save, world, ghosts
<1>b. PICK x \in Asking : x = asked[r] /\ IsDue(x)
  BY Asked
<1>c. x.at = "save" /\ x \in Saving \cup Forgetting
  BY <1>b, KindOfPlace DEF Save
<1> DEFINE a == IF x.op = "forget" THEN x.from.account ELSE x.account
           refused == OpenOn(a) \/ ~Current(r) \/ (x.op = "replace" /\ slot[a] = NoCanvasToken)
<1>1. CASE UNCHANGED <<config, slot, interrupted>>
  BY <1>a, <1>1, LeavingStep
<1>2. CASE ~refused /\ ~UNCHANGED <<config, slot, interrupted>>
  <2>a. config = x.from /\ ~OpenOn(a)
    BY <1>b, <1>2 DEF Current
  <2>b. PICK c \in Config : c = config
    BY DEF SelectionInv, SelectionTyped
  <2>c. SlotsMatch /\ LeaseIsGiven(c) /\ slot \in Tokens
    BY <2>b DEF SelectionInv, SelectionTyped, OutcomesAreDue, LeaseIsGiven
  <2>d. NoRegistry \in Registry /\ NoLease \in Lease
    BY DEF NoRegistry, Registry, NoLease, Lease
  <2>e. PICK e \in Config : e = Detached(c)
    BY <2>d DEF Config, Detached
  <2>f. e.account = NoAccount /\ e.registry = NoRegistry /\ e.lease = NoLease /\ e.other = c.other
    BY <2>e DEF Config, Detached
  <2>1. CASE x.op = "connect"
    <3>1. /\ x \in Saving /\ x.account \in Account /\ x.token \in CanvasToken /\ x.account = OwnerOf(x.token)
          /\ a = x.account
      BY <1>b, <1>c, <2>1 DEF Saving, Forgetting, IsDue
    <3>2. c.account = NoAccount
      BY <1>b, <1>c, <2>a, <2>b, <2>1 DEF IsDue
    <3>3. PICK d \in Config : d = [e EXCEPT !.account = x.account]
      BY <3>1 DEF Config
    <3>4. d.registry = NoRegistry /\ d.lease = NoLease /\ d.other = c.other /\ d.account = x.account /\ d.revision + 1 \in Nat
      BY <2>f, <3>3 DEF Config
    <3>5. PICK after \in Config : after = Revised(d)
      BY <3>4 DEF Config, Revised
    <3>6. /\ after.registry = NoRegistry /\ after.lease = NoLease /\ after.other = c.other /\ after.account = x.account
          /\ after = Revised([Detached(c) EXCEPT !.account = after.account])
      BY <2>e, <3>3, <3>4, <3>5 DEF Config, Revised
    <3>7. slot[x.account] = NoCanvasToken
      BY <2>a, <2>b, <2>c, <3>1, <3>2, SelectionAssumption DEF SlotsMatch
    <3>8. PICK op \in OpenOperation :
            /\ op = Operation("connect", x.account, c, after, x.token) /\ op.account = x.account /\ op.before = c
            /\ op.after = after /\ op.token = x.token /\ op.was = slot[x.account]
      BY <3>1, Recorded
    <3>9. LeaseIsGiven(after) /\ MayBecome(c, after)
      BY <3>1, <3>2, <3>6, SelectionAssumption DEF LeaseIsGiven, MayBecome
    <3>10. OperationIsDue(op)
      BY <2>c, <3>1, <3>2, <3>6, <3>7, <3>8, <3>9, SelectionAssumption DEF OperationIsDue, OfItsAccount
    <3>11. Carry(op, interrupted)
      BY <1>b, <1>2, <2>b, <2>e, <2>1, <3>1, <3>3, <3>5, <3>8 DEF Save
    <3> QED
      BY <1>a, <2>b, <3>8, <3>10, <3>11, WritingStep
  <2>2. CASE x.op = "replace"
    <3>1. /\ x \in Saving /\ x.account \in Account /\ x.token \in CanvasToken /\ x.account = OwnerOf(x.token)
          /\ x.account = c.account /\ a = x.account
      BY <1>b, <1>c, <2>a, <2>b, <2>2 DEF Saving, Forgetting, IsDue
    <3>2. c.revision + 1 \in Nat
      BY DEF Config
    <3>3. PICK after \in Config : after = Revised(c)
      BY <3>2 DEF Config, Revised
    <3>4. /\ after.registry = c.registry /\ after.lease = c.lease /\ after.other = c.other /\ after.account = c.account
          /\ after.sync = c.sync
      BY <3>3 DEF Config, Revised
    <3>5. slot[x.account] # NoCanvasToken /\ OwnerOf(slot[x.account]) = x.account
      BY <1>2, <2>c, <2>2, <3>1 DEF SlotsMatch
    <3>6. PICK op \in OpenOperation :
            /\ op = Operation("replace", x.account, c, after, x.token) /\ op.account = x.account /\ op.before = c
            /\ op.after = after /\ op.token = x.token /\ op.was = slot[x.account]
      BY <3>1, Recorded
    <3>7. LeaseIsGiven(after) /\ MayBecome(c, after)
      BY <2>c, <3>4 DEF LeaseIsGiven, MayBecome
    <3>8. OperationIsDue(op)
      BY <2>c, <3>1, <3>4, <3>5, <3>6, <3>7, SelectionAssumption DEF OperationIsDue, OfItsAccount
    <3>9. Carry(op, interrupted)
      BY <1>b, <1>2, <2>b, <2>2, <3>1, <3>3, <3>6 DEF Save
    <3> QED
      BY <1>a, <2>b, <3>6, <3>8, <3>9, WritingStep
  <2>3. CASE x.op = "forget"
    <3>1. c.account # NoAccount /\ c.account \in Account /\ a = c.account
      BY <1>b, <1>c, <2>a, <2>b, <2>3 DEF IsDue, Config
    <3>2. e.revision + 1 \in Nat
      BY DEF Config
    <3>3. PICK after \in Config : after = Revised(e)
      BY <3>2 DEF Config, Revised
    <3>4. [e EXCEPT !.account = NoAccount] = e
      BY <2>f DEF Config
    <3>5. /\ after.registry = NoRegistry /\ after.lease = NoLease /\ after.other = c.other /\ after.account = NoAccount
      BY <2>f, <3>3 DEF Config, Revised
    <3>6. after = Revised([Detached(c) EXCEPT !.account = after.account])
      BY <2>e, <3>3, <3>4, <3>5
    <3>7. slot[c.account] # NoCanvasToken /\ OwnerOf(slot[c.account]) = c.account
      BY <2>a, <2>b, <2>c, <3>1 DEF SlotsMatch
    <3>8. PICK op \in OpenOperation :
            /\ op = Operation("forget", c.account, c, after, NoCanvasToken) /\ op.account = c.account /\ op.before = c
            /\ op.after = after /\ op.token = NoCanvasToken /\ op.was = slot[c.account]
      BY <3>1, Recorded
    <3>9. LeaseIsGiven(after) /\ MayBecome(c, after)
      BY <3>1, <3>5, <3>6 DEF LeaseIsGiven, MayBecome
    <3>10. OperationIsDue(op)
      BY <2>c, <3>1, <3>5, <3>7, <3>8, <3>9, SelectionAssumption DEF OperationIsDue, OfItsAccount
    <3>11. Carry(op, interrupted)
      BY <1>b, <1>2, <2>a, <2>b, <2>e, <2>3, <3>1, <3>3, <3>8 DEF Save
    <3> QED
      BY <1>a, <2>b, <3>8, <3>10, <3>11, WritingStep
  <2> QED
    BY <1>c, <2>1, <2>2, <2>3 DEF Saving, Forgetting
<1> QED
  BY <1>b, <1>1, <1>2 DEF Save

(* The configuration is loaded again; and what was made of it is written.  *)
LEMMA SwappingStep ==
  ASSUME SelectionInv, NEW r \in Submission, Reload(r) \/ GuardPending(r) \/ WriteSelection(r)
  PROVE  SelectionInv' /\ MayBecome(config, config')
<1>a. UNCHANGED <<offered, title, clock, renewed>>
  BY DEF Reload, GuardPending, WriteSelection, world, ghosts
<1>b. PICK x \in Asking : x = asked[r] /\ IsDue(x)
  BY Asked
<1>1. CASE Reload(r)
  <2>1. x.at = "reload" /\ x \in Looking \cup Proposal \cup Application /\ UNCHANGED <<config, slot, interrupted>>
    BY <1>1, <1>b, KindOfPlace DEF Reload
  <2>2. CASE Leaves(r) /\ UNCHANGED reviewed
    BY <1>a, <2>1, <2>2, LeavingStep
  <2>3. CASE Leaves(r) /\ reviewed' = reviewed \cup {x.candidate} /\ x.op = "review"
    <3>1. x.candidate \in Config
      BY <2>1, <2>3 DEF Looking, Proposal, Application
    <3>2. reviewed \subseteq Config /\ renewed \subseteq Lease
      BY DEF SelectionInv, SelectionTyped
    <3> QED
      BY <1>a, <2>1, <2>3, <3>1, <3>2, RestIsDue, RequestStep DEF Leaves, Puts
  <2>4. CASE x.op \notin {"test", "discover", "review"} /\ AsReviewed(r) /\ UNCHANGED reviewed
             /\ asked' = [asked EXCEPT ![r].at = "write"]
    <3>1. x \in Application /\ x.candidate = x.hash /\ x.op = "apply"
      BY <1>b, <2>1, <2>4 DEF AsReviewed, Looking, Proposal, Application
    <3>2. x.candidate \in reviewed /\ x.candidate = [x.from EXCEPT !.registry = x.candidate.registry] /\ LeaseIsGiven(x.from)
      BY <1>b, <2>1, <3>1 DEF IsDue
    <3>3. x.candidate \in Config /\ x.from \in Config
      BY <3>1 DEF Application
    <3>4. /\ x.candidate.account = x.from.account /\ x.candidate.lease = x.from.lease /\ x.candidate.other = x.from.other
          /\ x.candidate.sync = x.from.sync
      BY <3>2, <3>3 DEF Config
    <3>5. LeaseIsGiven(x.candidate) /\ MayBecome(x.from, x.candidate)
      BY <3>2, <3>4 DEF LeaseIsGiven, MayBecome
    <3>6. PICK y \in Application : y = [x EXCEPT !.at = "write"]
      BY <3>1 DEF Application
    <3>7. y.op = "apply" /\ y.at = "write" /\ y.from = x.from /\ y.candidate = x.candidate /\ y.hash = x.hash
      BY <3>1, <3>6 DEF Application
    <3>8. y \in Asking /\ IsDue(y)
      BY <1>b, <2>1, <3>1, <3>2, <3>4, <3>5, <3>7 DEF Asking, IsDue
    <3>9. asked' = [asked EXCEPT ![r] = y]
      BY <1>b, <2>4, <3>6
    <3> QED
      BY <1>a, <2>1, <2>4, <3>8, <3>9, PlainStep
  <2> QED
    BY <1>1, <1>b, <2>2, <2>3, <2>4 DEF Reload
<1>2. CASE GuardPending(r)
  <2>1. x.at = "write" /\ x \in Renewal \cup Disabling \cup Application /\ UNCHANGED <<config, slot, interrupted, reviewed>>
    BY <1>2, <1>b, KindOfPlace DEF GuardPending, ghosts
  <2>2. CASE Leaves(r)
    BY <1>a, <2>1, <2>2, LeavingStep
  <2>3. CASE asked' = [asked EXCEPT ![r].at = "swap"]
    <3>1. PICK y \in Renewal \cup Disabling \cup Application : y = [x EXCEPT !.at = "swap"]
      BY <2>1 DEF Renewal, Disabling, Application
    <3>2. /\ y.op = x.op /\ x.op \in {"renew", "disable", "apply"} /\ y.at = "swap" /\ y.from = x.from
          /\ y.candidate = x.candidate /\ (x.op = "apply" => y.hash = x.hash)
      BY <2>1, <3>1 DEF Renewal, Disabling, Application
    <3>3. y \in Asking /\ IsDue(y)
      BY <1>b, <2>1, <3>2 DEF Asking, IsDue
    <3>4. asked' = [asked EXCEPT ![r] = y]
      BY <1>b, <2>3, <3>1
    <3> QED
      BY <1>a, <2>1, <3>3, <3>4, PlainStep
  <2> QED
    BY <1>2, <2>2, <2>3 DEF GuardPending
<1>3. CASE WriteSelection(r)
  <2>1. x.at = "swap" /\ x \in Renewal \cup Disabling \cup Application /\ Leaves(r) /\ UNCHANGED reviewed
    BY <1>3, <1>b, KindOfPlace DEF WriteSelection, ghosts
  <2>2. PICK c \in Config, d \in Config : c = x.from /\ d = x.candidate
    BY <2>1 DEF Renewal, Disabling, Application
  <2>3. d.account = c.account /\ LeaseIsGiven(c) /\ LeaseIsGiven(d) /\ MayBecome(c, d)
    BY <1>b, <2>1, <2>2 DEF IsDue
  <2>4. PICK op \in OpenOperation : op = Writing(c, d) /\ op.account = NoAccount /\ op.before = c /\ op.after = d
    BY Recorded DEF Writing
  <2>5. OperationIsDue(op)
    BY <2>3, <2>4 DEF OperationIsDue
  <2>6. CASE Current(r)
    <3>1. config = c /\ Carry(op, interrupted)
      BY <1>3, <1>b, <2>2, <2>4, <2>6 DEF WriteSelection, Current
    <3> QED
      BY <1>a, <2>1, <2>4, <2>5, <3>1, WritingStep
  <2>7. CASE ~Current(r)
    <3>1. interrupted' \in {interrupted, interrupted \cup {op}} /\ UNCHANGED <<config, slot>>
      BY <1>3, <1>b, <2>2, <2>4, <2>7 DEF WriteSelection
    <3>2. ASSUME NEW o \in interrupted' PROVE OperationIsDue(o)'
      <4>1. OperationIsDue(o)
        BY <2>5, <3>1 DEF SelectionInv, OutcomesAreDue
      <4> QED
        BY <1>a, <2>1, <4>1, StaysADue
    <3>3. SlotsMatch'
      <4>1. ASSUME NEW b, OpenOn(b) PROVE OpenOn(b)'
        BY <3>1, <4>1 DEF OpenOn
      <4> QED
        BY <3>1, <4>1 DEF SelectionInv, OutcomesAreDue, SlotsMatch
    <3>4. OutcomesAreDue' /\ MayBecome(config, config')
      BY <1>a, <3>1, <3>2, <3>3, MayStay DEF SelectionInv, OutcomesAreDue, LeaseIsGiven
    <3>5. asked' \in [Submission -> Asking] /\ WritesAreDue'
      BY <1>a, <2>1, RestIsDue, OneGoesOn DEF Leaves, Puts
    <3> QED
      BY <1>a, <2>1, <3>1, <3>4, <3>5 DEF SelectionInv, SelectionTyped
  <2> QED
    BY <2>6, <2>7
<1> QED
  BY <1>1, <1>2, <1>3

-----------------------------------------------------------------------------
(* Nobody is connected at first.                                           *)
LEMMA SelectionStarts == SelectionInit => SelectionInv
<1> SUFFICES ASSUME SelectionInit PROVE SelectionInv
  OBVIOUS
<1>1. NoRegistry \in Registry /\ NoLease \in Lease
  BY DEF NoRegistry, Registry, NoLease, Lease
<1>2. PICK c \in Config :
        c = [account |-> NoAccount, registry |-> NoRegistry, lease |-> NoLease, sync |-> FALSE, other |-> 0, revision |-> 0]
  <2>1. 0 \in 0..1 /\ 0 \in Nat /\ FALSE \in BOOLEAN
    OBVIOUS
  <2>2. [account |-> NoAccount, registry |-> NoRegistry, lease |-> NoLease, sync |-> FALSE, other |-> 0, revision |-> 0] \in Config
    BY <1>1, <2>1, Zenon DEF Config
  <2> QED
    BY <2>2, Zenon
<1>3. config = Detached(c)
  BY <1>2 DEF SelectionInit
<1>4. config \in Config /\ config.account = NoAccount /\ config.lease = NoLease
  BY <1>1, <1>3 DEF Config, Detached
<1>5. SelectionTyped
  BY <1>4, RestIsDue DEF SelectionInit, SelectionTyped, Tokens, NothingOpen
<1>6. OutcomesAreDue
  BY <1>4 DEF SelectionInit, OutcomesAreDue, SlotsMatch, LeaseIsGiven, NothingOpen
<1>7. WritesAreDue
  BY RestIsDue DEF SelectionInit, WritesAreDue
<1> QED
  BY <1>5, <1>6, <1>7 DEF SelectionInv

(* Every step keeps the invariant, and does to the configuration what it   *)
(* may.                                                                    *)
LEMMA SelectionStep ==
  ASSUME SelectionInv, [SelectionNext]_selectionVars
  PROVE  SelectionInv' /\ MayBecome(config, config')
<1>1. CASE UNCHANGED selectionVars
  <2>1. UNCHANGED <<config, slot, interrupted, offered, title, clock, renewed, reviewed, asked>>
    BY <1>1 DEF selectionVars
  <2>2. OutcomesAreDue' /\ MayBecome(config, config')
    BY <2>1, NothingWritten DEF SelectionInv, SelectionTyped
  <2>3. asked' \in [Submission -> Asking] /\ WritesAreDue'
    BY <2>1, NobodyGoesOn
  <2> QED
    BY <2>1, <2>2, <2>3 DEF SelectionInv, SelectionTyped
<1>2. CASE \/ \E a \in Account, courses \in SUBSET Course : CanvasChanges(a, courses)
           \/ ClockTicks \/ OtherWrites \/ RecoverSave \/ RecoverWrite
  BY <1>2, OthersStep
<1>3. ASSUME NEW r \in Submission,
             \/ \E token \in CanvasToken : BeginConnect(r, token) \/ BeginReplace(r, token)
             \/ \E op \in {"test", "discover", "renew"} : BeginLocked(r, op)
             \/ \E courses \in SUBSET Course \ {{}} : BeginReview(r, courses)
             \/ \E candidate \in reviewed : BeginApply(r, candidate)
             \/ BeginForget(r) \/ BeginDisable(r)
      PROVE  SelectionInv' /\ MayBecome(config, config')
  BY <1>3, BeginningStep
<1>4. ASSUME NEW r \in Submission, Verify(r) \/ VerifyFails(r)
      PROVE  SelectionInv' /\ MayBecome(config, config')
  BY <1>4, VerifyingStep
<1>5. ASSUME NEW r \in Submission, Admit(r) \/ CheckToken(r) \/ ReadCourses(r)
      PROVE  SelectionInv' /\ MayBecome(config, config')
  BY <1>5, AdmittedStep
<1>6. ASSUME NEW r \in Submission, Save(r)
      PROVE  SelectionInv' /\ MayBecome(config, config')
  BY <1>6, SavingStep
<1>7. ASSUME NEW r \in Submission, Reload(r) \/ GuardPending(r) \/ WriteSelection(r)
      PROVE  SelectionInv' /\ MayBecome(config, config')
  BY <1>7, SwappingStep
<1> QED
  BY <1>1, <1>2, <1>3, <1>4, <1>5, <1>6, <1>7 DEF SelectionNext

(* A lease that counts is one that was given.                              *)
LEMMA SelectionInvIsEnough == SelectionInv => LeaseIsEarned
<1> SUFFICES ASSUME SelectionInv PROVE LeaseIsEarned
  OBVIOUS
<1>1. config \in Config /\ SlotsMatch /\ LeaseIsGiven(config)
  BY DEF SelectionInv, SelectionTyped, OutcomesAreDue
<1>2. ASSUME Active(config)
      PROVE  [account |-> config.account, courses |-> config.registry.courses, issued |-> config.lease.issued] \in renewed
  <2>1. /\ config.lease \in renewed /\ config.lease.account = config.account
        /\ config.lease.courses = config.registry.courses
    BY <1>1, <1>2 DEF Active, LeaseIsGiven
  <2>2. [account |-> config.account, courses |-> config.registry.courses, issued |-> config.lease.issued] = config.lease
    BY <1>1, <2>1 DEF Config, Lease
  <2> QED
    BY <2>1, <2>2
<1> QED
  BY <1>1, <1>2 DEF LeaseIsEarned, SlotsMatch

(* However requests overlap, are cut or recovered, and whoever else writes *)
(* the file, also while something is cut: a lease that counts was given to *)
(* this account for these courses, a token is stored for its owner, who is *)
(* connected, and whoever is connected has one, unless an operation on the *)
(* account is open; the courses change only to what was reviewed, and no   *)
(* write of one setting takes back another one's.                          *)
THEOREM SelectionsAlwaysHold == SelectionSpec => SelectionsHold
<1>1. SelectionInv /\ [SelectionNext]_selectionVars => SelectionInv'
  BY SelectionStep
<1>2. SelectionInv /\ [SelectionNext]_selectionVars => [TakesNothingBack]_selectionVars
  BY SelectionStep DEF MayBecome, TakesNothingBack
<1> QED
  BY <1>1, <1>2, SelectionStarts, SelectionInvIsEnough, PTL DEF SelectionSpec, SelectionsHold, NothingIsTakenBack

------------------------------------------------------------------------------
(***************************************************************************)
(* One process of the settings server.                                     *)
(***************************************************************************)

(* The sign-ins: types, and what a flow of each status has.                *)
Status == PreCommit \cup Terminal \cup {"committing"}
Flow == [purpose : Purpose, replace : BOOLEAN, gen : Nat, status : Status, token : BOOLEAN,
         account : User \cup {NoUser}, aged : BOOLEAN, thread : BOOLEAN]
WorkPlaces == {"idle", "admitted", "inside", "begin", "opening", "commit", "proving"}
Work == [at : WorkPlaces, purpose : Purpose \cup {NoUser}, replace : BOOLEAN, gen : Nat, peer : User \cup {NoUser}]

SettingsTypeOK ==
  /\ session \in [state : {"new", "active"} \cup Ended, idle : BOOLEAN, late : BOOLEAN]
  /\ terminal \in [reason : {"none", "expired", "replaced"}, drained : BOOLEAN]
  /\ req \in [Worker -> Work]
  /\ flows \in Seq(Flow)
  /\ current \in [Purpose -> Nat]
  /\ stored \in [Purpose -> User \cup {NoUser}]
  /\ generation \in Nat

FlowOK(f) ==
  /\ f.token => f.status = "pending"
  /\ f.thread => f.status \in {"exchanging"} \cup Terminal
  /\ f.status \in Terminal => f.account = NoUser
FlowsOK == \A i \in DOMAIN flows : FlowOK(flows[i])

CurrentOK == \A p \in Purpose : current[p] # NoFlow => current[p] \in DOMAIN flows /\ flows[current[p]].purpose = p

Committing == {r \in Worker : req[r].at \in {"commit", "proving"}}
WorkOK ==
  /\ \A r \in Worker : req[r].at \in {"begin", "commit", "proving"} => req[r].purpose \in Purpose
  /\ \A r \in Worker : req[r].at = "opening" => req[r].gen \in DOMAIN flows
  /\ \A r \in Committing : current[req[r].purpose] \in DOMAIN flows /\ flows[current[req[r].purpose]].status = "committing"
  /\ \A r, q \in Committing : req[r].purpose = req[q].purpose => r = q

StoredOK ==
  /\ \A p, q \in Purpose : stored[p] = stored[q] \/ NoUser \in {stored[p], stored[q]}
  /\ \A r \in Worker : req[r].at = "proving" => req[r].peer = stored[OtherPurpose(req[r].purpose)]
  /\ \A r, q \in Worker : req[r].at = "proving" /\ req[q].at = "proving" => r = q

AllIdle == \A r \in Worker : req[r].at = "idle"
EndsOK ==
  /\ terminal.reason # "none" \/ closing => closed
  /\ terminal.drained => closed /\ InBarrier = {}
  /\ session.state = "new" => AllIdle
  /\ session.state \in Ended => (closed /\ InBarrier = {}) \/ (AllIdle /\ session.state = "bootstrap_expired")
  /\ exit = "done" => InBarrier = {}

SessionInv == SettingsTypeOK /\ FlowsOK /\ CurrentOK /\ WorkOK /\ StoredOK /\ EndsOK

-----------------------------------------------------------------------------
(* One flow.                                                               *)

(* How a flow may go on: a verdict stays, and so does a commit that is not *)
(* one's own; one's own commit ends.                                       *)
FlowGoes(f, g) ==
  /\ g \in Flow /\ FlowOK(g) /\ g.purpose = f.purpose
  /\ f.status \in Terminal => g.status = f.status
  /\ f.status = "committing" => g.status = "committing"
FlowEnds(f, g) == g \in Flow /\ FlowOK(g) /\ g.purpose = f.purpose /\ f.status = "committing"

LEMMA StatusesDiffer ==
  /\ "pending" \in PreCommit /\ "exchanging" \in PreCommit /\ "awaiting_commit" \in PreCommit
  /\ \A s \in PreCommit : s \notin Terminal /\ s # "committing" /\ s \in Status
  /\ \A s \in Terminal : s \notin PreCommit /\ s # "committing" /\ s \in Status
  /\ "committing" \in Status /\ "committing" \notin Terminal /\ "committing" \notin PreCommit
  /\ {"failed", "expired", "cancelled", "denied", "complete", "account_mismatch"} \subseteq Terminal
  BY DEF Status, PreCommit, Terminal

LEMMA DiscardedFlow ==
  ASSUME NEW f \in Flow, NEW s \in Status
  PROVE  /\ Discarded(f, s) \in Flow
         /\ Discarded(f, s).status = s /\ Discarded(f, s).token = FALSE /\ Discarded(f, s).account = NoUser
         /\ Discarded(f, s).purpose = f.purpose /\ Discarded(f, s).thread = f.thread
  BY DEF Discarded, Flow

LEMMA DiscardedGoes ==
  ASSUME NEW f \in Flow, FlowOK(f), NEW s \in Terminal, f.status \in PreCommit \cup {s}
  PROVE  FlowGoes(f, Discarded(f, s))
  <1>1. s \in Status /\ s # "committing" /\ s \notin PreCommit /\ f.status # "committing" /\ (f.status \in Terminal => f.status = s)
    BY StatusesDiffer
  <1>2. PICK g \in Flow : g = Discarded(f, s)
    BY <1>1, DiscardedFlow
  <1>3. g.status = s /\ g.token = FALSE /\ g.account = NoUser /\ g.purpose = f.purpose /\ g.thread = f.thread
    BY <1>1, <1>2, DiscardedFlow
  <1>4. FlowOK(g)
    BY <1>3 DEF FlowOK
  <1> QED BY <1>1, <1>2, <1>3, <1>4 DEF FlowGoes

LEMMA DiscardedEnds ==
  ASSUME NEW f \in Flow, FlowOK(f), NEW s \in Terminal, f.status = "committing"
  PROVE  FlowEnds(f, Discarded(f, s))
  <1>1. s \in Status
    BY StatusesDiffer
  <1>2. PICK g \in Flow : g = Discarded(f, s)
    BY <1>1, DiscardedFlow
  <1>3. g.status = s /\ g.token = FALSE /\ g.account = NoUser /\ g.purpose = f.purpose /\ g.thread = f.thread
    BY <1>1, <1>2, DiscardedFlow
  <1>4. FlowOK(g)
    BY <1>3 DEF FlowOK
  <1> QED BY <1>2, <1>3, <1>4 DEF FlowEnds

LEMMA FlowStays ==
  ASSUME NEW f \in Flow, FlowOK(f)
  PROVE  FlowGoes(f, f)
  BY DEF FlowGoes

LEMMA SweptFlow ==
  ASSUME NEW f \in Flow, FlowOK(f)
  PROVE  Swept(f) \in Flow /\ FlowOK(Swept(f)) /\ FlowGoes(f, Swept(f)) /\ (Swept(f).status \notin {"expired", f.status} => FALSE)
  <1>1. CASE f.status \in PreCommit /\ f.aged
    <2>1. Swept(f) = Discarded(f, "expired")
      BY <1>1 DEF Swept
    <2>2. FlowGoes(f, Discarded(f, "expired"))
      BY <1>1, DiscardedGoes, StatusesDiffer
    <2>3. Discarded(f, "expired").status = "expired"
      BY DiscardedFlow, StatusesDiffer
    <2> QED BY <2>1, <2>2, <2>3 DEF FlowGoes
  <1>2. CASE ~(f.status \in PreCommit /\ f.aged)
    <2>1. Swept(f) = f
      BY <1>2 DEF Swept
    <2> QED BY <2>1, FlowStays
  <1> QED BY <1>1, <1>2

LEMMA FlowGoesOn ==
  ASSUME NEW f, NEW g, NEW h, FlowGoes(f, g), FlowGoes(g, h)
  PROVE  FlowGoes(f, h)
  BY DEF FlowGoes

-----------------------------------------------------------------------------
(* All flows.  At x the own commit of whoever steps may end.               *)
FlowsGo(x) ==
  /\ flows' \in Seq(Flow) /\ DOMAIN flows \subseteq DOMAIN flows'
  /\ \A i \in DOMAIN flows' : FlowOK(flows'[i])
  /\ \A i \in DOMAIN flows : FlowGoes(flows[i], flows'[i]) \/ (i = x /\ FlowEnds(flows[i], flows'[i]))

LEMMA FlowsStay ==
  ASSUME SessionInv, flows' = flows
  PROVE  FlowsGo(NoFlow)
  <1>1. \A i \in DOMAIN flows : flows[i] \in Flow /\ FlowOK(flows[i])
    BY DEF SessionInv, SettingsTypeOK, FlowsOK
  <1>2. \A i \in DOMAIN flows : FlowGoes(flows[i], flows[i])
    BY <1>1, FlowStays
  <1> QED BY <1>1, <1>2 DEF FlowsGo, SessionInv, SettingsTypeOK

LEMMA OneFlow ==
  ASSUME SessionInv, NEW i \in DOMAIN flows, NEW g, NEW x,
         FlowGoes(flows[i], g) \/ (i = x /\ FlowEnds(flows[i], g)), flows' = [flows EXCEPT ![i] = g]
  PROVE  FlowsGo(x)
  <1>1. g \in Flow /\ FlowOK(g)
    BY DEF FlowGoes, FlowEnds
  <1>2. flows \in Seq(Flow) /\ \A j \in DOMAIN flows : flows[j] \in Flow /\ FlowOK(flows[j])
    BY DEF SessionInv, SettingsTypeOK, FlowsOK
  <1>3. flows' \in Seq(Flow) /\ DOMAIN flows' = DOMAIN flows /\ flows'[i] = g /\ \A j \in DOMAIN flows : j # i => flows'[j] = flows[j]
    BY <1>1, <1>2
  <1>4. \A j \in DOMAIN flows : FlowGoes(flows[j], flows[j])
    BY <1>2, FlowStays
  <1> QED BY <1>1, <1>2, <1>3, <1>4 DEF FlowsGo

LEMMA FlowAt ==
  ASSUME SessionInv, NEW i \in DOMAIN flows
  PROVE  flows[i] \in Flow /\ FlowOK(flows[i])
  BY DEF SessionInv, SettingsTypeOK, FlowsOK

(* The verdicts of the flows, whoever steps.                               *)
VerdictsStay ==
  \A i \in DOMAIN flows :
    flows[i].status \in Terminal => flows'[i].status = flows[i].status /\ ~flows'[i].token /\ flows'[i].account = NoUser

LEMMA GoesGivesVerdicts ==
  ASSUME SessionInv, NEW x, FlowsGo(x)
  PROVE  VerdictsStay
  <1> SUFFICES ASSUME NEW i \in DOMAIN flows, flows[i].status \in Terminal
               PROVE  flows'[i].status = flows[i].status /\ ~flows'[i].token /\ flows'[i].account = NoUser
    BY DEF VerdictsStay
  <1>1. FlowGoes(flows[i], flows'[i])
    BY StatusesDiffer DEF FlowsGo, FlowEnds
  <1>2. flows'[i].status = flows[i].status /\ FlowOK(flows'[i])
    BY <1>1 DEF FlowGoes
  <1>3. flows'[i].status # "pending"
    BY <1>2, StatusesDiffer
  <1>4. flows'[i].account = NoUser
    BY <1>2 DEF FlowOK
  <1>5. ~flows'[i].token
    BY <1>2, <1>3 DEF FlowOK
  <1> QED BY <1>2, <1>4, <1>5
-----------------------------------------------------------------------------
(* One worker.                                                             *)

LEMMA WorkerMoves ==
  ASSUME SessionInv, NEW r \in Worker, NEW v \in Work, Sets(r, v)
  PROVE  /\ req' \in [Worker -> Work] /\ req'[r] = v
         /\ \A q \in Worker : q # r => req'[q] = req[q]
         /\ \A q \in Worker : req[q] \in Work
  BY DEF SessionInv, SettingsTypeOK, Sets

LEMMA NotWorkingWorks ==
  /\ NotWorking \in Work /\ NotWorking.at = "idle"
  /\ \A a \in WorkPlaces : [NotWorking EXCEPT !.at = a] \in Work /\ [NotWorking EXCEPT !.at = a].at = a
  BY DEF NotWorking, Work, WorkPlaces

(* Whoever is in the barrier keeps the session from its end.               *)
LEMMA BarrierHolds ==
  ASSUME SessionInv, SettingsRun, NEW r \in Worker, req[r].at \notin {"idle", "admitted"}
  PROVE  session.state = "active" /\ terminal.drained = FALSE /\ r \in InBarrier /\ exit # "done"
  <1>1. r \in InBarrier /\ ~AllIdle
    BY DEF InBarrier, AllIdle
  <1>2. InBarrier # {}
    BY <1>1
  <1>3. EndsOK /\ session.state \in {"new", "active"} \cup Ended /\ terminal.drained \in BOOLEAN
    BY DEF SessionInv, SettingsTypeOK
  <1>4. session.state # "new" /\ session.state \notin Ended /\ ~terminal.drained
    BY <1>1, <1>2, <1>3 DEF EndsOK
  <1> QED BY <1>1, <1>3, <1>4 DEF SettingsRun

LEMMA WorkerEnds ==
  ASSUME SessionInv, SettingsRun, NEW r \in Worker, req[r].at \notin {"idle", "admitted"},
         UNCHANGED <<session, closed, terminal, closing, exit>>
  PROVE  EndsOK'
  <1>1. session.state = "active" /\ terminal.drained = FALSE /\ exit # "done" /\ EndsOK
    BY BarrierHolds DEF SessionInv
  <1>2. "active" \notin Ended
    BY DEF Ended
  <1>3. session' = session /\ closed' = closed /\ terminal' = terminal /\ closing' = closing /\ exit' = exit
    OBVIOUS
  <1>4. session'.state = "active" /\ terminal'.drained = FALSE /\ exit' # "done" /\ (terminal'.reason # "none" \/ closing' => closed')
    BY <1>1, <1>3 DEF EndsOK
  <1> QED BY <1>2, <1>4 DEF EndsOK

LEMMA StoredKept ==
  ASSUME SessionInv, NEW r \in Worker, NEW v \in Work, Sets(r, v), v.at # "proving", stored' = stored
  PROVE  StoredOK' /\ stored' \in [Purpose -> User \cup {NoUser}]
  <1>1. req'[r] = v /\ \A q \in Worker : q # r => req'[q] = req[q]
    BY WorkerMoves
  <1>2. \A q \in Worker : req'[q].at = "proving" => q # r /\ req[q].at = "proving" /\ req'[q] = req[q]
    BY <1>1
  <1>3. StoredOK /\ stored \in [Purpose -> User \cup {NoUser}]
    BY DEF SessionInv, SettingsTypeOK
  <1>4. \A p, q \in Purpose : stored'[p] = stored'[q] \/ NoUser \in {stored'[p], stored'[q]}
    BY <1>3 DEF StoredOK
  <1>5. \A q \in Worker : req'[q].at = "proving" => req'[q].peer = stored'[OtherPurpose(req'[q].purpose)]
    BY <1>2, <1>3 DEF StoredOK
  <1>6. \A p, q \in Worker : req'[p].at = "proving" /\ req'[q].at = "proving" => p = q
    BY <1>2, <1>3 DEF StoredOK
  <1> QED BY <1>3, <1>4, <1>5, <1>6 DEF StoredOK

(* The flows a purpose knows, when none is replaced.                       *)
LEMMA CurrentKept ==
  ASSUME SessionInv, NEW x, FlowsGo(x), current' = current
  PROVE  CurrentOK' /\ current' \in [Purpose -> Nat]
  <1>1. \A p \in Purpose : current[p] # NoFlow => current[p] \in DOMAIN flows /\ flows[current[p]].purpose = p
    BY DEF SessionInv, CurrentOK
  <1>2. \A i \in DOMAIN flows : i \in DOMAIN flows' /\ flows'[i].purpose = flows[i].purpose
    BY DEF FlowsGo, FlowGoes, FlowEnds
  <1>3. \A p \in Purpose : current'[p] # NoFlow => current'[p] \in DOMAIN flows' /\ flows'[current'[p]].purpose = p
    BY <1>1, <1>2
  <1> QED BY <1>3 DEF CurrentOK, SessionInv, SettingsTypeOK

LEMMA CommitStays ==
  ASSUME SessionInv, NEW x, FlowsGo(x), NEW q \in Committing, current[req[q].purpose] # x
  PROVE  current[req[q].purpose] \in DOMAIN flows' /\ flows'[current[req[q].purpose]].status = "committing"
  <1>1. current[req[q].purpose] \in DOMAIN flows /\ flows[current[req[q].purpose]].status = "committing"
    BY DEF SessionInv, WorkOK
  <1> QED BY <1>1 DEF FlowsGo, FlowGoes

(* The types and the flows, after any step that keeps the session's.       *)
LEMMA WorkerStep ==
  ASSUME SessionInv, NEW r \in Worker, NEW v \in Work, Sets(r, v), NEW x, FlowsGo(x),
         current' \in [Purpose -> Nat], CurrentOK',
         \A q \in Committing \ {r} : current'[req[q].purpose] = current[req[q].purpose] /\ current[req[q].purpose] # x,
         v.at = "begin" => v.purpose \in Purpose,
         v.at = "opening" => v.gen \in DOMAIN flows',
         v.at \in {"commit", "proving"} =>
           /\ v.purpose \in Purpose /\ current'[v.purpose] \in DOMAIN flows'
           /\ flows'[current'[v.purpose]].status = "committing"
           /\ \A q \in Committing \ {r} : req[q].purpose # v.purpose,
         stored' \in [Purpose -> User \cup {NoUser}], StoredOK', generation' \in Nat,
         session' = session, terminal' = terminal, EndsOK'
  PROVE  SessionInv'
  <1>1. /\ req' \in [Worker -> Work] /\ req'[r] = v
        /\ \A q \in Worker : q # r => req'[q] = req[q]
    BY WorkerMoves
  <1>2. SettingsTypeOK'
    BY <1>1 DEF SessionInv, SettingsTypeOK, FlowsGo
  <1>3. FlowsOK'
    BY DEF FlowsOK, FlowsGo
  <1>4. \A q \in Worker : q # r => (q \in Committing' <=> q \in Committing)
    BY <1>1 DEF Committing
  <1>5. WorkOK
    BY DEF SessionInv
  <1>6. WorkOK'
    <2>1. \A q \in Worker : req'[q].at \in {"begin", "commit", "proving"} => req'[q].purpose \in Purpose
      BY <1>1, <1>5 DEF WorkOK
    <2>2. \A q \in Worker : req'[q].at = "opening" => req'[q].gen \in DOMAIN flows'
      BY <1>1, <1>5 DEF WorkOK, FlowsGo
    <2>3. ASSUME NEW q \in Committing'
          PROVE  current'[req'[q].purpose] \in DOMAIN flows' /\ flows'[current'[req'[q].purpose]].status = "committing"
      <3>1. CASE q = r
        BY <1>1, <2>3, <3>1 DEF Committing
      <3>2. CASE q # r
        <4>1. q \in Committing \ {r} /\ req'[q] = req[q]
          BY <1>1, <1>4, <2>3, <3>2 DEF Committing
        <4>2. current'[req[q].purpose] = current[req[q].purpose] /\ current[req[q].purpose] # x
          BY <4>1
        <4> QED BY <4>1, <4>2, CommitStays
      <3> QED BY <3>1, <3>2
    <2>4. ASSUME NEW p \in Committing', NEW q \in Committing', req'[p].purpose = req'[q].purpose, p # q
          PROVE  FALSE
      <3>1. p \in Worker /\ q \in Worker
        BY DEF Committing
      <3>2. CASE p = r
        <4>1. q \in Committing \ {r} /\ req'[q] = req[q] /\ req'[p] = v /\ v.at \in {"commit", "proving"}
          BY <1>1, <1>4, <2>4, <3>1, <3>2 DEF Committing
        <4> QED BY <2>4, <4>1
      <3>3. CASE q = r
        <4>1. p \in Committing \ {r} /\ req'[p] = req[p] /\ req'[q] = v /\ v.at \in {"commit", "proving"}
          BY <1>1, <1>4, <2>4, <3>1, <3>3 DEF Committing
        <4> QED BY <2>4, <4>1
      <3>4. CASE p # r /\ q # r
        BY <1>1, <1>4, <1>5, <2>4, <3>1, <3>4 DEF WorkOK
      <3> QED BY <3>2, <3>3, <3>4
    <2> QED BY <2>1, <2>2, <2>3, <2>4 DEF WorkOK
  <1> QED BY <1>2, <1>3, <1>6 DEF SessionInv

(* The most frequent step: neither what a purpose knows nor the session    *)
(* changes, and the worker neither opens a sign-in nor commits one after.  *)
LEMMA QuietStep ==
  ASSUME SessionInv, NEW r \in Worker, NEW v \in Work, Sets(r, v),
         v.at \in {"idle", "admitted", "inside", "begin"}, v.at = "begin" => v.purpose \in Purpose,
         NEW x, FlowsGo(x), x = NoFlow \/ (r \in Committing /\ x = current[req[r].purpose]),
         UNCHANGED <<session, current, terminal>>, EndsOK',
         stored' \in [Purpose -> User \cup {NoUser}], StoredOK', generation' \in Nat
  PROVE  SessionInv'
  <1>1. CurrentOK' /\ current' \in [Purpose -> Nat]
    BY CurrentKept
  <1>2. ASSUME NEW q \in Committing \ {r}
        PROVE  current'[req[q].purpose] = current[req[q].purpose] /\ current[req[q].purpose] # x
    <2>1. req[q].purpose \in Purpose /\ current[req[q].purpose] \in DOMAIN flows
      BY DEF SessionInv, WorkOK, Committing
    <2>2. flows \in Seq(Flow) /\ NoFlow \notin DOMAIN flows
      BY DEF SessionInv, SettingsTypeOK, NoFlow
    <2>3. CASE x = NoFlow
      BY <2>1, <2>2, <2>3
    <2>4. CASE r \in Committing /\ x = current[req[r].purpose]
      <3>1. req[r].purpose \in Purpose /\ current[req[r].purpose] \in DOMAIN flows
        BY <2>4 DEF SessionInv, WorkOK, Committing
      <3>2. req[r].purpose # req[q].purpose
        BY <2>4 DEF SessionInv, WorkOK
      <3>3. flows[current[req[r].purpose]].purpose = req[r].purpose /\ flows[current[req[q].purpose]].purpose = req[q].purpose
        BY <2>1, <2>2, <3>1 DEF SessionInv, CurrentOK
      <3> QED BY <2>4, <3>2, <3>3
    <2> QED BY <2>3, <2>4
  <1> QED BY <1>1, <1>2, WorkerStep

(* A step of the session or of the provider: no worker moves.              *)
LEMMA OutsiderStep ==
  ASSUME SessionInv, NEW x, FlowsGo(x), x = NoFlow, UNCHANGED <<req, current, stored, generation>>,
         session' \in [state : {"new", "active"} \cup Ended, idle : BOOLEAN, late : BOOLEAN],
         terminal' \in [reason : {"none", "expired", "replaced"}, drained : BOOLEAN], EndsOK'
  PROVE  SessionInv'
  <1>1. CurrentOK' /\ FlowsOK'
    BY CurrentKept DEF FlowsGo, FlowsOK
  <1>2. SettingsTypeOK'
    BY DEF SessionInv, SettingsTypeOK, FlowsGo
  <1>3. flows \in Seq(Flow) /\ NoFlow \notin DOMAIN flows
    BY DEF SessionInv, SettingsTypeOK, NoFlow
  <1>4. \A q \in Committing : current[req[q].purpose] # x
    BY <1>3 DEF SessionInv, WorkOK
  <1>5. Committing' = Committing
    BY DEF Committing
  <1>6. WorkOK'
    <2>1. \A q \in Committing : current[req[q].purpose] \in DOMAIN flows' /\ flows'[current[req[q].purpose]].status = "committing"
      BY <1>4, CommitStays
    <2>2. DOMAIN flows \subseteq DOMAIN flows'
      BY DEF FlowsGo
    <2> QED BY <1>5, <2>1, <2>2 DEF SessionInv, WorkOK
  <1>7. StoredOK'
    BY DEF SessionInv, StoredOK
  <1> QED BY <1>1, <1>2, <1>6, <1>7 DEF SessionInv

-----------------------------------------------------------------------------
(* The steps of a worker.                                                  *)
Sound == SessionInv' /\ VerdictsStay

LEMMA AdmitMutationSound ==
  ASSUME SessionInv, NEW r \in Worker, AdmitMutation(r)
  PROVE  Sound
  <1>1. PICK v \in Work : v = [NotWorking EXCEPT !.at = "admitted"] /\ v.at = "admitted"
    BY NotWorkingWorks DEF WorkPlaces
  <1>2. Sets(r, v) /\ SettingsRun /\ req[r].at = "idle" /\ session.state = "active"
    BY <1>1 DEF AdmitMutation, Does, Answers
  <1>3. req'[r] = v /\ \A q \in Worker : q # r => req'[q] = req[q]
    BY <1>2, WorkerMoves
  <1>4. InBarrier' = InBarrier
    BY <1>1, <1>2, <1>3 DEF InBarrier
  <1>5. FlowsGo(NoFlow)
    BY FlowsStay DEF AdmitMutation
  <1>6. StoredOK' /\ stored' \in [Purpose -> User \cup {NoUser}]
    BY <1>1, <1>2, StoredKept DEF AdmitMutation
  <1>7. UNCHANGED <<session, closed, current, generation, terminal, closing, exit>>
    BY DEF AdmitMutation
  <1>8. "active" \notin Ended
    BY DEF Ended
  <1>9. EndsOK'
    BY <1>2, <1>4, <1>7, <1>8 DEF SessionInv, EndsOK, SettingsRun
  <1>10. SessionInv'
    BY <1>1, <1>2, <1>5, <1>6, <1>7, <1>9, QuietStep DEF SessionInv, SettingsTypeOK
  <1> QED BY <1>5, <1>10, GoesGivesVerdicts DEF Sound

LEMMA EnterBarrierSound ==
  ASSUME SessionInv, NEW r \in Worker, EnterBarrier(r)
  PROVE  Sound
  <1>1. PICK v \in Work : v = [NotWorking EXCEPT !.at = IF closed THEN "idle" ELSE "inside"] /\ v.at = (IF closed THEN "idle" ELSE "inside")
    BY NotWorkingWorks DEF WorkPlaces
  <1>0. v.at \in {"idle", "inside"} /\ v.at # "proving"
    BY <1>1
  <1>2. Sets(r, v) /\ SettingsRun /\ req[r].at = "admitted"
    BY <1>1 DEF EnterBarrier, Does
  <1>3. req'[r] = v /\ \A q \in Worker : q # r => req'[q] = req[q]
    BY <1>2, WorkerMoves
  <1>4. closed => InBarrier' = InBarrier
    BY <1>1, <1>2, <1>3 DEF InBarrier
  <1>5. FlowsGo(NoFlow)
    BY FlowsStay DEF EnterBarrier
  <1>6. StoredOK' /\ stored' \in [Purpose -> User \cup {NoUser}]
    BY <1>0, <1>1, <1>2, StoredKept DEF EnterBarrier
  <1>7. UNCHANGED <<session, closed, current, generation, terminal, closing, exit>>
    BY DEF EnterBarrier
  <1>8. ~AllIdle /\ EndsOK
    BY <1>2 DEF AllIdle, SessionInv
  <1>9. EndsOK'
    BY <1>2, <1>4, <1>7, <1>8 DEF EndsOK, SettingsRun
  <1>10. SessionInv'
    BY <1>0, <1>2, <1>5, <1>6, <1>7, <1>9, QuietStep DEF SessionInv, SettingsTypeOK
  <1> QED BY <1>5, <1>10, GoesGivesVerdicts DEF Sound

(* A worker in the barrier that ends its work.                             *)
LEMMA QuitsSound ==
  ASSUME SessionInv, SettingsRun, NEW r \in Worker, req[r].at \notin {"idle", "admitted"}, Quits(r),
         NEW x, FlowsGo(x), x = NoFlow \/ (r \in Committing /\ x = current[req[r].purpose]),
         UNCHANGED <<session, closed, current, terminal, closing, exit>>,
         stored' = stored \/ (stored' \in [Purpose -> User \cup {NoUser}] /\ StoredOK'), generation' \in Nat
  PROVE  Sound
  <1>1. PICK v \in Work : v = NotWorking /\ v.at = "idle"
    BY NotWorkingWorks
  <1>2. Sets(r, v)
    BY <1>1 DEF Quits
  <1>3. StoredOK' /\ stored' \in [Purpose -> User \cup {NoUser}]
    BY <1>1, <1>2, StoredKept
  <1>4. EndsOK'
    BY WorkerEnds
  <1>5. SessionInv'
    BY <1>1, <1>2, <1>3, <1>4, QuietStep
  <1> QED BY <1>5, GoesGivesVerdicts DEF Sound

LEMMA OtherMutationSound ==
  ASSUME SessionInv, NEW r \in Worker, OtherMutation(r)
  PROVE  Sound
  <1>1. FlowsGo(NoFlow)
    BY FlowsStay DEF OtherMutation
  <1>2. SettingsRun /\ req[r].at = "inside" /\ Quits(r) /\ UNCHANGED <<session, closed, current, terminal, closing, exit>>
    BY DEF OtherMutation, Does
  <1>3. generation \in Nat /\ generation' \in Nat
    BY DEF SessionInv, SettingsTypeOK, OtherMutation
  <1>4. stored' = stored \/ (stored' \in [Purpose -> User \cup {NoUser}] /\ StoredOK')
    <2>1. CASE (\A q \in Worker : req[q].at # "proving") /\ \E p \in Purpose : stored' = [stored EXCEPT ![p] = NoUser]
      <3>1. PICK p \in Purpose : stored' = [stored EXCEPT ![p] = NoUser]
        BY <2>1
      <3>2. PICK v \in Work : v = NotWorking /\ v.at = "idle"
        BY NotWorkingWorks
      <3>3. req'[r] = v /\ \A q \in Worker : q # r => req'[q] = req[q]
        BY <1>2, <3>2, WorkerMoves DEF Quits
      <3>4. \A q \in Worker : req'[q].at # "proving"
        BY <2>1, <3>2, <3>3
      <3>5. stored \in [Purpose -> User \cup {NoUser}] /\ StoredOK
        BY DEF SessionInv, SettingsTypeOK
      <3>6. stored' \in [Purpose -> User \cup {NoUser}] /\ stored'[p] = NoUser /\ \A q \in Purpose : q # p => stored'[q] = stored[q]
        BY <3>1, <3>5
      <3>7. \A a, b \in Purpose : stored'[a] = stored'[b] \/ NoUser \in {stored'[a], stored'[b]}
        BY <3>5, <3>6 DEF StoredOK
      <3> QED BY <3>4, <3>6, <3>7 DEF StoredOK
    <2>2. CASE stored' = stored
      BY <2>2
    <2> QED BY <2>1, <2>2 DEF OtherMutation
  <1> QED BY <1>1, <1>2, <1>3, <1>4, QuitsSound

LEMMA BeginReadSound ==
  ASSUME SessionInv, NEW r \in Worker, BeginRead(r)
  PROVE  Sound
  <1>1. generation \in Nat /\ stored \in [Purpose -> User \cup {NoUser}]
    BY DEF SessionInv, SettingsTypeOK
  <1>2. PICK p \in Purpose :
          Sets(r, [NotWorking EXCEPT !.at = "begin", !.purpose = p, !.replace = stored[p] # NoUser, !.gen = generation])
    BY DEF BeginRead
  <1>3. PICK v \in Work : v = [NotWorking EXCEPT !.at = "begin", !.purpose = p, !.replace = (stored[p] # NoUser), !.gen = generation]
    <2>1. PICK b \in BOOLEAN : b = (stored[p] # NoUser)
      OBVIOUS
    <2>2. PICK w1 \in Work : w1 = [NotWorking EXCEPT !.at = "begin"]
      BY NotWorkingWorks DEF WorkPlaces
    <2>3. PICK w2 \in Work : w2 = [w1 EXCEPT !.purpose = p]
      BY DEF Work
    <2>4. PICK w3 \in Work : w3 = [w2 EXCEPT !.replace = b]
      BY DEF Work
    <2>5. PICK w4 \in Work : w4 = [w3 EXCEPT !.gen = generation]
      BY <1>1 DEF Work
    <2> QED BY <2>1, <2>2, <2>3, <2>4, <2>5
  <1>4. v.at = "begin" /\ v.purpose = p
    BY <1>3 DEF NotWorking
  <1>5. Sets(r, v) /\ SettingsRun /\ req[r].at = "inside" /\ UNCHANGED <<session, closed, flows, current, stored, generation, terminal, closing, exit>>
    BY <1>2, <1>3 DEF BeginRead, Does
  <1>6. FlowsGo(NoFlow)
    BY <1>5, FlowsStay
  <1>7. StoredOK' /\ stored' \in [Purpose -> User \cup {NoUser}]
    BY <1>4, <1>5, StoredKept
  <1>8. EndsOK'
    BY <1>5, WorkerEnds
  <1>9. SessionInv'
    BY <1>1, <1>4, <1>5, <1>6, <1>7, <1>8, QuietStep
  <1> QED BY <1>6, <1>9, GoesGivesVerdicts DEF Sound

LEMMA OpenedSound ==
  ASSUME SessionInv, NEW r \in Worker, Opened(r)
  PROVE  Sound
  <1>1. SettingsRun /\ req[r].at = "opening" /\ Quits(r) /\ UNCHANGED <<session, closed, current, stored, generation, terminal, closing, exit>>
    BY DEF Opened, Does
  <1>2. FlowsGo(NoFlow)
    <2>1. CASE flows' = flows
      BY <2>1, FlowsStay
    <2>2. CASE flows[req[r].gen].status = "pending" /\ flows' = [flows EXCEPT ![req[r].gen] = Discarded(@, "failed")]
      <3>1. PICK i \in DOMAIN flows : i = req[r].gen
        BY <1>1 DEF SessionInv, WorkOK
      <3>2. flows[i] \in Flow /\ FlowOK(flows[i])
        BY FlowAt
      <3>3. FlowGoes(flows[i], Discarded(flows[i], "failed"))
        BY <2>2, <3>1, <3>2, StatusesDiffer, DiscardedGoes
      <3> QED BY <2>2, <3>1, <3>3, OneFlow
    <2> QED BY <2>1, <2>2 DEF Opened
  <1> QED BY <1>1, <1>2, QuitsSound DEF SessionInv, SettingsTypeOK

LEMMA CancelSound ==
  ASSUME SessionInv, NEW r \in Worker, Cancel(r)
  PROVE  Sound
  <1>1. SettingsRun /\ req[r].at = "inside" /\ Quits(r) /\ UNCHANGED <<session, closed, current, stored, generation, terminal, closing, exit>>
    BY DEF Cancel, Does
  <1>2. PICK p \in Purpose :
       /\ current[p] # NoFlow
       /\ \/ flows' = [flows EXCEPT ![current[p]] = IF Swept(flows[current[p]]).status \in PreCommit
                                                    THEN Discarded(Swept(flows[current[p]]), "cancelled") ELSE Swept(flows[current[p]])]
          \/ flows' = [flows EXCEPT ![current[p]] = Swept(flows[current[p]])]
    BY DEF Cancel
  <1>3. PICK i \in DOMAIN flows : i = current[p]
    BY <1>2 DEF SessionInv, CurrentOK
  <1>4. flows[i] \in Flow /\ FlowOK(flows[i])
    BY FlowAt
  <1>5. PICK f \in Flow : f = Swept(flows[i])
    BY <1>4, SweptFlow
  <1>6. FlowOK(f) /\ FlowGoes(flows[i], f)
    BY <1>4, <1>5, SweptFlow
  <1>7. f.status \in PreCommit => FlowGoes(f, Discarded(f, "cancelled"))
    BY <1>6, StatusesDiffer, DiscardedGoes
  <1>8. f.status \in PreCommit => FlowGoes(flows[i], Discarded(f, "cancelled"))
    BY <1>6, <1>7, FlowGoesOn
  <1>9. PICK g : g \in {f, Discarded(f, "cancelled")} /\ FlowGoes(flows[i], g) /\ flows' = [flows EXCEPT ![i] = g]
    BY <1>2, <1>3, <1>5, <1>6, <1>8
  <1>10. FlowsGo(NoFlow)
    BY <1>9, OneFlow
  <1> QED BY <1>1, <1>10, QuitsSound DEF SessionInv, SettingsTypeOK

(* The flows, with the one a purpose knows looked at for its age.          *)
SweptFor(p) == IF current[p] = NoFlow THEN flows ELSE [flows EXCEPT ![current[p]] = Swept(@)]

LEMMA SweptGoes ==
  ASSUME SessionInv, NEW p \in Purpose, NEW s, s = SweptFor(p)
  PROVE  s \in Seq(Flow) /\ DOMAIN s = DOMAIN flows /\ Len(s) = Len(flows) /\ \A i \in DOMAIN flows : FlowGoes(flows[i], s[i])
  <1>1. flows \in Seq(Flow) /\ \A i \in DOMAIN flows : FlowGoes(flows[i], flows[i])
    BY FlowAt, FlowStays DEF SessionInv, SettingsTypeOK
  <1>2. CASE current[p] = NoFlow
    BY <1>1, <1>2 DEF SweptFor
  <1>3. CASE current[p] # NoFlow
    <2>1. PICK i \in DOMAIN flows : i = current[p]
      BY <1>3 DEF SessionInv, CurrentOK
    <2>2. PICK g \in Flow : g = Swept(flows[i]) /\ FlowGoes(flows[i], g)
      BY FlowAt, SweptFlow
    <2>3. s = [flows EXCEPT ![i] = g]
      BY <1>3, <2>1, <2>2 DEF SweptFor
    <2> QED BY <1>1, <2>2, <2>3
  <1> QED BY <1>2, <1>3

LEMMA BeginInstallSound ==
  ASSUME SessionInv, NEW r \in Worker, BeginInstall(r)
  PROVE  Sound
  <1> DEFINE p == req[r].purpose
             n == Len(flows) + 1
  <1>1. SettingsRun /\ req[r].at = "begin" /\ UNCHANGED <<session, blocked, closed, stored, generation, terminal, closing, exit>>
    BY DEF BeginInstall, Does
  <1>2. p \in Purpose /\ req[r] \in Work
    BY <1>1 DEF SessionInv, SettingsTypeOK, WorkOK
  <1>3. PICK s : s = SweptFor(p)
    OBVIOUS
  <1>4. s \in Seq(Flow) /\ DOMAIN s = DOMAIN flows /\ Len(s) = Len(flows) /\ \A i \in DOMAIN flows : FlowGoes(flows[i], s[i])
    BY <1>2, <1>3, SweptGoes
  <1>5. \/ Quits(r) /\ UNCHANGED <<flows, current>>
        \/ Quits(r) /\ flows' = s /\ current' = current
        \/ /\ current[p] = NoFlow \/ s[current[p]].status \in Terminal
           /\ flows' = Append(s, [purpose |-> p, replace |-> req[r].replace, gen |-> req[r].gen, status |-> "pending",
                                   token |-> TRUE, account |-> NoUser, aged |-> FALSE, thread |-> FALSE])
           /\ current' = [current EXCEPT ![p] = Len(s) + 1]
           /\ Sets(r, [req[r] EXCEPT !.at = "opening", !.gen = Len(s) + 1])
    BY <1>3 DEF BeginInstall, SweptFor
  <1>6. generation \in Nat
    BY DEF SessionInv, SettingsTypeOK
  <1>7. CASE Quits(r) /\ UNCHANGED <<flows, current>>
    <2>1. FlowsGo(NoFlow)
      BY <1>7, FlowsStay
    <2> QED BY <1>1, <1>6, <1>7, <2>1, QuitsSound
  <1>8. CASE Quits(r) /\ flows' = s /\ current' = current
    <2>1. FlowsGo(NoFlow)
      BY <1>4, <1>8 DEF FlowsGo, FlowGoes
    <2> QED BY <1>1, <1>6, <1>8, <2>1, QuitsSound
  <1>9. CASE /\ current[p] = NoFlow \/ s[current[p]].status \in Terminal
             /\ flows' = Append(s, [purpose |-> p, replace |-> req[r].replace, gen |-> req[r].gen, status |-> "pending",
                                     token |-> TRUE, account |-> NoUser, aged |-> FALSE, thread |-> FALSE])
             /\ current' = [current EXCEPT ![p] = Len(s) + 1]
             /\ Sets(r, [req[r] EXCEPT !.at = "opening", !.gen = Len(s) + 1])
    <2>1. PICK f \in Flow : f = [purpose |-> p, replace |-> req[r].replace, gen |-> req[r].gen, status |-> "pending",
                                  token |-> TRUE, account |-> NoUser, aged |-> FALSE, thread |-> FALSE]
      <3>1. "pending" \in Status
        BY StatusesDiffer
      <3>2. req[r].replace \in BOOLEAN /\ req[r].gen \in Nat
        BY <1>2 DEF Work
      <3> QED BY <1>2, <3>1, <3>2 DEF Flow
    <2>2. f.status = "pending" /\ f.purpose = p /\ FlowOK(f)
      BY <2>1, StatusesDiffer DEF FlowOK
    <2>3. flows' = Append(s, f) /\ n \in Nat /\ n = Len(s) + 1 /\ flows \in Seq(Flow)
      BY <1>4, <1>9, <2>1 DEF SessionInv, SettingsTypeOK
    <2>4. flows' \in Seq(Flow) /\ DOMAIN flows' = DOMAIN flows \cup {n} /\ flows'[n] = f /\ \A i \in DOMAIN flows : flows'[i] = s[i]
      BY <1>4, <2>3
    <2>5. FlowsGo(NoFlow)
      <3>1. \A i \in DOMAIN flows : FlowGoes(flows[i], flows'[i]) /\ FlowOK(flows'[i])
        BY <1>4, <2>4 DEF FlowGoes
      <3> QED BY <2>2, <2>4, <3>1 DEF FlowsGo
    <2>6. current \in [Purpose -> Nat] /\ current' = [current EXCEPT ![p] = n]
      BY <1>9, <2>3 DEF SessionInv, SettingsTypeOK
    <2>7. current' \in [Purpose -> Nat] /\ current'[p] = n /\ \A q \in Purpose : q # p => current'[q] = current[q]
      BY <1>2, <2>3, <2>6
    <2>8. CurrentOK'
      <3>1. flows'[n].purpose = p /\ n \in DOMAIN flows'
        BY <2>2, <2>4
      <3>2. \A q \in Purpose : q # p /\ current[q] # NoFlow => current[q] \in DOMAIN flows' /\ flows'[current[q]].purpose = q
        BY <1>4, <2>4 DEF SessionInv, CurrentOK, FlowGoes
      <3> QED BY <2>7, <3>1, <3>2 DEF CurrentOK
    <2>9. ASSUME NEW q \in Committing \ {r}
          PROVE  current'[req[q].purpose] = current[req[q].purpose] /\ current[req[q].purpose] # NoFlow
      <3>1. req[q].purpose \in Purpose /\ current[req[q].purpose] \in DOMAIN flows /\ flows[current[req[q].purpose]].status = "committing"
        BY DEF SessionInv, WorkOK, Committing
      <3>2. current[req[q].purpose] # NoFlow
        BY <2>3, <3>1 DEF NoFlow
      <3>3. s[current[req[q].purpose]].status = "committing"
        BY <1>4, <3>1 DEF FlowGoes
      <3>4. req[q].purpose # p
        BY <1>9, <3>2, <3>3, StatusesDiffer
      <3> QED BY <2>7, <3>1, <3>2, <3>4
    <2>10. PICK w \in Work : w = [req[r] EXCEPT !.at = "opening"]
      BY <1>2 DEF Work, WorkPlaces
    <2>11. PICK v \in Work : v = [w EXCEPT !.gen = n]
      BY <2>3 DEF Work
    <2>12. v.at = "opening" /\ v.gen = n
      BY <2>10, <2>11 DEF Work
    <2>13. Sets(r, v)
      BY <1>9, <2>3, <2>10, <2>11
    <2>14. StoredOK' /\ stored' \in [Purpose -> User \cup {NoUser}]
      BY <1>1, <2>12, <2>13, StoredKept
    <2>15. session' = session /\ terminal' = terminal /\ generation' \in Nat
      BY <1>1, <1>6
    <2>16. EndsOK'
      BY <1>1, WorkerEnds
    <2>17. v.at \notin {"commit", "proving"} /\ v.at # "begin" /\ v.gen \in DOMAIN flows'
      BY <2>4, <2>12
    <2>18. SessionInv'
      BY <2>5, <2>7, <2>8, <2>9, <2>13, <2>14, <2>15, <2>16, <2>17, WorkerStep
    <2> QED BY <2>5, <2>18, GoesGivesVerdicts DEF Sound
  <1> QED BY <1>5, <1>7, <1>8, <1>9

LEMMA CommitSignInSound ==
  ASSUME SessionInv, NEW r \in Worker, CommitSignIn(r)
  PROVE  Sound
  <1>1. SettingsRun /\ req[r].at = "inside" /\ UNCHANGED <<session, closed, current, stored, generation, terminal, closing, exit>>
    BY DEF CommitSignIn, Does
  <1>2. PICK p \in Purpose :
          /\ current[p] # NoFlow
          /\ \/ /\ Swept(flows[current[p]]).status = "awaiting_commit"
                /\ flows' = [flows EXCEPT ![current[p]].status = "committing"]
                /\ Sets(r, [NotWorking EXCEPT !.at = "commit", !.purpose = p])
             \/ flows' = [flows EXCEPT ![current[p]] = Swept(flows[current[p]])] /\ Quits(r)
    BY DEF CommitSignIn
  <1>3. PICK i \in DOMAIN flows : i = current[p]
    BY <1>2 DEF SessionInv, CurrentOK
  <1>4. PICK f \in Flow : f = flows[i] /\ FlowOK(f)
    BY FlowAt
  <1>5. generation \in Nat /\ flows \in Seq(Flow) /\ i # NoFlow
    BY <1>2, <1>3 DEF SessionInv, SettingsTypeOK
  <1>6. CASE flows' = [flows EXCEPT ![current[p]] = Swept(flows[current[p]])] /\ Quits(r)
    <2>1. PICK g : g = Swept(f) /\ FlowGoes(f, g)
      BY <1>4, SweptFlow
    <2>2. FlowsGo(NoFlow)
      BY <1>3, <1>4, <1>6, <2>1, OneFlow
    <2> QED BY <1>1, <1>5, <1>6, <2>2, QuitsSound
  <1>7. CASE /\ Swept(flows[current[p]]).status = "awaiting_commit"
             /\ flows' = [flows EXCEPT ![current[p]].status = "committing"]
             /\ Sets(r, [NotWorking EXCEPT !.at = "commit", !.purpose = p])
    <2>1. f.status = "awaiting_commit"
      BY <1>3, <1>4, <1>7, SweptFlow
    <2>2. PICK g \in Flow : g = [f EXCEPT !.status = "committing"]
      BY <1>4, StatusesDiffer DEF Flow
    <2>3. g.status = "committing" /\ g.purpose = f.purpose /\ g.token = f.token /\ g.thread = f.thread /\ g.account = f.account
      BY <1>4, <2>2 DEF Flow
    <2>4. FlowGoes(f, g)
      <3>1. ~f.token /\ ~f.thread
        BY <1>4, <2>1, StatusesDiffer DEF FlowOK
      <3>2. FlowOK(g)
        BY <2>3, <3>1, StatusesDiffer DEF FlowOK
      <3> QED BY <2>1, <2>2, <2>3, <3>2, StatusesDiffer DEF FlowGoes
    <2>5. flows' = [flows EXCEPT ![i] = g]
      BY <1>3, <1>4, <1>7, <2>2
    <2>6. FlowsGo(NoFlow) /\ flows'[i] = g /\ i \in DOMAIN flows'
      BY <1>4, <1>5, <2>2, <2>4, <2>5, OneFlow
    <2>7. PICK w \in Work : w = [NotWorking EXCEPT !.at = "commit"]
      BY NotWorkingWorks DEF WorkPlaces
    <2>8. PICK v \in Work : v = [w EXCEPT !.purpose = p]
      BY DEF Work
    <2>9. v.at = "commit" /\ v.purpose = p
      BY <2>7, <2>8 DEF Work, NotWorking
    <2>10. Sets(r, v)
      BY <1>7, <2>7, <2>8
    <2>11. CurrentOK' /\ current' \in [Purpose -> Nat] /\ current' = current
      BY <1>1, <2>6, CurrentKept
    <2>12. ASSUME NEW q \in Committing \ {r}
           PROVE  current[req[q].purpose] # NoFlow /\ req[q].purpose # p
      <3>1. current[req[q].purpose] \in DOMAIN flows /\ flows[current[req[q].purpose]].status = "committing"
        BY DEF SessionInv, WorkOK
      <3> QED BY <1>3, <1>4, <1>5, <2>1, <3>1 DEF NoFlow
    <2>13. StoredOK' /\ stored' \in [Purpose -> User \cup {NoUser}]
      BY <1>1, <2>9, <2>10, StoredKept
    <2>14. EndsOK'
      BY <1>1, WorkerEnds
    <2>15. current'[v.purpose] = i /\ flows'[i].status = "committing"
      BY <1>3, <2>3, <2>6, <2>9, <2>11
    <2>16. SessionInv'
      BY <1>1, <1>5, <2>6, <2>9, <2>10, <2>11, <2>12, <2>13, <2>14, <2>15, WorkerStep
    <2> QED BY <2>6, <2>16, GoesGivesVerdicts DEF Sound
  <1> QED BY <1>2, <1>6, <1>7

LEMMA OtherPurposeIs ==
  ASSUME NEW p \in Purpose
  PROVE  OtherPurpose(p) \in Purpose /\ OtherPurpose(p) # p /\ \A q \in Purpose : q = p \/ q = OtherPurpose(p)
  <1>1. PICK a \in Purpose, b \in Purpose : a # b /\ Purpose = {a, b}
    BY SessionAssumption
  <1>2. \E q \in Purpose : q # p
    BY <1>1
  <1>3. OtherPurpose(p) \in Purpose /\ OtherPurpose(p) # p
    BY <1>2 DEF OtherPurpose
  <1> QED BY <1>1, <1>3

(* Where a worker that commits is.                                         *)
LEMMA CommitAt ==
  ASSUME SessionInv, NEW r \in Committing
  PROVE  /\ r \in Worker /\ req[r] \in Work /\ req[r].purpose \in Purpose
         /\ current[req[r].purpose] \in DOMAIN flows /\ flows[current[req[r].purpose]].status = "committing"
         /\ flows[current[req[r].purpose]] \in Flow /\ FlowOK(flows[current[req[r].purpose]])
         /\ req[r].at \notin {"idle", "admitted"}
  <1>1. r \in Worker /\ req[r] \in Work /\ req[r].purpose \in Purpose /\ req[r].at \notin {"idle", "admitted"}
    BY DEF SessionInv, SettingsTypeOK, WorkOK, Committing
  <1>2. current[req[r].purpose] \in DOMAIN flows /\ flows[current[req[r].purpose]].status = "committing"
    BY DEF SessionInv, WorkOK
  <1> QED BY <1>1, <1>2, FlowAt

(* A commit that ends with a verdict.                                      *)
LEMMA CommitEnds ==
  ASSUME SessionInv, NEW r \in Committing, NEW status \in Terminal,
         flows' = [flows EXCEPT ![current[req[r].purpose]] = Discarded(@, status)]
  PROVE  FlowsGo(current[req[r].purpose])
  <1>1. PICK i \in DOMAIN flows : i = current[req[r].purpose] /\ flows[i] \in Flow /\ FlowOK(flows[i]) /\ flows[i].status = "committing"
    BY CommitAt
  <1>2. FlowEnds(flows[i], Discarded(flows[i], status))
    BY <1>1, DiscardedEnds
  <1>3. flows' = [flows EXCEPT ![i] = Discarded(flows[i], status)]
    BY <1>1
  <1>4. FlowsGo(i)
    BY <1>2, <1>3, OneFlow
  <1> QED BY <1>1, <1>4

LEMMA SaveSnapshotSound ==
  ASSUME SessionInv, NEW r \in Worker, SaveSnapshot(r)
  PROVE  Sound
  <1> DEFINE p == req[r].purpose
  <1>1. SettingsRun /\ req[r].at = "commit" /\ UNCHANGED <<session, closed, current, stored, generation, terminal, closing, exit>>
    BY DEF SaveSnapshot, Does
  <1>2. r \in Committing /\ generation' \in Nat
    BY <1>1 DEF Committing, SessionInv, SettingsTypeOK
  <1>3. p \in Purpose /\ req[r] \in Work /\ current[p] \in DOMAIN flows /\ flows[current[p]].status = "committing"
    BY <1>2, CommitAt
  <1>4. \/ flows' = [flows EXCEPT ![current[p]] = Discarded(@, "failed")] /\ Quits(r)
        \/ Sets(r, [req[r] EXCEPT !.at = "proving", !.peer = stored[OtherPurpose(p)]]) /\ UNCHANGED flows
    BY DEF SaveSnapshot
  <1>5. CASE flows' = [flows EXCEPT ![current[p]] = Discarded(@, "failed")] /\ Quits(r)
    <2>1. FlowsGo(current[p])
      BY <1>2, <1>5, StatusesDiffer, CommitEnds
    <2> QED BY <1>1, <1>2, <1>5, <2>1, QuitsSound
  <1>6. CASE Sets(r, [req[r] EXCEPT !.at = "proving", !.peer = stored[OtherPurpose(p)]]) /\ UNCHANGED flows
    <2>1. FlowsGo(NoFlow)
      BY <1>6, FlowsStay
    <2>2. stored \in [Purpose -> User \cup {NoUser}] /\ flows \in Seq(Flow)
      BY DEF SessionInv, SettingsTypeOK
    <2>3. PICK w \in Work : w = [req[r] EXCEPT !.at = "proving"]
      BY <1>3 DEF Work, WorkPlaces
    <2>4. PICK v \in Work : v = [w EXCEPT !.peer = stored[OtherPurpose(p)]]
      BY <1>3, <2>2, OtherPurposeIs DEF Work
    <2>5. v.at = "proving" /\ v.purpose = p /\ v.peer = stored[OtherPurpose(p)]
      BY <1>3, <2>3, <2>4 DEF Work
    <2>6. Sets(r, v)
      BY <1>6, <2>3, <2>4
    <2>7. req'[r] = v /\ \A q \in Worker : q # r => req'[q] = req[q]
      BY <2>6, WorkerMoves
    <2>8. CurrentOK' /\ current' \in [Purpose -> Nat] /\ current' = current
      BY <1>1, <2>1, CurrentKept
    <2>9. ASSUME NEW q \in Committing \ {r}
          PROVE  current[req[q].purpose] # NoFlow /\ req[q].purpose # p
      <3>1. current[req[q].purpose] \in DOMAIN flows
        BY CommitAt
      <3>2. req[q].purpose # p
        BY <1>2 DEF SessionInv, WorkOK
      <3> QED BY <2>2, <3>1, <3>2 DEF NoFlow
    <2>10. StoredOK'
      <3>1. \A q \in Worker : q # r => req'[q].at # "proving"
        BY <2>7 DEF SaveSnapshot
      <3>2. stored' = stored /\ \A a, b \in Purpose : stored[a] = stored[b] \/ NoUser \in {stored[a], stored[b]}
        BY <1>1 DEF SessionInv, StoredOK
      <3>3. req'[r].peer = stored'[OtherPurpose(req'[r].purpose)]
        BY <2>5, <2>7, <3>2
      <3>4. \A q \in Worker : req'[q].at = "proving" => req'[q].peer = stored'[OtherPurpose(req'[q].purpose)]
        BY <3>1, <3>3
      <3> QED BY <3>1, <3>2, <3>4 DEF StoredOK
    <2>11. EndsOK'
      BY <1>1, WorkerEnds
    <2>12. current'[v.purpose] \in DOMAIN flows' /\ flows'[current'[v.purpose]].status = "committing"
      BY <1>3, <1>6, <2>5, <2>8
    <2>13. stored' \in [Purpose -> User \cup {NoUser}] /\ session' = session /\ terminal' = terminal
      BY <1>1, <2>2
    <2>14. SessionInv'
      BY <1>2, <1>3, <2>1, <2>5, <2>6, <2>8, <2>9, <2>10, <2>11, <2>12, <2>13, WorkerStep
    <2> QED BY <2>1, <2>14, GoesGivesVerdicts DEF Sound
  <1> QED BY <1>4, <1>5, <1>6

(* A credential is stored under the pair lock, and the peer's is of the    *)
(* same account, or there is none.                                         *)
LEMMA SaveDoneSound ==
  ASSUME SessionInv, NEW r \in Worker, SaveDone(r)
  PROVE  Sound
  <1> DEFINE p == req[r].purpose
             f == flows[current[p]]
  <1>1. SettingsRun /\ req[r].at = "proving" /\ Quits(r) /\ UNCHANGED <<session, closed, current, terminal, closing, exit>>
    BY DEF SaveDone, Does
  <1>2. r \in Committing
    BY <1>1 DEF Committing
  <1>3. p \in Purpose /\ req[r] \in Work /\ f \in Flow
    BY <1>2, CommitAt
  <1>4. PICK status \in Terminal : flows' = [flows EXCEPT ![current[p]] = Discarded(@, status)]
    <2>1. \E status \in {"failed", "account_mismatch", "complete"} : flows' = [flows EXCEPT ![current[p]] = Discarded(@, status)]
      BY DEF SaveDone
    <2> QED BY <2>1, StatusesDiffer
  <1>5. FlowsGo(current[p])
    BY <1>2, <1>4, CommitEnds
  <1>6. \/ UNCHANGED <<stored, generation>>
        \/ /\ SameAccount(f, req[r].peer)
           /\ stored' = [stored EXCEPT ![p] = f.account]
           /\ generation' = IF f.replace THEN generation ELSE generation + 1
    BY DEF SaveDone
  <1>7. generation' \in Nat
    BY <1>6 DEF SessionInv, SettingsTypeOK
  <1>8. CASE stored' = stored
    BY <1>1, <1>2, <1>5, <1>7, <1>8, QuitsSound
  <1>9. CASE SameAccount(f, req[r].peer) /\ stored' = [stored EXCEPT ![p] = f.account]
    <2>1. stored \in [Purpose -> User \cup {NoUser}] /\ f.account \in User \cup {NoUser}
      BY <1>3 DEF SessionInv, SettingsTypeOK, Flow
    <2>2. PICK o \in Purpose : o = OtherPurpose(p) /\ o # p /\ \A q \in Purpose : q = p \/ q = o
      BY <1>3, OtherPurposeIs
    <2>3. req[r].peer = stored[o]
      BY <1>1, <2>2 DEF SessionInv, StoredOK
    <2>4. stored[o] \in {NoUser, f.account}
      BY <1>9, <2>3 DEF SameAccount
    <2>5. stored' \in [Purpose -> User \cup {NoUser}] /\ stored'[p] = f.account /\ stored'[o] = stored[o]
      BY <1>3, <1>9, <2>1, <2>2
    <2>6. \A a, b \in Purpose : stored'[a] = stored'[b] \/ NoUser \in {stored'[a], stored'[b]}
      <3> SUFFICES ASSUME NEW a \in Purpose, NEW b \in Purpose
                   PROVE  stored'[a] = stored'[b] \/ NoUser \in {stored'[a], stored'[b]}
        OBVIOUS
      <3> QED BY <2>2, <2>4, <2>5
    <2>7. \A q \in Worker : req'[q].at # "proving"
      <3>1. PICK v \in Work : v = NotWorking /\ v.at = "idle"
        BY NotWorkingWorks
      <3>2. req'[r] = v /\ \A q \in Worker : q # r => req'[q] = req[q]
        BY <1>1, <3>1, WorkerMoves DEF Quits
      <3>3. \A q \in Worker : q # r => req[q].at # "proving"
        BY <1>1 DEF SessionInv, StoredOK
      <3> QED BY <3>1, <3>2, <3>3
    <2>8. StoredOK'
      BY <2>6, <2>7 DEF StoredOK
    <2> QED BY <1>1, <1>2, <1>5, <1>7, <2>5, <2>8, QuitsSound
  <1> QED BY <1>6, <1>8, <1>9

-----------------------------------------------------------------------------
(* The provider's steps.                                                   *)

(* A step of the provider on one flow.                                     *)
LEMMA ProviderStep ==
  ASSUME SessionInv, NEW i \in DOMAIN flows, NEW g, FlowGoes(flows[i], g), flows' = [flows EXCEPT ![i] = g],
         UNCHANGED <<session, blocked, closed, req, current, stored, generation, terminal, closing, exit>>
  PROVE  Sound
  <1>1. FlowsGo(NoFlow)
    BY OneFlow
  <1>2. EndsOK'
    BY DEF SessionInv, EndsOK, AllIdle, InBarrier
  <1>3. SessionInv'
    BY <1>1, <1>2, OutsiderStep DEF SessionInv, SettingsTypeOK
  <1> QED BY <1>1, <1>3, GoesGivesVerdicts DEF Sound

LEMMA ProviderCallbackSound ==
  ASSUME SessionInv, NEW i \in DOMAIN flows, ProviderCallback(i)
  PROVE  Sound
  <1>1. PICK h \in Flow : h = flows[i] /\ FlowOK(h) /\ h.token = TRUE
    BY FlowAt DEF ProviderCallback, Flow
  <1>2. h.status = "pending"
    BY <1>1 DEF FlowOK
  <1>3. PICK f \in Flow : f = Swept(h) /\ FlowOK(f) /\ FlowGoes(h, f) /\ f.status \in {"expired", "pending"}
    BY <1>1, <1>2, SweptFlow
  <1>4. \/ f.status = "expired" /\ flows' = [flows EXCEPT ![i] = f]
        \/ f.status = "pending" /\ \E verdict \in {"denied", "failed"} : flows' = [flows EXCEPT ![i] = Discarded(f, verdict)]
        \/ f.status = "pending" /\ flows' = [flows EXCEPT ![i] = [f EXCEPT !.token = FALSE, !.status = "exchanging", !.thread = TRUE]]
    BY <1>1, <1>3 DEF ProviderCallback
  <1>5. UNCHANGED <<session, blocked, closed, req, current, stored, generation, terminal, closing, exit>>
    BY DEF ProviderCallback
  <1>6. \E g : FlowGoes(h, g) /\ flows' = [flows EXCEPT ![i] = g]
    <2>1. CASE flows' = [flows EXCEPT ![i] = f]
      BY <1>3, <2>1
    <2>2. CASE f.status = "pending" /\ \E verdict \in {"denied", "failed"} : flows' = [flows EXCEPT ![i] = Discarded(f, verdict)]
      <3>1. PICK verdict \in Terminal : flows' = [flows EXCEPT ![i] = Discarded(f, verdict)]
        BY <2>2, StatusesDiffer
      <3>2. FlowGoes(f, Discarded(f, verdict))
        BY <1>3, <2>2, StatusesDiffer, DiscardedGoes
      <3>3. FlowGoes(h, Discarded(f, verdict))
        BY <1>3, <3>2, FlowGoesOn
      <3> QED BY <3>1, <3>3
    <2>3. CASE f.status = "pending" /\ flows' = [flows EXCEPT ![i] = [f EXCEPT !.token = FALSE, !.status = "exchanging", !.thread = TRUE]]
      <3>1. PICK g1 \in Flow : g1 = [f EXCEPT !.token = FALSE]
        BY DEF Flow
      <3>2. PICK g2 \in Flow : g2 = [g1 EXCEPT !.status = "exchanging"]
        BY StatusesDiffer DEF Flow
      <3>3. PICK g \in Flow : g = [g2 EXCEPT !.thread = TRUE]
        BY DEF Flow
      <3>4. g.status = "exchanging" /\ g.token = FALSE /\ g.purpose = f.purpose
        BY <3>1, <3>2, <3>3 DEF Flow
      <3>5. FlowOK(g) /\ h.status \notin Terminal /\ h.status # "committing"
        BY <1>2, <3>4, StatusesDiffer DEF FlowOK
      <3>6. FlowGoes(h, g)
        BY <1>3, <3>4, <3>5 DEF FlowGoes
      <3> QED BY <2>3, <3>1, <3>2, <3>3, <3>6
    <2> QED BY <1>4, <2>1, <2>2, <2>3
  <1> QED BY <1>1, <1>5, <1>6, ProviderStep

LEMMA ExchangeDoneSound ==
  ASSUME SessionInv, NEW i \in DOMAIN flows, ExchangeDone(i)
  PROVE  Sound
  <1>1. PICK h \in Flow : h = flows[i] /\ FlowOK(h) /\ h.thread = TRUE
    BY FlowAt DEF ExchangeDone, Flow
  <1>2. h.status \in {"exchanging"} \cup Terminal
    BY <1>1 DEF FlowOK
  <1>3. PICK f \in Flow : f = [h EXCEPT !.thread = FALSE]
    BY DEF Flow
  <1>4. f.status = h.status /\ f.token = h.token /\ f.account = h.account /\ f.purpose = h.purpose /\ f.thread = FALSE
    BY <1>3 DEF Flow
  <1>5. FlowOK(f) /\ FlowGoes(h, f)
    BY <1>1, <1>2, <1>4, StatusesDiffer DEF FlowOK, FlowGoes
  <1>6. \/ flows' = [flows EXCEPT ![i] = Discarded(f, IF f.status = "exchanging" THEN "failed" ELSE f.status)]
        \/ /\ f.status = "exchanging"
           /\ \/ \E a \in User : flows' = [flows EXCEPT ![i] = [f EXCEPT !.status = "awaiting_commit", !.account = a]]
              \/ flows' = [flows EXCEPT ![i] = Discarded(f, "failed")]
    BY <1>1, <1>3 DEF ExchangeDone, Accepts
  <1>7. UNCHANGED <<session, blocked, closed, req, current, stored, generation, terminal, closing, exit>>
    BY DEF ExchangeDone
  <1>8. \E g : FlowGoes(h, g) /\ flows' = [flows EXCEPT ![i] = g]
    <2>1. ASSUME NEW s \in Terminal, f.status = "exchanging" \/ f.status = s, flows' = [flows EXCEPT ![i] = Discarded(f, s)]
          PROVE  \E g : FlowGoes(h, g) /\ flows' = [flows EXCEPT ![i] = g]
      <3>1. FlowGoes(f, Discarded(f, s))
        BY <1>5, <2>1, StatusesDiffer, DiscardedGoes
      <3>2. FlowGoes(h, Discarded(f, s))
        BY <1>5, <3>1, FlowGoesOn
      <3> QED BY <2>1, <3>2
    <2>2. CASE flows' = [flows EXCEPT ![i] = Discarded(f, IF f.status = "exchanging" THEN "failed" ELSE f.status)]
      <3>1. CASE f.status = "exchanging"
        BY <2>1, <2>2, <3>1, StatusesDiffer
      <3>2. CASE f.status # "exchanging"
        <4>1. f.status \in Terminal
          BY <1>2, <1>4, <3>2
        <4> QED BY <2>1, <2>2, <3>2, <4>1
      <3> QED BY <3>1, <3>2
    <2>3. CASE f.status = "exchanging" /\ flows' = [flows EXCEPT ![i] = Discarded(f, "failed")]
      BY <2>1, <2>3, StatusesDiffer
    <2>4. CASE f.status = "exchanging" /\ \E a \in User : flows' = [flows EXCEPT ![i] = [f EXCEPT !.status = "awaiting_commit", !.account = a]]
      <3>1. PICK a \in User : flows' = [flows EXCEPT ![i] = [f EXCEPT !.status = "awaiting_commit", !.account = a]]
        BY <2>4
      <3>2. PICK g1 \in Flow : g1 = [f EXCEPT !.status = "awaiting_commit"]
        BY StatusesDiffer DEF Flow
      <3>3. PICK g \in Flow : g = [g1 EXCEPT !.account = a]
        BY DEF Flow
      <3>4. g.status = "awaiting_commit" /\ g.token = f.token /\ g.thread = FALSE /\ g.purpose = f.purpose
        BY <1>4, <3>2, <3>3 DEF Flow
      <3>5. ~f.token /\ h.status \notin Terminal /\ h.status # "committing"
        BY <1>4, <1>5, <2>4, StatusesDiffer DEF FlowOK
      <3>6. FlowOK(g)
        BY <3>4, <3>5, StatusesDiffer DEF FlowOK
      <3>7. FlowGoes(h, g)
        BY <1>4, <3>4, <3>5, <3>6 DEF FlowGoes
      <3> QED BY <3>1, <3>2, <3>3, <3>7
    <2> QED BY <1>6, <2>2, <2>3, <2>4
  <1> QED BY <1>1, <1>7, <1>8, ProviderStep

-----------------------------------------------------------------------------
(* The steps of the session and of its end.                                *)

Sessions == [state : {"new", "active"} \cup Ended, idle : BOOLEAN, late : BOOLEAN]
Terminals == [reason : {"none", "expired", "replaced"}, drained : BOOLEAN]

(* Such a step, from what it makes of the session.                         *)
LEMMA SessionStep ==
  ASSUME SessionInv, FlowsGo(NoFlow), UNCHANGED <<req, current, stored, generation>>,
         session' \in Sessions, terminal' \in Terminals,
         terminal'.reason # "none" \/ closing' => closed',
         terminal'.drained => closed' /\ InBarrier = {},
         session'.state = "new" => AllIdle,
         session'.state \in Ended => (closed' /\ InBarrier = {}) \/ (AllIdle /\ session'.state = "bootstrap_expired"),
         exit' = "done" => InBarrier = {}
  PROVE  Sound
  <1>1. InBarrier' = InBarrier /\ AllIdle' = AllIdle
    BY DEF InBarrier, AllIdle
  <1>2. EndsOK'
    BY <1>1 DEF EndsOK
  <1>3. SessionInv'
    BY <1>2, OutsiderStep DEF Sessions, Terminals
  <1> QED BY <1>3, GoesGivesVerdicts DEF Sound

(* What the invariant says of the session before it.                       *)
LEMMA SessionBefore ==
  ASSUME SessionInv
  PROVE  /\ session \in Sessions /\ terminal \in Terminals
         /\ terminal.reason # "none" \/ closing => closed
         /\ terminal.drained => closed /\ InBarrier = {}
         /\ session.state = "new" => AllIdle
         /\ session.state \in Ended => (closed /\ InBarrier = {}) \/ (AllIdle /\ session.state = "bootstrap_expired")
         /\ exit = "done" => InBarrier = {}
  BY DEF SessionInv, SettingsTypeOK, EndsOK, Sessions, Terminals

LEMMA EndedStates == "active" \notin Ended /\ "new" \notin Ended /\ {"expired", "closed", "replaced", "bootstrap_expired"} = Ended
  BY DEF Ended

LEMMA ConsumeBootstrapSound ==
  ASSUME SessionInv, ConsumeBootstrap
  PROVE  Sound
  <1>1. FlowsGo(NoFlow)
    BY FlowsStay DEF ConsumeBootstrap
  <1>2. session \in Sessions /\ session' = [session EXCEPT !.state = "active"] /\ UNCHANGED <<blocked, closed, req, flows, current, stored, generation, terminal, closing, exit>>
    BY SessionBefore DEF ConsumeBootstrap
  <1>3. session' \in Sessions /\ session'.state = "active"
    BY <1>2 DEF Sessions
  <1> QED BY <1>1, <1>2, <1>3, SessionBefore, EndedStates, SessionStep

LEMMA LimitsPassSound ==
  ASSUME SessionInv, LimitsPass
  PROVE  Sound
  <1>1. UNCHANGED <<blocked, closed, req, current, stored, generation, terminal, closing, exit>>
    BY DEF LimitsPass
  <1>2. session \in Sessions
    BY SessionBefore
  <1>3. CASE /\ UNCHANGED flows
             /\ session' \in {[session EXCEPT !.late = TRUE], [session EXCEPT !.idle = TRUE]}
    <2>1. FlowsGo(NoFlow)
      <3>1. flows' = flows
        BY <1>3
      <3> QED BY <3>1, FlowsStay
    <2>2. session' \in Sessions /\ session'.state = session.state
      BY <1>2, <1>3 DEF Sessions
    <2> QED BY <1>1, <2>1, <2>2, SessionBefore, SessionStep
  <1>4. CASE UNCHANGED session /\ \E i \in DOMAIN flows : flows[i].status \in PreCommit /\ flows' = [flows EXCEPT ![i].aged = TRUE]
    <2>1. PICK i \in DOMAIN flows : flows[i].status \in PreCommit /\ flows' = [flows EXCEPT ![i].aged = TRUE]
      BY <1>4
    <2>2. PICK f \in Flow : f = flows[i] /\ FlowOK(f)
      BY FlowAt
    <2>3. PICK g \in Flow : g = [f EXCEPT !.aged = TRUE]
      BY DEF Flow
    <2>4. g.status = f.status /\ g.token = f.token /\ g.account = f.account /\ g.purpose = f.purpose /\ g.thread = f.thread
      BY <2>3 DEF Flow
    <2>5. FlowGoes(f, g)
      BY <2>2, <2>4 DEF FlowOK, FlowGoes
    <2>6. flows \in Seq(Flow)
      BY DEF SessionInv, SettingsTypeOK
    <2>7. flows' = [flows EXCEPT ![i] = g]
      BY <2>1, <2>2, <2>3, <2>6
    <2> QED BY <1>1, <1>4, <2>2, <2>5, <2>7, ProviderStep DEF LimitsPass
  <1> QED BY <1>3, <1>4 DEF LimitsPass

LEMMA InvalidatePrecommitGoes ==
  ASSUME SessionInv, InvalidatePrecommit
  PROVE  FlowsGo(NoFlow)
  <1>1. flows \in Seq(Flow) /\ \A i \in DOMAIN flows : flows[i] \in Flow /\ FlowOK(flows[i])
    BY FlowAt DEF SessionInv, SettingsTypeOK
  <1>2. DOMAIN flows' = DOMAIN flows
    BY DEF InvalidatePrecommit
  <1>3. \A i \in DOMAIN flows : FlowGoes(flows[i], flows'[i])
    <2> SUFFICES ASSUME NEW i \in DOMAIN flows
                 PROVE  FlowGoes(flows[i], flows'[i])
      OBVIOUS
    <2>1. \/ flows[i].status \in PreCommit /\ flows'[i] = Discarded(flows[i], "cancelled")
          \/ flows'[i] = flows[i]
      BY DEF InvalidatePrecommit
    <2> QED BY <1>1, <2>1, StatusesDiffer, DiscardedGoes, FlowStays
  <1>4. \A i \in DOMAIN flows : flows'[i] \in Flow /\ FlowOK(flows'[i])
    BY <1>3 DEF FlowGoes
  <1>5. PICK n \in Nat : DOMAIN flows = 1..n
    BY <1>1
  <1>6. flows' = [i \in 1..n |-> flows'[i]]
    BY <1>5 DEF InvalidatePrecommit
  <1>7. flows' \in Seq(Flow)
    BY <1>4, <1>5, <1>6
  <1> QED BY <1>2, <1>3, <1>4, <1>7 DEF FlowsGo

LEMMA SessionAfterIs ==
  ASSUME SessionInv, NEW reason
  PROVE  /\ SessionAfter(reason) \in Sessions
         /\ SessionAfter("replaced").state = "replaced"
         /\ SessionAfter(reason).state \in Ended \cup {session.state}
         /\ session.state \in Ended => SessionAfter(reason).state \in Ended
         /\ session.state = "active" => SessionAfter(reason).state \in Ended
  <1>1. session \in Sessions
    BY SessionBefore
  <1>2. \A s \in Ended : [session EXCEPT !.state = s] \in Sessions /\ [session EXCEPT !.state = s].state = s
    BY <1>1 DEF Sessions
  <1>3. CASE reason = "replaced"
    BY <1>1, <1>2, <1>3, EndedStates DEF SessionAfter
  <1>4. CASE reason # "replaced"
    <2>1. SessionAfter(reason) = IF session.state = "active" THEN [session EXCEPT !.state = "expired"] ELSE session
      BY <1>4 DEF SessionAfter
    <2>2. SessionAfter("replaced") = [session EXCEPT !.state = "replaced"]
      BY DEF SessionAfter
    <2> QED BY <1>1, <1>2, <2>1, <2>2, EndedStates
  <1> QED BY <1>3, <1>4

LEMMA TerminateSound ==
  ASSUME SessionInv, SettingsRun, NEW reason \in {"expired", "replaced"}, Terminate(reason),
         UNCHANGED <<req, current, stored, generation, closing>>
  PROVE  Sound
  <1>1. terminal \in Terminals /\ session \in Sessions /\ (exit' = "done" => exit = "done")
    BY SessionBefore DEF Terminate
  <1>2. exit # "done"
    BY DEF SettingsRun
  <1>3. CASE terminal.reason = "none"
    <2>1. terminal' = [reason |-> reason, drained |-> FALSE] /\ closed' = TRUE /\ InvalidatePrecommit /\ UNCHANGED <<session, exit>>
      BY <1>3 DEF Terminate
    <2>2. FlowsGo(NoFlow)
      BY <2>1, InvalidatePrecommitGoes
    <2>3. terminal' \in Terminals /\ terminal'.drained = FALSE
      BY <2>1 DEF Terminals
    <2> QED BY <1>1, <1>2, <2>1, <2>2, <2>3, SessionBefore, SessionStep
  <1>4. CASE terminal.reason # "none"
    <2>1. /\ terminal' = [terminal EXCEPT !.reason = "replaced"] /\ UNCHANGED <<blocked, closed, flows>>
          /\ \/ terminal.drained /\ session' = SessionAfter("replaced") /\ exit' = "asked"
             \/ UNCHANGED <<session, exit>>
      BY <1>4 DEF Terminate
    <2>2. FlowsGo(NoFlow)
      BY <2>1, FlowsStay
    <2>3. terminal' \in Terminals /\ terminal'.drained = terminal.drained /\ terminal'.reason = "replaced"
      BY <1>1, <2>1 DEF Terminals
    <2>4. CASE terminal.drained /\ session' = SessionAfter("replaced") /\ exit' = "asked"
      <3>1. session' \in Sessions /\ session'.state = "replaced"
        BY <2>4, SessionAfterIs
      <3>2. closed /\ InBarrier = {}
        BY <2>4, SessionBefore
      <3> QED BY <2>1, <2>2, <2>3, <2>4, <3>1, <3>2, EndedStates, SessionStep
    <2>5. CASE UNCHANGED <<session, exit>>
      BY <1>4, <2>1, <2>2, <2>3, <2>5, SessionBefore, SessionStep
    <2> QED BY <2>1, <2>4, <2>5
  <1> QED BY <1>3, <1>4

LEMMA CheckLifecycleSound ==
  ASSUME SessionInv, CheckLifecycle
  PROVE  Sound
  <1>1. SettingsRun /\ UNCHANGED <<req, current, stored, generation, closing>>
    BY DEF CheckLifecycle
  <1>2. CASE /\ session.state = "new" /\ session' = [session EXCEPT !.state = "bootstrap_expired"] /\ exit' = "asked"
             /\ UNCHANGED <<terminal, blocked, closed, flows>>
    <2>1. session \in Sessions
      BY SessionBefore
    <2>2. session' \in Sessions /\ session'.state = "bootstrap_expired"
      BY <1>2, <2>1, EndedStates DEF Sessions
    <2>3. FlowsGo(NoFlow)
      BY <1>2, FlowsStay
    <2>4. AllIdle
      BY <1>2, SessionBefore
    <2> QED BY <1>1, <1>2, <2>2, <2>3, <2>4, SessionBefore, SessionStep
  <1>3. CASE Terminate("expired")
    BY <1>1, <1>3, TerminateSound
  <1> QED BY <1>2, <1>3 DEF CheckLifecycle

LEMMA CommitReplacementSound ==
  ASSUME SessionInv, CommitReplacement
  PROVE  Sound
  BY TerminateSound DEF CommitReplacement

LEMMA TerminateRunSound ==
  ASSUME SessionInv, TerminateRun
  PROVE  Sound
  <1>1. FlowsGo(NoFlow)
    BY FlowsStay DEF TerminateRun
  <1>2. terminal' = [terminal EXCEPT !.drained = TRUE] /\ terminal.reason # "none" /\ InBarrier = {}
    BY DEF TerminateRun, Drained
  <1>3. terminal' \in Terminals /\ terminal'.reason = terminal.reason
    BY <1>2, SessionBefore DEF Terminals
  <1>4. session' = SessionAfter(terminal.reason)
    BY DEF TerminateRun
  <1>5. session' \in Sessions /\ session'.state \in Ended \cup {session.state}
    BY <1>4, SessionAfterIs
  <1>6. UNCHANGED <<blocked, closed, req, flows, current, stored, generation, closing>>
    BY DEF TerminateRun
  <1>7. closed /\ closed' /\ (session'.state = "new" => AllIdle)
    BY <1>2, <1>5, <1>6, SessionBefore, EndedStates
  <1> QED BY <1>1, <1>2, <1>3, <1>5, <1>6, <1>7, SessionStep

LEMMA CloseRequestSound ==
  ASSUME SessionInv, CloseRequest
  PROVE  Sound
  <1>1. FlowsGo(NoFlow)
    BY InvalidatePrecommitGoes DEF CloseRequest
  <1>2. closed' = TRUE /\ UNCHANGED <<session, req, current, stored, generation, terminal, exit>>
    BY DEF CloseRequest
  <1> QED BY <1>1, <1>2, SessionBefore, SessionStep

LEMMA CloseDoneSound ==
  ASSUME SessionInv, CloseDone
  PROVE  Sound
  <1>1. FlowsGo(NoFlow)
    BY FlowsStay DEF CloseDone
  <1>2. closing /\ InBarrier = {} /\ exit' = "asked" /\ UNCHANGED <<blocked, closed, req, flows, current, stored, generation, terminal>>
    BY DEF CloseDone, Drained, AfterClose
  <1>3. session' \in Sessions /\ session'.state \in Ended \cup {session.state}
    <2>1. CASE session' = SessionAfter("expired")
      BY <2>1, SessionAfterIs
    <2>2. CASE session' = [session EXCEPT !.state = "closed"]
      <3>1. session \in Sessions
        BY SessionBefore
      <3> QED BY <2>2, <3>1, EndedStates DEF Sessions
    <2> QED BY <2>1, <2>2 DEF CloseDone
  <1>4. closed /\ closed' /\ (session'.state = "new" => AllIdle)
    BY <1>2, <1>3, SessionBefore, EndedStates
  <1> QED BY <1>1, <1>2, <1>3, <1>4, SessionBefore, SessionStep

LEMMA ExitProcessSound ==
  ASSUME SessionInv, ExitProcess
  PROVE  Sound
  <1>1. FlowsGo(NoFlow) /\ InBarrier = {}
    BY FlowsStay DEF ExitProcess, Drained
  <1>2. UNCHANGED <<session, blocked, closed, req, flows, current, stored, generation, terminal, closing>>
    BY DEF ExitProcess
  <1> QED BY <1>1, <1>2, SessionBefore, SessionStep

-----------------------------------------------------------------------------

LEMMA SessionInitInv ==
  ASSUME SettingsInit
  PROVE  SessionInv
  <1>1. session = [state |-> "new", idle |-> FALSE, late |-> FALSE] /\ req = [r \in Worker |-> NotWorking] /\ flows = <<>>
    BY DEF SettingsInit
  <1>2. terminal = [reason |-> "none", drained |-> FALSE] /\ closing = FALSE /\ exit = "no" /\ generation = 0
    BY DEF SettingsInit, NoTerminal
  <1>3. current = [p \in Purpose |-> 0] /\ stored \in [Purpose -> User \cup {NoUser}]
        /\ Cardinality({p \in Purpose : stored[p] # NoUser}) <= 1
    BY DEF SettingsInit, NoFlow
  <1>4. NotWorking \in Work /\ \A r \in Worker : req[r] = NotWorking /\ req[r].at = "idle"
    BY <1>1, NotWorkingWorks
  <1>5. session \in [state : {"new", "active"} \cup Ended, idle : BOOLEAN, late : BOOLEAN]
    BY <1>1
  <1>6. terminal \in [reason : {"none", "expired", "replaced"}, drained : BOOLEAN]
    BY <1>2
  <1>7. flows \in Seq(Flow) /\ DOMAIN flows = {}
    BY <1>1
  <1>8. SettingsTypeOK
    BY <1>1, <1>2, <1>3, <1>4, <1>5, <1>6, <1>7 DEF SettingsTypeOK
  <1>9. FlowsOK /\ CurrentOK
    BY <1>3, <1>7 DEF FlowsOK, CurrentOK, NoFlow
  <1>10. WorkOK
    BY <1>4 DEF WorkOK, Committing
  <1>11. \A p, q \in Purpose : stored[p] = stored[q] \/ NoUser \in {stored[p], stored[q]}
    <2> SUFFICES ASSUME NEW p \in Purpose, NEW q \in Purpose, stored[p] # NoUser, stored[q] # NoUser
                 PROVE  p = q
      OBVIOUS
    <2> DEFINE S == {o \in Purpose : stored[o] # NoUser}
    <2>1. IsFiniteSet(Purpose)
      <3>1. PICK a \in Purpose, b \in Purpose : Purpose = {a, b}
        BY SessionAssumption
      <3>2. IsFiniteSet({}) /\ IsFiniteSet({a}) /\ IsFiniteSet({a, b})
        <4>1. IsFiniteSet({}) 
          BY FS_EmptySet
        <4>2. {a} = {} \cup {a} /\ {a, b} = {a} \cup {b}
          OBVIOUS
        <4>3. IsFiniteSet({a})
          BY <4>1, <4>2, FS_AddElement
        <4> QED BY <4>1, <4>2, <4>3, FS_AddElement
      <3> QED BY <3>1, <3>2
    <2>2. IsFiniteSet(S) /\ Cardinality(S) \in Nat /\ Cardinality(S) <= 1
      <3>1. S \subseteq Purpose
        OBVIOUS
      <3>2. IsFiniteSet(S)
        BY <2>1, <3>1, FS_Subset
      <3> QED BY <1>3, <3>2, FS_CardinalityType
    <2>3. p \in S /\ q \in S
      OBVIOUS
    <2>4. IsFiniteSet(S \ {p}) /\ Cardinality(S \ {p}) = Cardinality(S) - 1
      BY <2>2, <2>3, FS_RemoveElement
    <2>5. Cardinality(S \ {p}) = 0
      BY <2>2, <2>4, FS_CardinalityType
    <2>6. S \ {p} = {}
      BY <2>4, <2>5, FS_EmptySet
    <2> QED BY <2>3, <2>6
  <1>12. StoredOK
    BY <1>4, <1>11 DEF StoredOK
  <1>13. InBarrier = {} /\ AllIdle
    BY <1>4 DEF InBarrier, AllIdle
  <1>14. session.state = "new" /\ terminal.reason = "none" /\ terminal.drained = FALSE
    BY <1>1, <1>2
  <1>15. EndsOK
    BY <1>2, <1>13, <1>14, EndedStates DEF EndsOK
  <1> QED BY <1>8, <1>9, <1>10, <1>12, <1>15 DEF SessionInv

LEMMA SessionNextSound ==
  ASSUME SessionInv, [SettingsNext]_settingsVars
  PROVE  Sound
  <1>1. CASE SettingsNext
    <2>1. ASSUME NEW r \in Worker, AdmitMutation(r) \/ Works(r)
          PROVE  Sound
      BY <2>1, AdmitMutationSound, EnterBarrierSound, BeginReadSound, BeginInstallSound, OpenedSound, CancelSound,
         OtherMutationSound, CommitSignInSound, SaveSnapshotSound, SaveDoneSound DEF Works
    <2>2. ASSUME NEW i \in DOMAIN flows, ProviderCallback(i) \/ ExchangeDone(i)
          PROVE  Sound
      BY <2>2, ProviderCallbackSound, ExchangeDoneSound
    <2> QED BY <1>1, <2>1, <2>2, ConsumeBootstrapSound, LimitsPassSound, CheckLifecycleSound, CommitReplacementSound,
               TerminateRunSound, CloseRequestSound, CloseDoneSound, ExitProcessSound DEF SettingsNext
  <1>2. CASE UNCHANGED settingsVars
    <2>1. UNCHANGED <<session, closed, req, flows, current, stored, generation, terminal, closing, exit>>
      BY <1>2 DEF settingsVars
    <2>2. FlowsGo(NoFlow)
      BY <2>1, FlowsStay
    <2> QED BY <2>1, <2>2, SessionBefore, SessionStep
  <1> QED BY <1>1, <1>2

(* The two Google roles never hold the credentials of two accounts, and    *)
(* the session has not ended while a mutation is still in the barrier.     *)
THEOREM OneAccountAlways == SettingsSpec => []OneAccountOneSession
  <1>1. SettingsInit => SessionInv
    BY SessionInitInv
  <1>2. SessionInv /\ [SettingsNext]_settingsVars => SessionInv'
    BY SessionNextSound DEF Sound
  <1>3. SessionInv => OneAccountOneSession
    <2> SUFFICES ASSUME SessionInv PROVE OneAccountOneSession
      OBVIOUS
    <2>1. \A p, q \in Purpose : stored[p] = stored[q] \/ NoUser \in {stored[p], stored[q]}
      BY DEF SessionInv, StoredOK
    <2>2. AllIdle => InBarrier = {}
      BY DEF AllIdle, InBarrier
    <2> QED BY <2>1, <2>2, SessionBefore DEF OneAccountOneSession, NoneCutOff
  <1> QED BY <1>1, <1>2, <1>3, PTL DEF SettingsSpec

(* The verdict a sign-in was given is final, and a flow that has one keeps *)
(* no secret.                                                              *)
THEOREM VerdictsAlwaysFinal == SettingsSpec => VerdictsAreFinal
  <1>1. SettingsInit => SessionInv
    BY SessionInitInv
  <1>2. SessionInv /\ [SettingsNext]_settingsVars => SessionInv'
    BY SessionNextSound DEF Sound
  <1>3. SessionInv /\ [SettingsNext]_settingsVars
          => [\A i \in DOMAIN flows :
                flows[i].status \in Terminal =>
                  flows'[i].status = flows[i].status /\ ~flows'[i].token /\ flows'[i].account = NoUser]_settingsVars
    BY SessionNextSound DEF Sound, VerdictsStay
  <1> QED BY <1>1, <1>2, <1>3, PTL DEF SettingsSpec, VerdictsAreFinal

-----------------------------------------------------------------------------
(* The reads of a user's courses.                                          *)

CallAt == Discoveries \cup Rereadings
CallTypes == {Idle} \cup Refusals \cup AnswersGiven \cup CallAt

OnItsWay(r) ==
  /\ SeenInTime(r)
  /\ r.op = "discover" => ListedSoFar(r)
  /\ r.op = "reread" => RereadSoFar(r)
AnswersTruly(a) ==
  /\ a.lasted <= DiscoveryTime
  /\ \A i \in DOMAIN a.courses : a.courses[i] \in a.seen
  /\ a.op = "reread" => \A i, j \in DOMAIN a.courses : a.courses[i][2] = a.courses[j][2]
  /\ a.op = "reread" \/ a.kept => a.whole

LEMMA PagesAddUp ==
  ASSUME NEW n \in Nat, NEW k \in Nat, NEW max \in Nat, n > 0, n <= max
  PROVE  n * k \in Nat /\ (n - 1) * k \in Nat /\ (n - 1) * k + k = n * k /\ n * k <= max * k /\ max * k \in Nat
<1>1. max * k = n * k + (max - n) * k
  OBVIOUS
<1>2. (max - n) * k \in Nat
  OBVIOUS
<1>3. (n - 1) * k = n * k - k
  OBVIOUS
<1>4. n * k \in Nat /\ max * k \in Nat /\ (n - 1) * k \in Nat
  OBVIOUS
<1> QED
  BY <1>1, <1>2, <1>3, <1>4

LEMMA CallsAreApart ==
  ASSUME NEW r \in CallTypes
  PROVE  /\ r.at \in {"idle", "done", "send", "recv"}
         /\ r.at \in {"send", "recv"} <=> r \in CallAt
         /\ r.at = "done" /\ r.ok <=> r \in AnswersGiven
         /\ r \in Discoveries <=> r \in CallAt /\ r.op = "discover"
         /\ r \in Rereadings <=> r \in CallAt /\ r.op = "reread"
<1>0. CASE r = Idle
  BY <1>0 DEF CallAt, Idle, AnswersGiven, Discoveries, Rereadings
<1>1. CASE r \in Refusals
  <2>1. r.at = "done" /\ r.ok = FALSE
    BY <1>1 DEF Refusals, Refusal
  <2> QED
    BY <2>1 DEF CallAt, AnswersGiven, Discoveries, Rereadings
<1>2. CASE r \in AnswersGiven
  BY <1>2 DEF CallTypes, CallAt, Idle, Refusals, Refusal, AnswersGiven, Discoveries, Rereadings
<1>3. CASE r \in Discoveries
  BY <1>3 DEF CallTypes, CallAt, Idle, Refusals, Refusal, AnswersGiven, Discoveries, Rereadings
<1>4. CASE r \in Rereadings
  BY <1>4 DEF CallTypes, CallAt, Idle, Refusals, Refusal, AnswersGiven, Discoveries, Rereadings
<1> QED
  BY <1>0, <1>1, <1>2, <1>3, <1>4 DEF CallTypes, CallAt

LEMMA InitDiscovery == DiscoveryInit => DiscoveryInv
<1> SUFFICES ASSUME DiscoveryInit PROVE DiscoveryInv
  OBVIOUS
<1> USE DiscoveryAssumption
<1>1. DiscoveryTypeOK
  <2>1. listing \in Seq(ListedCourse)
    <3>1. PICK n \in 0 .. Cardinality(ListedCourse) : listing \in [1 .. n -> ListedCourse]
      BY DEF DiscoveryInit
    <3>2. n \in Nat
      BY FS_CardinalityType
    <3> QED
      BY <3>1, <3>2, SeqDef
  <2>2. finished \in [DOMAIN finished -> Nat] /\ ended \in [DOMAIN ended -> Nat]
    BY DEF DiscoveryInit
  <2>3. act \in [Thread -> {Idle} \cup Refusals \cup AnswersGiven \cup Discoveries \cup Rereadings]
    BY DEF DiscoveryInit
  <2> QED
    BY <2>1, <2>2, <2>3 DEF DiscoveryInit, DiscoveryTypeOK
<1>2. Calling = {} /\ Accepted = {} /\ Discovering = {} /\ ended = [p \in {} |-> 0]
  BY DEF DiscoveryInit, Calling, Accepted, Discovering, Idle
<1>3. active = {}
  BY DEF DiscoveryInit
<1> QED
  BY <1>1, <1>2, <1>3 DEF DiscoveryInv, CallsAreOnTheirWay, EndsAreRemembered, ReadsAreHonest, AnswersAreTrue, DiscoveriesTakeTurns

\* One call moves and Canvas and the clock stand still: what is known of the others stays.
LEMMA OthersStay ==
  ASSUME DiscoveryInv, UNCHANGED <<now, canvas>>, NEW t \in Thread, NEW r \in CallTypes,
         act' = [act EXCEPT ![t] = r],
         r \in CallAt => OnItsWay(r), r \in AnswersGiven => AnswersTruly(r),
         finished' \in [DOMAIN finished' -> Nat], ended' \in [DOMAIN ended' -> Nat]
  PROVE  /\ DiscoveryTypeOK' /\ CallsAreOnTheirWay' /\ AnswersAreTrue'
         /\ act'[t] = r /\ \A u \in Thread \ {t} : act'[u] = act[u]
<1>1. act \in [Thread -> CallTypes]
  BY DEF DiscoveryInv, DiscoveryTypeOK, CallTypes, CallAt
<1>2. act'[t] = r /\ \A u \in Thread \ {t} : act'[u] = act[u]
  BY <1>1
<1>3. act' \in [Thread -> CallTypes]
  BY <1>1
<1>4. DiscoveryTypeOK'
  BY <1>3 DEF DiscoveryInv, DiscoveryTypeOK, canvas, CallTypes, CallAt
<1>5. CallsAreOnTheirWay'
  <2> SUFFICES ASSUME NEW u \in Thread, act'[u].at \in {"send", "recv"}
               PROVE  OnItsWay(act[u])' 
    BY DEF CallsAreOnTheirWay, Calling, OnItsWay
  <2>1. OnItsWay(act'[u])
    <3>1. CASE u = t
      BY <3>1, <1>2, CallsAreApart
    <3>2. CASE u # t
      BY <3>2, <1>2 DEF DiscoveryInv, CallsAreOnTheirWay, Calling, OnItsWay
    <3> QED
      BY <3>1, <3>2
  <2>2. Shown' = Shown
    BY DEF Shown, canvas
  <2> QED
    BY <2>1, <2>2 DEF OnItsWay, SeenInTime, ListedSoFar, RereadSoFar, canvas
<1>6. AnswersAreTrue'
  <2> SUFFICES ASSUME NEW u \in Thread, act'[u].at = "done", act'[u].ok
               PROVE  AnswersTruly(act'[u])
    BY DEF AnswersAreTrue, Accepted, AnswersTruly
  <2>1. CASE u = t
    BY <2>1, <1>2, CallsAreApart
  <2>2. CASE u # t
    BY <2>2, <1>2 DEF DiscoveryInv, ReadsAreHonest, AnswersAreTrue, Accepted, AnswersTruly
  <2> QED
    BY <2>1, <2>2
<1> QED
  BY <1>2, <1>4, <1>5, <1>6

\* The gate has nothing to do with a step of a call that goes on, or is not a discovery.
LEMMA GateStays ==
  ASSUME DiscoveryInv, UNCHANGED <<now, gate>>, NEW t \in Thread,
         \A u \in Thread \ {t} : act'[u] = act[u],
         t \in Discovering' <=> t \in Discovering,
         t \in Discovering => act'[t].profile = act[t].profile /\ act'[t].began = act[t].began
  PROVE  DiscoveriesTakeTurns' /\ EndsAreRemembered'
<1>1. Discovering' = Discovering
  BY DEF Discovering, Calling
<1>2. \A u \in Discovering : act'[u].profile = act[u].profile /\ act'[u].began = act[u].began
  BY DEF Discovering, Calling
<1> QED
  BY <1>1, <1>2 DEF DiscoveryInv, ReadsAreHonest, DiscoveriesTakeTurns, EndsAreRemembered, gate

\* A discovery ends: its profile is free again and its cooldown begins.
LEMMA GateTold ==
  ASSUME DiscoveryInv, now' = now, NEW t \in Thread, act[t].at \in {"send", "recv"},
         \A u \in Thread \ {t} : act'[u] = act[u], act'[t].at = "done",
         NEW ok \in BOOLEAN, Finish(t, ok)
  PROVE  /\ DiscoveriesTakeTurns' /\ EndsAreRemembered'
         /\ finished' \in [DOMAIN finished' -> Nat] /\ ended' \in [DOMAIN ended' -> Nat]
<1>1. CASE act[t].op # "discover"
  <2>1. UNCHANGED gate
    BY <1>1 DEF Finish
  <2>2. t \notin Discovering /\ t \notin Discovering'
    BY <1>1 DEF Discovering, Calling
  <2> QED
    BY <2>1, <2>2, GateStays DEF gate, DiscoveryInv, DiscoveryTypeOK
<1>2. CASE act[t].op = "discover"
  <2> DEFINE p == act[t].profile
  <2>1. active' = active \ {p} /\ finished' = With(finished, p) /\ ended' = With(ended, p)
    BY <1>2 DEF Finish
  <2>2. now \in Nat /\ finished \in [DOMAIN finished -> Nat] /\ ended \in [DOMAIN ended -> Nat] /\ Cooldown \in Nat
    BY DiscoveryAssumption DEF DiscoveryInv, DiscoveryTypeOK
  <2>3. t \in Discovering /\ Discovering' = Discovering \ {t}
    BY <1>2 DEF Discovering, Calling
  <2>4. \A u \in Discovering' : act'[u] = act[u] /\ act[u].profile # p
    BY <2>3 DEF DiscoveryInv, ReadsAreHonest, DiscoveriesTakeTurns, Discovering, Calling
  <2>5. finished' \in [DOMAIN finished' -> Nat] /\ ended' \in [DOMAIN ended' -> Nat]
    BY <2>1, <2>2 DEF With
  <2>6. DiscoveriesTakeTurns'
    <3>1. active' = {act'[u].profile : u \in Discovering'}
      <4>1. active = {act[u].profile : u \in Discovering}
        BY DEF DiscoveryInv, ReadsAreHonest, DiscoveriesTakeTurns
      <4> QED
        BY <4>1, <2>1, <2>3, <2>4
    <3>2. \A u, v \in Discovering' : act'[u].profile = act'[v].profile => u = v
      BY <2>3, <2>4 DEF DiscoveryInv, ReadsAreHonest, DiscoveriesTakeTurns
    <3>3. \A u \in Discovering' : act'[u].profile \in DOMAIN ended' => act'[u].began >= ended'[act'[u].profile] + Cooldown
      BY <2>1, <2>3, <2>4 DEF DiscoveryInv, ReadsAreHonest, DiscoveriesTakeTurns, With
    <3> QED
      BY <3>1, <3>2, <3>3 DEF DiscoveriesTakeTurns
  <2>7. EndsAreRemembered'
    BY <2>1, <2>2 DEF DiscoveryInv, EndsAreRemembered, With
  <2> QED
    BY <2>5, <2>6, <2>7
<1> QED
  BY <1>1, <1>2

LEMMA CallsFail ==
  ASSUME DiscoveryInv, UNCHANGED <<now, canvas>>, NEW t \in Thread, act[t].at \in {"send", "recv"}, CallFails(t)
  PROVE  DiscoveryInv'
<1>1. act[t] \in CallAt
  BY CallsAreApart DEF DiscoveryInv, DiscoveryTypeOK, CallTypes, CallAt
<1>2. act[t].op \in {"discover", "reread"}
  BY <1>1 DEF CallAt, Discoveries, Rereadings
<1> DEFINE r == Refusal(act[t].op)
<1>3. r \in CallTypes /\ r.at = "done" /\ r.ok = FALSE
  BY <1>2 DEF CallTypes, Refusals, Refusal
<1>4. r \notin CallAt /\ r \notin AnswersGiven
  BY <1>3, CallsAreApart
<1>5. act' = [act EXCEPT ![t] = r] /\ Finish(t, FALSE)
  BY DEF CallFails
<1>6. act'[t] = r /\ \A u \in Thread \ {t} : act'[u] = act[u]
  BY <1>5 DEF DiscoveryInv, DiscoveryTypeOK
<1>7. /\ DiscoveriesTakeTurns' /\ EndsAreRemembered'
      /\ finished' \in [DOMAIN finished' -> Nat] /\ ended' \in [DOMAIN ended' -> Nat]
  BY <1>3, <1>5, <1>6, GateTold
<1>8. DiscoveryTypeOK' /\ CallsAreOnTheirWay' /\ AnswersAreTrue'
  <2> HIDE DEF r
  <2> QED
    BY <1>3, <1>4, <1>5, <1>7, OthersStay
<1> QED
  BY <1>7, <1>8 DEF DiscoveryInv, ReadsAreHonest

\* A call that began has seen what Canvas shows now, and has nothing yet.
LEMMA CallsBegin ==
  ASSUME DiscoveryInv
  PROVE  /\ \A p \in Profile, verify \in BOOLEAN :
              LET r == Discovery(p, IF verify THEN 0 ELSE 1) IN r \in CallAt /\ OnItsWay(r)
         /\ \A ids \in Choice, term \in Term \cup {NoTerm} : Len(ids) >= 1 =>
              Rereading(ids, term) \in CallAt /\ OnItsWay(Rereading(ids, term))
<1> USE DiscoveryAssumption
<1>1. now \in Nat /\ now + DiscoveryTime \in Nat /\ now <= now
  BY DEF DiscoveryInv, DiscoveryTypeOK
<1>2. Shown \in SUBSET ShownOnce
  BY DEF DiscoveryInv, DiscoveryTypeOK, Shown, ShownOnce
<1>3. <<>> \in Seq(ShownOnce) /\ Len(<<>>) = 0 /\ DOMAIN <<>> = {}
  OBVIOUS
<1>4. Len(listing) \in Nat
  BY DEF DiscoveryInv, DiscoveryTypeOK
<1>5. ASSUME NEW p \in Profile, NEW verify \in BOOLEAN
      PROVE  LET r == Discovery(p, IF verify THEN 0 ELSE 1) IN r \in CallAt /\ OnItsWay(r)
  <2> DEFINE page == IF verify THEN 0 ELSE 1
             r == Discovery(p, page)
  <2>1. page \in Nat /\ page <= MaxPages
    OBVIOUS
  <2> HIDE DEF page
  <2>2. r \in Discoveries
    BY <1>1, <1>2, <1>3, <2>1 DEF Discovery, Discoveries
  <2>3. SeenInTime(r)
    BY <1>1, <1>3 DEF SeenInTime, Discovery
  <2>4. page > 0 => (page - 1) * PageSize = 0
    BY <2>1 DEF page
  <2>5. ListedSoFar(r)
    BY <1>3, <1>4, <2>1, <2>4 DEF ListedSoFar, Discovery
  <2>6. r.op = "discover"
    BY DEF Discovery
  <2> QED
    BY <2>2, <2>3, <2>5, <2>6 DEF OnItsWay, CallAt, page
<1>6. ASSUME NEW ids \in Choice, NEW term \in Term \cup {NoTerm}, Len(ids) >= 1
      PROVE  Rereading(ids, term) \in CallAt /\ OnItsWay(Rereading(ids, term))
  <2>1. Rereading(ids, term) \in Rereadings
    BY <1>1, <1>2, <1>3 DEF Rereading, Rereadings
  <2>2. SeenInTime(Rereading(ids, term))
    BY <1>1, <1>3 DEF SeenInTime, Rereading
  <2>3. Len(ids) \in Nat
    OBVIOUS
  <2>4. RereadSoFar(Rereading(ids, term))
    BY <1>3, <1>6, <2>3 DEF RereadSoFar, Rereading
  <2>5. Rereading(ids, term).op = "reread"
    BY DEF Rereading
  <2> QED
    BY <2>1, <2>2, <2>4, <2>5 DEF OnItsWay, CallAt
<1> QED
  BY <1>5, <1>6

LEMMA BeginKeeps == ASSUME DiscoveryInv, NEW t \in Thread, NEW p \in Profile, NEW verify \in BOOLEAN, Begin(t, p, verify)
                    PROVE  DiscoveryInv'
<1> DEFINE r == IF p \in active \cup Cooling THEN Refusal("discover") ELSE Discovery(p, IF verify THEN 0 ELSE 1)
<1>1. act' = [act EXCEPT ![t] = r] /\ UNCHANGED <<now, canvas>> /\ UNCHANGED ended
  BY DEF Begin
<1>2. now \in Nat /\ finished \in [DOMAIN finished -> Nat] /\ ended \in [DOMAIN ended -> Nat] /\ Cooldown \in Nat
  BY DiscoveryAssumption DEF DiscoveryInv, DiscoveryTypeOK
<1>3. finished' = [q \in Cooling |-> finished[q]] /\ Cooling \subseteq DOMAIN finished
  BY DEF Begin, Cooling
<1>4. finished' \in [DOMAIN finished' -> Nat] /\ ended' \in [DOMAIN ended' -> Nat]
  BY <1>1, <1>2, <1>3
<1>5. r \in CallTypes /\ (r \in CallAt => OnItsWay(r)) /\ r \notin AnswersGiven
  <2>1. CASE p \in active \cup Cooling
    <3>1. r \in CallTypes /\ r.at = "done" /\ r.ok = FALSE
      BY <2>1 DEF CallTypes, Refusals, Refusal
    <3> QED
      BY <3>1, CallsAreApart
  <2>2. CASE p \notin active \cup Cooling
    <3>1. r \in CallAt /\ OnItsWay(r)
      BY <2>2, CallsBegin
    <3>2. r \in CallTypes /\ r.at = "send"
      BY <2>2, <3>1 DEF CallTypes, Discovery
    <3> QED
      BY <3>1, <3>2, CallsAreApart
  <2> QED
    BY <2>1, <2>2
<1>6. /\ DiscoveryTypeOK' /\ CallsAreOnTheirWay' /\ AnswersAreTrue'
      /\ act'[t] = r /\ \A u \in Thread \ {t} : act'[u] = act[u]
  <2> HIDE DEF r
  <2> QED
    BY <1>1, <1>4, <1>5, OthersStay
<1>7. EndsAreRemembered'
  BY <1>1, <1>2, <1>3 DEF DiscoveryInv, EndsAreRemembered, Cooling
<1>8. t \notin Discovering
  BY DEF Begin, Discovering, Calling
<1>9. DiscoveriesTakeTurns'
  <2>1. CASE p \in active \cup Cooling
    <3>1. Discovering' = Discovering /\ active' = active
      BY <2>1, <1>6, <1>8 DEF Begin, Discovering, Calling, Refusal
    <3>2. \A u \in Discovering : act'[u] = act[u]
      BY <1>6, <1>8 DEF Discovering, Calling
    <3> QED
      BY <3>1, <3>2, <1>1 DEF DiscoveryInv, ReadsAreHonest, DiscoveriesTakeTurns
  <2>2. CASE p \notin active \cup Cooling
    <3>1. act'[t] = Discovery(p, IF verify THEN 0 ELSE 1)
      BY <2>2, <1>6
    <3>2. act'[t].profile = p /\ act'[t].began = now /\ act'[t].at = "send" /\ act'[t].op = "discover"
      BY <3>1 DEF Discovery
    <3>3. Discovering' = Discovering \cup {t} /\ active' = active \cup {p}
      BY <2>2, <3>2, <1>6 DEF Begin, Discovering, Calling
    <3>4. \A u \in Discovering : u # t /\ act'[u] = act[u] /\ act[u].profile # p
      BY <1>6, <1>8, <2>2 DEF Discovering, Calling, DiscoveryInv, ReadsAreHonest, DiscoveriesTakeTurns
    <3>5. active = {act[u].profile : u \in Discovering}
      BY DEF DiscoveryInv, ReadsAreHonest, DiscoveriesTakeTurns
    <3>6. active' = {act'[u].profile : u \in Discovering'}
      BY <3>2, <3>3, <3>4, <3>5
    <3>7. p \in DOMAIN ended => now >= ended[p] + Cooldown
      BY <1>2, <2>2 DEF DiscoveryInv, EndsAreRemembered, Cooling
    <3>8. \A u \in Discovering' : act'[u].profile \in DOMAIN ended' => act'[u].began >= ended'[act'[u].profile] + Cooldown
      BY <1>1, <3>2, <3>3, <3>4, <3>7 DEF DiscoveryInv, ReadsAreHonest, DiscoveriesTakeTurns
    <3>9. \A u, v \in Discovering' : act'[u].profile = act'[v].profile => u = v
      BY <3>2, <3>3, <3>4 DEF DiscoveryInv, ReadsAreHonest, DiscoveriesTakeTurns
    <3> QED
      BY <3>6, <3>8, <3>9 DEF DiscoveriesTakeTurns
  <2> QED
    BY <2>1, <2>2
<1> QED
  BY <1>6, <1>7, <1>9 DEF DiscoveryInv, ReadsAreHonest

LEMMA RereadKeeps == ASSUME DiscoveryInv, NEW t \in Thread, NEW ids \in Choice, NEW term \in Term \cup {NoTerm}, Reread(t, ids, term)
                     PROVE  DiscoveryInv'
<1> DEFINE fits == Len(ids) \in 1 .. MaxSelected /\ \A i, j \in DOMAIN ids : ids[i] = ids[j] => i = j
           r == IF fits THEN Rereading(ids, term) ELSE Refusal("reread")
<1>1. act' = [act EXCEPT ![t] = r] /\ UNCHANGED <<now, canvas>> /\ UNCHANGED gate
  BY DEF Reread
<1>2. r \in CallTypes /\ (r \in CallAt => OnItsWay(r)) /\ r \notin AnswersGiven /\ r.op = "reread"
  <2>1. CASE ~fits
    <3>1. r \in CallTypes /\ r.at = "done" /\ r.ok = FALSE /\ r.op = "reread"
      BY <2>1 DEF CallTypes, Refusals, Refusal
    <3> QED
      BY <3>1, CallsAreApart
  <2>2. CASE fits
    <3>1. Len(ids) >= 1
      BY <2>2, DiscoveryAssumption
    <3>2. r \in CallAt /\ OnItsWay(r)
      BY <2>2, <3>1, CallsBegin
    <3>3. r \in CallTypes /\ r.at = "send" /\ r.op = "reread"
      BY <2>2, <3>2 DEF CallTypes, Rereading
    <3> QED
      BY <3>2, <3>3, CallsAreApart
  <2> QED
    BY <2>1, <2>2
<1> HIDE DEF r
<1>3. finished' \in [DOMAIN finished' -> Nat] /\ ended' \in [DOMAIN ended' -> Nat]
  BY <1>1 DEF gate, DiscoveryInv, DiscoveryTypeOK
<1>4. /\ DiscoveryTypeOK' /\ CallsAreOnTheirWay' /\ AnswersAreTrue'
      /\ act'[t] = r /\ \A u \in Thread \ {t} : act'[u] = act[u]
  BY <1>1, <1>2, <1>3, OthersStay
<1>5. t \notin Discovering /\ t \notin Discovering'
  BY <1>2, <1>4 DEF Reread, Discovering, Calling
<1>6. DiscoveriesTakeTurns' /\ EndsAreRemembered'
  BY <1>1, <1>4, <1>5, GateStays
<1> QED
  BY <1>4, <1>6 DEF DiscoveryInv, ReadsAreHonest

LEMMA EditKeeps == ASSUME DiscoveryInv, NEW c \in ListedCourse, NEW term \in Term, Edit(c, term)
                   PROVE  DiscoveryInv'
<1>1. /\ act' = [t \in Thread |-> IF t \in Calling
                                 THEN [act[t] EXCEPT !.seen = @ \cup Shown', !.kept = FALSE] ELSE act[t]]
      /\ UNCHANGED <<now, gate>> /\ changes' = changes + 1
  BY DEF Edit
<1>2. listing' \in Seq(ListedCourse) /\ termOf' \in [ListedCourse -> Term]
  <2>1. listing \in Seq(ListedCourse) /\ termOf \in [ListedCourse -> Term]
    BY DEF DiscoveryInv, DiscoveryTypeOK
  <2>2. ASSUME NEW i \in DOMAIN listing PROVE Without(i) \in Seq(ListedCourse)
    <3>1. i \in 1 .. Len(listing)
      BY <2>1
    <3>2. SubSeq(listing, 1, i - 1) \in Seq(ListedCourse) /\ SubSeq(listing, i + 1, Len(listing)) \in Seq(ListedCourse)
      BY <2>1, <3>1, SubSeqProperties
    <3> QED
      BY <3>2, ConcatProperties DEF Without
  <2>3. <<c>> \o listing \in Seq(ListedCourse)
    BY <2>1, ConcatProperties
  <2> QED
    BY <2>1, <2>2, <2>3 DEF Edit
<1>3. Shown' \subseteq ShownOnce
  BY <1>2 DEF Shown, ShownOnce
<1>4. act \in [Thread -> CallTypes]
  BY DEF DiscoveryInv, DiscoveryTypeOK, CallTypes, CallAt
<1>5. ASSUME NEW t \in Thread, t \in Calling
      PROVE  LET r == [act[t] EXCEPT !.seen = @ \cup Shown', !.kept = FALSE]
             IN  /\ act'[t] = r /\ r \in CallAt /\ r.at = act[t].at /\ r.op = act[t].op /\ r.began = act[t].began
                 /\ r.op = "discover" => r.profile = act[t].profile
                 /\ OnItsWay(act[t])'
  <2> DEFINE r == [act[t] EXCEPT !.seen = @ \cup Shown', !.kept = FALSE]
  <2>1. act[t] \in CallAt
    BY <1>4, <1>5, CallsAreApart DEF Calling
  <2>2. act'[t] = r
    BY <1>1, <1>5
  <2>3. /\ r.at = act[t].at /\ r.op = act[t].op /\ r.began = act[t].began /\ r.deadline = act[t].deadline
        /\ r.until = act[t].until /\ r.courses = act[t].courses
        /\ r.seen = act[t].seen \cup Shown' /\ r.kept = FALSE
    BY <2>1 DEF CallAt, Discoveries, Rereadings
  <2>4. SeenInTime(act[t])
    BY <1>5 DEF DiscoveryInv, CallsAreOnTheirWay
  <2>5. SeenInTime(act[t])'
    BY <2>2, <2>3, <2>4, <1>1 DEF SeenInTime
  <2>6. CASE act[t] \in Discoveries
    <3>1. r \in Discoveries /\ r.profile = act[t].profile /\ r.page = act[t].page
      BY <2>6, <1>3 DEF Discoveries
    <3>2. act[t].op = "discover"
      BY <2>6 DEF Discoveries
    <3>3. ListedSoFar(act[t])
      BY <3>2, <1>5 DEF DiscoveryInv, CallsAreOnTheirWay
    <3>4. ListedSoFar(act[t])'
      BY <3>1, <3>3, <2>2, <2>3 DEF ListedSoFar
    <3> QED
      BY <2>2, <2>3, <2>5, <3>1, <3>2, <3>4 DEF OnItsWay, CallAt
  <2>7. CASE act[t] \in Rereadings
    <3>1. r \in Rereadings /\ r.ids = act[t].ids /\ r.term = act[t].term
      BY <2>7, <1>3 DEF Rereadings
    <3>2. act[t].op = "reread"
      BY <2>7 DEF Rereadings
    <3>3. RereadSoFar(act[t])
      BY <3>2, <1>5 DEF DiscoveryInv, CallsAreOnTheirWay
    <3>4. RereadSoFar(act[t])'
      BY <3>1, <3>3, <2>2, <2>3 DEF RereadSoFar
    <3> QED
      BY <2>2, <2>3, <2>5, <3>1, <3>2, <3>4 DEF OnItsWay, CallAt
  <2> QED
    BY <2>1, <2>6, <2>7 DEF CallAt
<1>6. \A t \in Thread \ Calling : act'[t] = act[t]
  BY <1>1
<1>7. DiscoveryTypeOK'
  <2>1. \A t \in Thread : act'[t] \in CallTypes
    BY <1>4, <1>5, <1>6 DEF CallTypes
  <2>2. act' \in [Thread -> CallTypes]
    BY <1>1, <2>1
  <2>3. act' \in [Thread -> {Idle} \cup Refusals \cup AnswersGiven \cup Discoveries \cup Rereadings]
    BY <2>2 DEF CallTypes, CallAt
  <2>4. now' \in Nat /\ changes' \in Nat
    <3>1. now \in Nat /\ changes \in Nat
      BY DEF DiscoveryInv, DiscoveryTypeOK
    <3>2. now' = now /\ changes' = changes + 1
      BY DEF Edit
    <3> QED
      BY <3>1, <3>2
  <2>5. finished' \in [DOMAIN finished' -> Nat] /\ ended' \in [DOMAIN ended' -> Nat]
    BY <1>1 DEF DiscoveryInv, DiscoveryTypeOK, gate
  <2> QED
    BY <1>2, <2>3, <2>4, <2>5 DEF DiscoveryTypeOK
<1>8. Calling' = Calling
  BY <1>5, <1>6 DEF Calling
<1>9. Discovering' = Discovering
  BY <1>5, <1>8 DEF Discovering, Calling
<1>10. CallsAreOnTheirWay'
  <2> SUFFICES ASSUME NEW t \in Thread, t \in Calling PROVE OnItsWay(act[t])'
    BY <1>8 DEF CallsAreOnTheirWay, OnItsWay, Calling
  <2> QED
    BY <1>5
<1>11. AnswersAreTrue'
  <2>1. Accepted' = Accepted
    <3>1. \A t \in Thread : act'[t].at = "done" => act'[t] = act[t]
      BY <1>5, <1>6 DEF Calling
    <3>2. \A t \in Thread : act[t].at = "done" => act'[t] = act[t]
      BY <1>6 DEF Calling
    <3> QED
      BY <3>1, <3>2 DEF Accepted
  <2> QED
    BY <2>1 DEF DiscoveryInv, ReadsAreHonest, AnswersAreTrue
<1>12. \A t \in Discovering : act'[t].profile = act[t].profile /\ act'[t].began = act[t].began
  BY <1>5 DEF Discovering, Calling
<1>13. DiscoveriesTakeTurns' /\ EndsAreRemembered'
  <2>1. active' = active /\ ended' = ended /\ finished' = finished /\ now' = now
    BY <1>1 DEF gate
  <2>2. active = {act[t].profile : t \in Discovering}
    BY DEF DiscoveryInv, ReadsAreHonest, DiscoveriesTakeTurns
  <2>3. active' = {act'[t].profile : t \in Discovering'}
    BY <2>1, <2>2, <1>9, <1>12
  <2>4. \A t, u \in Discovering' : act'[t].profile = act'[u].profile => t = u
    BY <1>9, <1>12 DEF DiscoveryInv, ReadsAreHonest, DiscoveriesTakeTurns
  <2>5. \A t \in Discovering' : act'[t].profile \in DOMAIN ended' => act'[t].began >= ended'[act'[t].profile] + Cooldown
    BY <2>1, <1>9, <1>12 DEF DiscoveryInv, ReadsAreHonest, DiscoveriesTakeTurns
  <2> QED
    BY <2>1, <2>3, <2>4, <2>5 DEF DiscoveryInv, DiscoveriesTakeTurns, EndsAreRemembered
<1> QED
  BY <1>7, <1>10, <1>11, <1>13 DEF DiscoveryInv, ReadsAreHonest

LEMMA TickKeeps == ASSUME DiscoveryInv, Tick PROVE DiscoveryInv'
<1>1. now' = now + 1 /\ UNCHANGED <<canvas, gate, act>>
  BY DEF Tick
<1>2. now \in Nat /\ Cooldown \in Nat /\ \A p \in DOMAIN ended : ended[p] \in Nat
  BY DiscoveryAssumption DEF DiscoveryInv, DiscoveryTypeOK
<1>3. DiscoveryTypeOK'
  BY <1>1, <1>2 DEF DiscoveryInv, DiscoveryTypeOK, canvas, gate
<1>4. Calling' = Calling /\ Discovering' = Discovering /\ Accepted' = Accepted /\ Shown' = Shown
  BY <1>1 DEF Calling, Discovering, Accepted, Shown, canvas
<1>5. CallsAreOnTheirWay'
  <2> SUFFICES ASSUME NEW t \in Calling PROVE OnItsWay(act[t])'
    BY <1>4 DEF CallsAreOnTheirWay, OnItsWay
  <2>1. OnItsWay(act[t])
    BY DEF DiscoveryInv, CallsAreOnTheirWay, OnItsWay
  <2>2. act[t].began \in Nat
    BY CallsAreApart DEF Calling, DiscoveryInv, DiscoveryTypeOK, CallTypes, CallAt, Discoveries, Rereadings
  <2> QED
    BY <1>1, <1>2, <1>4, <2>1, <2>2 DEF OnItsWay, SeenInTime, ListedSoFar, RereadSoFar, canvas
<1>6. EndsAreRemembered'
  BY <1>1, <1>2 DEF DiscoveryInv, EndsAreRemembered, gate
<1>7. ReadsAreHonest'
  BY <1>1, <1>4 DEF DiscoveryInv, ReadsAreHonest, AnswersAreTrue, DiscoveriesTakeTurns, gate
<1> QED
  BY <1>3, <1>5, <1>6, <1>7 DEF DiscoveryInv

\* A call that goes on keeps its place at the gate.
LEMMA CallGoesOn ==
  ASSUME DiscoveryInv, UNCHANGED <<now, canvas, gate>>, NEW t \in Thread, act[t].at \in {"send", "recv"},
         NEW r \in CallAt, act' = [act EXCEPT ![t] = r], r.op = act[t].op, r.began = act[t].began, OnItsWay(r),
         r.op = "discover" => r.profile = act[t].profile
  PROVE  DiscoveryInv'
<1>1. r \in CallTypes /\ r \notin AnswersGiven /\ r.at \in {"send", "recv"}
  BY CallsAreApart DEF CallTypes
<1>2. /\ DiscoveryTypeOK' /\ CallsAreOnTheirWay' /\ AnswersAreTrue'
      /\ act'[t] = r /\ \A u \in Thread \ {t} : act'[u] = act[u]
  <2>1. finished' \in [DOMAIN finished' -> Nat] /\ ended' \in [DOMAIN ended' -> Nat]
    BY DEF gate, DiscoveryInv, DiscoveryTypeOK
  <2> QED
    BY <1>1, <2>1, OthersStay
<1>3. t \in Discovering' <=> t \in Discovering
  BY <1>1, <1>2 DEF Discovering, Calling
<1>4. t \in Discovering => act'[t].profile = act[t].profile /\ act'[t].began = act[t].began
  BY <1>2 DEF Discovering, Calling
<1>5. DiscoveriesTakeTurns' /\ EndsAreRemembered'
  BY <1>2, <1>3, <1>4, GateStays
<1> QED
  BY <1>2, <1>5 DEF DiscoveryInv, ReadsAreHonest

\* What a call is that has not ended.
LEMMA CallIs ==
  ASSUME DiscoveryInv, NEW t \in Thread, act[t].at \in {"send", "recv"}
  PROVE  /\ act[t] \in CallAt /\ OnItsWay(act[t])
         /\ act[t].op = "discover" => act[t] \in Discoveries
         /\ act[t].op = "reread" => act[t] \in Rereadings
         /\ act[t].op \in {"discover", "reread"}
<1>1. act[t] \in CallTypes
  BY DEF DiscoveryInv, DiscoveryTypeOK, CallTypes, CallAt
<1>2. act[t] \in CallAt
  BY <1>1, CallsAreApart
<1>3. OnItsWay(act[t])
  BY DEF DiscoveryInv, CallsAreOnTheirWay, Calling, OnItsWay
<1>4. act[t].op \in {"discover", "reread"}
  BY <1>2 DEF CallAt, Discoveries, Rereadings
<1> QED
  BY <1>1, <1>2, <1>3, <1>4, CallsAreApart

LEMMA SendKeeps == ASSUME DiscoveryInv, NEW t \in Thread, Send(t) PROVE DiscoveryInv'
<1>1. CASE now >= act[t].deadline
  BY <1>1, CallsFail DEF Send
<1>2. CASE ~(now >= act[t].deadline)
  <2> DEFINE r == [act[t] EXCEPT !.at = "recv", !.until = Lower(now + RequestTime, act[t].deadline)]
  <2>1. act' = [act EXCEPT ![t] = r] /\ UNCHANGED <<now, canvas, gate>> /\ act[t].at = "send"
    BY <1>2 DEF Send, DiscoveryInv, DiscoveryTypeOK
  <2>2. act[t] \in CallAt /\ OnItsWay(act[t])
    BY <2>1, CallIs
  <2>3. act[t].deadline \in Nat /\ now \in Nat /\ RequestTime \in Nat
    BY <2>2, DiscoveryAssumption DEF CallAt, Discoveries, Rereadings, DiscoveryInv, DiscoveryTypeOK
  <2>4. Lower(now + RequestTime, act[t].deadline) \in Nat /\ Lower(now + RequestTime, act[t].deadline) <= act[t].deadline
    BY <2>3 DEF Lower
  <2>5. /\ r \in CallAt /\ r.op = act[t].op /\ r.began = act[t].began
        /\ r.op = "discover" => r.profile = act[t].profile
        /\ OnItsWay(r)
    <3>1. CASE act[t] \in Discoveries
      <4>1. /\ r \in Discoveries /\ r.op = act[t].op /\ r.began = act[t].began /\ r.profile = act[t].profile
            /\ r.seen = act[t].seen /\ r.courses = act[t].courses /\ r.deadline = act[t].deadline /\ r.kept = act[t].kept
            /\ r.page = act[t].page /\ r.until <= r.deadline /\ r.op = "discover"
        BY <3>1, <2>4 DEF Discoveries
      <4> HIDE DEF r
      <4> QED
        BY <4>1, <2>2 DEF CallAt, OnItsWay, SeenInTime, ListedSoFar
    <3>2. CASE act[t] \in Rereadings
      <4>1. /\ r \in Rereadings /\ r.op = act[t].op /\ r.began = act[t].began
            /\ r.seen = act[t].seen /\ r.courses = act[t].courses /\ r.deadline = act[t].deadline
            /\ r.ids = act[t].ids /\ r.term = act[t].term /\ r.until <= r.deadline /\ r.op = "reread"
        BY <3>2, <2>4 DEF Rereadings
      <4> HIDE DEF r
      <4> QED
        BY <4>1, <2>2 DEF CallAt, OnItsWay, SeenInTime, RereadSoFar
    <3> QED
      BY <3>1, <3>2, <2>2 DEF CallAt
  <2> HIDE DEF r
  <2> QED
    BY <2>1, <2>5, CallGoesOn
<1> QED
  BY <1>1, <1>2

LEMMA UserVerifiedKeeps == ASSUME DiscoveryInv, NEW t \in Thread, UserVerified(t) PROVE DiscoveryInv'
<1> DEFINE r == [act[t] EXCEPT !.at = "send", !.page = 1]
<1>1. /\ act' = [act EXCEPT ![t] = r] /\ UNCHANGED <<now, canvas, gate>> /\ act[t].at = "recv"
      /\ act[t].op = "discover" /\ act[t].page = 0
  BY DEF UserVerified, InTime, DiscoveryInv, DiscoveryTypeOK
<1>2. act[t] \in Discoveries /\ OnItsWay(act[t])
  BY <1>1, CallIs
<1>3. /\ r \in Discoveries /\ r.op = "discover" /\ r.began = act[t].began /\ r.profile = act[t].profile
      /\ r.seen = act[t].seen /\ r.courses = act[t].courses /\ r.deadline = act[t].deadline /\ r.page = 1 /\ r.at = "send"
  BY <1>2 DEF Discoveries
<1>4. r.courses = <<>> /\ Len(<<>>) = 0 /\ DOMAIN <<>> = {}
  BY <1>1, <1>2, <1>3 DEF OnItsWay, ListedSoFar
<1>5. (1 - 1) * PageSize = 0 /\ MaxPages >= 1 /\ MaxCourses > 0 /\ Len(listing) \in Nat
  BY DiscoveryAssumption DEF DiscoveryInv, DiscoveryTypeOK
<1> HIDE DEF r
<1>6. SeenInTime(r)
  BY <1>2, <1>3 DEF OnItsWay, SeenInTime
<1>7. ListedSoFar(r)
  BY <1>3, <1>4, <1>5 DEF ListedSoFar
<1>8. r \in CallAt /\ OnItsWay(r)
  BY <1>3, <1>6, <1>7 DEF CallAt, OnItsWay
<1> QED
  BY <1>1, <1>3, <1>8, CallGoesOn

\* A call that is answered in time, of what it saw.
LEMMA CallsAnswer ==
  ASSUME DiscoveryInv, UNCHANGED <<now, canvas>>, NEW t \in Thread, InTime(t),
         NEW courses \in Seq(ShownOnce), NEW whole \in BOOLEAN, CallSucceeds(t, courses, whole),
         \A i \in DOMAIN courses : courses[i] \in act[t].seen,
         act[t].op = "reread" => \A i, j \in DOMAIN courses : courses[i][2] = courses[j][2],
         act[t].op = "reread" \/ act[t].kept => whole
  PROVE  DiscoveryInv'
<1> DEFINE r == [at |-> "done", op |-> act[t].op, ok |-> TRUE, courses |-> courses, whole |-> whole,
                 seen |-> act[t].seen, kept |-> act[t].kept, lasted |-> now - act[t].began]
<1>1. act' = [act EXCEPT ![t] = r] /\ Finish(t, TRUE) /\ act[t].at = "recv"
  BY DEF CallSucceeds, InTime
<1>2. act[t] \in CallAt /\ OnItsWay(act[t]) /\ act[t].op \in {"discover", "reread"}
  BY <1>1, CallIs
<1>3. /\ act[t].began \in Nat /\ act[t].until \in Nat /\ act[t].deadline \in Nat
      /\ act[t].seen \in SUBSET ShownOnce /\ act[t].kept \in BOOLEAN
  BY <1>2 DEF CallAt, Discoveries, Rereadings
<1>4. now \in Nat /\ DiscoveryTime \in Nat
  BY DiscoveryAssumption DEF DiscoveryInv, DiscoveryTypeOK
<1>5. now - act[t].began \in Nat /\ now - act[t].began <= DiscoveryTime
  BY SMTT(20), <1>1, <1>2, <1>3, <1>4 DEF InTime, OnItsWay, SeenInTime
<1>6. r \in AnswersGiven
  BY <1>2, <1>3, <1>5 DEF AnswersGiven
<1>7. AnswersTruly(r)
  BY <1>5 DEF AnswersTruly
<1>8. r.at = "done" /\ r \in CallTypes
  BY <1>6 DEF CallTypes
<1> HIDE DEF r
<1>9. r \notin CallAt
  BY <1>8, CallsAreApart
<1>10. act'[t] = r /\ \A u \in Thread \ {t} : act'[u] = act[u]
  BY <1>1 DEF DiscoveryInv, DiscoveryTypeOK
<1>11. /\ DiscoveriesTakeTurns' /\ EndsAreRemembered'
       /\ finished' \in [DOMAIN finished' -> Nat] /\ ended' \in [DOMAIN ended' -> Nat]
  BY <1>1, <1>8, <1>10, GateTold
<1>12. DiscoveryTypeOK' /\ CallsAreOnTheirWay' /\ AnswersAreTrue'
  BY <1>1, <1>7, <1>8, <1>9, <1>11, OthersStay
<1> QED
  BY <1>11, <1>12 DEF DiscoveryInv, ReadsAreHonest

\* The next page, put behind what the pages before it had, as far as the bound reaches.
WithPage(old, n) == old \o Page(n)
Taken(old, n) == SubSeq(WithPage(old, n), 1, Lower(Len(WithPage(old, n)), MaxCourses))

LEMMA PageTaken ==
  ASSUME DiscoveryInv, NEW n \in Nat \ {0}, n <= MaxPages, NEW old \in Seq(ShownOnce)
  PROVE  LET all == WithPage(old, n)
             courses == Taken(old, n)
         IN
         /\ all \in Seq(ShownOnce) /\ courses \in Seq(ShownOnce)
         /\ Len(courses) = Lower(Len(all), MaxCourses) /\ \A i \in 1 .. Len(courses) : courses[i] = all[i]
         /\ \A i \in 1 .. Len(courses) : (i <= Len(old) /\ courses[i] = old[i]) \/ courses[i] \in Shown
         /\ /\ Len(old) = (n - 1) * PageSize /\ Len(old) <= Len(listing)
            /\ \A i \in 1 .. Len(old) : old[i][1] = listing[i]
            => Len(all) = Upto(n * PageSize) /\ \A i \in 1 .. Len(courses) : courses[i][1] = listing[i]
<1> DEFINE all == WithPage(old, n)
           courses == Taken(old, n)
           L == Len(listing)
           low == (n - 1) * PageSize
           high == n * PageSize
<1>1. low \in Nat /\ high \in Nat /\ low <= high
  BY PagesAddUp, DiscoveryAssumption
<1>2. L \in Nat /\ listing \in Seq(ListedCourse) /\ termOf \in [ListedCourse -> Term] /\ MaxCourses \in Nat
  BY DiscoveryAssumption DEF DiscoveryInv, DiscoveryTypeOK
<1> DEFINE size == Upto(high) - Upto(low)
<1> HIDE DEF low, high
<1>3. Upto(high) \in Nat /\ Upto(low) \in Nat /\ size \in Nat
  BY <1>1, <1>2 DEF Upto, Lower
<1>4. ASSUME NEW i \in 1 .. size PROVE low + i \in 1 .. L
  BY <1>1, <1>2, <1>3 DEF Upto, Lower
<1>5. Page(n) = [i \in 1 .. size |-> <<listing[low + i], termOf[listing[low + i]]>>]
  BY DEF Page, low, high
<1> HIDE DEF size
<1>6. \A i \in 1 .. size : listing[low + i] \in ListedCourse /\ termOf[listing[low + i]] \in Term
  BY <1>2, <1>4
<1>7. Page(n) \in [1 .. size -> ShownOnce] /\ \A i \in 1 .. size : Page(n)[i] \in Shown /\ Page(n)[i][1] = listing[low + i]
  BY <1>5, <1>6 DEF ShownOnce, Shown
<1>8. Page(n) \in Seq(ShownOnce) /\ Len(Page(n)) = size
  <2> DEFINE page == Page(n)
  <2>1. page \in [1 .. size -> ShownOnce]
    BY <1>7
  <2> HIDE DEF page
  <2>2. page \in Seq(ShownOnce) /\ Len(page) = size
    BY <2>1, <1>3
  <2> QED
    BY <2>2 DEF page
<1> HIDE DEF L, courses
<1>9. /\ all \in Seq(ShownOnce) /\ Len(all) = Len(old) + size
      /\ \A i \in 1 .. Len(all) : all[i] = IF i <= Len(old) THEN old[i] ELSE Page(n)[i - Len(old)]
  BY <1>3, <1>8, ConcatProperties DEF WithPage
<1> HIDE DEF all
<1>10. Lower(Len(all), MaxCourses) \in Nat /\ Lower(Len(all), MaxCourses) <= Len(all)
  BY <1>2, <1>9 DEF Lower
<1>11. /\ courses \in Seq(ShownOnce) /\ Len(courses) = Lower(Len(all), MaxCourses)
       /\ \A i \in 1 .. Len(courses) : courses[i] = all[i]
  <2>1. courses = SubSeq(all, 1, Lower(Len(all), MaxCourses))
    BY DEF courses, Taken, all
  <2> QED
    BY <2>1, <1>9, <1>10, SubSeqProperties
<1>12. ASSUME NEW i \in 1 .. Len(courses)
       PROVE  (i <= Len(old) /\ courses[i] = old[i]) \/ courses[i] \in Shown
  <2>1. courses[i] = all[i] /\ i \in 1 .. Len(all)
    BY <1>9, <1>10, <1>11
  <2>2. CASE i <= Len(old)
    BY <2>1, <2>2, <1>9
  <2>3. CASE ~(i <= Len(old))
    <3>1. i - Len(old) \in 1 .. size
      BY <2>1, <2>3, <1>3, <1>9
    <3> QED
      BY <2>1, <2>3, <3>1, <1>7, <1>9
  <2> QED
    BY <2>2, <2>3
<1>13. ASSUME Len(old) = low, Len(old) <= Len(listing), \A i \in 1 .. Len(old) : old[i][1] = listing[i]
       PROVE  Len(all) = Upto(high) /\ \A i \in 1 .. Len(courses) : courses[i][1] = listing[i]
  <2>1. Upto(low) = low
    BY <1>1, <1>2, <1>13 DEF Upto, Lower, L
  <2>2. Len(all) = Upto(high)
    BY <1>1, <1>3, <1>9, <1>13, <2>1 DEF size
  <2>3. ASSUME NEW i \in 1 .. Len(courses) PROVE courses[i][1] = listing[i]
    <3>1. courses[i] = all[i] /\ i \in 1 .. Len(all)
      BY <1>9, <1>10, <1>11
    <3>2. CASE i <= Len(old)
      <4>1. all[i] = old[i]
        BY <3>1, <3>2, <1>9
      <4>2. i \in 1 .. Len(old)
        BY <3>2, <2>3
      <4> QED
        BY <3>1, <4>1, <4>2, <1>13
    <3>3. CASE ~(i <= Len(old))
      <4>1. i - Len(old) \in 1 .. size /\ low + (i - Len(old)) = i
        BY <3>1, <3>3, <1>1, <1>3, <1>9, <1>13
      <4>2. courses[i] = Page(n)[i - Len(old)]
        BY <3>1, <3>3, <1>9
      <4> QED
        BY <4>1, <4>2, <1>7
    <3> QED
      BY <3>2, <3>3
  <2> QED
    BY <2>2, <2>3
<1> QED
  BY <1>9, <1>11, <1>12, <1>13 DEF low, high, all, courses

LEMMA PageReadKeeps == ASSUME DiscoveryInv, NEW t \in Thread, PageRead(t) PROVE DiscoveryInv'
<1> DEFINE n == act[t].page
           old == act[t].courses
           all == WithPage(old, n)
           courses == Taken(old, n)
           stops == IsLast(n) \/ Len(courses) >= MaxCourses \/ n = MaxPages
<1>1. /\ InTime(t) /\ act[t].at = "recv" /\ act[t].op = "discover" /\ n > 0 /\ UNCHANGED <<now, canvas>>
      /\ IF stops THEN CallSucceeds(t, courses, Reached(courses))
         ELSE act' = [act EXCEPT ![t].at = "send", ![t].page = n + 1, ![t].courses = courses] /\ UNCHANGED gate
  BY DEF PageRead, InTime, WithPage, Taken
<1>2. act[t] \in Discoveries /\ OnItsWay(act[t])
  BY <1>1, CallIs
<1>3. n \in Nat \ {0} /\ n <= MaxPages /\ old \in Seq(ShownOnce) /\ SeenInTime(act[t]) /\ ListedSoFar(act[t])
  BY <1>1, <1>2 DEF Discoveries, OnItsWay, ListedSoFar
<1>4. /\ listing \in Seq(ListedCourse) /\ Len(listing) \in Nat
      /\ PageSize \in Nat \ {0} /\ MaxPages \in Nat \ {0} /\ MaxCourses \in Nat \ {0}
  BY DiscoveryAssumption DEF DiscoveryInv, DiscoveryTypeOK
<1>5. /\ all \in Seq(ShownOnce) /\ courses \in Seq(ShownOnce) /\ Len(courses) = Lower(Len(all), MaxCourses)
      /\ \A i \in 1 .. Len(courses) : (i <= Len(old) /\ courses[i] = old[i]) \/ courses[i] \in Shown
      /\ /\ Len(old) = (n - 1) * PageSize /\ Len(old) <= Len(listing)
         /\ \A i \in 1 .. Len(old) : old[i][1] = listing[i]
         => Len(all) = Upto(n * PageSize) /\ \A i \in 1 .. Len(courses) : courses[i][1] = listing[i]
  <2> HIDE DEF n, old
  <2> QED
    BY <1>3, PageTaken
<1> HIDE DEF all, courses
<1>6. \A i \in DOMAIN courses : courses[i] \in act[t].seen
  BY <1>3, <1>5 DEF SeenInTime
<1>7. n * PageSize \in Nat /\ n * PageSize <= MaxPages * PageSize /\ MaxPages * PageSize \in Nat
  BY <1>3, <1>4, PagesAddUp
<1>8. act[t].kept => Len(all) = Upto(n * PageSize) /\ \A i \in 1 .. Len(courses) : courses[i][1] = listing[i]
  <2>1. act[t].kept => /\ Len(old) = (n - 1) * PageSize /\ Len(old) <= Len(listing)
                       /\ \A i \in 1 .. Len(old) : old[i][1] = listing[i]
    BY <1>3 DEF ListedSoFar
  <2> QED
    BY <2>1, <1>5
<1>9. CASE stops
  <2>1. act[t].kept => Reached(courses)
    <3> SUFFICES ASSUME act[t].kept PROVE Reached(courses)
      OBVIOUS
    <3> DEFINE reach == Upto(Lower(MaxCourses, MaxPages * PageSize))
    <3>1. Len(courses) = reach /\ reach \in Nat /\ reach <= Len(listing)
      BY SMTT(20), <1>4, <1>5, <1>7, <1>8, <1>9 DEF Upto, Lower, IsLast
    <3> HIDE DEF reach
    <3>2. /\ SubSeq(listing, 1, reach) \in Seq(ListedCourse) /\ Len(SubSeq(listing, 1, reach)) = reach
          /\ \A i \in 1 .. reach : SubSeq(listing, 1, reach)[i] = listing[i]
      BY <3>1, <1>4, SubSeqProperties
    <3>3. DOMAIN courses = 1 .. reach
      BY <3>1, <1>5
    <3>4. [i \in DOMAIN courses |-> courses[i][1]] = SubSeq(listing, 1, reach)
      BY <3>1, <3>2, <3>3, <1>8
    <3> QED
      BY <3>4 DEF Reached, reach
  <2>2. Reached(courses) \in BOOLEAN
    BY DEF Reached
  <2>3. CallSucceeds(t, courses, Reached(courses))
    BY <1>1, <1>9
  <2> HIDE DEF stops
  <2> QED
    BY SMTT(20), <1>1, <1>5, <1>6, <2>1, <2>2, <2>3, CallsAnswer
<1>10. CASE ~stops
  <2> DEFINE r == [act[t] EXCEPT !.at = "send", !.page = n + 1, !.courses = courses]
  <2>1. act' = [act EXCEPT ![t] = r] /\ UNCHANGED gate
    BY <1>1, <1>10 DEF DiscoveryInv, DiscoveryTypeOK
  <2>2. /\ r \in Discoveries /\ r.op = "discover" /\ r.at = "send" /\ r.began = act[t].began /\ r.profile = act[t].profile
        /\ r.seen = act[t].seen /\ r.deadline = act[t].deadline /\ r.kept = act[t].kept
        /\ r.page = n + 1 /\ r.courses = courses
    <3>1. n + 1 \in Nat
      BY <1>3
    <3> HIDE DEF n
    <3> QED
      BY <3>1, <1>2, <1>5 DEF Discoveries
  <2> HIDE DEF r
  <2>3. SeenInTime(r)
    BY <2>2, <1>3, <1>6 DEF SeenInTime
  <2>4. ListedSoFar(r)
    <3>1. n + 1 \in Nat /\ n + 1 > 0 /\ n + 1 <= MaxPages /\ (n + 1) - 1 = n
      BY <1>3, <1>4, <1>10
    <3>2. act[t].kept => Len(courses) = n * PageSize /\ Len(courses) < MaxCourses /\ Len(courses) <= Len(listing)
      BY <1>4, <1>5, <1>7, <1>8, <1>10 DEF Upto, Lower, IsLast
    <3>3. act[t].kept => \A i \in DOMAIN courses : courses[i][1] = listing[i]
      BY <1>5, <1>8
    <3> QED
      BY <2>2, <3>1, <3>2, <3>3 DEF ListedSoFar
  <2>5. r \in CallAt /\ OnItsWay(r)
    BY <2>2, <2>3, <2>4 DEF CallAt, OnItsWay
  <2> QED
    BY <1>1, <2>1, <2>2, <2>5, CallGoesOn
<1> QED
  BY <1>9, <1>10

LEMMA CourseReadKeeps == ASSUME DiscoveryInv, NEW t \in Thread, CourseRead(t) PROVE DiscoveryInv'
<1> DEFINE old == act[t].courses
           ids == act[t].ids
           c == ids[Len(old) + 1]
           term == IF act[t].term = NoTerm THEN termOf[c] ELSE act[t].term
           courses == Append(old, <<c, termOf[c]>>)
           all == [i \in DOMAIN courses |-> courses[i][1]] = ids
<1>1. /\ InTime(t) /\ act[t].at = "recv" /\ act[t].op = "reread" /\ UNCHANGED <<now, canvas>>
      /\ IF termOf[c] # term THEN CallFails(t)
         ELSE IF Len(courses) = Len(ids) THEN CallSucceeds(t, courses, all)
         ELSE act' = [act EXCEPT ![t].at = "send", ![t].term = term, ![t].courses = courses] /\ UNCHANGED gate
  BY DEF CourseRead, InTime
<1>2. act[t] \in Rereadings /\ OnItsWay(act[t])
  BY <1>1, CallIs
<1>3. /\ ids \in Seq(ListedCourse) /\ old \in Seq(ShownOnce) /\ act[t].term \in Term \cup {NoTerm}
      /\ SeenInTime(act[t]) /\ RereadSoFar(act[t]) /\ Len(old) \in Nat /\ Len(ids) \in Nat /\ Len(old) < Len(ids)
  <2>1. ids \in Choice /\ old \in Seq(ShownOnce) /\ act[t].term \in Term \cup {NoTerm}
    BY <1>2 DEF Rereadings
  <2>2. ids \in Seq(ListedCourse)
    BY <2>1, DiscoveryAssumption
  <2>3. SeenInTime(act[t]) /\ RereadSoFar(act[t])
    BY <1>1, <1>2 DEF OnItsWay
  <2>4. Len(old) < Len(ids)
    BY <2>3 DEF RereadSoFar
  <2> QED
    BY <2>1, <2>2, <2>3, <2>4
<1>4. termOf \in [ListedCourse -> Term] /\ NoTerm \notin Term
  BY DiscoveryAssumption DEF DiscoveryInv, DiscoveryTypeOK
<1>5. c \in ListedCourse /\ termOf[c] \in Term
  BY SMTT(20), <1>3, <1>4
<1>6. <<c, termOf[c]>> \in ShownOnce /\ <<c, termOf[c]>> \in act[t].seen
  BY <1>3, <1>5 DEF ShownOnce, SeenInTime, Shown
<1> HIDE DEF old, ids
<1>7. /\ courses \in Seq(ShownOnce) /\ Len(courses) = Len(old) + 1
      /\ \A i \in 1 .. Len(courses) : courses[i] = IF i <= Len(old) THEN old[i] ELSE <<c, termOf[c]>>
  BY <1>3, <1>6, AppendProperties
<1>8. \A i \in 1 .. Len(old) : old[i] \in act[t].seen /\ old[i][1] = ids[i] /\ old[i][2] = act[t].term
  BY <1>3 DEF SeenInTime, RereadSoFar, old, ids
<1>9. act[t].term = NoTerm => Len(old) = 0
  BY <1>3 DEF RereadSoFar, old
<1> HIDE DEF courses
<1>10. \A i \in 1 .. Len(courses) : courses[i] \in act[t].seen /\ courses[i][1] = ids[i]
  <2> SUFFICES ASSUME NEW i \in 1 .. Len(courses) PROVE courses[i] \in act[t].seen /\ courses[i][1] = ids[i]
    OBVIOUS
  <2>1. CASE i <= Len(old)
    BY <2>1, <1>3, <1>7, <1>8
  <2>2. CASE ~(i <= Len(old))
    <3>1. i = Len(old) + 1
      BY <2>2, <1>3, <1>7
    <3> QED
      BY <3>1, <2>2, <1>6, <1>7
  <2> QED
    BY <2>1, <2>2
<1>11. CASE termOf[c] # term
  BY <1>1, <1>11, CallsFail
<1>12. ASSUME termOf[c] = term PROVE /\ term \in Term
                                   /\ \A i \in 1 .. Len(courses) : courses[i][2] = term
  <2>1. term \in Term
    BY <1>5, <1>12
  <2>2. ASSUME NEW i \in 1 .. Len(courses) PROVE courses[i][2] = term
    <3>1. CASE i <= Len(old)
      <4>1. i \in 1 .. Len(old) /\ courses[i] = old[i] /\ act[t].term # NoTerm
        BY <3>1, <1>3, <1>7, <1>9
      <4> QED
        BY <4>1, <1>8
    <3>2. CASE ~(i <= Len(old))
      BY <3>2, <1>7, <1>12
    <3> QED
      BY <3>1, <3>2
  <2> QED
    BY <2>1, <2>2
<1>13. CASE termOf[c] = term /\ Len(courses) = Len(ids)
  <2>1. all
    BY <1>3, <1>7, <1>10, <1>13
  <2>2. CallSucceeds(t, courses, all)
    BY <1>1, <1>13
  <2>3. \A i \in DOMAIN courses : courses[i] \in act[t].seen
    BY <1>7, <1>10
  <2>4. \A i, j \in DOMAIN courses : courses[i][2] = courses[j][2]
    BY <1>7, <1>12, <1>13
  <2>5. all \in BOOLEAN
    OBVIOUS
  <2> HIDE DEF all
  <2>6. UNCHANGED <<now, canvas>> /\ InTime(t) /\ courses \in Seq(ShownOnce)
    BY <1>1, <1>7
  <2>7. act[t].op = "reread" => \A i, j \in DOMAIN courses : courses[i][2] = courses[j][2]
    BY <2>4
  <2> QED
    BY <2>1, <2>2, <2>3, <2>5, <2>6, <2>7, CallsAnswer
<1>14. CASE termOf[c] = term /\ Len(courses) # Len(ids)
  <2> DEFINE r == [act[t] EXCEPT !.at = "send", !.term = term, !.courses = courses]
  <2>0. term \in Term /\ \A i \in 1 .. Len(courses) : courses[i][2] = term
    BY <1>12, <1>14
  <2>1. act' = [act EXCEPT ![t] = r] /\ UNCHANGED gate
    BY <1>1, <1>14 DEF DiscoveryInv, DiscoveryTypeOK
  <2> HIDE DEF term
  <2>2. /\ r \in Rereadings /\ r.op = "reread" /\ r.at = "send" /\ r.began = act[t].began
        /\ r.seen = act[t].seen /\ r.deadline = act[t].deadline
        /\ r.ids = ids /\ r.term = term /\ r.courses = courses
    BY <1>2, <1>7, <2>0 DEF Rereadings, ids
  <2> HIDE DEF r
  <2>3. SeenInTime(r)
    BY <2>2, <1>3, <1>7, <1>10 DEF SeenInTime
  <2>4. RereadSoFar(r)
    BY <2>0, <2>2, <1>3, <1>4, <1>7, <1>10, <1>14 DEF RereadSoFar
  <2>5. r \in CallAt /\ OnItsWay(r)
    BY <2>2, <2>3, <2>4 DEF CallAt, OnItsWay
  <2> QED
    BY <1>1, <2>1, <2>2, <2>5, CallGoesOn
<1> QED
  BY <1>11, <1>13, <1>14

LEMMA DiscoveryStep == DiscoveryInv /\ [DiscoveryNext]_discoveryVars => DiscoveryInv'
<1> SUFFICES ASSUME DiscoveryInv, [DiscoveryNext]_discoveryVars PROVE DiscoveryInv'
  OBVIOUS
<1>1. ASSUME NEW c \in ListedCourse, NEW term \in Term, Edit(c, term) PROVE DiscoveryInv'
  BY <1>1, EditKeeps
<1>2. CASE Tick
  BY <1>2, TickKeeps
<1>3. ASSUME NEW t \in Thread, NEW p \in Profile, NEW verify \in BOOLEAN, Begin(t, p, verify) PROVE DiscoveryInv'
  BY <1>3, BeginKeeps
<1>4. ASSUME NEW t \in Thread, NEW ids \in Choice, NEW term \in Term \cup {NoTerm}, Reread(t, ids, term) PROVE DiscoveryInv'
  BY <1>4, RereadKeeps
<1>5. ASSUME NEW t \in Thread, Send(t) PROVE DiscoveryInv'
  BY <1>5, SendKeeps
<1>6. ASSUME NEW t \in Thread, Refused(t) PROVE DiscoveryInv'
  BY <1>6, CallsFail DEF Refused
<1>7. ASSUME NEW t \in Thread, UserVerified(t) PROVE DiscoveryInv'
  BY <1>7, UserVerifiedKeeps
<1>8. ASSUME NEW t \in Thread, PageRead(t) PROVE DiscoveryInv'
  BY <1>8, PageReadKeeps
<1>9. ASSUME NEW t \in Thread, CourseRead(t) PROVE DiscoveryInv'
  BY <1>9, CourseReadKeeps
<1>10. CASE UNCHANGED discoveryVars
  <2>1. /\ now' = now /\ listing' = listing /\ termOf' = termOf /\ changes' = changes
        /\ active' = active /\ finished' = finished /\ ended' = ended /\ act' = act
    BY <1>10 DEF discoveryVars
  <2>2. DiscoveryTypeOK'
    BY <2>1 DEF DiscoveryInv, DiscoveryTypeOK
  <2>3. Calling' = Calling /\ Discovering' = Discovering /\ Accepted' = Accepted /\ Shown' = Shown
    BY <2>1 DEF Calling, Discovering, Accepted, Shown
  <2>4. CallsAreOnTheirWay'
    BY <2>1, <2>3 DEF DiscoveryInv, CallsAreOnTheirWay, SeenInTime, ListedSoFar, RereadSoFar
  <2>5. EndsAreRemembered' /\ ReadsAreHonest'
    BY <2>1, <2>3 DEF DiscoveryInv, EndsAreRemembered, ReadsAreHonest, AnswersAreTrue, DiscoveriesTakeTurns
  <2> QED
    BY <2>2, <2>4, <2>5 DEF DiscoveryInv
<1> QED
  BY <1>1, <1>2, <1>3, <1>4, <1>5, <1>6, <1>7, <1>8, <1>9, <1>10 DEF DiscoveryNext

(* What a read of the courses answers came in time and is what Canvas      *)
(* showed while it ran, whole if nothing changed; discoveries of one       *)
(* profile never overlap nor follow one another within the cooldown,       *)
(* though the gate forgets an end once its cooldown is over                *)
(* (discover_canvas_courses, reread_canvas_courses, CanvasDiscoveryGate).  *)
THEOREM ReadsAlwaysHonest == DiscoverySpec => []ReadsAreHonest
<1>1. DiscoveryInv => ReadsAreHonest
  BY DEF DiscoveryInv
<1> QED
  BY InitDiscovery, DiscoveryStep, <1>1, PTL DEF DiscoverySpec

=============================================================================
