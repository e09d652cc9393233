------------------------------ MODULE Retrieval ------------------------------
(***************************************************************************)
(* The retrieval service (retrieval/service.py) on the capability store    *)
(* (ephemeral/memory.py), as the window's library calls use it             *)
(* (ui/library.py: one call at a time, under _service_lock), while the     *)
(* intake adds versions and derivatives and the user deletes materials.    *)
(*                                                                         *)
(* A call asks for the text of one session's materials - bounded by a      *)
(* budget, ranked by a query, or cut into windows for a summary - or for   *)
(* one chunk of a package it was given.  Every read of the database is a   *)
(* step, so versions change between two reads of one call.                 *)
(*                                                                         *)
(* What is abstracted.  A text is its derivative and the place in it; a    *)
(* piece has a locator, a part of it and a length.  An item is a place in  *)
(* what the call has read, <<source, piece>>; a selection is a set of      *)
(* items, as the code always puts them back into the order they were read. *)
(* What a query ranks is any order of any of the pieces (ranking.py is not *)
(* a property's concern).  Contexts have one time to live and so expire in *)
(* the order they were issued.  Asking for a material is asking for a      *)
(* session with one material.                                              *)
(***************************************************************************)
EXTENDS Naturals, Sequences, FiniteSets, Functions

CONSTANTS
  Materials,      \* the session's materials are 1..Materials
  Caller,         \* sessions of the window
  Layout,         \* the pieces a normalizer may cut a version into
  MaxItems, MaxChars, MaxItemChars,  \* RetrievalBudget
  MaxWindows,
  Lead,           \* LOW_RELEVANCE_LEAD
  MaxUpdate, MaxPackage   \* bounds: changes of the library, packages issued

(* What a normalizer cuts is a list of pieces.                             *)
ASSUME RetrievalAssumption ==
  Materials \in Nat /\ MaxWindows \in Nat /\ Layout \subseteq Seq([at : Nat, part : Nat, size : Nat])

VARIABLES
  version,      \* the current version of each material's source file
  deleted,      \* materials whose source file is hidden
  derivatives,  \* the chunk derivatives in order of their ids: material, version, own, whole, layout
  damaged,      \* derivatives whose blob cannot be read
  updates,      \* how often the library has changed
  packages,     \* the capabilities in order of issue, and what the service remembers of them
  serving       \* the call that holds _service_lock, in the end with its answer
retrievalVars == <<version, deleted, derivatives, damaged, updates, packages, serving>>

Material == 1..Materials

-----------------------------------------------------------------------------
(* The budget, as operators.                                               *)

Candidates == UNION {{<<k, i>> : i \in DOMAIN derivatives[serving.read[k]].layout} : k \in DOMAIN serving.read}
CutFrom(item) == derivatives[serving.read[item[1]]]
PieceAt(item) == CutFrom(item).layout[item[2]]

Precedes(x, y) == x[1] < y[1] \/ (x[1] = y[1] /\ x[2] < y[2])

Chars(items) == SumFunctionOnSet([item \in items |-> PieceAt(item).size], items)

Fitting(items) == {item \in items : PieceAt(item).size <= MaxItemChars}

(* _in_order: from the first on, up to the first item that does not fit.   *)
Leading(items) == {{}} \cup {{y \in items : y = x \/ Precedes(y, x)} : x \in items}
Within(items, limit) == Cardinality(items) <= limit /\ Chars(items) <= MaxChars
InOrder(items, limit) ==
  {lead \in Leading(items) : Within(lead, limit) /\ \A other \in Leading(items) : Within(other, limit) => other \subseteq lead}

(* _by_score for one ranking, best first: an item is chosen if there is    *)
(* room for it beside those before it.                                     *)
Rankings(items) == {r \in [1..Cardinality(items) -> items] : \A j, k \in DOMAIN r : r[j] = r[k] => j = k}
Best(items, ranked) ==
  {chosen \in SUBSET items :
    \A k \in DOMAIN ranked :
      LET better == chosen \cap {ranked[j] : j \in 1..k - 1}
      IN ranked[k] \in chosen <=> Cardinality(better) < MaxItems /\ Chars(better \cup {ranked[k]}) <= MaxChars}

Smaller(m, n) == IF m < n THEN m ELSE n

-----------------------------------------------------------------------------
(* What a call reads.                                                      *)

(* _current_source.                                                        *)
SourceOf(m) == [material |-> m, version |-> version[m]]

(* _chunks without a derivative id: the newest one of that version.        *)
Usable(source) == {d \in DOMAIN derivatives : derivatives[d].material = source.material /\ derivatives[d].version = source.version}
Newest(ds) == {d \in ds : \A e \in ds : e <= d}

(* Normalized for another material, as its locators say.  As faulty: what  *)
(* is kept for a material is taken for its own.                            *)
Foreign_Never(d) == FALSE
Foreign(d) == ~derivatives[d].own /\ derivatives[d].layout # <<>>

(* _stale_exists.                                                          *)
StaleExists(source) ==
  \E d \in DOMAIN derivatives : derivatives[d].material = source.material /\ derivatives[d].version < source.version

NotServing == [at |-> "idle"]

RetrievalInit ==
  /\ version = [m \in Material |-> 1]
  /\ deleted = {}
  /\ \E layouts \in [Material -> Layout] :
       derivatives = [m \in Material |-> [material |-> m, version |-> 1, own |-> TRUE, whole |-> TRUE, layout |-> layouts[m]]]
  /\ damaged = {} /\ updates = 0
  /\ packages = <<>>
  /\ serving = NotServing

library == <<version, deleted, derivatives, damaged, updates>>

-----------------------------------------------------------------------------
(* The library changes meanwhile, MaxUpdate times.                         *)
LibraryChanges == updates < MaxUpdate /\ updates' = updates + 1 /\ UNCHANGED <<packages, serving>>

(* A new version of the source file (LocalIntake.replace).                 *)
ReplaceFile(m) ==
  /\ LibraryChanges /\ m \notin deleted
  /\ version' = [version EXCEPT ![m] = @ + 1]
  /\ UNCHANGED <<deleted, derivatives, damaged>>

(* The intake publishes a derivative, perhaps of a version that has been   *)
(* replaced since, perhaps of one that has a derivative, perhaps one with  *)
(* another material's locators.                                            *)
PublishChunks(m) ==
  /\ LibraryChanges
  /\ \E v \in 1..version[m], layout \in Layout, own, whole \in BOOLEAN :
       derivatives' = Append(derivatives, [material |-> m, version |-> v, own |-> own, whole |-> whole, layout |-> layout])
  /\ UNCHANGED <<version, deleted, damaged>>

(* LibraryApi.delete.                                                      *)
DeleteMaterial(m) ==
  /\ LibraryChanges /\ m \notin deleted
  /\ deleted' = deleted \cup {m}
  /\ UNCHANGED <<version, derivatives, damaged>>

DamageBlob(d) ==
  /\ LibraryChanges /\ d \notin damaged
  /\ damaged' = damaged \cup {d}
  /\ UNCHANGED <<version, deleted, derivatives>>

-----------------------------------------------------------------------------
(* A package of a session's materials.                                     *)

Served(next) == serving' = next /\ UNCHANGED <<library, packages>>

AskPackage(c, kind) ==
  /\ serving = NotServing
  /\ Len(packages) + (IF kind = "windows" THEN MaxWindows ELSE 1) <= MaxPackage
  /\ Served([at |-> "sources", kind |-> kind, caller |-> c, next |-> 1, sources |-> <<>>, read |-> <<>>,
             rest |-> {}, groups |-> <<>>, given |-> 0, warnings |-> {}, floor |-> version, hidden |-> deleted])

(* _session: the current version of one material after another; a hidden   *)
(* one is left out.                                                        *)
ReadSource ==
  /\ serving.at = "sources" /\ serving.next <= Materials
  /\ Served([serving EXCEPT !.next = @ + 1,
                            !.sources = IF serving.next \in deleted THEN @ ELSE Append(@, SourceOf(serving.next))])

(* _collect.                                                               *)
Collect ==
  /\ serving.at = "sources" /\ serving.next = Materials + 1
  /\ Served([serving EXCEPT !.at = "collect", !.next = 1])

Noting(codes) == [serving EXCEPT !.next = @ + 1, !.warnings = @ \cup codes]

CollectOne ==
  /\ serving.at = "collect" /\ serving.next <= Len(serving.sources)
  /\ LET found == Newest(Usable(serving.sources[serving.next]))
     IN \/ found = {} /\ Served([serving EXCEPT !.at = "missing"])
        \/ found \cap damaged # {} /\ Served(Noting({"BLOB_UNAVAILABLE"}))
        \/ \E d \in found \ damaged :
             IF Foreign(d) THEN Served(Noting({"LOCATOR_ENTITY_MISMATCH"}))
             ELSE Served([Noting(IF derivatives[d].whole THEN {} ELSE {"PARTIAL_SOURCE"}) EXCEPT !.read = Append(@, d)])

(* There was no derivative of that version: is there one of an older one?  *)
NoteMissing ==
  /\ serving.at = "missing"
  /\ LET code == IF StaleExists(serving.sources[serving.next]) THEN "STALE_DERIVATIVE" ELSE "NOT_NORMALIZED"
     IN Served([Noting({code}) EXCEPT !.at = "collect"])

Collected(kind) == serving.at = "collect" /\ serving.next = Len(serving.sources) + 1 /\ serving.kind = kind

AllOf(groups) == UNION {groups[g] : g \in DOMAIN groups}

(* What the call will hand out: groups is one package, or the windows.     *)
Issue(groups, codes) == Served([serving EXCEPT !.at = "issue", !.groups = groups, !.warnings = @ \cup codes])

Short(used) == IF used # Candidates THEN {"PARTIAL_CONTEXT"} ELSE {}
Oversize == IF Fitting(Candidates) # Candidates THEN {"OVERSIZE_CHUNK"} ELSE {}

(* _package without a query.                                               *)
SelectInOrder ==
  /\ Collected("context")
  /\ \E selected \in InOrder(Fitting(Candidates), MaxItems) : Issue(<<selected>>, Oversize \cup Short(selected))

(* _package with a query: what scores at all is any set of the items, in   *)
(* any order of preference.                                                *)
SelectByScore ==
  /\ Collected("query")
  /\ LET items == Fitting(Candidates)
     IN \/ \E selected \in InOrder(items, Smaller(MaxItems, Lead)) :
             Issue(<<selected>>, Oversize \cup {"LOW_RELEVANCE"} \cup Short(selected))
        \/ \E scoring \in (SUBSET items) \ {{}} : \E ranked \in Rankings(scoring) : \E selected \in Best(scoring, ranked) :
             Issue(<<selected>>, Oversize \cup Short(selected))

(* _windows: one window after another is cut off the rest.                 *)
BeginWindows ==
  /\ Collected("windows")
  /\ Served([serving EXCEPT !.at = "cut", !.rest = Fitting(Candidates)])

CutWindow ==
  /\ serving.at = "cut" /\ serving.rest # {}
  /\ \E window \in InOrder(serving.rest, MaxItems) :
       Served([serving EXCEPT !.groups = Append(@, window), !.rest = @ \ window])

SourceTrouble ==
  {"PARTIAL_SOURCE", "BLOB_UNAVAILABLE", "STALE_DERIVATIVE", "NOT_NORMALIZED", "LOCATOR_ENTITY_MISMATCH"}
AllCovered(groups) ==
  groups # <<>> /\ AllOf(groups) = Candidates /\ serving.warnings \cap SourceTrouble = {}

IssueWindows ==
  /\ serving.at = "cut" /\ serving.rest = {}
  /\ LET covered == SubSeq(serving.groups, 1, Smaller(Len(serving.groups), MaxWindows))
     IN Issue(covered,
              Oversize \cup Short(AllOf(covered))
              \cup (IF Len(serving.groups) > MaxWindows THEN {"PARTIAL_COVERAGE"} ELSE {})
              \cup (IF covered = <<>> THEN {"NO_EVIDENCE"} ELSE {})
              \cup (IF AllCovered(covered) THEN {"COMPLETE"} ELSE {}))

(* _issue: the capability, then the note of what was packaged; the notes   *)
(* of capabilities that are gone are dropped with it.                      *)
Pin(item) == [material |-> CutFrom(item).material, version |-> CutFrom(item).version,
              derivative |-> serving.read[item[1]], at |-> PieceAt(item).at, part |-> PieceAt(item).part]
CreateCapability ==
  /\ serving.at = "issue" /\ serving.given < Len(serving.groups)
  /\ packages' = Append(packages, [caller |-> serving.caller, alive |-> TRUE, noted |-> FALSE,
                                   pins |-> {Pin(item) : item \in serving.groups[serving.given + 1]}])
  /\ serving' = [serving EXCEPT !.at = "note"]
  /\ UNCHANGED library

NotePackage ==
  /\ serving.at = "note"
  /\ packages' = [k \in DOMAIN packages |->
                    [packages[k] EXCEPT !.noted = k = Len(packages) \/ (packages[k].noted /\ packages[k].alive)]]
  /\ serving' = [serving EXCEPT !.at = "issue", !.given = @ + 1]
  /\ UNCHANGED library

GivePackage ==
  /\ serving.at = "issue" /\ serving.given = Len(serving.groups)
  /\ Served([serving EXCEPT !.at = "answered"])

-----------------------------------------------------------------------------
(* One chunk of a package (get_source_chunk).                              *)

RefuseChunk == Served(NotServing)

AskChunk(c, k, m, at, part) ==
  /\ serving = NotServing
  /\ IF m \in deleted THEN RefuseChunk
     ELSE Served([at |-> "authorize", kind |-> "chunk", caller |-> c, package |-> k,
                  text |-> [material |-> m, version |-> version[m], derivative |-> 0, at |-> at, part |-> part]])

(* MemoryEphemeralStore.authorize_locator: alive, the caller's own, the    *)
(* locator in it, and every entry for it bound to the current version.     *)
Matches == {pin \in packages[serving.package].pins : pin.material = serving.text.material /\ pin.at = serving.text.at}
Authorized ==
  /\ packages[serving.package].alive
  /\ packages[serving.package].caller = serving.caller
  /\ Matches # {} /\ \A pin \in Matches : pin.version = serving.text.version

(* The derivative the package was cut from, if this part was in it.        *)
Packaged == {pin \in Matches : pin.part = serving.text.part /\ packages[serving.package].noted}

AuthorizeChunk ==
  /\ serving.at = "authorize"
  /\ IF ~Authorized \/ Packaged = {} THEN RefuseChunk
     ELSE \E pin \in Packaged : Served([serving EXCEPT !.at = "read", !.text.derivative = pin.derivative])

(* As faulty: the newest derivative is read, not the one packaged.         *)
Pinned_Newest(d) == Newest(Usable(serving.text))
Pinned(d) == {d} \cap Usable(serving.text)

ReadChunk ==
  /\ serving.at = "read"
  /\ LET found == {d \in Pinned(serving.text.derivative) \ damaged :
                     derivatives[d].own /\ \E i \in DOMAIN derivatives[d].layout :
                       derivatives[d].layout[i].at = serving.text.at /\ derivatives[d].layout[i].part = serving.text.part}
     IN IF found = {} THEN RefuseChunk
        ELSE \E d \in found : Served([serving EXCEPT !.at = "answered", !.text.derivative = d])

-----------------------------------------------------------------------------
EndCall == serving.at = "answered" /\ Served(NotServing)

(* Contexts run out in the order they were issued.                         *)
ExpirePackage(k) ==
  /\ packages[k].alive /\ \A j \in 1..k - 1 : ~packages[j].alive
  /\ packages' = [packages EXCEPT ![k].alive = FALSE]
  /\ UNCHANGED <<library, serving>>

RetrievalNext ==
  \/ \E m \in Material : ReplaceFile(m) \/ PublishChunks(m) \/ DeleteMaterial(m)
  \/ \E d \in DOMAIN derivatives : DamageBlob(d)
  \/ \E c \in Caller, kind \in {"context", "query", "windows"} : AskPackage(c, kind)
  \/ ReadSource \/ Collect \/ CollectOne \/ NoteMissing
  \/ SelectInOrder \/ SelectByScore \/ BeginWindows \/ CutWindow \/ IssueWindows
  \/ CreateCapability \/ NotePackage \/ GivePackage
  \/ \E c \in Caller, k \in DOMAIN packages : \E pin \in UNION {packages[j].pins : j \in DOMAIN packages} :
       \E part \in {1, 2} : AskChunk(c, k, pin.material, pin.at, part)
  \/ AuthorizeChunk \/ ReadChunk \/ EndCall
  \/ \E k \in DOMAIN packages : ExpirePackage(k)

RetrievalSpec == RetrievalInit /\ [][RetrievalNext]_retrievalVars

-----------------------------------------------------------------------------
(* What is handed out as a fact is the current text and nothing else: a    *)
(* package holds no piece of a version older than the one that was current *)
(* when the call began, none of a material that was hidden then, and none  *)
(* that was normalized for another material than it is kept for; and a     *)
(* chunk is read only by the session the package was given to, and is the  *)
(* very text that was in it - whatever is published, replaced or expires   *)
(* between two reads of a call.                                            *)
OnlyCurrentText ==
  /\ serving.at = "answered" /\ serving.kind # "chunk" =>
       \A g \in DOMAIN serving.groups : \A item \in serving.groups[g] :
         /\ CutFrom(item).version >= serving.floor[CutFrom(item).material]
         /\ CutFrom(item).material \notin serving.hidden /\ CutFrom(item).own
  /\ serving.at = "answered" /\ serving.kind = "chunk" =>
       packages[serving.package].caller = serving.caller /\ serving.text \in packages[serving.package].pins

GroupsFollow(groups) ==
  \A g, h \in DOMAIN groups : g < h => \A x \in groups[g], y \in groups[h] : Precedes(x, y)

(* Nothing is missing unsaid: a package without a warning - and a set of   *)
(* windows called complete - is the whole text, in order and each piece    *)
(* once, of every material of the session that is not hidden.              *)
NothingMissingUnsaid ==
  (serving.at = "answered" /\ serving.kind # "chunk"
     /\ IF serving.kind = "windows" THEN "COMPLETE" \in serving.warnings ELSE serving.warnings = {}) =>
    /\ \A m \in Material \ deleted : \E s \in DOMAIN serving.sources : serving.sources[s].material = m
    /\ Len(serving.read) = Len(serving.sources)
    /\ \A s \in DOMAIN serving.sources :
         serving.read[s] \in Usable(serving.sources[s]) /\ derivatives[serving.read[s]].whole
    /\ AllOf(serving.groups) = Candidates /\ GroupsFollow(serving.groups)

(* A package says what is there, no more and no less.                      *)
AnswersAreHonest == OnlyCurrentText /\ NothingMissingUnsaid

-----------------------------------------------------------------------------
(* The invariant that makes it so                                          *)

Warnings == SourceTrouble \cup
  {"OVERSIZE_CHUNK", "PARTIAL_CONTEXT", "LOW_RELEVANCE", "PARTIAL_COVERAGE", "NO_EVIDENCE", "COMPLETE"}
Pins == [material : Material, version : Nat, derivative : Nat, at : Nat, part : Nat]
PackageCalls ==
  [at : {"sources", "collect", "missing", "cut", "issue", "note", "answered"}, kind : {"context", "query", "windows"}, caller : Caller,
   next : Nat, sources : Seq([material : Material, version : Nat]), read : Seq(Nat),
   rest : SUBSET (Nat \X Nat), groups : Seq(SUBSET (Nat \X Nat)), given : Nat,
   warnings : SUBSET Warnings, floor : [Material -> Nat], hidden : SUBSET Material]
ChunkCalls == [at : {"authorize", "read", "answered"}, kind : {"chunk"}, caller : Caller, package : Nat, text : Pins]

RetrievalTypeOK ==
  /\ version \in [Material -> Nat] /\ deleted \subseteq Material /\ updates \in Nat
  /\ derivatives \in Seq([material : Material, version : Nat, own : BOOLEAN, whole : BOOLEAN, layout : Layout])
  /\ packages \in Seq([caller : Caller, alive : BOOLEAN, noted : BOOLEAN, pins : SUBSET Pins])
  /\ serving \in {NotServing} \cup PackageCalls \cup ChunkCalls

(* The sources were current when they were read, and as far as the call    *)
(* has come there is one for each material that is not hidden.             *)
SourcesAreCurrent ==
  /\ 0 < serving.next /\ serving.hidden \subseteq deleted /\ \A m \in Material : serving.floor[m] <= version[m]
  /\ \A s \in DOMAIN serving.sources :
       LET source == serving.sources[s]
       IN source.version >= serving.floor[source.material] /\ source.material \notin serving.hidden
  /\ \A m \in Material \ deleted :
       serving.at # "sources" \/ m < serving.next => \E s \in DOMAIN serving.sources : serving.sources[s].material = m

(* What was read is a derivative of a source, and without trouble the      *)
(* whole one of each source so far.                                        *)
ReadsAreUsable ==
  /\ \A k \in DOMAIN serving.read :
       ~Foreign(serving.read[k]) /\ \E s \in DOMAIN serving.sources : serving.read[k] \in Usable(serving.sources[s])
  /\ serving.at = "sources" => serving.read = <<>>
  /\ serving.at = "collect" => serving.next <= Len(serving.sources) + 1
  /\ serving.at = "missing" => serving.next <= Len(serving.sources)
  /\ serving.warnings \cap SourceTrouble = {} =>
       /\ serving.at \in {"collect", "missing"} => Len(serving.read) + 1 = serving.next
       /\ serving.at \notin {"sources", "collect", "missing"} => Len(serving.read) = Len(serving.sources)
       /\ \A k \in DOMAIN serving.read :
            k \in DOMAIN serving.sources /\ serving.read[k] \in Usable(serving.sources[k]) /\ derivatives[serving.read[k]].whole

(* The groups are cut in order from what was read, and without a warning   *)
(* from all of it.                                                         *)
GroupsAreCut ==
  /\ AllOf(serving.groups) \subseteq Candidates /\ GroupsFollow(serving.groups)
  /\ serving.at \in {"sources", "collect", "missing"} => serving.groups = <<>>
  /\ serving.at = "cut" =>
       /\ serving.kind = "windows" /\ serving.rest \subseteq Candidates
       /\ \A g \in DOMAIN serving.groups : \A x \in serving.groups[g], y \in serving.rest : Precedes(x, y)
  /\ serving.at \in {"sources", "collect", "missing", "cut"} => "COMPLETE" \notin serving.warnings
  /\ serving.at \in {"issue", "note", "answered"}
       /\ (IF serving.kind = "windows" THEN "COMPLETE" \in serving.warnings ELSE serving.warnings = {}) =>
       AllOf(serving.groups) = Candidates /\ serving.warnings \cap SourceTrouble = {}

(* A chunk that was authorized is a pin of the caller's own package.       *)
ChunkIsPinned ==
  /\ serving.package \in DOMAIN packages
  /\ serving.at # "authorize" =>
       packages[serving.package].caller = serving.caller /\ serving.text \in packages[serving.package].pins

RetrievalInv ==
  /\ RetrievalTypeOK
  /\ serving \in PackageCalls => SourcesAreCurrent /\ ReadsAreUsable /\ GroupsAreCut
  /\ serving \in ChunkCalls => ChunkIsPinned

=============================================================================
