---------------------------- MODULE LmsProjection ----------------------------
(***************************************************************************)
(* What is made of a collected course in Notion (scripts/knu_lms_sync.py:  *)
(* build_semester_projection, build_projection, _row_plan,                 *)
(* _announcement_projection, _course_page_plan, the first adoption of a    *)
(* course page, decide_notification, bind_bootstrap).                      *)
(*                                                                         *)
(* These functions are pure.  What calls them is a driver outside the      *)
(* repository's code (docs/plans/knu-lms-hourly-driver.md): it reads       *)
(* Notion, asks for a plan, writes an intent in front of each change,      *)
(* verifies what it did and only then publishes it as accepted, which is   *)
(* what the next plan is compared with.  The driver may die anywhere and   *)
(* its calls may time out with or without effect, and meanwhile a user     *)
(* edits rows, the page and their own notes.                               *)
(*                                                                         *)
(* What is abstracted.  One course; the source fields of a row are one     *)
(* value beside key and title; the managed region of a page is the set of  *)
(* announcements it shows, and "edited" when the user wrote into it.       *)
(* Hashes are what they are hashes of.  Modules, dates and views are left  *)
(* out.                                                                    *)
(***************************************************************************)
EXTENDS Naturals, FiniteSets, Functions

CONSTANTS
  Key,       \* assignments
  Value,     \* what the source fields of a row may say
  Notice,    \* announcements
  Absent,    \* no value, no key, no region
  MaxRows, MaxRuns, MaxEdits, MaxChanges

ASSUME ProjectionAssumption == Absent \notin Key \cup Value /\ MaxRows \in Nat

VARIABLES
  registry,  \* the registry, by what is bound in it
  lms,       \* the course as it is in the LMS
  rows,      \* rows of the datasource by id: key, title, source fields
  page,      \* the course page
  accepted,  \* what the driver published: rows by id, announcements, region
  intents,   \* changes it wrote down and has not accepted
  round,     \* where the driver is
  told,      \* the notification state, the last result, and whether the user heard of it
  done,      \* counters: runs, edits, changes of the LMS
  lost       \* something was taken away that the readback had shown

projectionVars == <<registry, lms, rows, page, accepted, intents, round, told, done, lost>>

-----------------------------------------------------------------------------
NoRegion == [notices |-> {}, edited |-> FALSE, there |-> FALSE]
Region(S) == [notices |-> S, edited |-> FALSE, there |-> TRUE]
NoRun == [at |-> "idle", registry |-> 0, snapshot |-> Absent, todo |-> {}, doing |-> {}, made |-> {}, body |-> 0, seen |-> {}, result |-> {}]
Untold == [sig |-> [kind |-> "none", ops |-> {}], result |-> {}, heard |-> TRUE]

ProjectionInit ==
  /\ registry = 0
  /\ lms \in [work : [Key -> Value \cup {Absent}], notices : SUBSET Notice]
  /\ rows = << >> /\ intents = {} /\ round = NoRun /\ told = Untold
  /\ page = [region |-> NoRegion, body |-> 0, comments |-> FALSE]
  /\ accepted = [rows |-> << >>, notices |-> {}, region |-> NoRegion]
  /\ done = [runs |-> 0, edits |-> 0, changes |-> 0]
  /\ lost = FALSE

-----------------------------------------------------------------------------
(* The LMS, the user in Notion, and the operator who binds a course *)

\* bind_bootstrap: the registry has another hash from then on.
Bind ==
  /\ registry = 0 /\ registry' = 1
  /\ UNCHANGED <<lms, rows, page, accepted, intents, round, told, done, lost>>

LmsChanges ==
  /\ done.changes < MaxChanges /\ done' = [done EXCEPT !.changes = @ + 1]
  /\ \/ \E k \in Key, v \in Value \cup {Absent} : lms' = [lms EXCEPT !.work[k] = v]
     \/ \E S \in SUBSET Notice : lms' = [lms EXCEPT !.notices = S]
  /\ UNCHANGED <<registry, rows, page, accepted, intents, round, told, lost>>

Edit(row) ==
  { [row EXCEPT !.value = v] : v \in Value \ {row.value} }
    \cup {[row EXCEPT !.key = Absent], [row EXCEPT !.titled = FALSE]}

UserEditsRow ==
  /\ \E id \in DOMAIN rows :
       /\ \/ \E row \in Edit(rows[id]) : rows' = [rows EXCEPT ![id] = row]
          \/ rows' = Restrict(rows, DOMAIN rows \ {id})
       /\ round' = [round EXCEPT !.seen = @ \ {id}]
  /\ UNCHANGED page

UserEditsPage ==
  /\ \/ page.region.there /\ page' = [page EXCEPT !.region.edited = TRUE]
     \/ page' = [page EXCEPT !.body = @ + 1]
     \/ page' = [page EXCEPT !.comments = ~@]
  /\ round' = [round EXCEPT !.seen = @ \ {0}]
  /\ UNCHANGED rows

User ==
  /\ done.edits < MaxEdits /\ done' = [done EXCEPT !.edits = @ + 1]
  /\ UserEditsRow \/ UserEditsPage
  /\ UNCHANGED <<registry, lms, accepted, intents, told, lost>>

-----------------------------------------------------------------------------
(* The projection *)

Exact(k) == { id \in DOMAIN rows : rows[id].key = k }
Bound == { accepted.rows[id].key : id \in DOMAIN accepted.rows }

\* Without a key, a row that has the title of an assignment might be its row.
Nameless(k) == { id \in DOMAIN rows : rows[id].key = Absent /\ rows[id].title = k /\ rows[id].titled }

Op(op, k, id, value) == [op |-> op, key |-> k, id |-> id, value |-> value, region |-> NoRegion]

\* A row that does not say any more what was applied last is the user's.
IsEdited_Never(id) == FALSE
IsEdited(id) ==
  id \notin DOMAIN accepted.rows
    \/ [key |-> rows[id].key, value |-> rows[id].value, titled |-> rows[id].titled] # accepted.rows[id]

RowPlan(k, value) ==
  CASE Cardinality(Exact(k)) > 1 -> Op("conflict", k, 0, value)
    [] Cardinality(Exact(k)) = 1 ->
         LET id == CHOOSE i \in Exact(k) : TRUE IN
         IF IsEdited(id) THEN Op("conflict", k, id, value)
         ELSE IF rows[id].value = value THEN Op("noop", k, id, value) ELSE Op("update", k, id, value)
    [] Exact(k) = {} -> Op(IF k \in Bound \/ Nameless(k) # {} THEN "conflict" ELSE "create", k, 0, value)

\* Announcements outlive the window they are collected in.
Announcements(snapshot) == snapshot.notices \cup accepted.notices

PageOp(op, S) == [Op(op, Absent, 0, Absent) EXCEPT !.region = Region(S)]

PagePlan(S) ==
  IF page.comments \/ ~accepted.region.there \/ page.region # accepted.region THEN PageOp("conflict", S)
  ELSE PageOp(IF accepted.region = Region(S) THEN "noop" ELSE "replace", S)

Plan(snapshot) ==
  { RowPlan(k, snapshot.work[k]) : k \in { j \in Key : snapshot.work[j] # Absent } }
    \cup {PagePlan(Announcements(snapshot))}

Conflicts(plan) == { o \in plan : o.op = "conflict" }

-----------------------------------------------------------------------------
(* decide_notification: what is told of a result, and when it is told again  *)

Changes(plan) == { o \in plan : o.op # "noop" }
Signature(plan) ==
  [kind |-> IF Conflicts(plan) = {} THEN "change" ELSE "failure", ops |-> { o.op : o \in Changes(plan) }]

\* A result of nothing but noops is not told and leaves the state as it is.
Tell(plan) ==
  told' = IF Changes(plan) = {} THEN told
          ELSE [sig |-> Signature(plan), result |-> Changes(plan),
                heard |-> Signature(plan) # told.sig \/ Changes(plan) = told.result \/ Conflicts(plan) # {}]

-----------------------------------------------------------------------------
(* The driver *)

CollectCourse ==
  /\ round.at = "idle" /\ done.runs < MaxRuns
  /\ done' = [done EXCEPT !.runs = @ + 1]
  /\ round' = [NoRun EXCEPT !.at = "collected", !.registry = registry, !.snapshot = lms]
  /\ UNCHANGED <<registry, lms, rows, page, accepted, intents, told, lost>>

\* The readback and the plan made of it.  A conflict stops everything.
Project ==
  /\ round.at = "collected" /\ round.registry = registry
  /\ LET plan == Plan(round.snapshot) IN
     /\ round' = IF Conflicts(plan) = {}
                 THEN [round EXCEPT !.at = "apply", !.todo = Changes(plan), !.result = plan, !.seen = DOMAIN rows \cup {0}]
                 ELSE NoRun
     /\ IF Conflicts(plan) = {} THEN UNCHANGED told ELSE Tell(plan)
  /\ UNCHANGED <<registry, lms, rows, page, accepted, intents, done, lost>>

\* A snapshot of another registry is refused.
Refuse ==
  /\ round.at = "collected" /\ round.registry # registry
  /\ round' = NoRun
  /\ UNCHANGED <<registry, lms, rows, page, accepted, intents, told, done, lost>>

\* build_course_page_bootstrap_plan: a page that is bound and was never managed.
Adopt ==
  /\ round.at = "collected"
  /\ ~accepted.region.there /\ ~page.region.there /\ ~page.comments
  /\ round' = [round EXCEPT !.at = "apply", !.body = page.body, !.seen = DOMAIN rows \cup {0},
               !.todo = {PageOp("append", Announcements(round.snapshot))}]
  /\ UNCHANGED <<registry, lms, rows, page, accepted, intents, told, done, lost>>

Intend(o) ==
  /\ round.at = "apply" /\ round.doing = {} /\ o \in round.todo
  /\ o.op = "create" => ~\E i \in intents : i.key = o.key
  /\ intents' = intents \cup {o}
  /\ round' = [round EXCEPT !.doing = {o}, !.todo = @ \ {o}]
  /\ UNCHANGED <<registry, lms, rows, page, accepted, told, done, lost>>

\* The user has made something of the row that it never said before.
IsTheirs(id) ==
  LET row == rows[id] IN
  row.key = Absent \/ ~row.titled \/ (row.value # row.wrote /\ (id \in DOMAIN accepted.rows => row.value # accepted.rows[id].value))

\* An effect takes something away that the readback had shown: a user's edit of a row or of
\* the region, a user's deletion of a row, an announcement the page has shown.
TakesAway(o) ==
  \/ o.op = "create" /\ o.key \in Bound
  \/ o.op = "update" /\ IsTheirs(o.id) /\ o.id \in round.seen
  \/ /\ o.op \in {"replace", "append"} /\ 0 \in round.seen
     /\ page.region.edited \/ ~(page.region.notices \subseteq o.region.notices)

\* Notion gives a row an id that no row has had.
Fresh == 1 .. MaxRows \ (DOMAIN rows \cup DOMAIN accepted.rows)

Effect(o) ==
  \/ /\ o.op = "create" /\ Fresh # {}
     /\ LET id == CHOOSE i \in Fresh : TRUE IN
        rows' = [i \in DOMAIN rows \cup {id} |->
                   IF i = id THEN [key |-> o.key, title |-> o.key, titled |-> TRUE, value |-> o.value, wrote |-> o.value]
                   ELSE rows[i]]
     /\ UNCHANGED page
  \/ /\ o.op = "update" /\ o.id \in DOMAIN rows
     /\ rows' = [rows EXCEPT ![o.id] = [key |-> o.key, title |-> @.title, titled |-> TRUE, value |-> o.value, wrote |-> o.value]]
     /\ UNCHANGED page
  \/ /\ o.op \in {"replace", "append"}
     /\ page' = [page EXCEPT !.region = o.region]
     /\ UNCHANGED rows

Dispatch ==
  /\ round.at = "apply"
  /\ \E o \in round.doing :
       /\ Effect(o) /\ lost' = (lost \/ TakesAway(o))
       /\ round' = [round EXCEPT !.doing = {}, !.made = @ \cup {o}]
  /\ UNCHANGED <<registry, lms, accepted, intents, told, done>>

\* A call times out, or the driver dies: the intent stays.
Lose(o) ==
  /\ (Effect(o) /\ lost' = (lost \/ TakesAway(o))) \/ UNCHANGED <<rows, page, lost>>
  /\ round' = NoRun

Uncertain ==
  /\ round.at = "apply" /\ \E o \in round.doing : Lose(o)
  /\ UNCHANGED <<registry, lms, accepted, intents, told, done>>

DriverDies ==
  /\ round.at # "idle" /\ round' = NoRun
  /\ UNCHANGED <<registry, lms, rows, page, accepted, intents, told, done, lost>>

\* What a fresh reading must show of a change before it counts.
IsThere(o) ==
  CASE o.op \in {"create", "update"} ->
         \E id \in DOMAIN rows :
           Exact(o.key) = {id} /\ rows[id].value = o.value /\ rows[id].titled /\ (o.op = "create" \/ id = o.id)
    [] o.op = "replace" -> page.region = o.region
    \* verify_course_page_bootstrap: around the region nothing has changed.
    [] o.op = "append" -> page.region = o.region /\ page.body = round.body /\ ~page.comments

Published(made) ==
  [rows |-> [id \in DOMAIN accepted.rows \cup { i \in DOMAIN rows : \E o \in made : o.key # Absent /\ o.key = rows[i].key } |->
               IF \E o \in made : o.key # Absent /\ id \in Exact(o.key)
                 THEN [key |-> rows[id].key, value |-> rows[id].value, titled |-> TRUE] ELSE accepted.rows[id]],
   notices |-> Announcements(round.snapshot),
   region |-> IF \E o \in made : o.op \in {"replace", "append"} THEN page.region ELSE accepted.region]

Verify ==
  /\ round.at = "apply" /\ round.todo = {} /\ round.doing = {}
  /\ IF \A o \in round.made : IsThere(o)
       THEN /\ accepted' = Published(round.made)
            /\ intents' = intents \ round.made
            /\ Tell(round.result)
       ELSE UNCHANGED <<accepted, intents, told>>
  /\ round' = NoRun
  /\ UNCHANGED <<registry, lms, rows, page, done, lost>>

-----------------------------------------------------------------------------
ProjectionNext ==
  \/ LmsChanges \/ User \/ Bind
  \/ CollectCourse \/ Project \/ Refuse \/ Adopt \/ (\E o \in round.todo : Intend(o)) \/ Dispatch \/ Uncertain \/ DriverDies \/ Verify

ProjectionSpec == ProjectionInit /\ [][ProjectionNext]_projectionVars

-----------------------------------------------------------------------------
(* Why nothing is taken away: the invariant of the proof                    *)

Regions == [notices : SUBSET Notice, edited : BOOLEAN, there : BOOLEAN]
Snapshots == [work : [Key -> Value \cup {Absent}], notices : SUBSET Notice]
PageRows == [key : Key \cup {Absent}, title : Key, titled : BOOLEAN, value : Value, wrote : Value]
AcceptedRows == [key : Key, value : Value, titled : {TRUE}]
RowOps == {"create", "update"}
PageOps == {"replace", "append"}
Ops == [op : RowOps \cup PageOps \cup {"noop", "conflict"}, key : Key \cup {Absent}, id : Nat,
        value : Value \cup {Absent}, region : Regions]
Rounds == [at : {"idle", "collected", "apply"}, registry : {0, 1}, snapshot : Snapshots \cup {Absent},
           todo : SUBSET Ops, doing : SUBSET Ops, made : SUBSET Ops, body : Nat, seen : SUBSET Nat, result : SUBSET Ops]

NotionTypeOK ==
  /\ DOMAIN rows \subseteq Nat /\ rows \in [DOMAIN rows -> PageRows]
  /\ page \in [region : Regions, body : Nat, comments : BOOLEAN]
  /\ accepted.rows \in [DOMAIN accepted.rows -> AcceptedRows]
  /\ accepted.notices \subseteq Notice /\ accepted.region \in Regions

ProjectionTypeOK ==
  /\ registry \in {0, 1} /\ lms \in Snapshots /\ lost \in BOOLEAN
  /\ NotionTypeOK
  /\ round \in Rounds /\ (round.at # "idle" => round.snapshot \in Snapshots)

\* A key is in one row only; the user can take it from there, but gives it to no other.
KeysOnce ==
  \A i, j \in DOMAIN rows : rows[i].key = rows[j].key /\ rows[i].key # Absent => i = j

\* What was accepted of a page is what the driver wrote there, and it said no more than the
\* announcements accepted since; a page without a region shows nothing.
RegionsOK ==
  /\ ~accepted.region.edited /\ accepted.region.notices \subseteq accepted.notices
  /\ page.region.there \/ page.region = NoRegion

\* What is left to do changes one thing each, and is none of what is being done.
Left == round.todo \cup round.doing
OneEach ==
  /\ \A o, p \in Left : o.key = p.key => o = p
  /\ round.todo \cap round.doing = {}
  /\ round.at # "apply" => Left = {} /\ round.made = {}

\* A row as it was accepted.
AsAccepted(id) ==
  /\ id \in DOMAIN rows /\ id \in DOMAIN accepted.rows
  /\ rows[id].key = accepted.rows[id].key /\ rows[id].value = accepted.rows[id].value /\ rows[id].titled

\* What the plan was made for is still so, as far as the driver has seen it.
CreateDue(o) == o.key \notin Bound /\ Exact(o.key) = {}
UpdateDue(o) ==
  /\ Exact(o.key) \subseteq {o.id}
  /\ o.id \in round.seen => AsAccepted(o.id) /\ rows[o.id].key = o.key
PageDue(o) == 0 \in round.seen => ~page.region.edited /\ page.region.notices \subseteq o.region.notices

StillDue ==
  \A o \in Left :
    /\ o.op \in RowOps => o.key \in Key /\ o.value \in Value
    /\ o.op \in PageOps => o.key = Absent /\ PageDue(o)
    /\ o.op = "create" => CreateDue(o)
    /\ o.op = "update" => UpdateDue(o)

\* A page is written with all announcements of the plan.
PageSaysAll ==
  \A o \in Left \cup round.made : o.op \in PageOps => o.region = Region(Announcements(round.snapshot))

ProjectionInv ==
  /\ ProjectionTypeOK /\ KeysOnce /\ RegionsOK /\ OneEach /\ StillDue /\ PageSaysAll
  /\ ~lost

-----------------------------------------------------------------------------
(* Properties *)

\* However the driver dies, calls are lost and the user edits: an assignment never has two
\* rows, and the driver takes nothing away that its readback had shown it, neither what
\* the user made of a row or of the region, nor a deletion, nor an announcement that has
\* left the window.  (An edit made after the readback may be overwritten, Notion has no
\* compare-and-swap; and so may one that takes a row back to what was accepted last, when
\* the driver died before it accepted what it had written.)
NothingIsTakenAway ==
  ~lost /\ \A k \in Key : Cardinality(Exact(k)) <= 1

\* docs/plans/knu-lms-hourly-driver.md: a changed actionable result produces notify=true.
ChangesAreTold == told.heard

=============================================================================
