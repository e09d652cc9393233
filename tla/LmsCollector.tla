----------------------------- MODULE LmsCollector -----------------------------
(***************************************************************************)
(* Collecting the courses of a semester from Canvas                        *)
(* (scripts/knu_lms_probe.py: run_registry_api, run_probe,                 *)
(* fetch_paginated, CanvasClient) and accepting what was collected         *)
(* (scripts/knu_lms_sync.py: collect_semester_api,                         *)
(* validate_semester_snapshot, validate_snapshot).                         *)
(*                                                                         *)
(* A list is read page by page while teachers add and delete entries.  A   *)
(* page is a slice of the list as it is at that moment, so an addition     *)
(* moves entries to a later page and a deletion to an earlier one.  Time   *)
(* passes only as far as the two deadlines tell it apart, and the caps on  *)
(* pages and entries are small numbers.                                    *)
(*                                                                         *)
(* What is abstracted.  An entry is its id; what its sanitizer thinks of   *)
(* it is fixed: good, incomplete (a module whose nested items Canvas       *)
(* counts otherwise than it lists them) or invalid.  Texts, dates and URLs *)
(* are left out, and so are the three kinds of lists but for their order.  *)
(***************************************************************************)
EXTENDS Naturals, Sequences, FiniteSets, SequencesExt

CONSTANTS
  Semester,       \* the academic courses of the registry, in its order
  Resource,       \* the lists of a course, in the order they are read
  Entry,          \* ids of entries
  Incomplete,     \* those a sanitizer reports as incomplete
  PerPage, MaxPages, MaxItems,
  RunTicks,       \* MAX_RUN_SECONDS
  SemesterTicks,  \* MAX_SEMESTER_RUN_SECONDS
  MaxTime,        \* bound on the clock
  MaxTeaching     \* bound on what teachers change

\* A registry that names a course twice is refused, and so is one without courses.
ASSUME CollectorAssumption ==
  /\ Semester \in Seq(Range(Semester)) /\ Semester # <<>> /\ IsInjective(Semester)
  /\ Resource \in Seq(Range(Resource)) /\ Resource # <<>> /\ IsInjective(Resource)
  /\ IsFiniteSet(Entry) /\ PerPage \in Nat \ {0} /\ RunTicks \in Nat /\ SemesterTicks \in Nat

VARIABLES
  canvas,  \* the lists on the server
  edits,   \* changes made to them
  now,
  ours,    \* the reservation is still the collection's
  run,     \* where the collection is
  raw,     \* what it has of each course
  stayed,  \* entries of each list it read that were there all along
  result   \* what validation made of it

collectorVars == <<canvas, edits, now, ours, run, raw, stayed, result>>

-----------------------------------------------------------------------------
Courses == Range(Semester)
Resources == Range(Resource)

Nothing == [r \in Resources |-> <<>>]
NoCollection == [at |-> "idle", course |-> 0, list |-> 0, page |-> 0, items |-> <<>>, until |-> 0, limit |-> 0]
NoRaw == [status |-> "missing", lists |-> Nothing]
NoResult == [status |-> "none", complete |-> {}]

TheCourse == Semester[run.course]
TheResource == Resource[run.list]
Present(c, r) == Range(canvas[c][r])

CollectorInit ==
  /\ canvas \in [Courses -> [Resources -> { SetToSeq(S) : S \in SUBSET Entry }]]
  /\ edits = 0 /\ now = 0 /\ ours = TRUE
  /\ run = NoCollection
  /\ raw = [c \in Courses |-> NoRaw]
  /\ stayed = [c \in Courses |-> [r \in Resources |-> {}]]
  /\ result = NoResult

-----------------------------------------------------------------------------
(* Canvas, the clock and the keeper of the reservation *)

Edited(c, r, list) ==
  /\ edits < MaxTeaching /\ edits' = edits + 1
  /\ canvas' = [canvas EXCEPT ![c][r] = list]
  /\ UNCHANGED <<now, ours, run, raw, result>>

Add(c, r, e, i) ==
  /\ e \notin Present(c, r)
  /\ Edited(c, r, InsertAt(canvas[c][r], i, e))
  /\ UNCHANGED stayed

\* A deletion in the list that is being read may hide entries from the reader.
Delete(c, r, i) ==
  /\ Edited(c, r, RemoveAt(canvas[c][r], i))
  /\ stayed' = IF run.at = "page" /\ c = TheCourse /\ r = TheResource
                 THEN [stayed EXCEPT ![c][r] = {}] ELSE stayed

Tick ==
  /\ now < MaxTime /\ now' = now + 1
  /\ UNCHANGED <<canvas, edits, ours, run, raw, stayed, result>>

LoseReservation ==
  /\ ours /\ ours' = FALSE
  /\ UNCHANGED <<canvas, edits, now, run, raw, stayed, result>>

-----------------------------------------------------------------------------
(* run_registry_api: course by course until the semester's deadline         *)

Least(a, b) == IF a < b THEN a ELSE b

CollectionBegin ==
  /\ run.at = "idle" /\ result = NoResult /\ ours
  /\ run' = [NoCollection EXCEPT !.at = "course", !.course = 1, !.limit = now + SemesterTicks]
  /\ UNCHANGED <<canvas, edits, now, ours, raw, stayed, result>>

\* A course is done with, and the next one's turn.
Settled(course) ==
  /\ raw' = [raw EXCEPT ![TheCourse] = course]
  /\ run' = IF run.course < Len(Semester)
              THEN [NoCollection EXCEPT !.at = "course", !.course = run.course + 1, !.limit = run.limit]
              ELSE [NoCollection EXCEPT !.at = "after"]
  /\ UNCHANGED <<canvas, edits, now, ours, result>>

Without(status) == Settled([NoRaw EXCEPT !.status = status]) /\ UNCHANGED stayed

CourseTooLate == run.at = "course" /\ now >= run.limit /\ Without("partial")

CourseBegin ==
  /\ run.at = "course" /\ now < run.limit
  /\ run' = [run EXCEPT !.at = "identity", !.until = Least(now + RunTicks, run.limit)]
  /\ UNCHANGED <<canvas, edits, now, ours, raw, stayed, result>>

-----------------------------------------------------------------------------
(* run_probe: the course itself, then its lists                             *)

Asking == run.at \in {"identity", "page"}
Expired == now >= run.until

ListBegin(i) ==
  /\ run' = [run EXCEPT !.at = "page", !.list = i, !.page = 1, !.items = <<>>]
  /\ stayed' = [stayed EXCEPT ![TheCourse][Resource[i]] = Present(TheCourse, Resource[i])]
  /\ UNCHANGED <<canvas, edits, now, ours, result>>

CourseVerified == run.at = "identity" /\ ~Expired /\ ListBegin(1) /\ UNCHANGED raw

\* CanvasClient gives up at the deadline or when a socket times out; any other error, an
\* answer, a redirect, a next link that leads elsewhere, another course, an entry that is
\* invalid, fails the course.  (An error status for a list counts as partial.)
GetTimesOut == Asking /\ Without("partial")
GetFails ==
  /\ Asking /\ ~Expired
  /\ \E status \in {"failed", "partial"} : Without(status)

\* The page the server sends now, and whether it names a next one.
Page(list) == SubSeq(list, (run.page - 1) * PerPage + 1, Least(run.page * PerPage, Len(list)))
HasNext_Capped(list) == run.page < MaxPages /\ Len(list) > run.page * PerPage
HasNext(list) == Len(list) > run.page * PerPage

\* The cap on entries, or one that its sanitizer reports incomplete.
Stops(page) == Len(run.items) + Len(page) > MaxItems \/ Range(page) \cap Incomplete # {}

\* fetch_paginated, one page.
PageStops(list) ==
  /\ Stops(Page(list)) \/ (HasNext(list) /\ run.page >= MaxPages)
  /\ Without("partial")

PageMore(list) ==
  /\ ~Stops(Page(list)) /\ HasNext(list) /\ run.page < MaxPages
  /\ run' = [run EXCEPT !.page = @ + 1, !.items = @ \o Page(list)]
  /\ UNCHANGED <<canvas, edits, now, ours, raw, stayed, result>>

PageLast(list) ==
  /\ ~Stops(Page(list)) /\ ~HasNext(list)
  /\ LET lists == [raw[TheCourse].lists EXCEPT ![TheResource] = run.items \o Page(list)] IN
     IF run.list < Len(Resource)
       THEN raw' = [raw EXCEPT ![TheCourse].lists = lists] /\ ListBegin(run.list + 1)
       ELSE Settled([status |-> "complete", lists |-> lists]) /\ UNCHANGED stayed

GetPage ==
  /\ run.at = "page" /\ ~Expired
  /\ LET list == canvas[TheCourse][TheResource] IN PageStops(list) \/ PageMore(list) \/ PageLast(list)

-----------------------------------------------------------------------------
(* collect_semester_api: what was collected counts when the reservation is  *)
(* still the collection's, and a course when its lists name nothing twice   *)

Valid(course) == course.status = "complete" /\ \A r \in Resources : IsInjective(course.lists[r])

Validate ==
  /\ run.at = "after" /\ ours
  /\ LET complete == { c \in Courses : Valid(raw[c]) } IN
     result' = [status |-> IF complete = Courses THEN "complete" ELSE "incomplete", complete |-> complete]
  /\ run' = NoCollection
  /\ UNCHANGED <<canvas, edits, now, ours, raw, stayed>>

CollectFails ==
  /\ run.at # "idle" /\ ~ours
  /\ run' = [NoCollection EXCEPT !.at = "failed"]
  /\ UNCHANGED <<canvas, edits, now, ours, raw, stayed, result>>

-----------------------------------------------------------------------------
Teach ==
  \E c \in Courses, r \in Resources :
    \/ \E e \in Entry, i \in 1 .. Len(canvas[c][r]) + 1 : Add(c, r, e, i)
    \/ \E i \in 1 .. Len(canvas[c][r]) : Delete(c, r, i)

CollectorNext ==
  \/ CollectionBegin \/ CourseTooLate \/ CourseBegin \/ CourseVerified \/ GetTimesOut \/ GetFails \/ GetPage
  \/ Validate \/ CollectFails
  \/ Teach \/ Tick \/ LoseReservation

CollectorSpec == CollectorInit /\ [][CollectorNext]_collectorVars

-----------------------------------------------------------------------------
(* Why a complete course is whole: the invariant of the proof *)

Walks == [at : {"idle", "course", "identity", "page", "after", "failed"}, course : Nat, list : Nat,
          page : Nat, items : Seq(Entry), until : Nat, limit : Nat]
Collections == [status : {"missing", "partial", "failed", "complete"}, lists : [Resources -> Seq(Entry)]]

CollectorTypeOK ==
  /\ canvas \in [Courses -> [Resources -> Seq(Entry)]]
  /\ now \in Nat
  /\ run \in Walks
  /\ run.at \in {"course", "identity", "page"} => run.course \in DOMAIN Semester
  /\ run.at = "page" => run.list \in DOMAIN Resource /\ run.page # 0
  /\ raw \in [Courses -> Collections]
  /\ stayed \in [Courses -> [Resources -> SUBSET Entry]]

\* The courses whose turn has not come have nothing.
NotYet ==
  \A j \in DOMAIN Semester :
    \/ run.at = "idle" /\ result = NoResult
    \/ run.at \in {"course", "identity", "page"} /\ j >= run.course
    => raw[Semester[j]].status = "missing"

\* Every entry that stayed was read, or is ahead of the reader.
WasRead(c, r) == stayed[c][r] \subseteq Range(raw[c].lists[r])

ReadOrAhead ==
  LET list == canvas[TheCourse][TheResource] IN
  \A e \in stayed[TheCourse][TheResource] :
    e \in Range(run.items) \/ \E p \in DOMAIN list : p > (run.page - 1) * PerPage /\ list[p] = e

NoneSkipped ==
  /\ \A c \in Courses, r \in Resources : raw[c].status = "complete" => WasRead(c, r)
  /\ run.at = "page" => ReadOrAhead /\ \A i \in 1 .. run.list - 1 : WasRead(TheCourse, Resource[i])

\* Once validated, nothing is collected any more.
ValidatedOK ==
  /\ result.complete \subseteq { c \in Courses : Valid(raw[c]) }
  /\ result # NoResult => run.at = "idle"

CollectorInv == CollectorTypeOK /\ NotYet /\ NoneSkipped /\ ValidatedOK

-----------------------------------------------------------------------------
(* Properties *)

\* A course that counts as complete has every entry of each of its lists that was there
\* when the reading of the list began and stayed, and has it once, although entries are
\* added in front of the reader, pages and entries are capped and time runs out.  (After
\* a deletion in a list that is being read nothing is promised: the reader cannot see
\* that a page has moved up.)
CollectedIsWhole ==
  \A c \in result.complete, r \in Resources :
    /\ stayed[c][r] \subseteq Range(raw[c].lists[r])
    /\ IsInjective(raw[c].lists[r])

=============================================================================
