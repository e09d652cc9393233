--------------------------- MODULE CanvasDiscovery ---------------------------
(***************************************************************************)
(* The bounded reads of a user's courses (canvas/http.py):                 *)
(* discover_canvas_courses reads the listing of active courses page by     *)
(* page, admitted by CanvasDiscoveryGate one at a time for a profile, and  *)
(* reread_canvas_courses reads chosen courses one by one.  Threads run     *)
(* both at the same time while Canvas changes.                             *)
(*                                                                         *)
(* What is abstracted.  A course is its id and its term; a link to the     *)
(* next page is right, or the answer counts as a refused one.  A discovery *)
(* verifies the user first, or leaves that to its caller, as the settings  *)
(* do.                                                                     *)
(* An answer that fails, for whatever code, ends the call.                 *)
(***************************************************************************)
EXTENDS Naturals, Sequences, FiniteSets

CONSTANTS
  Thread, Profile, ListedCourse, Term, NoTerm,
  PageSize, MaxPages, MaxCourses,  \* per_page, MAX_DISCOVERY_PAGES, MAX_DISCOVERY_COURSES
  MaxSelected,                     \* MAX_SELECTED_COURSES
  Choice,                          \* the sequences of courses that are asked for
  Cooldown,                        \* of the gate
  RequestTime, DiscoveryTime,      \* REQUEST_TIMEOUT_SECONDS, DISCOVERY_TIMEOUT_SECONDS
  MaxTime, MaxChange               \* bounds

(* The limits are positive numbers, and what is asked for is a list of ids. *)
ASSUME DiscoveryAssumption ==
  /\ IsFiniteSet(ListedCourse) /\ NoTerm \notin Term
  /\ PageSize \in Nat \ {0} /\ MaxPages \in Nat \ {0} /\ MaxCourses \in Nat \ {0}
  /\ MaxSelected \in Nat /\ Choice \subseteq Seq(ListedCourse)
  /\ Cooldown \in Nat /\ RequestTime \in Nat /\ DiscoveryTime \in Nat
  /\ MaxTime \in Nat /\ MaxChange \in Nat

VARIABLES
  now,
  listing,   \* Canvas: the active courses, in the order of the listing,
  termOf,    \*   and the term of every course
  changes,
  active,    \* the gate: _active,
  finished,  \*   _finished
  ended,     \* when a discovery of each profile ended last, whether it is still known or not
  act        \* what each thread does; of a call also what Canvas showed since
             \* it began (seen), and whether that has changed (kept)
discoveryVars == <<now, listing, termOf, changes, active, finished, ended, act>>

canvas == <<listing, termOf, changes>>
gate == <<active, finished, ended>>

Idle == [at |-> "idle"]
Calling == {t \in Thread : act[t].at \in {"send", "recv"}}
Discovering == {t \in Calling : act[t].op = "discover"}

(* The courses with the terms they have now.                               *)
Shown == {<<c, termOf[c]>> : c \in ListedCourse}

DiscoveryInit ==
  /\ now = 0
  /\ listing \in {s \in UNION {[1 .. n -> ListedCourse] : n \in 0 .. Cardinality(ListedCourse)} :
                    \A i, j \in DOMAIN s : s[i] = s[j] => i = j}
  /\ termOf \in [ListedCourse -> Term] /\ changes = 0
  /\ active = {} /\ finished = [p \in {} |-> 0] /\ ended = [p \in {} |-> 0]
  /\ act = [t \in Thread |-> Idle]

-----------------------------------------------------------------------------
(* Canvas and time                                                         *)

Without(i) == SubSeq(listing, 1, i - 1) \o SubSeq(listing, i + 1, Len(listing))

(* A course ends, or starts as the first of the listing, or gets another   *)
(* term.                                                                   *)
Edit(c, term) ==
  /\ changes < MaxChange
  /\ changes' = changes + 1
  /\ \/ \E i \in DOMAIN listing : listing[i] = c /\ listing' = Without(i) /\ UNCHANGED termOf
     \/ (\A i \in DOMAIN listing : listing[i] # c) /\ listing' = <<c>> \o listing /\ UNCHANGED termOf
     \/ term # termOf[c] /\ termOf' = [termOf EXCEPT ![c] = term] /\ UNCHANGED listing
  /\ act' = [t \in Thread |-> IF t \in Calling
                              THEN [act[t] EXCEPT !.seen = @ \cup Shown', !.kept = FALSE] ELSE act[t]]
  /\ UNCHANGED <<now, gate>>

Tick ==
  /\ now < MaxTime /\ now' = now + 1
  /\ UNCHANGED <<canvas, gate, act>>

-----------------------------------------------------------------------------
(* CanvasDiscoveryGate                                                     *)

Cooling == {p \in DOMAIN finished : now - finished[p] < Cooldown}

Discovery(p, page) ==
  [at |-> "send", op |-> "discover", profile |-> p, page |-> page, courses |-> <<>>,
   began |-> now, deadline |-> now + DiscoveryTime, until |-> now, seen |-> Shown, kept |-> TRUE]
Rereading(ids, term) ==
  [at |-> "send", op |-> "reread", ids |-> ids, term |-> term, courses |-> <<>>,
   began |-> now, deadline |-> now + DiscoveryTime, until |-> now, seen |-> Shown, kept |-> TRUE]

Refusal(op) == [at |-> "done", op |-> op, ok |-> FALSE]

Begin(t, p, verify) ==
  /\ act[t].at \in {"idle", "done"}
  /\ finished' = [q \in Cooling |-> finished[q]]
  /\ IF p \in active \cup Cooling
     THEN act' = [act EXCEPT ![t] = Refusal("discover")] /\ UNCHANGED <<active, ended>>
     ELSE /\ active' = active \cup {p} /\ UNCHANGED ended
          /\ act' = [act EXCEPT ![t] = Discovery(p, IF verify THEN 0 ELSE 1)]
  /\ UNCHANGED <<now, canvas>>

With(times, p) == [q \in DOMAIN times \cup {p} |-> IF q = p THEN now ELSE times[q]]

(* A call of either kind ends; the gate is told in both cases (finally).   *)
(* As faulty: the gate is told of what went well.                          *)
Finish_Success(t, ok) ==
  IF act[t].op = "discover" /\ ok
  THEN active' = active \ {act[t].profile} /\ finished' = With(finished, act[t].profile) /\ ended' = With(ended, act[t].profile)
  ELSE UNCHANGED gate
Finish(t, ok) ==
  IF act[t].op = "discover"
  THEN active' = active \ {act[t].profile} /\ finished' = With(finished, act[t].profile) /\ ended' = With(ended, act[t].profile)
  ELSE UNCHANGED gate

CallSucceeds(t, courses, whole) ==
  /\ act' = [act EXCEPT ![t] = [at |-> "done", op |-> act[t].op, ok |-> TRUE, courses |-> courses, whole |-> whole,
                               seen |-> act[t].seen, kept |-> act[t].kept, lasted |-> now - act[t].began]]
  /\ Finish(t, TRUE)
CallFails(t) == act' = [act EXCEPT ![t] = Refusal(act[t].op)] /\ Finish(t, FALSE)

-----------------------------------------------------------------------------
(* _send: no request after the deadline of the call, and an answer that    *)
(* comes after its own is none.                                            *)

Lower(m, n) == IF m < n THEN m ELSE n

Send(t) ==
  /\ act[t].at = "send"
  /\ IF now >= act[t].deadline THEN CallFails(t)
     ELSE /\ act' = [act EXCEPT ![t].at = "recv", ![t].until = Lower(now + RequestTime, act[t].deadline)]
          /\ UNCHANGED gate
  /\ UNCHANGED <<now, canvas>>

Refused(t) ==
  /\ act[t].at = "recv"
  /\ CallFails(t)
  /\ UNCHANGED <<now, canvas>>

InTime(t) == act[t].at = "recv" /\ now <= act[t].until

(* _discover: users/self first if asked to, then the pages.                *)
UserVerified(t) ==
  /\ InTime(t) /\ act[t].op = "discover" /\ act[t].page = 0
  /\ act' = [act EXCEPT ![t].at = "send", ![t].page = 1]
  /\ UNCHANGED <<now, canvas, gate>>

Upto(n) == Lower(n, Len(listing))
Page(n) == [i \in 1 .. Upto(n * PageSize) - Upto((n - 1) * PageSize) |->
              <<listing[(n - 1) * PageSize + i], termOf[listing[(n - 1) * PageSize + i]]>>]
IsLast(n) == Len(listing) <= n * PageSize

(* The listing as it is now, as far as the bounds reach.                   *)
Reached(courses) ==
  [i \in DOMAIN courses |-> courses[i][1]] = SubSeq(listing, 1, Upto(Lower(MaxCourses, MaxPages * PageSize)))

PageRead(t) ==
  /\ InTime(t) /\ act[t].op = "discover" /\ act[t].page > 0
  /\ LET n == act[t].page
         all == act[t].courses \o Page(n)
         courses == SubSeq(all, 1, Lower(Len(all), MaxCourses))
     IN IF IsLast(n) \/ Len(courses) >= MaxCourses \/ n = MaxPages
        THEN CallSucceeds(t, courses, Reached(courses))
        ELSE act' = [act EXCEPT ![t].at = "send", ![t].page = n + 1, ![t].courses = courses] /\ UNCHANGED gate
  /\ UNCHANGED <<now, canvas>>

(* reread_canvas_courses: every chosen course must still be of one term,   *)
(* the one that was named or else that of the first.                       *)
Reread(t, ids, term) ==
  /\ act[t].at \in {"idle", "done"}
  /\ IF Len(ids) \in 1 .. MaxSelected /\ \A i, j \in DOMAIN ids : ids[i] = ids[j] => i = j
     THEN act' = [act EXCEPT ![t] = Rereading(ids, term)]
     ELSE act' = [act EXCEPT ![t] = Refusal("reread")]
  /\ UNCHANGED <<now, canvas, gate>>

CourseRead(t) ==
  /\ InTime(t) /\ act[t].op = "reread"
  /\ LET c == act[t].ids[Len(act[t].courses) + 1]
         term == IF act[t].term = NoTerm THEN termOf[c] ELSE act[t].term
         courses == Append(act[t].courses, <<c, termOf[c]>>)
         all == [i \in DOMAIN courses |-> courses[i][1]] = act[t].ids
     IN IF termOf[c] # term THEN CallFails(t)
        ELSE IF Len(courses) = Len(act[t].ids) THEN CallSucceeds(t, courses, all)
        ELSE act' = [act EXCEPT ![t].at = "send", ![t].term = term, ![t].courses = courses] /\ UNCHANGED gate
  /\ UNCHANGED <<now, canvas>>

DiscoveryNext ==
  \/ \E c \in ListedCourse, term \in Term : Edit(c, term)
  \/ Tick
  \/ \E t \in Thread :
       \/ \E p \in Profile, verify \in BOOLEAN : Begin(t, p, verify)
       \/ \E ids \in Choice, term \in Term \cup {NoTerm} : Reread(t, ids, term)
       \/ Send(t) \/ Refused(t) \/ UserVerified(t) \/ PageRead(t) \/ CourseRead(t)

DiscoverySpec == DiscoveryInit /\ [][DiscoveryNext]_discoveryVars

-----------------------------------------------------------------------------
Accepted == {act[t] : t \in {u \in Thread : act[u].at = "done" /\ act[u].ok}}

(* An answer that was accepted came within the time of the call, tells of  *)
(* no course what Canvas never showed while it ran, and if nothing changed *)
(* is the listing as far as the bounds reach, each course once; courses    *)
(* that were chosen are all there and of one term.                         *)
AnswersAreTrue ==
  \A a \in Accepted :
    /\ a.lasted <= DiscoveryTime
    /\ \A i \in DOMAIN a.courses : a.courses[i] \in a.seen
    /\ a.op = "reread" => \A i, j \in DOMAIN a.courses : a.courses[i][2] = a.courses[j][2]
    /\ a.op = "reread" \/ a.kept => a.whole

(* The gate knows exactly the discoveries that run, one for a profile, and *)
(* none began within the cooldown of the one before it, however that ended.*)
DiscoveriesTakeTurns ==
  /\ active = {act[t].profile : t \in Discovering}
  /\ \A t, u \in Discovering : act[t].profile = act[u].profile => t = u
  /\ \A t \in Discovering : act[t].profile \in DOMAIN ended => act[t].began >= ended[act[t].profile] + Cooldown

(* The reads of a user's courses.                                          *)
ReadsAreHonest == AnswersAreTrue /\ DiscoveriesTakeTurns

-----------------------------------------------------------------------------
(* The invariant that makes it so                                          *)

ShownOnce == ListedCourse \X Term
Discoveries ==
  [at : {"send", "recv"}, op : {"discover"}, profile : Profile, page : Nat, courses : Seq(ShownOnce),
   began : Nat, deadline : Nat, until : Nat, seen : SUBSET ShownOnce, kept : BOOLEAN]
Rereadings ==
  [at : {"send", "recv"}, op : {"reread"}, ids : Choice, term : Term \cup {NoTerm}, courses : Seq(ShownOnce),
   began : Nat, deadline : Nat, until : Nat, seen : SUBSET ShownOnce, kept : BOOLEAN]
AnswersGiven ==
  [at : {"done"}, op : {"discover", "reread"}, ok : {TRUE}, courses : Seq(ShownOnce), whole : BOOLEAN,
   seen : SUBSET ShownOnce, kept : BOOLEAN, lasted : Nat]
Refusals == {Refusal("discover"), Refusal("reread")}

DiscoveryTypeOK ==
  /\ now \in Nat /\ changes \in Nat
  /\ listing \in Seq(ListedCourse) /\ termOf \in [ListedCourse -> Term]
  /\ finished \in [DOMAIN finished -> Nat] /\ ended \in [DOMAIN ended -> Nat]
  /\ act \in [Thread -> {Idle} \cup Refusals \cup AnswersGiven \cup Discoveries \cup Rereadings]

(* What a call has is what Canvas showed while it ran, within its time.    *)
SeenInTime(call) ==
  /\ call.began <= now /\ call.deadline = call.began + DiscoveryTime
  /\ call.at = "recv" => call.until <= call.deadline
  /\ Shown \subseteq call.seen
  /\ \A i \in DOMAIN call.courses : call.courses[i] \in call.seen

(* A discovery that saw no change has the listing up to its page.          *)
ListedSoFar(call) ==
  /\ call.page <= MaxPages /\ (call.page = 0 => call.courses = <<>>)
  /\ call.kept /\ call.page > 0 =>
       /\ Len(call.courses) = (call.page - 1) * PageSize
       /\ Len(call.courses) < MaxCourses /\ Len(call.courses) <= Len(listing)
       /\ \A i \in DOMAIN call.courses : call.courses[i][1] = listing[i]

(* A reread has the first of the chosen courses, of one term.              *)
RereadSoFar(call) ==
  /\ Len(call.courses) < Len(call.ids)
  /\ call.term = NoTerm => call.courses = <<>>
  /\ \A i \in DOMAIN call.courses : call.courses[i][1] = call.ids[i] /\ call.courses[i][2] = call.term

CallsAreOnTheirWay ==
  \A t \in Calling :
    /\ SeenInTime(act[t])
    /\ act[t].op = "discover" => ListedSoFar(act[t])
    /\ act[t].op = "reread" => RereadSoFar(act[t])

(* The gate remembers each end until its cooldown is over.                 *)
EndsAreRemembered ==
  \A p \in DOMAIN ended :
    /\ ended[p] <= now
    /\ (p \in DOMAIN finished /\ finished[p] = ended[p]) \/ ended[p] + Cooldown <= now

DiscoveryInv == DiscoveryTypeOK /\ CallsAreOnTheirWay /\ EndsAreRemembered /\ ReadsAreHonest
=============================================================================
