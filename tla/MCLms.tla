-------------------------------- MODULE MCLms --------------------------------
(***************************************************************************)
(* Canvas and the LMS import: the connection (MCCanvas) and the four parts *)
(* of the import side by side.  A behaviour is one of a single part,       *)
(* chosen at the start, and the others stand still.                        *)
(***************************************************************************)
EXTENDS MCCanvas, LmsReservation, LmsProjection, LmsAside

CONSTANTS t1, t2, t3, l1, l2, l3, c1, c2, d1, d2, v1, v2

(* Threads, and processes, are compared for equality only.                 *)
LmsSymmetry == Permutations(Thread)

VARIABLE part

(* Two courses with two lists each.                                         *)
MCSemester == <<1, 2>>
MCResource == <<"a", "m">>

connection == vars
reservation == reservationVars
collector == collectorVars
aside == asideVars
projection == projectionVars

LmsInit ==
  /\ part \in {"connection", "crowd", "reservation", "collector", "aside", "projection"}
  /\ Init /\ ReservationInit /\ CollectorInit /\ AsideInit /\ ProjectionInit
  \* In the collector's part one list of one course starts with entries.
  /\ canvas[1]["m"] = <<>> /\ canvas[2] = [r \in {"a", "m"} |-> <<>>]
  /\ canvas[1]["a"] \in {<<>>, <<c1>>, <<c1, c2>>}
  \* The documents are alike; and what stands still starts in one state.
  /\ config = d1
  /\ part # "collector" => canvas[1]["a"] = <<>>
  /\ part # "projection" => lms = [work |-> [k \in Key |-> Absent], notices |-> {}]

(* Two threads at work with all tokens and courses, or three threads with  *)
(* one token of each account and one course.                               *)
ConnectionNext ==
  /\ Next
  /\ part = "connection" => \E t \in Thread : act'[t] = Idle
  /\ part = "crowd" => /\ \A l \in links' : l.canvas = l1 /\ l.course = c1
                       /\ \A t \in Thread : act'[t].token # k3

LmsNext ==
  /\ UNCHANGED part
  /\ \/ part \in {"connection", "crowd"} /\ ConnectionNext /\ UNCHANGED <<reservation, collector, aside, projection>>
     \/ part = "reservation" /\ ReservationNext /\ UNCHANGED <<connection, collector, aside, projection>>
     \* The second course is read, but nobody edits it.
     \/ part = "collector" /\ CollectorNext /\ canvas'[2] = canvas[2] /\ UNCHANGED <<connection, reservation, aside, projection>>
     \/ part = "aside" /\ AsideNext /\ UNCHANGED <<connection, reservation, collector, projection>>
     \/ part = "projection" /\ ProjectionNext /\ UNCHANGED <<connection, reservation, collector, aside>>
     \* The import may come to its end; the connection never does.
     \/ part \notin {"connection", "crowd"} /\ UNCHANGED <<connection, reservation, collector, aside, projection>>

LmsSpec == LmsInit /\ [][LmsNext]_<<connection, reservation, collector, aside, projection, part>>

=============================================================================
