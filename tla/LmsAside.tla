------------------------------- MODULE LmsAside -------------------------------
(***************************************************************************)
(* One call of the browser transport (scripts/knu_lms_probe.py:            *)
(* AsideReplTransport.run, _run_bounded_aside_repl): a child process       *)
(* writes two streams, a reader thread per stream queues what it reads,    *)
(* and the caller empties the queue until both streams have ended, the     *)
(* deadline has passed or something went wrong.                            *)
(*                                                                         *)
(* What is abstracted.  A chunk of a stream is one line; a line is a frame *)
(* that parse_canonical_frame accepts, one that it refuses, an error or    *)
(* anything else (as all of stderr is).  The byte budget is a number of    *)
(* lines.  It is another way to collect than LmsCollector's, and shares    *)
(* nothing with it but what is asked of an answer (AnswersAreWhole).       *)
(***************************************************************************)
EXTENDS LmsCollector

CONSTANTS
  MaxOutput,  \* MAX_ASIDE_OUTPUT_BYTES, per stream
  MaxLines    \* bound on what the child writes

VARIABLES
  child,    \* its exit code, what it wrote
  reader,   \* per stream: lines read, and whether the thread has returned
  events,   \* the queue
  caller,   \* where it is, what it has, the streams still open
  expired   \* the deadline has passed

asideVars == <<child, reader, events, caller, expired>>

Stream == {"stdout", "stderr"}
Line == {"frame", "bad frame", "error", "other"}
Running == 256
Killed == 255

AsideInit ==
  /\ child = [code |-> Running, wrote |-> [s \in Stream |-> <<>>]]
  /\ reader = [s \in Stream |-> [read |-> 0, done |-> FALSE]]
  /\ events = <<>>
  /\ caller = [at |-> "drain", has |-> [s \in Stream |-> <<>>], open |-> Stream]
  /\ expired = FALSE

-----------------------------------------------------------------------------
Write(s, line) ==
  /\ child.code = Running /\ Len(child.wrote[s]) < MaxLines
  /\ s = "stderr" => line = "other"
  /\ child' = [child EXCEPT !.wrote[s] = Append(@, line)]
  /\ UNCHANGED <<reader, events, caller, expired>>

Exit(code) ==
  /\ child.code = Running
  /\ child' = [child EXCEPT !.code = code]
  /\ UNCHANGED <<reader, events, caller, expired>>

Deadline ==
  /\ ~expired /\ expired' = TRUE
  /\ UNCHANGED <<child, reader, events, caller>>

-----------------------------------------------------------------------------
(* reader: data until the stream ends, overflows or cannot be read          *)

Unread(s) == reader[s].read < Len(child.wrote[s])

Queue(s, kind, line, done) ==
  /\ events' = Append(events, [stream |-> s, kind |-> kind, line |-> line])
  /\ reader' = [reader EXCEPT ![s] = [read |-> IF kind = "data" THEN @.read + 1 ELSE @.read, done |-> done]]
  /\ UNCHANGED <<child, caller, expired>>

ReadData(s) ==
  /\ ~reader[s].done /\ Unread(s) /\ reader[s].read < MaxOutput
  /\ Queue(s, "data", child.wrote[s][reader[s].read + 1], FALSE)

ReadOverflow(s) ==
  /\ ~reader[s].done /\ Unread(s) /\ reader[s].read >= MaxOutput
  /\ Queue(s, "overflow", "other", TRUE)

ReadEnd(s) ==
  /\ ~reader[s].done /\ ~Unread(s) /\ child.code # Running
  /\ Queue(s, "eof", "other", TRUE)

\* The kind of event that stands for a read that failed.
Failure_AsEnd == "eof"
Failure == "error"

ReadFails(s) == ~reader[s].done /\ Queue(s, Failure, "other", TRUE)

-----------------------------------------------------------------------------
(* The caller *)

CallerGoes(at) == caller' = [caller EXCEPT !.at = at]

\* kill_and_reap, and the ProbeError.
KillAndReap ==
  /\ CallerGoes("failed")
  /\ child' = IF child.code = Running THEN [child EXCEPT !.code = Killed] ELSE child

TimeOut ==
  /\ caller.at = "drain" /\ expired
  /\ KillAndReap
  /\ UNCHANGED <<reader, events, expired>>

Take ==
  /\ caller.at = "drain" /\ ~expired /\ caller.open # {} /\ events # <<>>
  /\ LET e == Head(events) IN
     \/ /\ e.kind = "data"
        /\ caller' = [caller EXCEPT !.has[e.stream] = Append(@, e.line)]
        /\ UNCHANGED child
     \/ /\ e.kind = "eof"
        /\ caller' = [caller EXCEPT !.open = @ \ {e.stream}]
        /\ UNCHANGED child
     \/ e.kind \in {"overflow", "error"} /\ KillAndReap
  /\ events' = Tail(events)
  /\ UNCHANGED <<reader, expired>>

\* Both streams have ended: the exit code, and then exactly one good frame and no error.
Said(what) == { n \in DOMAIN caller.has["stdout"] : caller.has["stdout"][n] \in what }
Accepts ==
  /\ \E n \in Said({"frame"}) : Said({"frame", "bad frame"}) = {n}
  /\ Said({"error"}) = {}

Finish ==
  /\ caller.at = "drain" /\ ~expired /\ caller.open = {} /\ child.code # Running
  /\ CallerGoes(IF child.code = 0 /\ Accepts THEN "accepted" ELSE "failed")
  /\ UNCHANGED <<child, reader, events, expired>>

-----------------------------------------------------------------------------
Child == (\E s \in Stream, line \in Line : Write(s, line)) \/ (\E code \in {0, 1} : Exit(code))

Reads(s) == ReadData(s) \/ ReadOverflow(s) \/ ReadEnd(s) \/ ReadFails(s)

AsideNext == Child \/ Deadline \/ (\E s \in Stream : Reads(s)) \/ TimeOut \/ Take \/ Finish

AsideSpec == AsideInit /\ [][AsideNext]_asideVars

-----------------------------------------------------------------------------
(* Why an accepted answer is all the child said: the invariant of the proof *)

Kinds == {"data", "eof", "overflow", "error"}
Events == [stream : Stream, kind : Kinds, line : Line]

AsideTypeOK ==
  /\ child \in [code : {Running, Killed, 0, 1}, wrote : [Stream -> Seq(Line)]]
  /\ reader \in [Stream -> [read : Nat, done : BOOLEAN]]
  /\ events \in Seq(Events)
  /\ caller \in [at : {"drain", "failed", "accepted"}, has : [Stream -> Seq(Line)], open : SUBSET Stream]

\* What the caller has of a stream is its beginning.
HasBeginning ==
  \A s \in Stream :
    /\ Len(caller.has[s]) <= reader[s].read /\ reader[s].read <= Len(child.wrote[s])
    /\ \A n \in 1 .. Len(caller.has[s]) : caller.has[s][n] = child.wrote[s][n]

IsData(i, s) == i \in DOMAIN events /\ events[i].kind = "data" /\ events[i].stream = s
Waiting(s) == Len(caller.has[s]) + 1 .. reader[s].read

\* The queue has the lines read and not yet taken, those of a stream in their order:
\* nth tells which line of its stream an event carries.
Carries(nth) ==
  \A s \in Stream :
    /\ \A i \in DOMAIN events : IsData(i, s) => nth[i] \in Waiting(s) /\ events[i].line = child.wrote[s][nth[i]]
    /\ \A i, j \in DOMAIN events : IsData(i, s) /\ IsData(j, s) /\ i < j => nth[i] < nth[j]
    /\ \A n \in Waiting(s) : \E i \in DOMAIN events : IsData(i, s) /\ nth[i] = n

NothingOverlooked == \E nth \in [DOMAIN events -> Nat] : Carries(nth)

\* A stream that has ended was read to its end, after the child's.
Ended(s) == reader[s].done /\ child.code # Running /\ reader[s].read = Len(child.wrote[s])

EndsAreLast ==
  /\ \A i \in DOMAIN events : events[i].kind = "eof" =>
       Ended(events[i].stream) /\ \A j \in DOMAIN events : j > i => events[j].stream # events[i].stream
  /\ \A s \in Stream \ caller.open : Ended(s) /\ Len(caller.has[s]) = reader[s].read

AcceptedOK == caller.at = "accepted" => child.code = 0 /\ caller.open = {} /\ Accepts

AsideInv == AsideTypeOK /\ HasBeginning /\ NothingOverlooked /\ EndsAreLast /\ AcceptedOK

-----------------------------------------------------------------------------
\* A frame that is accepted came from a child that ended well and is all it said: nothing
\* of either stream is missing, however reads fail, budgets run out and the two readers
\* interleave, and it said exactly one thing.
AcceptedIsAllItSaid ==
  caller.at = "accepted" =>
    /\ child.code = 0
    /\ \A s \in Stream : caller.has[s] = child.wrote[s]
    /\ \E n \in DOMAIN child.wrote["stdout"] :
         \A m \in DOMAIN child.wrote["stdout"] : child.wrote["stdout"][m] # "other" <=> m = n

\* What counts as complete is: a list that was collected, and the answer of a browser
\* that was accepted.
AnswersAreWhole == CollectedIsWhole /\ AcceptedIsAllItSaid

=============================================================================
