---------------------------- MODULE ShellChannel ----------------------------
(***************************************************************************)
(* The desktop Shell and its Core child process (shell/app/src/core.rs and *)
(* core/stdio.py): the start of the Core, one request and one reply at a   *)
(* time over its standard input and output, and the ways either one ends.  *)
(*                                                                         *)
(* What is abstracted.  A request is a number and so is its reply; a pong  *)
(* is dropped where it is read and leaves no trace; the 30 seconds without *)
(* a ping are one of the reasons for which a Core stops by itself.         *)
(***************************************************************************)
EXTENDS Integers, Sequences

CONSTANTS
  Caller,       \* threads of the Shell that make requests
  NoCaller,
  MaxRequest    \* bound on the requests made

ASSUME ShellAssumption == NoCaller \notin Caller /\ MaxRequest \in Nat

VARIABLES
  life,         \* the Core's life as the reader thread sees it
  core,         \* "boot", "serving" or "gone"
  inbox,        \* lines on the Core's standard input
  out,          \* lines on its standard output
  reader,       \* "reading", "broken", "loaded" or "returned"
  replies,      \* what the reader passed on
  holder,       \* the caller that holds the replies lock
  call,         \* [at, id, reply] of each caller
  asked,        \* requests made
  late,         \* some request was not answered in time
  app           \* [at, why]

shellVars == <<life, core, inbox, out, reader, replies, holder, call, asked, late, app>>

NoRequest == [at |-> "idle", id |-> 0, reply |-> 0]

(* Lines that are no reply to a request; requests are counted from 1.      *)
Ready == 0
Declined == -1
Bye == -2
Garbage == -3
Hello == -4
Shutdown == -5

AppEnded == app.at = "ended"

ShellInit ==
  /\ life = "STARTING" /\ core = "boot" /\ reader = "reading"
  /\ inbox = <<Hello>> /\ out = <<>> /\ replies = <<>>
  /\ holder = NoCaller /\ call = [c \in Caller |-> NoRequest] /\ asked = 0 /\ late = FALSE
  /\ app = [at |-> "starting", why |-> "none"]

----------------------------------------------------------------------------
(* The Core: run_stdio and _loop.                                          *)

CoreServes ==
  /\ core # "gone"
  /\ \/ /\ inbox # <<>> /\ inbox' = Tail(inbox)
        /\ \/ /\ Head(inbox) = Hello
              /\ \/ core' = "serving" /\ out' = Append(out, Ready)
                 \/ core' = "gone" /\ out' = Append(out, Declined)    \* locked, or not migrated
           \/ Head(inbox) \in 1..MaxRequest /\ out' = Append(out, Head(inbox)) /\ UNCHANGED core
           \/ Head(inbox) = Shutdown /\ out' = Append(out, Bye) /\ core' = "gone"
     \/ inbox = <<>> /\ AppEnded /\ core' = "gone" /\ UNCHANGED <<inbox, out>>
  /\ UNCHANGED <<life, reader, replies, holder, call, asked, late, app>>

(* It crashes, or is alone for 30 seconds; or it writes what is no line    *)
(* (after the last one was read).                                          *)
CoreFails ==
  /\ core # "gone"
  /\ \/ core' = "gone" /\ UNCHANGED out
     \/ Len(out) = 0 /\ out' = <<Garbage>> /\ UNCHANGED core
  /\ UNCHANGED <<life, inbox, reader, replies, holder, call, asked, late, app>>

----------------------------------------------------------------------------
(* The reader thread.                                                      *)

Broken == IF out = <<>> THEN core = "gone" ELSE Head(out) = Garbage

ReaderPasses ==
  /\ ~AppEnded /\ reader = "reading" /\ out # <<>> /\ ~Broken
  /\ replies' = Append(replies, Head(out)) /\ out' = Tail(out)
  /\ UNCHANGED <<life, core, inbox, reader, holder, call, asked, late, app>>

(* The stream ended, or broke the protocol: the Core is killed.            *)
ReaderBreaks ==
  /\ ~AppEnded /\ reader = "reading" /\ Broken
  /\ reader' = "broken" /\ core' = "gone"
  /\ UNCHANGED <<life, inbox, out, replies, holder, call, asked, late, app>>

ReaderSwaps ==
  /\ ~AppEnded /\ reader = "broken"
  /\ IF life = "STARTING" THEN life' = "LOST_EARLY" /\ reader' = "returned"
     ELSE reader' = (IF life = "RUNNING" THEN "loaded" ELSE "returned") /\ UNCHANGED life
  /\ UNCHANGED <<core, inbox, out, replies, holder, call, asked, late, app>>

(* on_lost: the app ends at once.                                          *)
ReaderTells ==
  /\ ~AppEnded /\ reader = "loaded"
  /\ reader' = "returned" /\ app' = [at |-> "ended", why |-> "lost"]
  /\ UNCHANGED <<life, core, inbox, out, replies, holder, call, asked, late>>

Disconnected == reader = "returned" /\ replies = <<>>

----------------------------------------------------------------------------
(* Core::start, after hello was written.                                   *)

(* As faulty: the state is stored, whatever the reader made of it.         *)
AcceptsReady_Stored(l) == l \in {"STARTING", "LOST_EARLY"}

(* The compare-and-exchange that accepts a Core that said ready.           *)
AcceptsReady(l) == l = "STARTING"

(* A failed start kills the Core and ends the app with a dialog.           *)
StartFails ==
  /\ life' = "STOPPING" /\ core' = "gone" /\ app' = [at |-> "ended", why |-> "refused"]

StartCore ==
  /\ app.at = "starting"
  /\ \/ /\ replies # <<>> /\ replies' = Tail(replies)
        /\ IF Head(replies) = Ready /\ AcceptsReady(life)
             THEN life' = "RUNNING" /\ app' = [app EXCEPT !.at = "running"] /\ UNCHANGED core
             ELSE StartFails
     \/ replies = <<>> /\ StartFails /\ UNCHANGED replies        \* no answer in 60 seconds, or never
  /\ UNCHANGED <<inbox, out, reader, holder, call, asked, late>>

----------------------------------------------------------------------------
(* Core::request: the lock is held from the request to its reply.          *)

MayAsk(c) == holder = NoCaller /\ call[c] = NoRequest

Ask(c) ==
  /\ app.at \in {"running", "quitting"} /\ MayAsk(c) /\ asked < MaxRequest
  /\ asked' = asked + 1
  /\ holder' = c /\ call' = [call EXCEPT ![c] = [NoRequest EXCEPT !.at = "waiting", !.id = asked + 1]]
  /\ inbox' = IF core = "gone" THEN inbox ELSE Append(inbox, asked + 1)
  /\ UNCHANGED <<life, core, out, reader, replies, late, app>>

Take(c) ==
  /\ ~AppEnded /\ call[c].at = "waiting" /\ replies # <<>>
  /\ replies' = Tail(replies) /\ holder' = NoCaller
  /\ call' = [call EXCEPT ![c].at = "told", ![c].reply = Head(replies)]
  /\ UNCHANGED <<life, core, inbox, out, reader, asked, late, app>>

(* 90 seconds pass, the Core is gone, or its input is closed.              *)
Unanswered(c) ==
  /\ ~AppEnded /\ call[c].at = "waiting" /\ replies = <<>>
  /\ holder' = NoCaller /\ call' = [call EXCEPT ![c] = NoRequest]
  /\ late' = (late \/ ~Disconnected)
  /\ UNCHANGED <<life, core, inbox, out, reader, replies, asked, app>>

Return(c) ==
  /\ ~AppEnded /\ call[c].at = "told"
  /\ call' = [call EXCEPT ![c] = NoRequest]
  /\ UNCHANGED <<life, core, inbox, out, reader, replies, holder, asked, late, app>>

----------------------------------------------------------------------------
(* Core::shutdown, at the end of the app.                                  *)

Quit ==
  /\ app.at = "running" /\ app' = [app EXCEPT !.at = "quitting"]
  /\ life' = "STOPPING"
  /\ inbox' = IF core = "gone" THEN inbox ELSE Append(inbox, Shutdown)
  /\ UNCHANGED <<core, out, reader, replies, holder, call, asked, late>>

(* The Core exited, or five seconds passed and it is killed.               *)
QuitDone ==
  /\ app.at = "quitting"
  /\ core' = "gone" /\ app' = [at |-> "ended", why |-> "quit"]
  /\ UNCHANGED <<life, inbox, out, reader, replies, holder, call, asked, late>>

Reader == ReaderPasses \/ ReaderBreaks \/ ReaderSwaps \/ ReaderTells

ShellNext ==
  \/ CoreServes \/ CoreFails \/ Reader \/ StartCore \/ Quit \/ QuitDone
  \/ \E c \in Caller : Ask(c) \/ Take(c) \/ Unanswered(c) \/ Return(c)

(* Both event loops run: the Core's, the reader's, the start's and the     *)
(* shutdown's, each of whose waits has a limit.                            *)
Fairness == WF_shellVars(CoreServes) /\ WF_shellVars(Reader) /\ WF_shellVars(StartCore) /\ WF_shellVars(QuitDone)

ShellSpec == ShellInit /\ [][ShellNext]_shellVars /\ Fairness

----------------------------------------------------------------------------
(* While no request was given up and the app is not quitting, a caller     *)
(* takes the reply to its own request, although replies carry no name; and *)
(* a Core that never ran is reported by the failed start, not as lost.     *)
AnswersMatch ==
  /\ \A c \in Caller : call[c].at = "told" /\ ~late /\ life = "RUNNING" => call[c].reply = call[c].id
  /\ app.why = "lost" => life # "LOST_EARLY"

(* Neither process outlives the other: whenever the Core dies, also        *)
(* between its ready and the Shell's acceptance of it, the app ends; and   *)
(* whenever the app ends the Core does, and gives up the library's lock.   *)
NeitherOutlives == (core = "gone" \/ AppEnded) ~> (core = "gone" /\ AppEnded)

(* The two processes agree about answers and about the end.                *)
ShellAndCoreAgree == []AnswersMatch /\ NeitherOutlives

----------------------------------------------------------------------------
(* The invariant that makes the answers match                              *)

LinesAreNumbers == inbox \in Seq(Int) /\ out \in Seq(Int) /\ replies \in Seq(Int)

(* A caller that waits holds the lock, and nobody else; calls are made     *)
(* only once the Core was accepted.                                        *)
CallsAreHeld ==
  /\ asked \in Nat /\ holder \in Caller \cup {NoCaller}
  /\ call \in [Caller -> [at : {"idle", "waiting", "told"}, id : Nat, reply : Int]]
  /\ \A c \in Caller : (call[c].at = "waiting" <=> holder = c) /\ (call[c].at = "waiting" => call[c].id > 0)
  /\ app \in [at : {"starting", "running", "quitting", "ended"}, why : {"none", "lost", "refused", "quit"}]
  /\ life \in {"STARTING", "LOST_EARLY"} <=> app.at = "starting"
  /\ life = "STARTING" => holder = NoCaller /\ ~late /\ \A c \in Caller : call[c] = NoRequest
  /\ reader = "loaded" \/ app.why = "lost" => life \in {"RUNNING", "STOPPING"}

(* At most one line is on its way, as a request or already as its answer;  *)
(* garbage comes at most before it, and the reader does not pass it.       *)
Still == out \in {<<>>, <<Garbage>>}
OneOnTheWay(requests, answers) ==
  \/ inbox = <<>> /\ Still /\ replies = <<>>
  \/ replies = <<>> /\ Still /\ \E line \in requests : inbox = <<line>>
  \/ replies = <<>> /\ inbox = <<>> /\ \E line \in answers : out \in {<<line>>, Append(<<Garbage>>, line)}
  \/ inbox = <<>> /\ Still /\ \E line \in answers : replies = <<line>>
Courier(requests, answers) ==
  /\ reader = "reading" => OneOnTheWay(requests, answers)
  /\ reader # "reading" => replies = <<>> \/ \E line \in answers : replies = <<line>>

(* At the start it is hello, later the request of the caller that waits.   *)
Awaited == IF holder = NoCaller THEN {} ELSE {call[holder].id}
CallsMatch ==
  /\ CallsAreHeld
  /\ life = "STARTING" => Courier({Hello}, {Ready, Declined})
  /\ life = "RUNNING" /\ ~late =>
       Courier(Awaited, Awaited) /\ \A c \in Caller : call[c].at = "told" => call[c].reply = call[c].id

ShellInv == LinesAreNumbers /\ CallsMatch
=============================================================================
