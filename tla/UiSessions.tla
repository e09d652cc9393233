----------------------------- MODULE UiSessions -----------------------------
(***************************************************************************)
(* The session of a window: the Core's store of tokens and sessions        *)
(* (ui/sessions.py, the session routes of ui/http.py and core/stdio.py),   *)
(* the Shell's relay and its jar of cookies (shell/app/src/relay.rs and    *)
(* main.rs, shell/proto/src/relay.rs), and the page that runs in the       *)
(* window (ui/static/app.js).  Every request has a thread of its own.      *)
(*                                                                         *)
(* What is abstracted.  Tokens and session ids are numbers, never reused;  *)
(* the relay's MAC, the CSRF token and the origin are taken as right (a    *)
(* page's CSRF token is that of the session it opened); the Core answers   *)
(* a request of the Shell or fails to, ShellChannel says how.              *)
(***************************************************************************)
EXTENDS Naturals, FiniteSets

CONSTANTS
  Window,       \* labels of the Shell's windows
  Relay,        \* relay threads
  MaxToken,     \* bound on bootstrap tokens issued
  Slow          \* a page may take longer than a token lives, and the Core fail to answer

ASSUME SessionsAssumption ==
  /\ IsFiniteSet(Window) /\ Window # {}
  /\ MaxToken \in Nat /\ Slow \in BOOLEAN

VARIABLES
  token,        \* Core: the outstanding bootstrap token of each window
  minted,       \* tokens issued; a session has the number of its token
  live,         \* Core: the sessions known, each with its window
  byWindow,     \* Core: the session of each window
  idle,         \* the sessions whose idle limit has passed
  jar,          \* Shell: the session id kept for each window
  page,         \* [at, token, session] of the page in each window
  relay,        \* what each relay thread is doing
  ending        \* windows destroyed whose session.end is not answered

sessionVars == <<token, minted, live, byWindow, idle, jar, page, relay, ending>>

None == 0
Sid == 1..MaxToken

Free == [at |-> "free", window |-> CHOOSE w \in Window : TRUE, kind |-> "use", token |-> None, sid |-> None,
         status |-> 0, cookie |-> None]

Open(w) == page[w].at # "destroyed"

(* A window is opened with a token of its own.                             *)
SessionsInit ==
  /\ minted = Cardinality(Window)
  /\ token \in [Window -> 1..minted] /\ \A v, w \in Window : token[v] = token[w] => v = w
  /\ live = {} /\ byWindow = [w \in Window |-> None] /\ idle = {}
  /\ jar = [w \in Window |-> None]
  /\ page = [w \in Window |-> [at |-> "loading", token |-> token[w], session |-> None]]
  /\ relay = [c \in Relay |-> Free] /\ ending = {}

----------------------------------------------------------------------------
(* SessionStore: each operation holds its lock.                            *)

(* As faulty: the session a window had stays known.                        *)
Replaced_Kept(w, s) == live \cup {[sid |-> s, window |-> w]}

(* exchange: the session a window had is replaced.                         *)
Replaced(w, s) == {l \in live : l.sid # byWindow[w]} \cup {[sid |-> s, window |-> w]}

Forgotten(s) == {l \in live : l.sid # s}
Unnamed(s) == [w \in Window |-> IF byWindow[w] = s THEN None ELSE byWindow[w]]

Exchange(c) ==
  LET w == relay[c].window
      t == relay[c].token
  IN IF token[w] = t
       THEN /\ token' = [token EXCEPT ![w] = None]
            /\ live' = Replaced(w, t) /\ byWindow' = [byWindow EXCEPT ![w] = t]
            /\ relay' = [relay EXCEPT ![c].at = "answered", ![c].status = 200, ![c].cookie = t]
       ELSE /\ relay' = [relay EXCEPT ![c].at = "answered", ![c].status = 403]
            /\ UNCHANGED <<token, live, byWindow>>

Lookup(c) ==
  LET s == relay[c].sid
      known == \E l \in live : l.sid = s
  IN /\ UNCHANGED token
     /\ IF known /\ s \notin idle
          THEN /\ relay' = [relay EXCEPT ![c].at = "answered", ![c].status = 200]
               /\ UNCHANGED <<live, byWindow>>
          ELSE /\ relay' = [relay EXCEPT ![c].at = "answered", ![c].status = 401]
               /\ live' = Forgotten(s) /\ byWindow' = Unnamed(s)

Handle(c) ==
  /\ relay[c].at = "sent"
  /\ IF relay[c].kind = "exchange" THEN Exchange(c) ELSE Lookup(c)
  /\ UNCHANGED <<minted, idle, jar, page, ending>>

(* Eight hours without a request; a minute without an exchange.            *)
TimePasses ==
  /\ \/ /\ \A c \in Relay : relay[c].at = "free"
        /\ \E l \in live : idle' = idle \cup {l.sid}
        /\ UNCHANGED token
     \/ Slow /\ (\E w \in Window : token' = [token EXCEPT ![w] = None]) /\ UNCHANGED idle
  /\ UNCHANGED <<minted, live, byWindow, jar, page, relay, ending>>

----------------------------------------------------------------------------
(* The page, and the relay: handle and recover_session.                    *)

(* A page exchanges its token once, and makes other calls after that, also *)
(* several at a time; the relay attaches the cookie of the jar.            *)
Send(c, w) ==
  /\ relay[c].at = "free"
  /\ \/ /\ page[w].at = "loading" /\ page' = [page EXCEPT ![w].at = "exchanging"]
        /\ relay' = [relay EXCEPT ![c] = [Free EXCEPT !.at = "sent", !.window = w, !.kind = "exchange",
                                          !.token = page[w].token, !.sid = jar[w]]]
     \/ /\ page[w].at = "ready" /\ UNCHANGED page
        /\ relay' = [relay EXCEPT ![c] = [Free EXCEPT !.at = "sent", !.window = w, !.sid = jar[w]]]
  /\ UNCHANGED <<token, minted, live, byWindow, idle, jar, ending>>

(* The Core cannot be reached, or the app is closing.                      *)
Unreachable(c) ==
  /\ Slow /\ relay[c].at = "sent" /\ relay' = [relay EXCEPT ![c] = Free]
  /\ page' = [page EXCEPT ![relay[c].window].at =
                IF @ = "exchanging" /\ relay[c].kind = "exchange" /\ relay[c].token = page[relay[c].window].token
                  THEN "refused" ELSE @]
  /\ UNCHANGED <<token, minted, live, byWindow, idle, jar, ending>>

Absorb(c) ==
  /\ relay[c].at = "answered"
  /\ jar' = IF relay[c].cookie # None THEN [jar EXCEPT ![relay[c].window] = relay[c].cookie] ELSE jar
  /\ relay' = [relay EXCEPT ![c].at = IF relay[c].status = 401 /\ relay[c].sid # None THEN "lost" ELSE "responding"]
  /\ UNCHANGED <<token, minted, live, byWindow, idle, page, ending>>

(* The session this call was made with is lost: the jar forgets.           *)
Forget(c) ==
  /\ relay[c].at = "lost"
  /\ jar' = [jar EXCEPT ![relay[c].window] = None]
  /\ relay' = [relay EXCEPT ![c].at = "responding"]
  /\ UNCHANGED <<token, minted, live, byWindow, idle, page, ending>>

(* The page reads the answer, unless it was navigated away meanwhile.      *)
Respond(c) ==
  LET w == relay[c].window
      mine == relay[c].kind = "exchange" /\ page[w].at = "exchanging" /\ page[w].token = relay[c].token
  IN /\ relay[c].at = "responding"
     /\ page' = IF ~mine THEN page
                ELSE IF relay[c].status = 200 THEN [page EXCEPT ![w].at = "ready", ![w].session = relay[c].token]
                ELSE [page EXCEPT ![w].at = "refused"]
     /\ relay' = [relay EXCEPT ![c] = IF relay[c].status = 401 /\ relay[c].sid # None
                                      THEN [@ EXCEPT !.at = "recovering"] ELSE Free]
     /\ UNCHANGED <<token, minted, live, byWindow, idle, jar, ending>>

(* session.bootstrap: one outstanding token per window.                    *)
Recover(c) ==
  /\ relay[c].at = "recovering"
  /\ \/ /\ minted < MaxToken /\ minted' = minted + 1
        /\ token' = [token EXCEPT ![relay[c].window] = minted + 1]
        /\ relay' = [relay EXCEPT ![c].at = "navigating", ![c].token = minted + 1]
     \/ Slow /\ relay' = [relay EXCEPT ![c] = Free] /\ UNCHANGED <<minted, token>>
  /\ UNCHANGED <<live, byWindow, idle, jar, page, ending>>

Navigate(c) ==
  LET w == relay[c].window
  IN /\ relay[c].at = "navigating" /\ relay' = [relay EXCEPT ![c] = Free]
     /\ page' = IF Open(w) THEN [page EXCEPT ![w] = [at |-> "loading", token |-> relay[c].token, session |-> None]] ELSE page
     /\ UNCHANGED <<token, minted, live, byWindow, idle, jar, ending>>

(* A window is destroyed: its cookie is dropped at once, its session by a  *)
(* message to the Core.                                                    *)
Destroy(w) ==
  /\ Open(w) /\ page' = [page EXCEPT ![w] = [at |-> "destroyed", token |-> None, session |-> None]]
  /\ jar' = [jar EXCEPT ![w] = None] /\ ending' = ending \cup {w}
  /\ UNCHANGED <<token, minted, live, byWindow, idle, relay>>

EndWindow(w) ==
  /\ w \in ending /\ ending' = ending \ {w}
  /\ live' = Forgotten(byWindow[w]) /\ byWindow' = [byWindow EXCEPT ![w] = None]
  /\ UNCHANGED <<token, minted, idle, jar, page, relay>>

SessionsNext ==
  \/ TimePasses
  \/ \E c \in Relay : Handle(c) \/ Unreachable(c) \/ Absorb(c) \/ Forget(c) \/ Respond(c) \/ Recover(c) \/ Navigate(c)
  \/ \E w \in Window : Destroy(w) \/ EndWindow(w) \/ \E c \in Relay : Send(c, w)

SessionsSpec == SessionsInit /\ [][SessionsNext]_sessionVars

----------------------------------------------------------------------------
(* A window has one session at most, the one the Core finds by its label,  *)
(* and the Core's two tables agree; a token is exchanged once, and not     *)
(* after a newer one was issued, in whatever order the answers come.       *)
OneSessionPerWindow ==
  /\ \A k, l \in live : k.window = l.window => k = l
  /\ \A l \in live : byWindow[l.window] = l.sid
  /\ \A w \in Window : byWindow[w] # None => [sid |-> byWindow[w], window |-> w] \in live
  /\ \A w \in Window, l \in live : token[w] # None /\ l.window = w => token[w] # l.sid

(* r2-plan: on a 401 with a stale session id, the Shell asks for a new     *)
(* token and loads the window again.  When all calls have been answered    *)
(* and the page is loaded, an open window has its session, or the cookie   *)
(* of one that was lost, with which the next call recovers.                *)
WindowsRecover ==
  \A w \in Window :
    (\A c \in Relay : relay[c].at = "free") /\ Open(w) /\ page[w].at # "loading" => page[w].at = "ready" /\ jar[w] # None
=============================================================================
