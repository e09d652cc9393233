--------------------------- MODULE CanvasDownload ---------------------------
(***************************************************************************)
(* One connection to a Canvas origin (canvas/http.py, CanvasConnection):   *)
(* it is opened on an address that was looked up once, sends a bounded     *)
(* number of reads with the user's token, and downloads a file over at     *)
(* most MAX_DOWNLOAD_REDIRECTS redirects, the last of which may leave for  *)
(* a file storage.                                                         *)
(*                                                                         *)
(* What is abstracted.  A URL is the host it names and the file whose      *)
(* download path it is, if it is one and is well formed; the host stands   *)
(* for the whole origin, so another port or scheme is another host.  A     *)
(* read of course data is admitted or not by its path.  The body of an     *)
(* answer is right or not: of the expected size, and within its limit.     *)
(* Time is the deadline, which passes at any moment: an answer may be late *)
(* and a request too late to send.                                         *)
(***************************************************************************)
EXTENDS Naturals, Sequences

CONSTANTS
  Home,           \* the validated Canvas origin
  Storage,        \* the storage hosts that are allowed
  Host,           \* with these, the hosts a URL may name
  FileId, NoFileId,
  MaxRedirects,   \* MAX_DOWNLOAD_REDIRECTS
  MaxRequests,    \* MAX_REQUESTS
  ObservationMax  \* OBSERVATION_MAX_REQUESTS, above it

ASSUME DownloadAssumption ==
  /\ MaxRedirects \in Nat /\ MaxRequests \in Nat
  /\ ObservationMax \in Nat /\ ObservationMax > MaxRequests

VARIABLES
  conn,   \* the connection: whether open, its requests counted and their limit
  trip,   \* what the caller is at
  chain,  \* the requests of the download that is under way or was the last,
          \* each with its host, its file, and whether it carries the token
  sent    \* the requests of the connection, by kind
downloadVars == <<conn, trip, chain, sent>>

Connected == [at |-> "idle"]
Settled(result) == [at |-> "done", result |-> result]

Url == [host : Host, file : FileId \cup {NoFileId}]

DownloadInit ==
  /\ conn = [open |-> FALSE, count |-> 0, limit |-> MaxRequests]
  /\ trip = [at |-> "unopened"]
  /\ chain = <<>>
  /\ sent = [read |-> 0, observed |-> 0]

-----------------------------------------------------------------------------
(* open_canvas_connection                                                  *)

AllPublic(addresses) == \A i \in DOMAIN addresses : addresses[i] = "public"

(* The first address is kept for every request of the connection, so what  *)
(* the name is resolved to afterwards does not matter.                     *)
OpenConn(addresses) ==
  /\ trip.at = "unopened"
  /\ IF addresses # <<>> /\ AllPublic(addresses)
     THEN conn' = [conn EXCEPT !.open = TRUE] /\ trip' = Connected
     ELSE trip' = Settled("failed") /\ UNCHANGED conn
  /\ UNCHANGED <<chain, sent>>

CloseConn ==
  /\ trip.at \in {"idle", "done"} /\ conn.open
  /\ conn' = [conn EXCEPT !.open = FALSE]
  /\ UNCHANGED <<trip, chain, sent>>

(* _admit                                                                  *)
Admits(c, limit) == c.open /\ c.count < limit
Counted(c, limit) == [c EXCEPT !.count = @ + 1, !.limit = limit]

-----------------------------------------------------------------------------
(* Reads: request() of the account and the courses, and observe() and      *)
(* file_metadata(), which raise the limit of the connection for good.      *)

Read(admitted) ==
  /\ trip.at \in {"idle", "done"}
  /\ IF Admits(conn, conn.limit) /\ admitted
     THEN /\ conn' = Counted(conn, conn.limit)
          /\ sent' = [sent EXCEPT !.read = @ + 1]
          /\ trip' = [at |-> "read"]
     ELSE trip' = Settled("failed") /\ UNCHANGED <<conn, sent>>
  /\ UNCHANGED chain

Observe(admitted) ==
  /\ trip.at \in {"idle", "done"}
  /\ IF Admits(conn, ObservationMax) /\ admitted
     THEN /\ conn' = Counted(conn, ObservationMax)
          /\ sent' = [sent EXCEPT !.observed = @ + 1]
          /\ trip' = [at |-> "read"]
     ELSE trip' = Settled("failed") /\ conn' = [conn EXCEPT !.limit = ObservationMax] /\ UNCHANGED sent
  /\ UNCHANGED chain

(* _send: an answer within the deadline and of a 2xx status is the result. *)
ReadAnswered(answer) ==
  /\ trip.at = "read"
  /\ trip' = Settled(IF answer = "body" THEN "read" ELSE "failed")
  /\ UNCHANGED <<conn, chain, sent>>

-----------------------------------------------------------------------------
(* download                                                                *)

IsDownload(url, file) == url.host = Home /\ url.file = file

(* A request to Canvas: the connection's own count, with the token.        *)
AtHome(file, hop, before) ==
  IF Admits(conn, ObservationMax)
  THEN /\ conn' = Counted(conn, ObservationMax)
       /\ sent' = [sent EXCEPT !.observed = @ + 1]
       /\ chain' = Append(before, [host |-> Home, file |-> file, token |-> TRUE])
       /\ trip' = [at |-> "home", file |-> file, hop |-> hop]
  ELSE /\ conn' = [conn EXCEPT !.limit = ObservationMax]
       /\ trip' = Settled("failed")
       /\ UNCHANGED <<chain, sent>>

GivesUp == trip' = Settled("failed") /\ UNCHANGED <<conn, chain, sent>>

Download(file, url) ==
  /\ trip.at \in {"idle", "done"}
  /\ IF IsDownload(url, file) THEN AtHome(file, 0, <<>>) ELSE GivesUp

(* A request to the storage: a connection of its own, on an address looked *)
(* up for it, with what is left of the redirects and without the token.    *)
AtStorage(host, left) ==
  /\ chain' = Append(chain, [host |-> host, file |-> trip.file, token |-> FALSE])
  /\ trip' = [at |-> "storage", file |-> trip.file, host |-> host, left |-> left]
  /\ UNCHANGED <<conn, sent>>

(* What is left of the redirects when the chain leaves Canvas.             *)
(* As faulty: the storage has a budget of its own.                         *)
Left_Own(hop) == MaxRedirects
Left(hop) == MaxRedirects - hop

LeaveHome(url, addresses) ==
  IF Left(trip.hop) > 0 /\ url.host \in Storage /\ addresses # <<>> /\ AllPublic(addresses)
  THEN AtStorage(url.host, Left(trip.hop) - 1)
  ELSE GivesUp

(* The answer of Canvas to a request of the chain; a redirect to itself    *)
(* keeps to the file, one to another host leaves for good.                 *)
HomeAnswers(answer) ==
  /\ trip.at = "home"
  /\ trip' = Settled(IF answer = "body" THEN "bytes" ELSE "failed")
  /\ UNCHANGED <<conn, chain, sent>>

HomeRedirects(url, addresses) ==
  /\ trip.at = "home"
  /\ IF url.host = Home
     THEN IF IsDownload(url, trip.file) /\ trip.hop < MaxRedirects THEN AtHome(trip.file, trip.hop + 1, chain) ELSE GivesUp
     ELSE LeaveHome(url, addresses)

StorageAnswers(answer) ==
  /\ trip.at = "storage"
  /\ trip' = Settled(IF answer = "body" THEN "bytes" ELSE "failed")
  /\ UNCHANGED <<conn, chain, sent>>

StorageRedirects(url) ==
  /\ trip.at = "storage"
  /\ IF url.host = trip.host /\ trip.left > 0 THEN AtStorage(trip.host, trip.left - 1) ELSE GivesUp

HttpAnswer == {"body", "wrong size", "late", "refused"}
Addresses == {<<>>, <<"public">>, <<"public", "private">>, <<"private", "public">>}

DownloadNext ==
  \/ \E addresses \in Addresses : OpenConn(addresses)
  \/ CloseConn
  \/ \E admitted \in BOOLEAN : Read(admitted) \/ Observe(admitted)
  \/ \E answer \in HttpAnswer : ReadAnswered(answer) \/ HomeAnswers(answer) \/ StorageAnswers(answer)
  \/ \E file \in FileId, url \in Url : Download(file, url)
  \/ \E url \in Url, addresses \in Addresses : HomeRedirects(url, addresses)
  \/ \E url \in Url : StorageRedirects(url)

DownloadSpec == DownloadInit /\ [][DownloadNext]_downloadVars

-----------------------------------------------------------------------------
(* The token goes to Canvas only, and only for the file that was asked     *)
(* for; a chain that has left for a storage host that is allowed stays     *)
(* there; and however its hops are divided it follows MaxRedirects of them *)
(* (download: "the token is sent only to this Canvas origin").             *)
ChainIsBounded ==
  /\ Len(chain) <= MaxRedirects + 1
  /\ \A i \in DOMAIN chain :
       /\ chain[i].file = chain[1].file
       /\ chain[i].token <=> chain[i].host = Home
       /\ chain[i].host # Home =>
            chain[i].host \in Storage /\ \A j \in DOMAIN chain : j > i => chain[j].host = chain[i].host

(* A connection sends no more than the larger limit, and one that was not  *)
(* used to observe no more than the smaller; every request was counted.    *)
RequestsAreBounded ==
  /\ conn.count = sent.read + sent.observed
  /\ conn.count <= ObservationMax
  /\ sent.read > 0 /\ sent.observed = 0 /\ conn.limit = MaxRequests => sent.read <= MaxRequests

(* What one connection to Canvas may send, and where.                      *)
TokenStaysHome == ChainIsBounded /\ RequestsAreBounded
=============================================================================
