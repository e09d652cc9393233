----------------------------- MODULE MCServices -----------------------------
(***************************************************************************)
(* The services side by side: the authorization server (OAuthBroker), the  *)
(* state store, the window's sessions, retrieval and its capabilities, the *)
(* transcript intake, the accounts of the settings, the keys of the OpenID *)
(* provider, the settings of Canvas, and the protected files with the key  *)
(* of the settings (SecretFile).  A behaviour is one of a single part,     *)
(* chosen at the start, and the others stand still.                        *)
(***************************************************************************)
EXTENDS OAuthProperties, SecretFile, StateStore, OidcKeys, UiSessions, CanvasDownload,
  TranscriptIngest, CanvasSettings, Capabilities, SettingsSession, Retrieval, TLC

VARIABLES part

Piece(at, nth, size) == [at |-> at, part |-> nth, size |-> size]
CutOrWhole == {<<Piece(1, 1, 1), Piece(1, 2, 2)>>, <<Piece(1, 1, 3)>>}

Owner(t) == IF t = "tb" THEN "b" ELSE "a"

oauth == vars
store == storeVars
ui == sessionVars
retrieval == retrievalVars
rights == capabilityVars
transcript == transcriptVars
settings == settingsVars
keyCache == oidcVars
download == downloadVars
canvas == selectionVars
small == <<keyCache, download, canvas, secretVars>>

(* Nobody is connected yet, or somebody who has selected no course, and    *)
(* whose sync somebody has switched on.                                    *)
CanvasInit ==
  /\ \E account \in {"none", "a"} : \E sync \in {FALSE, account = "a"} :
       /\ config = [account |-> account, registry |-> NoRegistry, lease |-> NoLease, sync |-> sync, other |-> 0, revision |-> 0]
       /\ slot = [a \in {"a", "b"} |-> IF a = account THEN "ta" ELSE "none"]
       /\ offered = [a \in {"a", "b"} |-> IF account = "none" THEN {} ELSE {"c1"}]
  /\ title = 0 /\ edits = 0 /\ clock = 0 /\ writes = 0
  /\ admission = [a \in {"a", "b"} |-> "none"] /\ interrupted = {}
  /\ reviewed = {} /\ renewed = {}
  /\ asked = [r \in {"r1", "r2"} |-> NotAsked]

ServicesInit ==
  /\ part \in {"oauth", "store", "ui", "retrieval", "rights", "transcript", "settings", "keys", "download", "canvas", "secrets", "key"}
  /\ Init /\ StoreInit /\ SessionsInit /\ RetrievalInit /\ CapabilityInit /\ TranscriptInit /\ SettingsInit
  /\ OidcInit /\ DownloadInit /\ CanvasInit /\ SecretInit
  \* The materials, and the accounts, are alike; and what stands still starts in one state.
  /\ derivatives[2].layout = <<Piece(1, 1, 3)>>
  /\ part # "retrieval" => derivatives[1].layout = <<Piece(1, 1, 3)>>
  /\ "b" \notin {stored[p] : p \in {"mcp", "worker"}}
  /\ part # "settings" => stored = [p \in {"mcp", "worker"} |-> "none"]
  /\ jwks = {"k1"}
  /\ part # "canvas" => config.account = "none"
  /\ part \notin {"secrets", "key"} => ~windows /\ private

(* One session of the window asks for text, both ask for chunks of it.     *)
PackagesNext == RetrievalNext /\ \A k \in DOMAIN packages' : packages'[k].caller = "u1"

(* Two contexts for one scope, or one whose bindings change, or one that   *)
(* is for that scope or for none, to which one thread comes with another   *)
(* scope or with none of its own.                                          *)
RightsNext ==
  /\ CapabilityNext
  /\ LET strangers == flips' = 0 /\ \A c \in DOMAIN granted' : c = 1
     IN /\ flips' > 0 => DOMAIN granted' \subseteq {1}
        /\ \A c \in DOMAIN granted' : granted'[c].scope = "none" => strangers
        /\ \A t \in {"t1", "t2"} :
             "scope" \in DOMAIN doing'[t] =>
               /\ doing'[t].scope = "s1" \/ (t = "t2" /\ strangers)
               /\ doing'[t].at = "create" => doing'[t].scope # "s2"

(* The settings while the session lasts: the accounts of two requests, of  *)
(* which the second comes after the first sign-in.  The purposes are alike *)
(* and the first is for mcp.  MCProcesses has the ways the process ends.   *)
SignInsNext ==
  /\ SettingsNext
  /\ session.state = "active" => session' = session
  /\ closed' = closed /\ terminal' = terminal
  /\ IF DOMAIN flows' = {} THEN req'["r2"].at = "idle" ELSE flows'[1].purpose = "mcp"
  /\ \A i \in DOMAIN flows' : ~flows'[i].aged /\ flows'[i].status \notin {"denied", "cancelled"}

(* One request may bring any token; the other the owner's own.             *)
KeysNext ==
  /\ OidcNext
  /\ \A r \in {"r1", "r2"} :
       /\ "token" \in DOMAIN act'[r] => act'[r].token.owner \/ r = "r1"
       /\ act'[r].at = "done" /\ act'[r].verdict = "header" => r = "r1" /\ now = 0

(* Accounts while no course is offered, or courses of whoever connected.   *)
CanvasNext ==
  LET does(r, ops) == asked'[r].at # "idle" => asked'[r].op \in ops
  IN /\ SelectionNext
     /\ \/ /\ offered["b"] = {} /\ offered' = offered /\ title' = title /\ clock' = clock
           /\ does("r1", {"connect", "replace", "forget"}) /\ does("r2", {"connect", "replace", "forget", "test"})
        \/ /\ offered["b"] # {} /\ offered'["b"] = offered["b"]
           /\ does("r1", {"review", "apply", "discover", "disable"}) /\ does("r2", {"forget", "renew", "apply"})

(* Two processes at the file of the key, for which they would draw         *)
(* different keys, or at another protected file; somebody else's files are *)
(* alike, one of those who died left something, and the folder is opened   *)
(* up when somebody is about to look at it.                                *)
Draws(p) == IF p = "p1" THEN 1 ELSE 2
SecretsNext ==
  /\ SecretNext
  /\ \A p \in Process : call'[p] # NoCall =>
       IF part = "key"
       THEN call'[p].op = "key" /\ (call[p] = NoCall => call'[p].value = Draws(p))
       ELSE call'[p].op # "key" /\ call'[p].file # KeyFile
  /\ \A f \in File : entry'[f] # 0 => (part = "key" <=> f = KeyFile)
  /\ \A i \in Nodes : ~node'[i].trusted => node'[i].value = 1
  /\ \A n, m \in litter' : n = m
  /\ part = "secrets" \/ misread' => made' <= 2
  /\ private' \/ ~private \/ \A p \in Process : call[p].at \in {"idle", "open"}

ServicesNext ==
  /\ UNCHANGED part
  /\ \/ part = "oauth" /\ Next /\ UNCHANGED <<store, ui, retrieval, rights, transcript, settings, small>>
     \/ part = "store" /\ StoreNext /\ UNCHANGED <<oauth, ui, retrieval, rights, transcript, settings, small>>
     \/ part = "ui" /\ SessionsNext /\ UNCHANGED <<oauth, store, retrieval, rights, transcript, settings, small>>
     \/ part = "retrieval" /\ PackagesNext /\ UNCHANGED <<oauth, store, ui, rights, transcript, settings, small>>
     \/ part = "rights" /\ RightsNext /\ UNCHANGED <<oauth, store, ui, retrieval, transcript, settings, small>>
     \/ part = "transcript" /\ TranscriptNext /\ UNCHANGED <<oauth, store, ui, retrieval, rights, settings, small>>
     \/ part = "settings" /\ SignInsNext /\ UNCHANGED <<oauth, store, ui, retrieval, rights, transcript, small>>
     \/ /\ UNCHANGED <<oauth, store, ui, retrieval, rights, transcript, settings>>
        /\ \/ part = "keys" /\ KeysNext /\ UNCHANGED <<download, canvas, secretVars>>
           \/ part = "download" /\ DownloadNext /\ UNCHANGED <<keyCache, canvas, secretVars>>
           \/ part = "canvas" /\ CanvasNext /\ UNCHANGED <<keyCache, download, secretVars>>
           \/ part \in {"secrets", "key"} /\ SecretsNext /\ UNCHANGED <<keyCache, download, canvas>>
     \* All but the authorization server may come to an end.
     \/ part # "oauth" /\ UNCHANGED <<oauth, store, ui, retrieval, rights, transcript, settings, small>>

ServicesSpec == ServicesInit /\ [][ServicesNext]_<<oauth, store, ui, retrieval, rights, transcript, settings, small, part>>

-----------------------------------------------------------------------------
\* The properties are the modules' own, stated there.

=============================================================================
