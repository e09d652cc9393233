----------------------------- MODULE MCProcesses -----------------------------
(***************************************************************************)
(* What runs as processes and threads beside one another: the lock file on *)
(* either platform, the Local Settings server with its launches and the    *)
(* reads of a user's courses that it makes, and the desktop Shell with its *)
(* Core.  A behaviour is one of a single part, chosen at the start, and    *)
(* the others stand still.                                                 *)
(***************************************************************************)
EXTENDS LockFile, SettingsSession, SettingsHandover, CanvasDiscovery, ShellChannel, TLC

VARIABLES
  windows,    \* the platform of the lock file
  part

OnWindows == INSTANCE LockFile WITH Windows <- TRUE

(* On Windows, where a live owner may be taken for dead, two processes do; *)
(* the third stays idle.                                                   *)
Third == CHOOSE p \in Process : TRUE
LockNext ==
  /\ IF windows THEN OnWindows!Next /\ pc'[Third] = "idle" ELSE Next
  /\ UNCHANGED windows

lockFile == <<vars, windows>>
settings == settingsVars
launches == launchVars
reads == discoveryVars
shell == shellVars

ProcessesInit ==
  /\ part \in {"lock", "settings", "launches", "reads", "shell"}
  /\ Init /\ windows \in BOOLEAN /\ SettingsInit /\ HandoverInit /\ DiscoveryInit /\ ShellInit
  \* What stands still starts in one state.
  /\ part # "lock" => ~windows
  /\ part # "settings" => stored = [p \in {"mcp", "worker"} |-> "none"]
  /\ listing = <<"c1", "c2">> /\ termOf = [c \in ListedCourse |-> "m1"]

(* The settings with one request, one account and one purpose at a time,   *)
(* and all the ways the process ends; MCServices has two requests.         *)
OneSignInNext ==
  /\ SettingsNext /\ req'["r2"] = req["r2"]
  /\ \A i \in DOMAIN flows' : flows'[i].account # "b" /\ flows'[i].purpose = "mcp"

(* What may be asked for: nothing, two courses, or one of them twice.      *)
MCChoice == {<<>>, <<"c1", "c2">>, <<"c1", "c1">>}

(* One thread reads chosen courses, or both discover; a course comes in    *)
(* front, one goes, or one gets another term.                              *)
ReadsNext ==
  /\ DiscoveryNext
  /\ \A t \in Thread : act'[t] # act[t] /\ act'[t].op = "reread" /\ act[t].at \in {"idle", "done"} =>
       t = "t1" /\ act["t2"].at = "idle"
  /\ changes' # changes =>
       listing' \in {<<"c3", "c1", "c2">>, <<"c2">>} \/ termOf' = [termOf EXCEPT !["c2"] = "m2"]

ProcessesNext ==
  /\ UNCHANGED part
  /\ \/ part = "lock" /\ LockNext /\ UNCHANGED <<settings, launches, reads, shell>>
     \/ part = "settings" /\ OneSignInNext /\ UNCHANGED <<lockFile, launches, reads, shell>>
     \/ part = "launches" /\ HandoverNext /\ UNCHANGED <<lockFile, settings, reads, shell>>
     \/ part = "reads" /\ ReadsNext /\ UNCHANGED <<lockFile, settings, launches, shell>>
     \/ part = "shell" /\ ShellNext /\ UNCHANGED <<lockFile, settings, launches, reads>>

(* Each part's own fairness, while it is the one that runs.                *)
SettingsFair ==
  /\ \A r \in {"r1", "r2"} : WF_settings(part = "settings" /\ Works(r))
  /\ WF_settings(part = "settings" /\ CheckLifecycle) /\ WF_settings(part = "settings" /\ TerminateRun)
  /\ WF_settings(part = "settings" /\ CloseDone) /\ WF_settings(part = "settings" /\ ExitProcess)
ShellFair ==
  /\ WF_shell(part = "shell" /\ CoreServes) /\ WF_shell(part = "shell" /\ Reader)
  /\ WF_shell(part = "shell" /\ StartCore) /\ WF_shell(part = "shell" /\ QuitDone)
LockFair == \A p \in Process : WF_lockFile(part = "lock" /\ ~windows /\ Acquiring(p) /\ UNCHANGED windows)

ProcessesSpec ==
  /\ ProcessesInit /\ [][ProcessesNext]_<<lockFile, settings, launches, reads, shell, part>>
  /\ LockFair /\ SettingsFair /\ ShellFair

-----------------------------------------------------------------------------
(* On POSIX only crashes leave lock files behind (LitterIsFromCrash), and   *)
(* the file of a dead owner is removed when somebody keeps trying for it,   *)
(* also when several processes judge it stale at the same time              *)
(* (DeadFileIsRemoved).  The processes are alike, so that one of them       *)
(* speaks for all.                                                          *)
PosixFilesGoAway ==
  /\ [](~windows => LitterIsFromCrash)
  /\ \A i \in Inode :
       (~windows /\ path = i /\ owner[i] # NoProcess /\ pc[owner[i]] = "dead" /\ Waiting(Third))
         ~> (path # i \/ ~Waiting(Third))

\* The others are the modules' own, stated there.

=============================================================================
