# Syllva in TLA+

Syllva is a local-first academic assistant. A desktop Shell (Rust, `shell/`) starts a Python Core
(`src/syllva/`), opens windows on the Core's web UI and answers for the person in front of them. The Core
keeps one SQLite library, takes files in, normalizes them into citable chunks, serves them to language-model
clients over MCP, and keeps the connections (Canvas, Google, Notion, GitHub) it needs. A local settings server
writes the configuration and the credentials, and scripts import a university's LMS into Notion.

This directory holds TLA+ models of the parts of that system whose correctness depends on order, on failure
or on a long history, the TLC configurations that check them on small instances, and TLAPS proofs of results
that hold for every instance. `PROJECT.json` maps each definition to the lines it models, lists the hazards of
the code with the properties aimed at them, and lists every run. Paths below are relative to `src/syllva/`
unless they begin with `shell/`, `scripts/` or `docs/`.

Contents: 1 inventory, 2 modules and how they follow the code, 3 runs, bounds, fairness and findings, 4 proofs,
5 what is not modelled, 6 what could come next.

## 1. Inventory

| Component (code) | State it keeps | What is hard | What makes it correct | Modelled in |
|---|---|---|---|---|
| Local intake and worker (`intake/v2/pipeline.py`, `ingestion/local.py`, `normalization/local.py`, `core/worker.py`) | tables of files, versions, candidates, materials, derivatives, jobs; a step lock; a thread and its pass | each step is several transactions; a delete ignores the step lock; crashes; superseded runs | a status speaks of the newest version; one material per source; nothing is stranded | `Intake` |
| Human gate (`gate/`, `shell/app/src/gate.rs`) | requests and cooldowns in memory; `human_gate_log`, `material_usage` | the target changes under a dialog; duplicated confirms; crash between commit and answer | a mark is what a person saw; log, marks and answers agree | `Gate` |
| Lock file (`orchestration/locks.py`) | a file, its metadata, an advisory lock per inode | name and inode come apart; two processes recover one stale file | one holder; a dead holder's file is recovered | `LockFile` |
| Canvas connection (`canvas/credential.py`, `ui/canvas.py`) | row, course links, keychain | database and keychain cannot commit together | no token without a row that remembers it | `CanvasCredentials` |
| Canvas HTTP reader (`canvas/http.py`) | an open connection and its count of requests; a gate per profile | redirects, limits, pages that move while they are read, two threads | the token stays at its origin; a listing is what Canvas had | `CanvasDownload`, `CanvasDiscovery` |
| Canvas settings (`settings/canvas_service.py`) | profile, selected courses, a lease in the configuration | requests overlap between review and write; other pages and the editor write whenever they like, also while an operation is open | nothing is enabled that was not read and reviewed; no recovery takes back what others wrote | `CanvasSettings` |
| Settings journal, credentials, configuration (`settings/journal.py`, `credential_service.py`, `credential_admission.py`, `config_service.py`) | configuration files, secret stores, markers, a journal | a saga over files and stores with a crash at every write; edits by hand | old or new value, never neither | `ConfigStore`, `CredentialJournal`, `CredentialSaga` |
| Settings application, launcher, Google sign-in (`settings/app.py`, `security.py`, `launcher.py`, `google_oauth.py`) | one session, flows in memory, an owner lock and a socket | a callback outside the barrier; three ways to end; launches that replace each other | one account is saved once; an owner answers; the process ends | `SettingsSession`, `SettingsHandover` |
| Protected files (`config/_secure_file.py`, `settings/credential_stores.py`) | files of secrets, temporary files beside them, a key for private ids | processes write, read and delete them at once and without a lock; a writer dies; somebody else changes the folder | what is read is whole and was checked; all get one key; what a writer could not remove is never gone on with | `SecretFile` |
| MCP authorization server (`mcp/transports/oauth.py`, `oidc.py`) | clients, codes, tokens, policy; cached keys | codes used twice, refresh rotation, policy change, rotated keys | a family is a chain that ends whole; only published keys are trusted | `OAuthBroker`, `OidcKeys` |
| Core and Shell (`core/stdio.py`, `shell/app/src/core.rs`) | a child process, one request and reply at a time | late replies, both ends dying, quitting | an answer belongs to its question; neither outlives the other | `ShellChannel` |
| UI sessions (`ui/sessions.py`, `ui/http.py`, `shell/app/src/relay.rs`, `main.rs`) | tokens, sessions, the Shell's jar of cookies | a token is raced; recovery in several threads | a token works once; one session per window | `UiSessions` |
| Database, migrations, writer, blobs (`library/`, `state/v2/`) | an OS lock, a schema version, backups, the open transaction, files by SHA-256 | crash in a migration, COMMIT that fails, nested transactions | all or nothing; a row's blob is stored | `StateStore` |
| Retrieval and context capabilities (`retrieval/service.py`, `context.py`, `capabilities.py`, `ephemeral/memory.py`) | capabilities with a time to live | the library changes between two reads of one call; validators run outside the locks; a context may be for one caller or for all | an answer is current text or says what is missing; a right is used only while it holds | `Retrieval`, `Capabilities` |
| Transcript pipeline (`ingestion/transcript_ingest.py`, `orchestration/runner.py`, `jobs.py`, `retry.py`) | jobs, versions, a published version, a Notion row | every call may fail before or after its effect | READY comes last; no version is published twice | `TranscriptIngest` |
| KNU LMS scripts (`scripts/knu_lms_*.py`) | a reservation, evidence, a collection, an accepted projection | a driver that dies, teachers who edit, users who edit | the reservation protects; a user's text is never taken away | `LmsReservation`, `LmsCollector`, `LmsAside`, `LmsProjection` |
| Text functions, schemas, adapters, command line, static pages, tools | none that another part relies on | | | see section 5 |

How they interact. The HTTP handlers (threads of a pool), the stdio loop (the Shell's messages) and the intake
worker share one `StateWriter`, whose lock serialises transactions, and call `LocalIntake` under its step lock.
The gate asks the session store whether a session is alive and reads its target through the writer. The Shell
speaks to the Core over stdio: it asks for a bootstrap token per window, ends a window's session, and carries
`gate.get`, `gate.confirm` and `gate.deny`; it relays a window's requests with the cookie of its jar. The
settings server is a process of its own; its pages call the credential saga, the configuration service and the
Canvas settings, which read Canvas through the HTTP reader. The remote MCP endpoint asks the authorization
server for its own tokens and the key manager for the provider's. The transcript pipeline and the LMS scripts
are processes that share only lock files and stores with the rest.

Where one part's model meets another's, the interface is an assumption of the one and a property of the other:
`Gate` takes a revision and a completeness of chunks that `Intake` changes; `SettingsSession` and
`CanvasSettings` take a save of credentials as atomic, which `ImplementsAtomicCredential` shows of
`CredentialSaga`; `SettingsHandover` takes the owner's lock as exclusive, which `LockIsHeld` shows of `LockFile`;
`UiSessions` lets the Core answer or not, which `ShellChannel` details; `StateStore` justifies that `Intake`,
`Gate` and `CanvasCredentials` take a transaction as one step that may fail; `CanvasSettings` takes what
`CanvasDiscovery` promises of a reading.

## 2. Modules

A component has a module with its state and actions, its properties and inductive invariant beside them or in a
`...Properties` module, proofs in a `...Proofs` module, which some small components share, and a place in an
`MC...` module that gives the constants their values for TLC.
Each module's header says what it abstracts. Definitions named `X_...` beside a definition `X` are faulty forms
of it, each a bug somebody could write; `PROJECT.json` names for each property one that violates it, and no
specification uses them.

| Module | What it is |
|---|---|
| `Intake`, `IntakeProperties`, `IntakeProofs` | the intake and its worker, one action per transaction |
| `MaterialEvidence` | what the intake promises: a status speaks of the evidence stored for the current revision |
| `Gate`, `GateProperties`, `GateProofs`, `MCGate` | the human gate with its clock, the commit and the dialog of the Shell |
| `HumanProof` | what the gate promises: a proof is about what a person was shown, once |
| `LockFile` | the lock file, call by call, on POSIX and on Windows |
| `SettingsSession`, `SettingsHandover`, `CanvasDiscovery`, `ShellChannel` | a settings process, launches that replace it, its reads of a user's courses, the Shell and its Core |
| `LockFileProofs` | proofs about `LockFile`, `SettingsHandover` and `ShellChannel` |
| `MCProcesses` | the lock file and these four, one at a time |
| `CanvasCredentials`, `MCCanvas` | the Canvas connection |
| `LmsReservation`, `LmsCollector`, `LmsAside`, `LmsProjection` | the four parts of the LMS import |
| `CanvasProofs` | proofs about the Canvas connection and the LMS import |
| `MCLms` | the Canvas connection and the LMS parts, one at a time |
| `ConfigStore`, `CredentialJournal`, `CredentialSaga`, `CredentialProperties`, `CredentialProofs`, `MCSettings` | reviewed changes, the journal's rules, the saga with its recovery; each extends the one before |
| `AtomicCredential` | what a credential operation promises: the new value at once, or the old one |
| `OAuthBroker`, `OAuthProperties` | the authorization server |
| `Capabilities` | the capabilities of the contexts that are read |
| `OAuthProofs` | proofs about the authorization server and the capabilities |
| `StateStore`, `OidcKeys`, `CanvasDownload`, `UiSessions`, `TranscriptIngest`, `Retrieval` | services inside the Core and beside it |
| `ServiceProofs` | proofs about these six |
| `CanvasSettings` | the Canvas settings |
| `SecretFile` | the protected files, system call by system call, and the key kept in one |
| `SettingsProofs` | proofs about `SecretFile`, `CanvasSettings`, `SettingsSession` and `CanvasDiscovery` |
| `MCServices` | the authorization server, the services and the protected files, one at a time |

The modules `MCProcesses`, `MCLms` and `MCServices` explore several small, independent parts in one run: the
first state chooses a part, and the others stand still. A property of a part is required of all states; where the
part stands still it holds in its first state.

### Intake

A table is a function from row ids to records; an id that no row has holds the table's null record. `step` is
the public method of `LocalIntake` that holds the step lock, and where it is: methods with one transaction are
one action, the others (`classify`, `replace`, `process`, `recover`) are one action per transaction or read
that another thread may come between. `worker` is the thread of `core/worker.py`: `todo` is the list of ids that
`run_pending` read. `Delete` asks only for the writer's lock, so it may happen inside a step. `Crash` keeps the
tables and loses step and worker; `StepFails` is a step ended by a database error or a broken invariant, which
the code lets propagate.

| Action | Code |
|---|---|
| `ReceiveNew`, `ReceiveKnown`, `ReceiveUnsupported` | `receive` with `ingest_new` |
| `ClassifyBegin`, `ClassifyAuto`, `ClassifyReview` | `classify` |
| `Confirm`, `Dismiss`, `Retry` | the same methods |
| `ReplaceBegin`, `ReplaceCommit`, `ReplaceRefused` | `replace`: its checks, then its transaction with `add_version` |
| `ProcessDeleted`, `ProcessSuperseded`, `ProcessBegin`, `JobStart`, `Claim`, `Normalize`, `Finish` | `process` |
| `PassBegin`, `WorkerClassify`, `WorkerClassifySkip`, `PassProcess`, `PassEnd` | `run_pending` and the worker's loop |
| `RecoverBegin`, `Recover`, `RecoverEnd` | `recover` |
| `Delete` | `LibraryApi.delete` |

Abstractions. Content is known up to equality of hashes. There is one course. Which outcome a classification or
normalization has is nondeterministic. Attempt counters and time stamps are left out. A kick and the idle
timeout are one thing: a pass may begin whenever the worker is idle. `recover` may take the orphans in any
order. The commands of the CLI run under the database lock in a process of their own, and are covered by the
same actions. `process` refuses a candidate that is not runnable; `RowsAgree` shows that a pass never meets it.

### Gate

`records` and `cooldown` are the service's dictionaries; the service lock makes view, deny and the decisions of
confirm atomic. Two things are not atomic and are kept apart: `BeginRead` (the target is read before the lock is
taken, together with the session lookup of the handler) and `ConfirmBegin`, `CommitWrites` / `CommitRefused` /
`CommitFails`, `ConfirmEnd` (the lock is held, but the database, the sessions and the clock move). Of the library
the gate sees a material's newest version and the completeness of its chunks; `NewRevision`, `StoreEvidence` and
`DeleteMaterial` are what the intake does to those. The MAC is a boolean that is right only when the dialog was
shown. `VERIFY_MATERIAL` is the only wired action.

### Lock file

`path` is the inode the path names, 0 when it names none. Files are numbered in the order they are created, and
`owner`, `marked`, `old` and `flock` say what is in a file and who has its advisory lock. Each process is in one
method of `LocalWorkerLock` at one call, `pc`, and has at most one file open, `fd`.

| Action | Code |
|---|---|
| `Create`, `Found`, `LockNew`, `LockNewFails`, `Write`, `WriteFails` | `acquire` up to its metadata |
| `UndoStat`, `UndoUnlink` | the cleanup of an acquire that failed |
| `LookOpen`, `LooksStale`, `LooksLive`, `Retry`, `GiveUp` | `_stale_lock_snapshot`, `_pid_is_alive`, and the loop around them |
| `Reopen`, `LockStale`, `LockStaleFails`, `Check`, `Stat`, `Remove` | the removal of a stale file under its own lock |
| `Release`, `LeaveStat`, `LeaveUnlink` | `release` |
| `Crash`, `Age` | a process dies; a file that nobody writes grows old |

`Windows` is `_IS_WINDOWS`: an open file cannot be deleted, a locked byte hides the metadata, and a live process
may look dead, because `os.kill(pid, 0)` is no test there. Two things the model shows that no document denies: a
process that finds its fresh file locked by a reclaimer runs the same cleanup as one that has the lock
(`locks.py:121`), harmless because nobody else has made the file the path names; and on Windows a release may
leave its file behind when another process has it open (`locks.py:347`), so `LitterIsFromCrash` speaks of POSIX.

### Canvas connection, reader and settings

`CanvasCredentials`: `row` is the one row of `canvas_profile` without its token, `keychain` the entry of each
account, `links` the table `canvas_courses`. `act` is what a thread does: the methods that hold the lock go
through `store`, `set`, `erase` and `drop`; the routes `link` and `discover` read `origin`, `row` and `get`
without it. Each call of the keychain may fail before or after its effect, each transaction may fail, and `Crash`
keeps row, links and keychain. `recover` runs before the Core serves. `link_course` only asks that some account
is connected (`credential.py:323`); that the course was verified with another one is recorded in a link's `of`,
and no property demands otherwise because the code promises nothing about it. `set_file_hosts`, which writes a
column of its own, is left out.

`CanvasDownload` is one connection: an address looked up once and pinned, a budget of requests, a chain of redirects
that may leave the origin once, for a storage host, without the token. `observe`, `file_metadata` and `download` have
no caller but tests; the limit of requests stays raised once the file was observed. `CanvasDiscovery` is two threads
that list courses page by page, or reread chosen ones, while Canvas changes. It shows what the code leaves open: past
its caps the listing is cut without a word, and an edit between two pages may skip or repeat an entry;
`ReadsAreHonest` says what does hold. `ended` is history: what each call left, and when its profile's cooldown is
over; only properties read it. The settings call it with `verify_user=False` and a gate of their own. `CanvasSettings`
is the page: each request reads the generation it was made from, waits for the lock, checks, calls Canvas, checks
again and writes. `snapshot`, which only reads, is left out, and so are the display texts but for one title. Saves of
a credential (with a new `revision`) and writes of the configuration take effect at once, or are cut at one of their
`Moments` and stay in `interrupted` as open operations until `RecoverSave` or `RecoverWrite` ends them. What asks for
open operations is this page: its requests refuse to begin, to be admitted and to write (`_load`, `_admit_profile`,
`_apply`). The other pages and the editor ask nobody, so `OtherWrites` happens at any time, also between a crash and
its recovery, and changes the configuration away from what the open operation knows and perhaps back. A recovery goes
on only from a configuration that the operation found or made (`Fits`); from a third state the operation stays open
for manual review, with a token stored for an account that is not connected, or an account that is connected without
its token. `LeaseIsEarned` says that this happens to an account with an open operation and to no other.
`SelectionsHold` then says two things of every step, recoveries included: nothing is selected that was not reviewed as
it is, and no write takes back another one's. The editor may write anything but the three fields that this page owns
(profile, courses, lease); a hand that writes those can select what nobody reviewed, and nothing in the code denies
it.

### Settings: configuration, journal and saga

`ConfigStore` has the reviewed change of `config_service.py`: begin in the journal, write the file under its lock
file if the generation is the reviewed one, record the outcome; and the user's editor, which asks nobody.
`CredentialJournal` has the journal's rules as operators: which effects an operation of a kind and branch
consists of, which successor of a record is valid, and what a comparison of the stores with the record makes of
an interrupted operation. `CredentialSaga` runs one operation under the pair's locks: reservation in
`credential_admission.py` (`Start` to `PublishPair`), the record (`CreateRecord`), the effects, each with its
intent, its write and its record (`Intend`, `Perform`, `RecordEffect`), the verification and what follows from it
(`Complete`, `Verify`, `Continue`), and the release (`ReleasePair`, `ReleaseSlot`). Each durable write is one step,
and the worker may die or raise between any two (`Leave`). `Recover`, `Inspect`, `Bridge`, `Finish` and the
`Recover...` actions are the recovery that a user asks for.

What the model showed and the properties do not forbid: a crash between reservation and journal record, a
temporary marker left over, a crash before the secret was staged, a mismatch on read-back, or an edit by hand
during a pending operation leave manual review only; a forget in one workspace deletes the credential another
workspace still selects (the exception in `StoresAreSound`); a crash inside the release leaves a slot marker of
schema 2 without its pair, which only a recovery of that very operation clears
(`tests/contract/test_settings_credential_admission.py:1210` expects so, while
`docs/plans/local-settings-gui-2-worker-plan.md:285` reads differently); the comment "Provably no write happened"
in `config_service._recover_locked` does not hold when the file goes from A to B and back to A by hand.

### Settings process, launches, Shell and Core

`SettingsSession` has one process: bootstrap, requests admitted by the session and serialised by a barrier, flows of
the Google sign-in with their one-use state, the exchange of a code outside every lock, the save that must still match
its flow, and the ends by closing, by lifetime and by replacement. `SettingsHandover` has launches: the one that finds
the lock held reads the owner's record, sends `prepare` and `commit`, and believes only that the old process is gone
and the lock free. `ShellChannel` has the Shell's callers, its reader thread and the Core, with one request at a time,
time limits, garbage, refusals, and the ways both ends stop. A line is the number of the request it answers, or one of
a few codes (ready, declined, garbage, the end). In it a reply that comes after its caller gave up is taken for the
next one's, because replies carry no name: the part of `ShellAndCoreAgree` about answers (`AnswersMatch`) is stated
for a Shell that has given up no request, and says nothing of what happens after a timeout. That hazard is listed as
covered by no property. `UiSessions` has windows, tokens, the jar of the Shell and several calls of one page.

### Protected files

`SecretFile`: `entry` is the inode each name stands for, `draft` that of each writer's temporary name, `call` where each
process is in its read, write or deletion. `OpenFile`, `CheckFile` and `ReadFile` are the descriptor, its checks and its
bytes; `CreateDraft`, `Fill`, `Replace` and `Written` a write. Any call may fail (`Fails`) and any process die (`Dies`).
A writer that fails removes its temporary file, but an error of that removal is swallowed
(`config/_secure_file.py:299`, on Windows `:812`), so a living writer may leave a file with a secret as a dead one does:
`litter` holds both. The name is one for each process and target, so from then on each write of that process to that
target is refused; nothing in the code removes the file. `DraftsAreOwned` says what does hold: a temporary file is either
that of a writer at work or was left, never both, so that no later writer goes on with what was left, and it is no
protected file at the same time. The owner lookups and access lists of Windows are one attribute, `trusted`.

### Database, retrieval, transcripts

`StateStore`: several processes open one library (lock, check, backup, one transaction per migration), die anywhere,
and the one that serves runs threads that put blobs and nest transactions. After a COMMIT that raised the writer's own
queries still show rows that never become durable, and a nested transaction whose exception the outer body catches
keeps its partial writes, for there are no savepoints; both are in the model. Power loss is not, and neither is one
crash: copies are named by the second, so a Core that dies after one of two migrations and is opened again within that
second writes its second copy over the first. The model gives each copy a name of its own. `Retrieval`: each read of
the database is a step, so a version may change between two reads of one call, and a derivative may be published
between the read that found none and the one that asks for an older one (`CollectOne`, `NoteMissing`). A derivative
may have been normalized for another material, which its locators tell (`Foreign`); it is skipped with a warning. A
selection is a set of places in what was read, without their order; the windows of a package are cut off it one per
step. `Capabilities`: threads issue and authorise while bindings lose and regain their validity; a context is issued
to one caller's scope or to `NoScope`, which lets every caller in (`MayUse`); a capability that expires while requests
are under way may serve each of them once more. Only tests use the manager in this commit. `TranscriptIngest`: the
store, Drive and Notion are external, so each call may answer, fail before or fail after its effect. It shows that
`SourceUnavailableError` is transient for `_job_error_class` but permanent for the runner, so the job is not queued
again; that a job whose completion raised after taking effect is counted failed; and that a delayed retry of an older
version publishes over a newer one. No document of the code denies these.

### LMS import

`LmsReservation`: the advisory lock dies with its process, the record in `active-run.json` survives; keepers,
enrollments of a token, collections and the operator who reconciles. `LmsCollector`: pages read while teachers
edit, caps, deadlines, what the validators accept. `LmsAside`: one call of the browser transport, its child, two
readers, a budget and a deadline. `LmsProjection`: the planning functions, which are pure, inside the driver that
`docs/plans/knu-lms-hourly-driver.md` describes (external code, modelled from how its inputs are used): intents
in front of each change, calls that time out with or without effect, a driver that dies, users who edit rows, page
and notes. Limits the model shows: a deletion in the list being read may skip an entry without a word; an edit made
after the driver's read-back may be overwritten, as may one that takes a row back to what was last accepted.

### Authorization server and the provider's keys

`pending` and `owners` are the two states of `oauth_clients`; `codes`, and `pairs` of an access and a refresh
token, are the grants with what became of them; `logins` is the dictionary of logins in memory together with the
callbacks under way; `request` is what a request to the token endpoint has loaded and not yet exchanged. Each
method of `OAuthStore` is one transaction (`BEGIN IMMEDIATE`), run in a thread of its own by `asyncio.to_thread`,
so any other may come between two of them. Whatever has a time to live may be found expired whenever it is
looked at, so no clock is needed. A restart (`Crash`, `Start`) may bring another policy, which `activate_policy`
enforces on all rows.

| Action | Code |
|---|---|
| `Start`, `Crash` | `GoogleOAuthBrokerProvider.__init__` with `activate_policy`; the end of the process |
| `GetClient`, `Register`, `Promote` | `get_client`, `register_client`, `promote_client` |
| `Authorize`, `Callback`, `LoginFails`, `IssueCode` | `authorize`, `handle_google_callback`, `issue_authorization_code` |
| `LoadCode`, `ExchangeCode`, `LoadRefresh`, `ExchangeRefresh`, `ExchangeRefused` | the two transactions of a token request |
| `EndFamily` | `load_refresh_token` of a used, revoked or expired token, `load_access_token` of another policy, `revoke_token` |

`OidcKeys`: requests are coroutines, the fetch is a thread under the manager's lock and stores the keys before
their times. The comment "If network fails but non-expired cache has the key, use it" (`oidc.py`, about line 206)
describes a branch that is never reached, because the same condition was answered when the lock was taken; during
the cooldown a cached key is served past its expiry; while the provider fails each waiter fetches again. The
cancellation of a request during its fetch is left out, and the clock is taken as monotone.

## 3. Runs

| Run | Question | Bounds and why they are enough |
|---|---|---|
| `intake_one_source` | Does the intake implement `MaterialEvidence`? Do superseded runs decide nothing? Is all that was received or queued settled, across crashes and errors? | one source with two versions, two candidates, one material, two faults: replace, retry of the old version and a crash or error inside the run all fit; a third version adds only another superseded one; fairness assumed |
| `intake_two_sources` | Can bytes that are dropped, dismissed, dropped again and replaced make two materials of one source, or strand one? | two sources and two versions, three candidates, one fault; two contents, so duplicates happen within and across sources |
| `gate` | Marks, memory, log and answers, in two scenarios: many windows while contents change, and one session while the clock moves | windows: two windows, three sessions (a window's session can be replaced and the other window compete), two requests, one fault; clock: four ticks, time to live 2, cooldown 1, keep 1, overlapping begins, so that expiry, cooldown after expiry and forgetting all happen |
| `gate_carried` (violation) | Does a verification stay with the content it was given for? | the smallest instance |
| `settings` | Is an interrupted credential operation old or new, is repair always possible, is no copy of a secret left? | two workspaces (a conflict across them), a pair of roles, two secrets; two operations on a pair of which one role is in use, or one beside a reviewed change and an edit by hand; symmetric in workspaces, roles and secrets |
| `processes` | The lock file; one settings process; launches; reads of a user's courses; Shell and Core | see below |
| `canvas_and_lms` | The Canvas connection; the LMS import | see below |
| `canvas_home` (violation) | Is a token sent only to the origin it belongs to? | two accounts at two origins, three threads |
| `services` | Authorization server, the services, Canvas settings, protected files | see below |
| `oauth_reuse` (violation) | Does the losing reuse of a refresh token revoke the family? | two requests, three pairs |
| `lms_notice` (violation) | Is each change of the projection told? | one assignment with one value, two announcements, three runs, two changes of the LMS |
| `window_recovery` (violation) | Does a window whose session was lost come back? | one window, three calls, three tokens |

The parts of the composed runs and their bounds:

| Run, part | Properties | Bounds |
|---|---|---|
| `processes`, lock | `LockIsHeld`, `PosixFilesGoAway` | POSIX and Windows; three processes (one dies, one judges, one overtakes), two files (the stale one and its successor); `PosixFilesGoAway` follows one process, `Third` |
| settings process | `VerdictsAreFinal`, `EndedSessionsExit` (with `NoneCutOff`, the half of `OneAccountOneSession` about the end of the session) | one request at work, two flows of one purpose and account, one generation of the configuration after the first: a flow superseded while its code is exchanged, each end of the process during it |
| launches | `OwnerAnswers` | three launches: an owner, the one that replaces it, one that comes between |
| reading courses | `ReadsAreHonest` | two threads that discover, or one that rereads two courses or one twice; one profile, three courses, two terms, pages of one, two pages, two courses at most; time limits 2 and 3, cooldown 1, four ticks, one change |
| Shell and Core | `ShellAndCoreAgree` | two callers, three requests, garbage and time limits at any place |
| `canvas_and_lms`, connection and crowd | `KeychainFollowsRow`, `LinksHold`, `ConnectionIsNotSwapped` | two threads at work with two accounts, one of two tokens, and two courses on each side; three threads with two accounts and one course; symmetric in threads |
| reservation | `ReservationProtects` | three processes (symmetric), two documents, three reservations, one change of evidence |
| collector | `AnswersAreWhole` | two courses, two lists of up to three entries, pages of one, caps of two, two edits, two deadlines |
| browser transport | `AnswersAreWhole` | two lines written, a budget of one for each stream |
| projection | `NothingIsTakenAway` | one assignment with two values, two announcements, three runs, two user edits, one change of the LMS, two rows: a driver dies after an effect, the user edits, the next run meets it |
| `services`, authorization server | `FamilyIsAChain`, `GrantsHold` | two requests, two logins, four pairs, three clients, tables of one row: a family of three or two families, an evicted client at login, a full table of owners; two policies over any number of restarts |
| database | `StoreIsSound` | two processes, schema 2, two transactions of two rows, one crash: a crash in each migration, a nested transaction on each side of a failing COMMIT |
| windows | `OneSessionPerWindow` | one window, three calls that may each fetch a token of their own, three tokens |
| retrieval | `AnswersAreHonest` | two materials, one in one chunk or two of different sizes; at most two items, three characters, two of one item; two windows, one change (of it a derivative of another material's text), two packages of one caller |
| capabilities | `RightsHold` | two threads, contexts for one scope or for none, callers of that scope, of another or of none, two rival bindings, capacity 1, follow-up budget 1; two contexts for one scope, or one whose bindings change, or one for a scope or for none to which callers of any scope come |
| transcript | `ReadyComesLast` | two hashes, one of them partial, two attempts, four calls of the runner |
| accounts | `OneAccountOneSession` (here its half about accounts: the process does not end) | two requests, the second after the first sign-in, two purposes and accounts, two flows |
| provider's keys | `KeysAreTrusted` | two requests, two kids, time to live 2, cooldown 1, a fetch of at most one tick, one rotation, three ticks |
| download | `TokenStaysHome` | two storage hosts and one other, two files, two redirects, two reads: the third of each is refused |
| Canvas settings | `SelectionsHold` | two requests, two accounts, one course, lease of one tick, one change of the world, one write by others at any time, one review, two credential revisions; operations cut at each of their moments, and met by recovery as they were left or in a third state; who is connected changes while no course is offered, or courses are selected under one account |
| protected files, key | `SecretsAreWhole` | two processes, which write, read and delete one file or make the key; two values; content of one part, so that a file is empty or whole; three inodes, two in the part of the files: a file is replaced while it is read, a writer dies or cannot remove its temporary file, the next collides with what was left |

What a larger instance could add was judged part by part: each hazard of `PROJECT.json` needs the actors named
above and one fault or change; a second change mostly repeats the first. Every bound is a constant named `Max...`
or a set in the `MC` module, and only guards of inputs use it, so no behaviour of the code is cut in the middle.

Deadlock is checked in the intake, Canvas and OAuth runs, and for the parts `connection` and authorization server
in the composed ones (their other parts may stutter). The gate, the settings, the processes and the two small
violation runs really may stop: their bounds on requests, revisions, time and files are used up, or all processes
have ended, so these runs do not check it.

**Fairness.** *Intake* (`FairSpec`): the worker is a running thread and a step a running method, so its moves
and those of a step are weakly fair. The step lock goes back and forth between the worker and the users' threads,
so taking it needs strong fairness: Python's lock is not fair in law, but users' threads do not hold it for ever.
`Start` is weakly fair: the app is started again after a crash. Nothing makes a user act. A candidate whose own
step ended with a database error waits for the next start (`LeftBehind`), which the liveness property says.
*Lock file*: code between two statements runs on, so `Acquiring(p)` is weakly fair for each process; nothing
makes a process ask for the lock, wait for it, release it or die. *Settings process*: running requests, the
lifecycle's periodic check, its forced end and the exit are weakly fair (the check is a loop on the event loop,
the forced end a timer), but no user or provider acts. *Shell and Core*: a running Core serves or fails, the
reader thread reads, the start and the quit go on; callers need do nothing.

**Findings.** Each has a run that shows the trace.

* `gate_carried`: `state/v2/migrations/001_v2_initial.sql:365` says a verification cannot be carried to other
  content. `replace` adds a version to the same source and leaves `verified` set, and `begin` then answers
  `ALREADY_DONE`.
* `canvas_home`: `docs/plans/r3-plan.md:195` lists "no token is sent outside its origin". The routes of
  `ui/canvas.py` read origin and token one after the other without the lock, and an account may be replaced
  between the two reads.
* `oauth_reuse`: `docs/plans/remote-mcp-google-oauth.md:112` says that the request that loses a concurrent reuse
  of a refresh token revokes the family. `exchange_refresh_token` does so and then raises inside
  `with self._connect()`, so that SQLite rolls the revocation back.
* `lms_notice`: `docs/plans/knu-lms-hourly-driver.md:109` says that a changed actionable result gives
  `notify=true`. `decide_notification` (`scripts/knu_lms_sync.py:181`) takes the snapshot hash from the top of the
  result, where a semester's result has none, so two runs that do the same kind of thing to the same rows have one
  signature and the second is not told.
* `window_recovery`: the comment at `shell/app/src/main.rs:23` and `docs/plans/r2-plan.md:384` say that a window
  answered 401 gets a fresh token and is loaded again. Each call does so in a thread of its own; the second token
  voids the first, and when the navigation with the first comes last the window stays refused without a cookie.

One more, of which the model has the step and no run of its own: `docs/plans/local-settings-gui-2-worker-plan.md:133`
says of the key for private ids that it is "created once". On POSIX `read_secure_file` calls every file that is there
and cannot be opened, a symbolic link excepted, `secret_file_missing` (`config/_secure_file.py:204`: too many open
files, no permission, an I/O error), and `state_key` then writes a new key over the old one, which makes the recorded
ids void. `CredentialStores.read` looks at the cause of the same error, `state_key` does not. The action `MisreadKey`
is that step, `misread` remembers it, and `OneKey` says what holds as long as it has not happened.

## 4. Proofs

Every proof uses the module's named assumption on its constants and nothing else. Each goes the same way: an
invariant that implies the property is shown to be inductive, one lemma per action or per part of the invariant, and
a lemma on the operators of the model where several actions need it.

**Intake** (`IntakeProofs`): `Spec => []IndInv` and from it `TypeOK`, `StatusSpeaksOfLatest`,
`OneMaterialPerSource` and `OneLiveCandidate`. `StatusSpeaksOfLatest` is not inductive: a run that is about to
write READY must still be about the newest version, which is so because `replace` refuses while a candidate of the
material is busy, which only helps if the run's candidate is busy and names the material. `OneMaterialPerSource`
needs that an undecided candidate has a first version, has no material, and is the only live candidate of its
version. `IndInv` is these facts: `Structure` says how versions, candidates and materials refer to each other,
`StepKnows` what the holder of the step lock still knows of the rows it read before. One lemma per part of the
invariant and in each one step per action.

The second half of the module builds on it: `Spec => []WorkInv`, and from it `NoWorkLost`, `RowsAgree`, the action
property `SupersededNeverDecides` and the refinement `ImplementsEvidence`. `NoWorkLost` needs to know where a
candidate is between the transactions of `process` and `replace`: `WorkInv` says for each state of a candidate which
run and which job it has, and what the step under way will still do to them, so that a step that ends early, for
whatever reason, leaves rows from which `recover` and the next `run_pending` go on. `SupersededNeverDecides` follows
because the transaction that decides reads the newest version again, and the version of a run does not change. For the
refinement every action is shown to be one step of `MaterialEvidence` or a stutter; which one it is turns on whether
the material's newest version changes, or its status is written.

**Gate** (`GateProofs`): `Spec => []Inv`, and from it `RecordsAgree`, `SessionsTakeTurns`, the action property
`ProofsAreSeen` and the refinement `ImplementsHumanProof`. Each call of `GateService` first runs `_expire`, so what
holds of the records must hold of what is left of them after an expiry at any later time; `KeptIsSound` says so once
and every action uses it. `CommitKnows` ties the commit under way to its record: the record was consumed by the
confirmation that started it, its mark is not yet in the log, and no other commit can name it. `ProofsAreSeen` and
the refinement need both: a proof is recorded by a step of the commit alone, and what it records was put on the
screen of the session that asked.

**Lock file** (`LockFileProofs`): `LockIsHeld` (`MutualExclusion` and `HolderIsNamed`) and `LitterIsFromCrash` on
both platforms, for any number of processes and files. The argument differs: on POSIX a process about to remove a
path holds the advisory lock of the file the path names and has judged it to have no maker, and a file never gets a
new maker (`Judged`); on Windows the path is removed only when nobody has the file open, and its maker always has
(`Deletable`, `Own`). `OneMaker` says two processes are never both the maker of one file.

**Canvas** (`CanvasProofs`): `KeychainFollowsRow` (`EntryIsRemembered` and `SetIsStored`), `LinksHold` and the action
property `ConnectionIsNotSwapped`. The strengthening is `LockedWork`: whoever holds the lock has a PENDING row of its
account and knows what the keychain holds at each place.

**Authorization server** (`OAuthProofs`): `FamilyIsAChain` (`OneHeir` and `RevokedTogether`) and `GrantsHold`
(`PolicyIsCurrent` and `GrantsNeedOwner`) for any number of requests, pairs and restarts. `OneHeir` rests on
`Parents` (a parent with an heir is consumed, and the exchange checks `consumed` in the transaction that sets it);
`RevokedTogether` needs `GrantPolicies` (a family is of one policy, so that a policy change ends it whole);
`GrantsNeedOwner` needs `Promoted` and `NoCodeYet`. The step lemmas `Downgraded` and `OnePairMore` say what a
change of the grants may look like, and the actions are shown to be of one of these forms.

**Settings** (`CredentialProofs`): `Spec => []Inv`, and from it `StoresAreSound`, `RepairIsPossible`, the action
properties of `WritesAreAllowed` (`ChangesAreValid` and `ReviewedOnly`) and the refinement
`ImplementsAtomicCredential`, for any number of workspaces, operations, secrets and reviewed changes. A record of the
journal is read as a script: from its kind, its roles and what the configuration was follow the effects of the
operation, their order, and what each finds and leaves. `Good` says that a record is such a script, interrupted
somewhere or at its end, in its repair or not. `Tracked` says that slots, copies and configuration are what the
script of the one unfinished operation says at the place where its thread is (`Fits`), including the two states
between an effect and the record of it, which after a crash the journal alone cannot tell apart; `AtRest` says it of
a role without an unfinished operation, and `Alone` that there is one such operation at most. That the admission
refuses a second operation is what makes `Alone` inductive; that a repair puts back the original, and never something
else that it finds, is what makes `Tracked` so. In the refinement the creation of a record is the abstract `Begin`,
its completion is `Apply` or `Undo`, and every other step stutters. `WritesAreAllowed` leaves out, as the property
does, a later edit by hand of a file that is already being replaced.

**Protected files** (`SettingsProofs`): `SecretsAreWhole` (`ReadsAreWhole`, `OneKey` and `DraftsAreOwned`) for any
number of processes, names, values, parts and inodes, on both platforms. No part of it is inductive alone. `Apart`
says that an inode has one use: no two names and no two writers share one, so that a writer that fills its draft
fills no published file. `Filling` ties a writer to its draft, `Published` says that a file under its own name that
passes the checks is whole, and `OpenIsWhole` that this stays so for a reader after the name is given to another inode:
the bytes come from the inode that was checked. For the key, `KeyIsKnown` says that whoever makes one holds the
lock and that no key was handed out before, and that a key is handed out only when its file holds it; a file that
somebody else puts there is refused, so it makes nobody draw a second one. `OneKey` is stated for what happens
without `MisreadKey` (see the end of section 3); the other two parts hold with it. For `DraftsAreOwned`, `DraftsKnown`
says that a temporary file is that of the writer of its name or in `litter`, and `LitterStays` that a writer at work has
another name than what was left, because a name that is taken is never opened for writing.

**Canvas settings** (`SettingsProofs`): `SelectionsHold`, both of states and of steps. `WritesAreDue` says of each
request what must have happened for it to be at the place where it is, and that what it will write is the
configuration it was made from but for the one setting it is about. `OutcomesAreDue` says which tokens are stored
(`SlotsMatch`, with the exception of an account that has an open operation) and that a lease that counts was given;
and of every open operation, whatever the configuration has become meanwhile, that from the one it found (`before`) to
the one it makes (`after`) is a change the configuration may see (`MayBecome`), and that its two tokens fit these two
(`OfItsAccount`). A request and a recovery write only over the configuration they know, which is what carries this
over the steps of the other requests, the other pages and the editor; a recovery that met a third state and went on
(`Fits_Any`) would take back what others wrote.

**Settings process and Google sign-in** (`SettingsProofs`): `OneAccountOneSession` and the action property
`VerdictsAreFinal`. `WorkOK` says that the flow a worker commits stays as it is until that worker gives its verdict,
`StoredOK` that what a worker has read of the other purpose's store stays true until it has written its own, because
it holds the lock of the pair, and `EndsOK` that a session that was in use ends only with the barrier closed and
empty.

**Reads of courses** (`SettingsProofs`): `ReadsAreHonest`. `ListedSoFar` says that a discovery that met no change has
the listing up to its page, `RereadSoFar` that a reread has the first of the chosen courses and one term of all of
them. The gate forgets a profile whose cooldown is over, so `EndsAreRemembered` says that it knows every end it still
has to keep others away for.

**Launches** (`LockFileProofs`): `OwnerAnswers`, a safety property: the owner is in the lock until it lets go, it
alone binds and removes the socket, and whoever connects or commits does so to the owner whose record it read.

**Shell and Core** (`LockFileProofs`): `AnswersMatch`, the safety half of `ShellAndCoreAgree`. Replies carry no name,
so the proof follows the lines: a caller that waits holds the request lock, and as long as no request was given up
there is at most one request or reply on its way, which is the waiting caller's (`Courier`, `OneOnTheWay`).

**Database** (`ServiceProofs`): `StoreIsSound`. Whoever is at the library has its lock (`Locked`), threads work only
where it is served (`Quiet`), the open transaction is that of the one thread inside (`OneWriter`), and rows are told
apart by their transaction (`Signed`), so that a COMMIT adds no row of another. `Copied` says that every row of an
older schema, or of one that a migration under way is about to leave, is in a copy of that schema.

**Provider's keys** (`ServiceProofs`): `KeysAreTrusted`. What is cached is what the provider has, but for the changes
since the fetch it came from began (`CachedIsSharp`); `Fetches` says that one fetch is out at a time and what its
answer is worth at each of its places, until keys and times are both stored.

**Canvas download** (`ServiceProofs`): `TokenStaysHome`. The chain of redirects ends where the request under way goes,
and what is left of the limit goes down with each link (`ChainUnderway`).

**Windows and sessions** (`ServiceProofs`): `OneSessionPerWindow`. Tokens and sessions are numbered, no number is given
twice, and the Core's two tables agree (`Numbered`); what a relay thread carries was once given to its window
(`Carried`).

**Transcripts** (`ServiceProofs`): `ReadyComesLast`. `StepsAreDone` says which steps are done at each place of the
pipeline, durable and in this attempt, `AttemptsAgree` that a job waits only with an attempt left, and
`OneAfterTheOther` what the stores show: a finished job has a record, a record a row in Notion, a row something
published, and that a registered version.

**Retrieval** (`ServiceProofs`): `AnswersAreHonest`. The library only grows: a revision, once stored, keeps its
chunks, so what a call has read stays true while it is worked on. `SourcesAreCurrent` says that the versions a call
works with were newest when read, `ReadsAreUsable` and `GroupsAreCut` which pieces are selected at each place, all of
them of the material they are kept for, and that the windows cut so far are a prefix of them in order, `ChunkIsPinned`
that a chunk asked for again is looked up in the revision its capability names.

**Capabilities** (`OAuthProofs`): `RightsHold`. `SlotsAreHeld` counts: live contexts and the slots of issues under way
are at most `MaxActive`, and each issue gives its slot up or turns it into a context, whatever fails. `CountsAreTrue`
and `UsesAreBounded` tie a context's uses to the requests that were admitted. A context's scope is compared where it
is looked up, and only if it has one (`MayUse`). `CandidatesHold` says what an authorization knows of the bindings it
looked at before it came back to the lock.

**LMS import** (`CanvasProofs`). `ReservationProtects`: a collection works for the run of a keeper, and a keeper
enrolls nothing, so that as long as the record names that run, manifest and keychain stay as they are
(`KeeperIsFollowed`). `NothingIsTakenAway` (`ProjectionInv`): the driver alone gives a key to a row, it does one
thing for each key, and as long as a row or the page is what the read-back showed, what the plan was made for is
still so (`StillDue`). `AnswersAreWhole`: every entry that stayed in a list is read or still ahead of the reader
(`NoneSkipped`), and the queue carries the lines of a stream that were read and not yet taken, in their order, its
end last (`NothingOverlooked`, `EndsAreLast`).

Only model-checked is what must eventually happen, because temporal steps under fairness are out of the prover's
reach: `NothingWaitsForever`, and the liveness halves of `EndedSessionsExit`, `PosixFilesGoAway` and
`ShellAndCoreAgree`. The safety halves of these three, `NoneCutOff` (in `OneAccountAlways`), `LitterIsFromCrash` and
`AnswersMatch`, are theorems, as are all the invariants, all the action properties and all three refinements that the
passing runs check. The proofs need no induction over data: what a reader, a chain or a selection has gathered is said
of the place it is at, and its growth by one is a step of the model. The bounds on ids in the models (`MaxPair`,
`MaxInode`, ...) are parameters of the theorems. A theorem speaks of a part by its own specification; that in a
composed run the other parts stand still is a fact of the `MC` module and needs no proof.

## 5. Not modelled

* *Pure functions of text*: classification and taxonomy, normalization of PDF and chunks, ranking, chunking and
  authority of retrieval, enrichment, and the archive, classifier and allocator of the first version. Where their
  verdict matters a model takes any verdict; what they compute from a text is data no property here tells apart.
* *Schemas and parsing*: the configuration schema and loader, domain types, MCP tools and schemas, the sanitizers
  of the LMS scripts. They change no state; a document they refuse is a failing step.
* *Who may write which column* (`state/v2/ownership.py`): a table, checked by the repository's own script.
* *Status pages and provider checks* of the settings: read-only.
* *UI routes and the static user interface* beyond what section 1 lists; adapters (I/O), command line, tools.
* Inside modelled parts: logout and the CSRF check (the page never logs out, and its CSRF token is its session's);
  resolution handles of a natural-language query; `BlobStore.delete`, which has no caller in the Core; power loss;
  the pages and forms of the settings application; a launch's opening of the browser; the single-role admission of
  the Canvas settings, which is the protocol of `CredentialSaga` without a pair; `set_file_hosts`.

## 6. What could come next

Larger instances of the parts whose bounds hold one change only, the projection and the Canvas settings above all; the
resolution handles of retrieval beside its capabilities; a composition of `Intake` and `Retrieval` over one library,
in place of the assumption that a stored revision keeps its chunks; and proofs of the liveness properties, for which a
prover of `ENABLED` and fairness is needed.
