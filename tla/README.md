# CE Decky: specifications

CE Decky is a Decky Loader plugin for SteamOS. A Python backend starts a private
Windows Cheat Engine inside a game's Proton environment, a Lua bridge inside that
Cheat Engine applies a table's cheats and obeys commands written to a file, and a
TypeScript panel drives both. Around that are what has to be on the device first: a
Cheat Engine, tables found and downloaded from several sources, what each game is
set to, and the plugin's own updates.

The repository's documents spend most of their words on three promises, and so do the
modules here: **a cheat that may still be in a running game is never forgotten, and a
Cheat Engine the plugin started is never lost**; **a table, which is code, runs only
where the player agreed to it**; **nothing that was whole is replaced by something
half done**, whatever dies in between.

Paths below are relative to `py_modules/ce_decky/` unless they name a directory.

- [Inventory](#inventory)
- [Modules and the code they model](#modules-and-the-code-they-model)
- [Runs, bounds and what they show](#runs-bounds-and-what-they-show)
- [Fairness](#fairness)
- [What is proved](#what-is-proved)
- [Where the code does not keep its word](#where-the-code-does-not-keep-its-word)
- [Not modelled](#not-modelled)
- [Plan](#plan)

How to run: `tlc -workers 2 -config X.cfg M` with the module `PROJECT.json` names
for the cfg, and `tlapm M.tla` for the modules named `*Proofs`.

## Inventory

### Components, their state and their operations

Backend (Python, asyncio; one process, reloaded or killed at any time):

| component | file (lines) | state | operations that change it | module |
|---|---|---|---|---|
| Service: launches and holds | `service.py` (5959), `game_run_holds.py` (164) | `_launch_reservations`, `_run_transitions`, `_run_holds` and its file, `_run_holds_unreadable`, `_run_holds_unsaved` | `launch_ce_for_game`, `stop_ce_for_game`, `stop_ce_launch`, the fork gate, consent and Auto-load, session retirement, the install's admission | RunHolds |
| Launch supervisor | `ce_launch.py` (4628) | operations, `_processes`, `_exits`, `_closing`; one durable record per game | `start`, `start_self_test`, `_run`, `stop`, `stop_for_app`, recovery of a record, supervision of the game, `begin_close`, `close` | Ownership, Supervision |
| Session protocol | `session_protocol.py` (2265) | control log, status, descriptor of a session | `write_commands`, `read_status`, `session_target(s)`; `prepare` is in Library | SessionLog |
| Tables, profiles, sessions | `table_store.py` (1316), `profiles.py` (831), `service.py` | blobs by digest with their metadata, one profile per game, the current session, launch reservations | import, copy, delete, select, consent, preferences, revoke, repair, prepare, authorize, fork | Library |
| Verdicts about tables | `table_blocklist.py` (683), `table_compatibility.py` (225), `service.py` | marks, failure epochs, positive evidence, pending proofs | mark, clear, earn from a startup, activate, query, confirm | Evidence |
| Plugin update | `update_manager.py` (1550), `plugin_update.py`, `update_runner.py`, `decky_control.py` | the operation, the attempt and its record, the runner's result file, the recovery archive | check, start, fetch, admission, spawn, adoption after a restart, tick | Update |
| Managed Cheat Engine | `managed_ce.py` (1499), `ce_archive_import.py`, `config.py` | install trees, kept installer, the identity in the settings, the reservation | start, promotion, completion, cancellation, imports | Setup |
| Private runtime | `ce_runtime.py` (748) | one copied tree per Cheat Engine | prepare, verify, collect | Setup, Ownership |
| Provider catalogue | `catalog.py` (4765), `provider_sources.py` | listing of the forum, snapshots on disk, rows kept per source, switches | search, background crawl, cache deletion, reset, switches | Catalog |
| Downloads | `acquisition.py` (1248) | acquisitions, staged files, tasks | start, complete, cancel, expire, suspend | Acquisition |
| Inspection | `ct_inspector.py`, `ct_scans.py`, `table_code.py` | none | parsing | |
| Steam and games | `steam_library.py`, `game_files.py`, `game_identity.py`, `steam_launch.py` | none of their own | reading | |
| Shell and lifetime | `plugin.py`, `guarded_service.py`, `operations.py`, `atomic.py` | operation registry | RPC entry points, drains, unload, durable replacement | |
| Diagnostics | `support_bundle.py`, `frontend_journal.py`, `journal_records.py` | bounded journals | record, bundle | |

Bridge (Lua, in Cheat Engine, one timer): `ce_decky_bridge.lua` (3248) keeps the
startup index, the snapshots and rollback, the pending command, the quiesce walk
and the result history, and publishes a status file (module Bridge).

Panel (TypeScript, `src/`): `index.tsx` (4744) and `uiModel.ts` (3582) render;
`runtimeClient.ts` (1261) writes commands, `durableWrite.ts` and
`panelAuthority.ts` reconcile lost replies and several open panels;
`managedSetup.ts` drives an install of Cheat Engine (module SetupPanel) and
`TableAcquisitionModal.tsx` a download (module Discovery).

The rest is vendored code, a fallback standard library, build scripts, tools, tests
and documents. `PROJECT.json` lists every one of these parts with its status.

### How they interact

- Panel to backend: RPCs that interleave at every `await`. The service holds a
  game's *transition* for a stop and its *reservation* for a start; the launcher has
  one exclusion lock for the check-and-list of a start; profiles, tables and sessions
  change under one mutation lock.
- Backend to bridge: a control file, replaced whole, compacted by the results the
  backend last read. Bridge to backend: a status file with a bounded result window.
  Neither side sees a step of the other.
- Service to supervisor: a call that returns when the operation is listed, and a gate
  the supervisor calls back at the fork, in another task and much later.
- Supervisor to the world: `/proc`, which refuses some processes and is read over many
  milliseconds; process groups that Wine clients leave; one durable record.
- Backend to its own successor: an update replaces the plugin by a detached process
  that outlives the backend and answers in a file.
- Everything to its own past: run holds, launch records, update records and trees half
  renamed are read by the next backend after a reload, a crash or an update.

### What is hard here

Interleaving at awaits (a Stop between a start's admission and its fork; a deletion of
the cache between a search's fetch and its save); a stop whose steps are each cut by a
crash; files that cannot be written or read; a bridge that cannot be asked, is asked too
late, or answers while Cheat Engine is still working; acknowledgements that are late,
missing or evicted; evidence about processes that is partial, about tables that is
stale; a session the user moves to another program meanwhile; calls of a panel that are
lost, or carried out after it has gone; an unload that must neither kill nor lose a
Cheat Engine. `PROJECT.json` lists these under `hazards`, each at its line, with the
property that is about it or the reason there is none.

### What makes each component correct

- **Holds**: a game some Cheat Engine was ended over is closed to every start until that
  run is over, or the bridge has said every cheat is out, across crashes and updates.
- **Supervisor**: one Cheat Engine at a time in the one private runtime; each one owned
  in memory or on disk; an exit is published when it is one; Cheat Engine ends with its
  game, and on proof only.
- **Bridge**: what a quiesce calls clean is clean; a rollback that calls itself proven
  restored everything; every quiesce is answered, every startup concludes.
- **Session**: each command accepted is executed once, in order, and not lost to
  compaction; what the bridge publishes can be read.
- **Library**: the table that runs is one the player agreed to run in that game; a
  table's settings come back with it; no bytes are left that nothing lists.
- **Evidence**: no success speaks for a table that failed since it began.
- **Updates**: one installer at a time; a result settles its own attempt, once; an
  install ends; what was deleted does not come back.
- **Setup**: a validated Cheat Engine is never lost to its replacement; what a launch is
  reserved for or runs from stays as it was; what the panel says came about.
- **Catalogue and downloads**: deleted rows stay deleted; a listing that was saved can be
  loaded; no staged file is left to nobody; a closed window's download ends.

## Modules and the code they model

Every definition that stands for code is in `PROJECT.json` under `map`, with its
lines. Here is how state and actions correspond.

| | extends | theorems | checked by |
|---|---|---|---|
| RunHolds | | RunHoldsProofs | MCRunHolds |
| Ownership | | SupervisorProofs | MCOwnership |
| Supervision | | SupervisorProofs | MCSupervision |
| Bridge | | SessionProofs | MCBridge |
| SessionLog | | SessionProofs | MCSessionLog |
| Library | implements Permit | LibraryProofs | MCLibrary |
| Evidence | | EvidenceProofs | MCEvidence |
| Update | | UpdateProofs | Update itself |
| SetupPanel | Setup | SetupProofs | MCSetup |
| Discovery | Catalog, Acquisition | DiscoveryProofs | MCDiscovery |

### RunHolds — `service.py`, `game_run_holds.py`

The launcher is seen as the service sees it: a game owns nothing, an operation that
has not forked, a live one, a connected one. A start is cut at its awaits: asked
(`launch_ce_for_game` before its first await), admitted (reservation taken, holds
read), checked (after the slow preparation), published (the supervisor lists it, the
reservation is released at its return), and the fork, which is the supervisor's own
task calling the gate back. A stop is cut likewise: begun (the transition taken and
what it will be about captured), asked (the quiesce), ended (Cheat Engine gone, or not
proven gone), its holds written, the transition given back. `stop_ce_launch` and the
withdrawal of consent go through the same steps with their own routes.

A game is a set of programs; a *patch* is a running program in which a connected Cheat
Engine has switched a cheat on, which it may do at any point of a stop too, until it has
answered the quiesce (`quiet`). `left` (patched programs a Cheat Engine of ours was ended
over, by a stop, confirmed or not, or by its supervisor) is a history variable; no action's
guard reads it, and no reload empties it. Process identities (PID
and start time) are the pair of a name and the number of its start, which is what the
code compares.

The holds file is `file`, the memory `holds`; `Write` is a save that succeeds, fails,
or replaces the file and raises (`atomic.py`). `Reload` is a reload or a crash: memory
becomes what the file says, or `unreadable`. `DeleteState` is the deletion of the
plugin's data: the file goes, the holds in force do not.

Abstracted: `MAX_HELD_GAMES` and its eviction; a clear and a taking of holds are one
step each (they have no await); the launch record (see Ownership); a session that
cannot be read for a moment is a nondeterministic answer; what a user patches through
Cheat Engine's own window; a Cheat Engine that exits or crashes by itself, which is not a
stop, so `left` does not count it. Six constants open what the code does not answer for:
`Retries` (the attach moved to another program), `Unproven`, `Transient` (the holds file
deleted, or read well again), `Returns` (a game that a stop found gone is back before Cheat
Engine is ended), `Fails` (the supervisor ends a connected Cheat Engine over an error of its
own) and `Forgets` (the backend dies between the end of Cheat Engine and the verdict on disk,
or with a save owed). Each is a guard of a step of the environment or of the supervisor, and
what it lets happen is in the table below.

### Bridge — `ce_decky_bridge.lua`

The state of the Lua `state` table, one variable per field, and `engine`, the records
as Cheat Engine has them: active or not, still being performed, holding a written
value or not. One tick of the timer is a round of phases in the code's order: attach,
startup or rollback, settling of a pending command, the quiesce, the poll for the next
command. Between any two phases Cheat Engine may finish an asynchronous activation
(`Finishes`), which is more than the one-threaded timer allows and therefore safe. A
record is read before it is written and after, and each reading may fail where the
session's `unreadable` says so. The order in which the walk takes records is any order.
The session (plan, which `[DISABLE]` wakes which record, the kinds of command, what can
go wrong) is chosen at the start from a set of them.

Abstracted: windows, focus, dialogs, opening the table, the process list, queries and
the bootstrap; the write of a key that a switch-off may also do is a record that ends
"done but blamed"; a value is "written by us" or not.

### SessionLog — `session_protocol.py` with the bridge's poll

The control log as a set of commands (generations order it), the status as the window
of result generations and the target it names, and the bridge's half: what it has read,
what it executes, what it waits for. Clients (panels, a stop) ask for a generation and
write a batch with it, or are refused; compaction keeps what the last readable status
does not acknowledge, the last command, and the target-setting history. Statuses go
missing, results are evicted by a later one or by a startup's.

Abstracted: text, byte and count limits, the descriptor's identity check, a status or
log read is one step (the files are replaced whole).

### Supervision — `ce_launch.py`, the loops

The attached loop of `_run` and the recovered one (`_supervise_recovered`), each an
iteration of look, walk, mark, end; the record's `seen` mark; the session's pointed
program, which the user moves. A program's process is hidden where procfs refuses its
environment; a whole walk may be refused (`ok = FALSE`). `TargetState` and `GameState`
are `_target_state_of` and `_game_program_state`; `ExitIsProved` is
`target_exit_is_proved`. `sighted`, `empty` and `moved` are history.

Abstracted: a walk of `/proc` is one step; processes of one name are one process;
records written before target identities existed; the wait for the bridge that
precedes the loop.

### Ownership — `ce_launch.py`, class `CELaunchSupervisor`

A launch is an operation, its `_run` task, the stop of it and its processes: leader,
others in its group, and Wine clients out of it. Per game a durable record names a
launch, nobody, or does not parse. `Begin` is the admission of `_start_locked` or
`start_self_test` with `has_live_owned_launch`; `Fork`, `Register` the two sides of
`create_subprocess_exec` and the record write; `Ends`, `Fails`, `Cancelled`, `StopEnds`
the four ways a run is over, all through `StopProcess` (`_stop_process`), which proves
that nothing carries the launch's descriptor or keeps its entry. `Recover`, `Released`,
`Retire…`, `Repair` are what happens to a launch known by its record alone.
`Rebuild…` is `prepare_private_ce_runtime` under the shared lock. `BeginClose`,
`CloseCancels`, `Reload`, `Dies` are the unload and the kill.

The backend may be killed anywhere, a run cancelled anywhere, an unload leave a self-test it
could not prove gone. `lost` (history) names the launches these cut off from every owner:
the child of a spawn that is cancelled before it returned (`Orphans`), and at the end of the
backend whatever runs and is a self-test or has no record because it was not written yet or
could not be (`Unwritten`). The code names these windows in its comments and cannot close
them. `OneAtATime`, `NoneUnowned` and `NoGameInRebuild` speak of what was not lost; a launch
that was reported up and has no record at a kill is not in `lost`, so that it counts against
`NoneUnowned`.

Abstracted: `_stop_process` is one step, at its verdict; scans that cannot be read only
refuse or keep, as `Unproven` and a disabled action do; the write of the record's `seen`
mark; the bounds of 16 operations and 64 exits.

### Library and Permit — `table_store.py`, `profiles.py`, `service.py`

Each call holds `_mutation_lock` to its end, so a call is an action: `ImportTable`,
`StoreCopy`, `DeleteTable` on blobs and their metadata, each with the places where it can
be cut short; `SaveProfile`, `SetExecutionConsent`, `SetStartup`, `SetRemembered`,
`SetAutoload`, `AssociateTable`, `DeleteProfile`, `RevokeTable`, `RepairProfileState` on
profiles, with the bounded history of tables put away and the settings put away with
them; `PrepareSession`, `RetireSession` on the session. A launch is `ReserveLaunch`,
`RevalidateLaunch`, `SpawnGate`, because the lock is let go between them. Files are
damaged from outside, and profiles that cannot be read are set aside whole.

Permit is the abstract specification: the player's word per game and table, and what
runs; a start needs a word that stands, and a word is not taken from a table that runs.
`Library` implements it with `agreed` and the table of the owned run
(`KeepsThePromise`).

Abstracted: contents are digests; the four kinds of settings of a profile are one;
names, labels, artifact resolutions and the panel's preferences; deletion of all data. A
start is alone in its game: `DropReservation` is the end of the launch that holds the
reservation, while the code gives it back by the game's id, so that a second start that is
refused gives back the first one's (`service.py:5474`); RunHolds has both starts, and the
table below what comes of it.

### Evidence — `table_blocklist.py`, `table_compatibility.py`, `service.py`

Marks with the cause they carry, bounded, the oldest evicted; a failure epoch per table
or the floor when the bounded file forgets it; the entry of each table with the epoch it
was earned in. Evidence is earned by a startup that concluded (`StartupPolled`) or by
the chain activate, query, confirm, each a command whose result a later poll reads; a
mark, a clear, a damaged list or a restart may come at any point. `failures` and the
entry's `at` are history: how often the table had failed when the success began.

Abstracted: the causes of a failure are one (`Failing`): the code keeps `CAUSE_REFUSED` apart
from `CAUSE_UNKNOWN`, which no call of this build writes (`table_blocklist.py:81`, `:649`)
and which gives way to a later cause where the first does not (`:439`). A list deleted from
outside, which starts again at the floor zero (`:492`), is left out; a damaged one is modelled.

### Update — `update_manager.py`, `update_runner.py`, `service.py`

Three lives: the backend's task (`RunChecks` … `RunSpawns`, the settling of a report),
the detached runner (`Runner…`: waits, asks Decky, reports), and the next backend
(`Load`, adoption of what is pending). Decky's replacement of the plugin, whoever asks for
it, stops the backend that is up (`Replaces`), so a new one always loads with the version
that is on disk. `held` is what `_unwritten` keeps over a record that could not be
written, and `Over` the two together; every action that writes may fail to. `observed` is how old a
start recorded in the clock's future was seen to be. A deletion suspends the manager,
waits for its check, clears, and resumes; with `Outlasts` it clears with the check out, as the
code does after `CHECK_JOIN_TIMEOUT_SECONDS`.

Abstracted: releases are numbers; digests, signatures and the archive are outcomes of a
step; the two worker threads run between the loop's steps, or inside them with `Races`.

### Setup and SetupPanel — `managed_ce.py`, `ce_archive_import.py`, `ce_runtime.py`, `managedSetup.ts`

Setup is the backend: the operation and its task through download, extraction,
verification and promotion (two renames with a crash possible between them), the
reservation and the completion that registers the result, cancellation, imports of the
user's own Cheat Engine, the private copies, and launches that reserve or run one.
SetupPanel adds the panel: mounted and unmounted one after another, its polls, its three
mutating calls that may be lost, carried out after it has gone, or answered late, and
what it tells the player.

Abstracted: the task of an install ends with the state it sets (`EndAs`), where the code sets
the state before an awaited clean-up (`managed_ce.py:727`, `:744`, `:745-763`); an owner that
was unmounted drops the answers it still awaits, where the code's awaits a completion or a
cancellation it has sent to its end and then stops (`managedSetup.ts:174-235`): what that
one call answers to a panel that is gone is not told to anybody in the model.

### Catalog, Acquisition and Discovery — `catalog.py`, `acquisition.py`, `TableAcquisitionModal.tsx`

Catalog is searches over several sources at once, rows kept on disk per source, the
listing of one forum crawled in the background page by page (`forum` changes under it),
snapshots of it written in worker threads and landing in any order, and the source
switches. Acquisition is downloads: tasks cancelled at whatever they await, a clean-up
that is itself an await, completions in a worker thread, the source that serves one
at a time. A handoff is completed in two calls: one stages what the player downloaded and reads
it, which may fail and leaves the handoff as it is (`Stages`), another imports it (`Imports`);
`stray` (history) names a handoff whose staged file was replaced by the next staging. Discovery composes the two with the deletion of the cache, the reset of the
sources' records, the window a download is shown in and an unload. Data carries the
epoch of the cache it was asked for in, a history variable.

Abstracted: a source is its name and a row the source it is of; the deadlines a source
asks for are a source that does not answer; a download's verdict (a table, several, not
one) is a choice. One search is under way at a time, where the code keeps a set of them
(`catalog.py:1646`, `:2045-2052`); the marker is written by searches and crawls, not retried
by the tick and the prologue (`:2833-2846`, `:1954`); time is a counter that never goes back.

### How the modules meet

The modules are views that share a boundary each, and what one assumes is what another
shows. RunHolds takes "a game owns at most one Cheat Engine, which is gone when the
supervisor says so" from its launcher; that is Ownership's `OneAtATime` and
`ExitsAreReal`. It takes "a confirmed cleanup has put the cheats of the attached program
back" from the bridge; that is Bridge's `CleanInTime`, with its exceptions below. Its
`SupervisorStops` is the end that Supervision's `EndsOnProof` and `EndsWithGame` are
about. Bridge executes one command at a time, in order; SessionLog's `RunsWhatWasIssued`
is why, and Evidence's queue of commands takes the same for granted. Its `CommitInstall`
is Update's admission of an install, and Setup's `live` and `reserved` are what Ownership
and Library show of launches. Library's `ReserveLaunch`, `RevalidateLaunch` and `SpawnGate`
are RunHolds' `Admit`, `Revalidate` and `Fork` seen from the profile's side. They are not composed in
one run: each has 10^5 to 10^6 states at its bounds. Where parts do meet in one machine
(panel and backend in SetupPanel; searches, downloads, deletion and windows in
Discovery; stop, start, holds and install in RunHolds) they are.

## Runs, bounds and what they show

`CHECK_DEADLOCK FALSE` is in every cfg: calls, commands and faults are used up, a game and
its Cheat Engine may both be over, and then nothing happens.

| run | bounds | distinct states | properties |
|---|---|---|---|
| RunHolds | 1 game with 1 program run once, 2 starts, 1 stop | 627 thousand | LeftIsHeld, NothingRunsIntoInstall, NoForkOverLeft |
| RunHoldsRetried | 2 programs, 1 start, 1 stop, Retries, Unproven, Transient, Returns, Fails, Forgets, fair | 274 thousand | ConsentedAtFork, StopSettles |
| Bridge | one of two sessions (below), fair | 995 thousand | CleanInTime, ProvenMeansRestored, StartupConcludes, QuiesceAnswers |
| SessionLog | 2 clients, 3 programs, window 2, history 3, pairs of commands, 3 commands, fair | 251 thousand | NothingDropped, RunsWhatWasIssued, StatusReadable, EveryCommandRuns |
| Supervision | a launcher and its game, of 3 names the session may be moved between, 3 starts, 1 reload, 1 refused walk, 2 confirming walks, interval 2, fair | 1.56 million | SeenWasSeen, EndsOnProof, EndsWithGame, StaysSupervised |
| Ownership | 2 games and a self-test, 2 launches, records that turn invalid, kills and cancellations anywhere | 564 thousand | OneAtATime, NoneUnowned, ExitsAreReal, NoGameInRebuild |
| Update | 2 releases, 2 updates, 2 faults, fair | 531 thousand | OneInstaller, OverMeansOver, NothingComesBack, InstallEnds |
| UpdateResult | 1 release, 1 update, 1 fault | violated | ResultIsKept |
| Library | 1 game, 3 tables, 1 put away, 2 known, 1 damage | 429 thousand | SettingsFollowTheTable, BlobsAreListed, KeepsThePromise |
| Evidence | 2 tables, 1 row, 2 marks, 1 dated failure, 2 sessions, 3 commands | 2.84 million | EvidenceIsFresh, ConfirmedWasOn |
| Setup | 2 installs, 2 panels, 1 import, 1 fault, fair | 536 thousand | OneIsKept, SaidIsSo, IdentityStands, SetupEnds |
| Discovery | the forum and one source that links it, 6 plans of what is begun together, 2 downloads | 1.12 million | WrittenLoads, MarkerIsOnDisk, StagingIsOwned, DeletedStaysDeleted, ClosedIsOver |

Each module also has a type invariant, `TypeOK` (`WatchTypeOK` in Supervision, whose names
have that prefix where Ownership has them too, so that one module can extend both); where a module has proofs it is part of
the invariant proved. Symmetry is over interchangeable starts, launches, games and
tables, in runs with safety properties only (RunHolds, Ownership, Library, Evidence).

Why these bounds are enough to mean something:

- *Two starts and a stop* is the smallest set in which a start can be overtaken
  between its admission and its fork, and a stop's verdict can be about a Cheat Engine
  other than the one the next start sees. A program that runs once can be over while a
  hold names it.
- *The Bridge's two sessions*: one whose script's `[DISABLE]` may switch the value's record
  back on, with two live commands of which one may be the quiesce; and one every reading
  of which may fail and whose process may go, with a retried attach or a quiesce. What
  goes wrong when they are one session is below.
- *A window of 2 results* is the smallest in which a result is evicted while a later
  one is still there; the code's 128 takes longer to get there and does the same. Three
  commands fill it and evict once; three programs and a history of three let a target be
  compacted away and come back.
- *Two confirming walks and an interval of two ticks* are the code's own relation: an
  absence is confirmed by a later walk, and there are ticks without one. Three starts let
  a launcher hand over to its game, the game exit and the launcher come back.
- *Waits of one to three ticks* in Bridge (the code's are tens to hundreds) keep every
  order between a wait that ends in time, one that ends at its bound and one that does not.
- *Two launches* is a Cheat Engine and the one after it, for the same game or another;
  of those that were not lost there is never a third at once (`OneAtATime` is proved for any
  number).
- *Two faults* in Update are a crash while the previous one is being recovered from; two
  releases let one appear while the other is being installed. *One fault* in Setup is a
  restart at any step of a promotion; two installs are a replacement of what the first
  left, which is where a tree could be lost.
- *Three tables with one put away*: the smallest history that evicts. *One dated failure*
  makes the floor stand for every other table.
- *Discovery's plans* (in `MCDiscovery`) bound what is begun together, not what it meets:
  a search with everything behind it beside a changing forum and a reload, beside a
  switch, beside a deletion and a reset; two downloads of a source that serves one at a
  time; a download that is asked for and asked after again, as a handoff that could not be
  read is; a download beside a deletion, a switch and a reload.

What the runs show is what the properties say, which `PROJECT.json` repeats per run
and each definition's comment explains with the function it is about. Each has a mutant
of a mapped definition (a dropped guard, a group taken for a proof, a reset left out)
that TLC refutes under the same cfg; the mutants are in the modules, marked so.

## Fairness

- RunHolds `FairSpec`: weak fairness of the steps of each stop. A stop is a call under
  way on the event loop; each of its awaits is bounded by a timeout of the service or
  the supervisor and waits for no other start or stop. Nothing is assumed of starts,
  the user, the game or Cheat Engine.
- Bridge `BridgeFairSpec`: weak fairness of the timer. Cheat Engine fires it as long as the
  process lives; nothing is assumed of Cheat Engine finishing an activation or
  answering a reading.
- SessionLog `FairSpec`: the bridge polls, executes what it read and settles what it
  waits for (bounded by `MAX_ACTIVATION_WAIT_TICKS`). Nothing is assumed of the status
  being published or readable.
- Supervision `WatchFairSpec`: the loop's own steps, and the next load of the plugin after an
  unload. A walk that is refused is a walk; how many are is bounded by `MaxRefused`, so
  "infinitely often refused" is outside: then the code waits for ever, and says so.
- Update `FairSpec`: the backend's steps once they are due, the runner's, and the
  scheduler's tick, which comes back as long as a backend is up. The tick needs strong
  fairness (a tick that is due again and again is taken), stated as such in
  `TicksComeBack`; a backend that is down and never loaded again owes nothing.
- SetupPanel `FairSpec`: the install's task, some call that is on its way, the mounted
  panel's own steps (its polls are timers), that a panel is mounted again while there may
  be one, and that a launch in progress and a running Cheat Engine end. Without the last
  an install would wait for a player who plays for ever, and is right to.

## What is proved

The modules named `*Proofs` are checked by TLAPS to the last leaf, for every value of
the constants that the `ASSUME` of each module admits, and without the bounds a run
needs. Where a run checks the same property, the run is the small instance of the
theorem.

### RunHoldsProofs

`TypeCorrect` (`TypeOK`), `OnlyOneCheatEngine` (`OneCheatEngine`) and
`InstallMeetsNothing` (`NothingRunsIntoInstall`) hold without conditions. `LeftStaysHeld`
(`LeftIsHeld`) and `NoForkOver` (`NoForkOverLeft`) hold where `Retries`, `Unproven`,
`Transient`, `Returns`, `Fails` and `Forgets` are FALSE: where one of them is not, `LeftIsHeld`
fails, as told below. A patch in the middle of a stop is a step like any other: that a
confirmed stop is followed by no patch is proved, from the answer of the bridge or from a
game that stays gone, and not assumed. `ConsentStands` (`ConsentedAtFork`) holds where no two
starts of one game are under way together (`OneStartAGame`).

None of them is inductive. The first invariant adds: a call under way is about a game
(`Located`); a running Cheat Engine is owned in a running state and no other game owns
one; once an install is committed no transition is held and no Cheat Engine is alive in
any game. The second, `HoldsInv`, adds: only the main program, while it is up, is
patched or left (`PatchInv`); a stop under way holds its game's transition, and one that
was told every cheat is down is right until Cheat Engine is ended, because its bridge is
quiet or its program is not there to be patched (`StopInv`); the file says what the memory does
unless it is unreadable or a save is owed (`SavedInv`); and what is left is covered by
an unreadable file, by a stop whose verdict is still to be written, or by a standing
dirty hold (`HeldInv`). `LeftIsHeld` alone is not inductive because of the middle case:
between the end of Cheat Engine and the verdict only the transition refuses a start. The
proof of a step has one lemma per action; those that write holds share the lemmas on
`Write`, `Without` and `TakeHolds`.

For consent the invariant (`ConsentInv`) says that a start past its last check, as long as
the session is its own, still has the game's reservation, which is what keeps the consent
from being withdrawn; and that what the current session published was consented to. The
condition is where this breaks: a second start of the game that is refused releases the
reservation of the first.

### SessionProofs: SessionLog

`NeverDropped` (`NothingDropped`), `RunsInOrder` (`RunsWhatWasIssued`),
`ToldIsExpected` (at any moment, whatever the status, the generation a client would be
told is the one a write would be held to), `TypeCorrect`, and `NeverTampering`
(`StatusReadable`).

The invariant says that the log holds only accepted commands, and the last one always
(`LogInv`); that what ran is exactly the accepted commands up to `last` (`RunInv`);
that what remains of a poll continues at `last + 1` without a gap (`BatchInv`); and that
no result acknowledges what was not executed (`AckInv`). The two key lemmas are
`ExpectedIs` and `NextIs`: whatever the status says, the next generation is one more
than the number accepted. The maximum of a bounded set comes from well-founded
induction on Nat, by a library theorem without an operator parameter.

`NeverTampering` is proved where `StopsAlone` holds: a startup has fewer results than the
status keeps, Cheat Engine does not outlive its stop, and no client puts a retry after a
quiesce in one write. The first two are the constants whose other values refute the
property (below); the third keeps to what the panel and the service send. Its invariant
says that the last executed command that moves the bridge is in the log and that a result
of it, or of a later command, is in the window and stays there through what the startup
has still to report (`TargetInv`), that the status names the program of the last one it
acknowledges (`StatusInv`), and that nothing moves the bridge after a quiesce
(`StopInv`).

### SessionProofs: Bridge

`BridgeTypeCorrect` (`BridgeTypeOK`) holds without conditions. `BridgeShape` is what makes
it inductive: the startup has snapshots up to its next step only, and one of the
activation it waits for; a rollback runs only after a failure and settles only on an
activation it has a snapshot of; the walk walks a run.

`CleanAnswerIsTrue` (`CleanInTime`) holds for any table, plan and limits in a session that
is `Steady` (where the backend sends live activations, every reading answers and the game
stays the same process; without them, whatever fails) and whose attach is retried at rest
(`RetriedAtRest`: while nothing is waited for and nothing is put back). Each condition is
one the code needs: what happens without it is in the table below. The property says
nothing of the work in flight, so it is not inductive. The invariant names, for each record
that is coming on, who answers for it (`ComingInv`): the list of what could not be
restored, the list of mutations still moving, the activation the startup waits for, the
pending command, the restore the rollback waits for, or a step it has still to put back; for
each value a failed startup changed, the first or the last of these (`DebtInv`); and that a
pending command still has its process (`CommandInv`). A walk that answers with no name has
found all six empty. After that, `PutBackStays`: the bridge starts nothing, and what Cheat
Engine still performs can only go down.

`ProvenIsRestored` (`ProvenMeansRestored`) holds for any plan whose steps are `Apart` (no
two of a kind of one record, no activation's record that something put down wakes), where
no command is executed during the rollback (`Undisturbed`). `ProvenInv`: as long as the
rollback can call itself proven and nobody stops the session, each step behind it is as
its snapshot has it; a stop, once asked for, is not taken back (`StoppingStays`).

### SupervisorProofs: when Cheat Engine is ended

`OnlyOnProof` (`EndsOnProof`) and `SeenIsTrue` (`SeenWasSeen`), for any programs, any
interval and any number of confirming walks. The properties themselves say where they
speak: of a session that was not moved, or (`EndsOnProof`) not reloaded since; what
happens otherwise is below.

The invariant says that the loop's memory is earned: `seen`, and a mark about to be
written, are about a program that was sighted *under the name watched now*; the count of
confirming walks is at most the number of consecutive empty ones; a hidden program is a
running one.

### SupervisorProofs: who has a Cheat Engine

`TypeCorrect`, `OnlyOneRuns` (`OneAtATime`), `NothingUnowned` (`NoneUnowned`),
`ExitsArePublishedTruly` (`ExitsAreReal`), `NoGameRunsInRebuild` (`NoGameInRebuild`),
`DoubtEnds` (no doubt about a launch stays for ever, `NeverLatched`), for any games and any
number of launches, without conditions: a kill, an unload and a cancellation may come at any
step. What they can take from every owner is in `lost`, and the theorems say that it is all:
a launch that was reported up is never unowned.

The invariant has four parts. `GameInv`: whatever is known of a launch (a task, an
entry, an exit, a record, a recovery) belongs to one that has begun, and a record is of
its own game. `TaskInv`: a task has a live operation, a stop under way has an operation
and no unload, and a live operation without a task was asked to stop. `YoungInv`: while
a start has not registered its process nothing else runs, but what was lost, or starts,
and no entry, exit or record names it. `OwnInv`: what runs and was not lost is in
`processes` at every point of its task after the spawn and wherever an operation without a
task still lists it; a game's is recorded from the moment its task runs to its end; what
has no record is a self-test, or its operation says that it is starting or has failed,
which is all that a kill can lose; and it is a self-test's if the runtime is being rebuilt.
No process of a published exit runs, lost or not. `Free` derives from it what every
admission needs: `~HasLive` means that nothing runs but what was lost and nothing is under
way.
Lemmas `StopIs` and `EndKeeps` carry the four ends of a run; every other action has a
lemma of its own, with one step per part of the invariant.

### LibraryProofs

`PromiseKept`: `Library` implements `Permit` (`KeepsThePromise`), for any games, tables
and programs, where no repair of the profiles runs between a launch's last look at them
and its fork. The invariant says that a profile, its history included, is within what
the player agreed to (`ProfileInv`), and that what runs or was authorized is agreed to,
and that nothing is both reserved and owned (`RunInv`); each action is then shown to be a
step of Permit or a stutter. `SettingsReturn` (`SettingsFollowTheTable`) rests on
`ChoiceInv`: what is selected has the settings last chosen for it, and so has what is put
away. `BytesListed` (`BlobsAreListed`) is inductive over the store alone.

### EvidenceProofs

`NothingOutlivesAFailure` (`EvidenceIsFresh`) and `ConfirmationsAreTrue`
(`ConfirmedWasOn`), for any tables, rows, bounds and sessions. The key is `DatesIs`:
whatever is evicted or lost, a table keeps its epoch or gets one that was never given
before, and a table that failed gets one. So an entry whose epoch still holds began
after the last failure (`Dated`), and so does what is on its way to be one. The second
adds that the commands in the queue and the results shown are of the session, and what
an acknowledged activation and a later query say is what the cheat was (`ConfirmInv`).

### SetupProofs

`OneIsAlwaysKept` (`OneIsKept`), `WhatIsSaidIsSo` (`SaidIsSo`) and `TypeCorrect` hold
without conditions, for any number of installs, imports, faults and panels;
`ServedUndisturbed` (`IdentityStands`) where `Threads` is FALSE.

`OneIsKept` needs its two halves told apart (`KeptInv`: a tree in place is a valid one,
and where none is in place the set-aside one is what its note says), and that a task is
there exactly while its operation is at work (`TaskInv`), because two promotions at once
would each set aside what the other had put in place. `SaidIsSo` needs what a reply that
is still on its way may say: of the mounted panel's calls there is one at most
(`CallInv`); what a call, a panel or a message claims of the last install is settled for
good, so that it is still so when it is read (`SaysInv`, `ToldInv`, lemma `DeadStays`);
and an operation other than the last one is over (`OpInv`). `IdentityStands` rests on
`HoldInv` (a task has its reservation, and nothing is reserved over a launch) and on
`StartInv`, which a read between the two halves of a start breaks.

### UpdateProofs

`OneAtATime` (`OneInstaller`), `OverIsOver` (`OverMeansOver`), `DeletedStaysDeleted`
(`NothingComesBack`) and `TypeCorrect`, for any number of releases, starts and faults,
where `Races` is FALSE; `DeletedStaysDeleted` where `Outlasts` is FALSE too. With a check that
outlasts the wait only what it found comes back: the invariant keeps the record's other two
fields empty all the same (`Emptied`).

`OneInstaller` is far from inductive: a new update is refused by what the record says is
pending, by the operation, and by the handle on its installer, and a failed write, a dead
backend or a deletion takes each of the three away on its own. `TrackInv` says what is
left whenever an installer may still ask Decky: it is the last one started, the record on
disk names it with its version and a start that counts as recent, what is known over the
record does not contradict it, and an operation, if there is one, is its own and says it
is installing. `RecordInv` is the same for what is told of an installer that is gone: an
outcome is of an attempt that is past asking, and what is pending is never what is told.
`OpInv` and `RunningInv` tie the operation and its run to the record; `LifeInv` says what
a backend that has just loaded knows, and that the version it runs is the one on disk,
which is why Decky's replacement has to end it; `BaseInv` and `ClearedInv` say that a
check that is out does not write back what a deletion cleared. All that the manager holds
is one record (`Manager`), so each of its helpers (`Record`, `Adopt…`, `Consume…`,
`Settle…`) has one lemma saying what it keeps of `Sound`, wherever in a step it comes.

The proof changed the model: with Decky's replacement leaving the old backend up, TLC
found a third start over an installer still asking, which no run within the bounds
reached. The code and `docs/ARCHITECTURE.md:73` say that the replacement stops it.

### DiscoveryProofs

`ClosedEnds` (`ClosedIsOver`), `WhatIsWrittenLoads` (`WrittenLoads`) and `TypeCorrect` hold
without conditions; `StagedIsOwned` (`StagingIsOwned`) where `Restages` is FALSE; `MarkerStays`
(`MarkerIsOnDisk`) and `DeletedIsGone` (`DeletedStaysDeleted`) where `Overlap` is FALSE:
for any sources, downloads, snapshots and listings, and however often each thing is begun.

The invariant splits along what the parts share. Downloads need nothing of the searches
(`DeliveryInv`): `Fits` says what the state of a download says of its task, of the path it
holds and of the file on disk, each of which `StagingIsOwned` alone leaves open while a
clean-up is awaited, a handoff with a staged file among them; a call under way is about a download whose start was over
(`Callable`), since a cancellation that met a handoff's first half would leave a task of a
download that is final; and `WindowInv` says that a window gone has an order on its way, a
cancellation under way, or nothing left to cancel, and that what it last read of an end
still is one. `Moves` is what any step may make of one download (what is over stays over,
what is imported or cancelled stays so, a cancellation that is answered has done what it
was for), so that each action is shown to be a `Moves` once and both halves follow.

What is cached needs the deletion. `LoadInv` (a listing in memory, on its way or on disk
is one that can be loaded) is inductive with the types. `MarkerInv` orders the snapshots:
a later one carries a later marker, and each that may still land covers what was noted as
written. `EpochInv` holds of everything that may yet be written, not of what is on disk
only; and both need `PhaseInv` at the end of a deletion: from the moment searches and the
index are held nothing begins, and what was waited for is gone. `PhaseInv` is where a
reset across a deletion breaks the proof, as it breaks the property.

### Only model-checked

All liveness: TLAPS does not reason about fairness and ENABLED here. Facts by induction over data cannot be proved
either (the library's induction theorems take an operator as a parameter), so no
module has a recursive definition.

## Where the code does not keep its word

**Checked by a run.** `UpdateResult`: while one write of the record fails, an installer's
outcome lives in memory only, and the second look of the same call takes the installer's
report for an orphan and deletes it (`update_manager.py:335`), though the record still
says the install is pending and `update_manager.py:407` says that the file is left where
it is when the write failed. A backend that goes before a later write leaves the next one
an install that never reported back.

**Known, and reached by changing a constant.** Each of these was seen as a TLC
counterexample; none is in the list of runs, so that each run keeps one question.

| property | set | what happens |
|---|---|---|
| LeftIsHeld | `Unproven = TRUE` | a stop that ended Cheat Engine but could not prove it gone takes no hold (`service.py:5326`) |
| LeftIsHeld | `Retries = TRUE`, 2 programs | the supervisor ends Cheat Engine with the program now watched, and takes no hold for one the session was moved away from (`ce_launch.py:4010`) |
| LeftIsHeld | `Retries = TRUE`, 2 programs | the bridge answers for the program it is attached to now, and the stop counts as confirmed for both (`service.py:5178`). A second stop of the same operation takes its hold on the profile's program instead (`service.py:5036`) |
| LeftIsHeld | `Returns = TRUE` | a stop confirmed because no program of the game ran asks nothing of the bridge; the game is started again before Cheat Engine is ended, the bridge attaches on its own tick and patches it, and no hold is taken (`service.py:5143-5181`, `ce_decky_bridge.lua:3176-3188`) |
| LeftIsHeld | `Fails = TRUE` | a bridge that connects as the wait for it ends, or any error of the supervising loop, ends a connected Cheat Engine and takes no hold (`ce_launch.py:4054-4105`) |
| LeftIsHeld | `Forgets = TRUE` | the backend dies after Cheat Engine was ended and before the verdict is on disk, or after a save that failed: the next one knows of no hold (`service.py:5326-5331`, `:4665`) |
| LeftIsHeld | `Transient = TRUE` | holds taken while the file could not be read are in memory only (`service.py:4672`); and the deletion of the plugin's data removes the file while a stop's hold stands (`service.py:3358`): the next backend knows of neither, where `docs/DESIGN.md:119` says a hold outlives a reload and is lifted only on proof |
| ConsentedAtFork | 2 starts | the second start's refusal releases the first one's reservation, which was what kept the consent from being withdrawn (`service.py:5094`) |
| CleanInTime | one more command in `Troubled` | `retry_attach` sets the rollback, the pending startup and its snapshots to nothing (`ce_decky_bridge.lua:1566`) without naming what they stood for; a later quiesce answers clean over a value still written, where `docs/DESIGN.md:119` says such records are named |
| CleanInTime | `unreadable` or `detaches` in `Driven` | an activation whose state cannot be read after the write is reported failed and forgotten (`:1638`); a pending command is dropped on one reading that nothing is attached (`:1670`) |
| StatusReadable | `StartupResults` at `Window` or more | results that prove the status's target are evicted by the startup's own (`session_protocol.py:771`) |
| StatusReadable | `Survives = TRUE` | a retry_attach a stopping bridge refused counts as the target it moved to (`:774`) |
| StaysSupervised | `Unreadable = TRUE` | the recovered supervisor gives up at a scan it cannot read (`ce_launch.py:3246`) |
| OverMeansOver | `Races = TRUE` | a worker's poll between the commit and the attempt's own entry settles what has just begun |
| NothingComesBack | `Outlasts = TRUE` | a deletion waits 90 seconds for a check that is out and then clears with it out; what the check found is written back (`update_manager.py:95`, `:846-849`; `service.py:3313-3327`) |
| KeepsThePromise | `MidLaunch = TRUE` | `repair_profile_state` asks for no launch reservation, and the gate at the fork does not read the profile again (`service.py:4310`, `:5450`) |
| IdentityStands | `Threads = TRUE` | between the check and the reservation of `start_managed_ce_install` a status read lets another call in (`service.py:5506`; `docs/SECURITY.md:50`) |
| StagingIsOwned | `Restages = TRUE` | a handoff whose file was staged and could not be read stays a handoff with a staged file; the next completion puts another path in its place, and the first file is nobody's until the cache is deleted (`acquisition.py:365-367`) |
| DeletedStaysDeleted | `Overlap = TRUE` | the flags that hold searches down are booleans: the reset that ends first lets them resume while the deletion is still on its way |

**Known, and outside a property as it is stated.**

- Holds: a Stop that begins and ends between an Auto-load's admission and its fork leaves
  nothing the gate reads, and the Auto-load forks (`service.py:5454`). The 65th held game
  evicts the oldest hold.
- Bridge: at its deadline the walk answers over work that ends in the same tick (`:1449`);
  `CleanInTime` speaks of answers within the time. A command is executed while a rollback
  waits for a restore, and may change what was put back already; the rollback still calls
  itself proven (`:1005`, `:1633`). The run's sessions do not reach this (one sends no
  such command, and in the other nothing waits once the first step is put back); the theorem
  has it as the condition `Undisturbed`.
- Supervision: `_mark_target_seen` marks the record's own target when another program was
  seen, and without the lock; moved back, that mark ends a launch over a running game after
  a reload (`ce_launch.py:3487`, `:3143`). `EndsOnProof` and `SeenWasSeen` speak of
  sessions that were not moved.
- Ownership: a backend killed between the fork and the record, a stop that stops waiting for
  a spawn after `SPAWN_SETTLE_SECONDS`, and a self-test whose last kill at the unload is not
  proven each leave a Cheat Engine that nothing names (`ce_launch.py:3837`), beside which
  another may start; they are `lost`. A self-test has no gate at its fork and forks into a rebuild of the runtime
  (`service.py:4459`); `NoGameInRebuild` speaks of games.
- Update: `_spawn_runner` writes its record without clearing what an earlier failed write
  left over it, and `UpdateStateStore.update` reads and writes without a lock.
- Library: `revoke_table` retires the session before it may refuse, and
  `prepare_table_copy` reads its source before it takes the lock.
- Evidence: if an activation and its query both run before a poll, the acknowledgement is
  never seen and the player's confirmation is refused.
- Setup: an install damaged between its promotion and its registration refuses completion
  for ever; a crash between the two renames leaves the earlier tree under another name
  only.
- Downloads: cancelling a queued exclusive download twice leaves it an owner of a file
  that is not there, and a deletion refused for it (the comment at `acquisition.py:672`
  says it cannot); a handoff that nobody resolves is held for ever; a crash leaves staged
  files behind; a download whose start was answered to nobody has no window.
- Sources: a failing download, a generic search failure or a background refusal erases a
  cooldown the source asked for (`acquisition.py:935`, `catalog.py:2266`, `:4636`).

Some of these the documents accept in words; they are listed because a property above
would otherwise seem to say more than it does.

## Not modelled

`PROJECT.json` gives the status of every component and what is left out of each. Not
modelled at all, and why:

- *Inspection, extraction, scraping, HTTP, the network's limits, identities of games,
  Steam's files, support bundles and journals*: pure functions of files or input and
  output. What they come to (a table that parses or not, an installer that verifies or
  not, a source that answers or not) is a nondeterministic outcome in the modules that
  use them. They are most of the repository's lines, and the reason the share of lines
  the map covers stays low: a model of a parser would be a second parser.
- *The panel's screens and its models for them* (`index.tsx`, `uiModel.ts`, the modals):
  rendering, except the two flows that drive something long (SetupPanel, Discovery).
- *Operations and the shell*: the registry that cancels and drains at unload is in
  Ownership's `BeginClose` and Update's `Close` as far as a state depends on it.
- *Deletion of all data* is in RunHolds (`DeleteState`), Update (`Deletion…`) and Discovery;
  Library, Evidence and Setup leave it out. There it asks for no launch reservation, and
  a removal that fails half way leaves sessions without profiles, or bytes whose metadata
  went first, until the next load.
- *Vendored and fallback libraries, build scripts, tools, tests*: not part of the running
  system.

## Plan

Done, in order: RunHolds, Bridge, SessionLog, Supervision, Ownership; then Update,
Library with Permit, Evidence, Setup with SetupPanel, Catalog, Acquisition and Discovery.

What would come next:

1. The deletion of all data in Library, with a removal that fails half way.
2. *Channel* (commands go in and come out in order), an abstract specification that
   SessionLog implements where statuses are readable, and *OneOwner* for Ownership.
