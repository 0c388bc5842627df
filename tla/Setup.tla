-------------------------------- MODULE Setup --------------------------------
(***************************************************************************)
(* Getting a Cheat Engine on the device, and keeping the one that is there *)
(* while it is being replaced: managed_ce.py (download, extract, promote), *)
(* ce_archive_import.py and the imports of service.py, the identity the    *)
(* settings name, and the private runtime ce_runtime.py copies it into.    *)
(*                                                                         *)
(* The install is a task of the event loop that hands the disk work to a   *)
(* thread; the calls that read or change the identity come in on other     *)
(* threads and meet it only through the reservation the service keeps      *)
(* under its lock.  SetupPanel.tla adds the panel that drives it.          *)
(*                                                                         *)
(* Synchronous disk work is one action, and each of the places where the   *)
(* plugin can die half way through it is an action ending in the restart.  *)
(***************************************************************************)
EXTENDS Naturals, FiniteSets

CONSTANTS None,
          Starting,      \* the reservation before its operation has an id
          MaxOps,        \* installs started
          MaxFaults,     \* restarts, trees gone bad on the disk, lost calls, in all
          MaxImports,    \* registrations of the user's own Cheat Engine
          Threads        \* a status read may fall between the two halves of a start

ASSUME SetupAssumption ==
  /\ {MaxOps, MaxFaults, MaxImports} \subseteq Nat
  /\ Threads \in BOOLEAN
  /\ None # Starting /\ {None, Starting} \cap Nat = {}

VARIABLES
  dest,         \* installations/<sha>: the managed tree, or None
  prev,         \* the tree a replacement moved aside
  cache,        \* installers/<sha>: the kept installer, or None
  packed,       \* the tree imported from the user's archive: "whole", "aside" or None
  config,       \* the Cheat Engine the settings name
  runtimes,     \* the private copies, by the Cheat Engine they were made from
  op,           \* ManagedCEManager._operation
  task,         \* ManagedCEManager._task: None when there is none or it is done
  reservation,  \* PluginService._managed_ce_reservation
  completion,   \* the id of PluginService._managed_ce_completion
  live,         \* a Cheat Engine of ours is running, in any game
  uses,         \* the private copy it was started from
  reserved,     \* another game holds a launch reservation
  lastId, faults, imports,
  adopted,      \* the latest install has reached the settings
  had           \* a managed tree was whole, and nothing but the code touched it since

disk == <<dest, prev, cache, packed>>
manager == <<op, task, lastId>>
service == <<reservation, completion, adopted>>
launch == <<live, uses, reserved>>
counts == <<faults, imports>>
setupVars == <<disk, config, runtimes, manager, service, launch, counts, had>>

\* What a tree or the kept installer says of where its bytes came from.
Notes == {"right", "wrong", "unknown"}
Sources == {"managed", "own", "packed"}
Tree(note) == [ok |-> TRUE, note |-> note]

\* A managed tree is taken for an installation only as it was promoted: its
\* files, its manifest and its executable are all checked again.
Installed(tree) == tree # None /\ tree.ok
Ended == {"completed", "failed", "cancelled"}
Working == {"downloading", "extracting", "verifying"}
Ids == Nat \ {0}

Trees == [ok : BOOLEAN, note : Notes]
Operations == [id : Ids, force : BOOLEAN, state : Ended \cup Working]
Tasks == [note : Notes, cancel : BOOLEAN, looking : BOOLEAN]

ASSUME NoneAssumption ==
  /\ None \notin Trees /\ None \notin Operations /\ None \notin Tasks
  /\ None \notin Sources \cup {"good", "changed", "whole", "aside"}

SetupTypeOK ==
  /\ {dest, prev, cache} \subseteq {None} \cup Trees
  /\ packed \in {None, "whole", "aside"}
  /\ config \in {None} \cup Sources
  /\ runtimes \in [Sources -> {None, "good", "changed"}]
  /\ op \in {None} \cup Operations
  /\ task \in {None} \cup Tasks
  /\ reservation \in {None, Starting} \cup Ids
  /\ completion \in {None} \cup Ids
  /\ {live, reserved, had, adopted} \subseteq BOOLEAN
  /\ uses \in {None} \cup Sources
  /\ lastId \in Nat

SetupInit ==
  /\ dest = None /\ prev = None /\ cache = None /\ packed = None
  /\ config = None
  /\ runtimes = [s \in Sources |-> None]
  /\ op = None /\ task = None /\ lastId = 0
  /\ reservation = None /\ completion = None /\ adopted = FALSE
  /\ live = FALSE /\ uses = None /\ reserved = FALSE
  /\ faults = 0 /\ imports = 0
  /\ had = FALSE

-----------------------------------------------------------------------------
(* The service's reservation.                                              *)

\* Mutant of Reconciled: an install that was cancelled keeps its reservation.
ReconciledFailed(what) ==
  IF what # None /\ reservation \in {Starting, what.id} /\ what.state = "failed"
  THEN None ELSE reservation

\* What a read of an operation leaves of the reservation.
Reconciled(what) ==
  IF what # None /\ reservation \in {Starting, what.id}
     /\ what.state \in {"failed", "cancelled"}
  THEN None ELSE reservation

\* A read of the capability also drops a reservation whose operation is gone.
CapabilityRead ==
  reservation' = IF op = None /\ reservation # Starting THEN None ELSE Reconciled(op)

\* What every change of the identity asks first, for every game.
NothingRuns == ~live /\ ~reserved
IdentityMayChange == reservation = None /\ NothingRuns

\* The first half of a start, under the lock.
StartReserves ==
  /\ IdentityMayChange /\ lastId < MaxOps
  /\ completion' = None
  /\ reservation' = Starting
  /\ UNCHANGED <<disk, config, runtimes, manager, adopted, launch, counts, had>>

\* The second: the manager's own start, and the id put in the reservation.  An
\* install that is there and whole is the answer, unless it is to be replaced.
StartRuns(force) ==
  /\ task = None
  /\ lastId' = lastId + 1
  /\ LET ready == Installed(dest) /\ ~force
     IN /\ op' = [id |-> lastId', force |-> force,
                  state |-> IF ready THEN "completed" ELSE "downloading"]
        /\ task' = IF ready THEN None ELSE [note |-> "unknown", cancel |-> FALSE, looking |-> FALSE]
  /\ reservation' = IF reservation = Starting THEN lastId' ELSE reservation
  /\ adopted' = FALSE
  /\ UNCHANGED <<disk, config, runtimes, completion, launch, counts, had>>

\* cancel: the task is told, and the call answers once the task has ended.
CancelAsked(id) ==
  /\ op # None /\ op.id = id /\ task # None
  /\ task' = [task EXCEPT !.cancel = TRUE]
  /\ UNCHANGED <<disk, config, runtimes, op, lastId, service, launch, counts, had>>

CompleteAllowed(id) ==
  /\ reservation = id /\ NothingRuns
  /\ op # None /\ op.id = id /\ op.state = "completed" /\ task = None
  /\ Installed(dest)

\* Mutant of Complete: the operation is cleared and its receipt not kept.
CompleteUnreceipted(id) ==
  /\ CompleteAllowed(id)
  /\ config' = "managed"
  /\ op' = None
  /\ reservation' = None
  /\ completion' = None
  /\ adopted' = TRUE
  /\ UNCHANGED <<disk, runtimes, task, lastId, launch, counts, had>>

\* The one call that makes an install the device's Cheat Engine: the settings
\* are saved first, then the operation is cleared and the receipt kept.
Complete(id) ==
  /\ CompleteAllowed(id)
  /\ config' = "managed"
  /\ op' = None
  /\ reservation' = None
  /\ completion' = id
  /\ adopted' = TRUE
  /\ UNCHANGED <<disk, runtimes, task, lastId, launch, counts, had>>

-----------------------------------------------------------------------------
(* The install, a step at a time.                                          *)

EndAs(state) ==
  /\ op' = [op EXCEPT !.state = state]
  /\ task' = None

InstallUntouched == UNCHANGED <<config, runtimes, lastId, service, launch, counts>>

\* A kept installer that still verifies is used; one that does not is removed,
\* with its note.
UseCache ==
  /\ task # None /\ op.state = "downloading" /\ ~op.force /\ cache # None
  /\ IF cache.ok
     THEN /\ op' = [op EXCEPT !.state = "extracting"]
          /\ task' = [task EXCEPT !.note = cache.note]
          /\ UNCHANGED cache
     ELSE /\ cache' = None
          /\ UNCHANGED <<op, task>>
  /\ UNCHANGED <<dest, prev, packed, had>> /\ InstallUntouched

\* The verified download becomes the kept installer: the old note goes first (1),
\* then the bytes are put in place (2), then the new note (3).
Kept(cut) ==
  cache' = CASE cut = 1 -> (IF cache = None THEN None ELSE [cache EXCEPT !.note = "unknown"])
             [] cut = 2 -> Tree("unknown")
             [] cut = 3 -> Tree("right")

Fetching == task # None /\ op.state = "downloading" /\ ~task.cancel /\ (cache # None => op.force)

Fetched ==
  /\ Kept(3)
  /\ op' = [op EXCEPT !.state = "extracting"]
  /\ task' = [task EXCEPT !.note = "right"]
  /\ UNCHANGED <<dest, prev, packed, had>> /\ InstallUntouched

\* The pinned address serves the reviewed bytes, or it does not and the current
\* one is looked up.
Download ==
  /\ Fetching /\ ~task.looking
  /\ \/ Fetched
     \/ /\ task' = [task EXCEPT !.looking = TRUE]
        /\ UNCHANGED <<disk, op, had>> /\ InstallUntouched

\* The address the download page and its helper name serves the reviewed bytes:
\* whoever signed them, no others are kept.
Rediscover == Fetching /\ task.looking /\ Fetched

\* The network, the extraction or the check of its result fails.
InstallFails ==
  /\ task # None /\ op.state \in {"downloading", "extracting"} /\ ~task.cancel
  /\ EndAs("failed")
  /\ UNCHANGED <<disk, had>> /\ InstallUntouched

\* Told to stop before the promotion, the task ends cancelled: an extraction
\* under way is waited for first.
InstallCancelled ==
  /\ task # None /\ op.state \in {"downloading", "extracting"} /\ task.cancel
  /\ EndAs("cancelled")
  /\ UNCHANGED <<disk, had>> /\ InstallUntouched

Extracted ==
  /\ task # None /\ op.state = "extracting" /\ ~task.cancel
  /\ op' = [op EXCEPT !.state = "verifying"]
  /\ UNCHANGED <<disk, had, task>> /\ InstallUntouched

Replacing == Installed(dest) => op.force

\* Mutant of Promotion: the tree moved aside is discarded before the new one
\* has been validated.
PromotionDiscards(cut) ==
  CASE cut = 1 -> dest' = None /\ prev' = None
    [] cut = 2 -> dest' = Tree(task.note) /\ prev' = None
    [] cut = 3 -> dest' = Tree(task.note) /\ prev' = None
    [] cut = 4 -> dest' = None /\ prev' = None

\* The tree that is there is moved aside (1), the new one put in its place (2)
\* and validated, and the old one discarded (3); a validation that fails puts
\* the old one back (4).
Promotion(cut) ==
  CASE cut = 1 -> dest' = None /\ prev' = (IF dest = None THEN prev ELSE dest)
    [] cut = 2 -> dest' = Tree(task.note)
                  /\ prev' = (IF dest = None THEN prev ELSE dest)
    [] cut = 3 -> dest' = Tree(task.note) /\ UNCHANGED prev
    [] cut = 4 -> UNCHANGED <<dest, prev>>

\* The promotion cannot be interrupted: told to stop, it is waited for, and the
\* operation completes all the same.
Promoted ==
  /\ task # None /\ op.state = "verifying"
  /\ IF Replacing THEN Promotion(3) ELSE UNCHANGED <<dest, prev>>
  /\ had' = TRUE
  /\ EndAs("completed")
  /\ UNCHANGED <<cache, packed>> /\ InstallUntouched

PromotionFails ==
  /\ task # None /\ op.state = "verifying" /\ Replacing
  /\ Promotion(4)
  /\ EndAs("failed")
  /\ UNCHANGED <<cache, packed, had>> /\ InstallUntouched

-----------------------------------------------------------------------------
(* The user's own Cheat Engine, and the private runtime.                   *)

\* import_ce and clear_ce_import: only the settings change.
Import(what) ==
  /\ IdentityMayChange /\ imports < MaxImports
  /\ what \in {None, "own"}
  /\ config' = what
  /\ imports' = imports + 1
  /\ UNCHANGED <<disk, runtimes, manager, service, launch, faults, had>>

\* The archive's tree in place of the one before (2), which was first moved
\* aside (1).
ArchivePromotion(cut) == packed' = IF cut = 2 THEN "whole" ELSE "aside"

\* import_ce_archive: the packed directory is extracted, promoted as the managed
\* tree is, and registered, all under the lock.
ImportArchive ==
  /\ IdentityMayChange /\ imports < MaxImports
  /\ ArchivePromotion(2)
  /\ config' = "packed"
  /\ imports' = imports + 1
  /\ UNCHANGED <<dest, prev, cache, runtimes, manager, service, launch, faults, had>>

ArchiveInstalled == packed = "whole"

\* The identity in the settings, as the disk bears it out.
ValidatedImport ==
  CASE config = None -> FALSE
    [] config = "managed" -> Installed(dest)
    [] config = "packed" -> ArchiveInstalled
    [] OTHER -> TRUE

\* A private copy still matches the snapshot it was made from.
Matches(from) == runtimes[from] = "good"

\* materialize_private_runtime: a copy that matches is used, one that drifted is
\* replaced, and one that is not there is made.
Materialized == [runtimes EXCEPT ![config] = "good"]

\* collect_stale_runtimes: the copies of other identities go, if nothing of ours
\* can be running from one.
Collected(copies) == [s \in Sources |-> IF s = config \/ live THEN copies[s] ELSE None]

\* Mutant of ReserveLaunch: a copy that drifted is replaced whoever runs from it.
ReserveLaunchOver ==
  /\ reservation = None /\ ~reserved
  /\ ValidatedImport
  /\ runtimes' = Collected(Materialized)
  /\ reserved' = TRUE
  /\ UNCHANGED <<disk, config, manager, service, live, uses, counts, had>>

\* A launch of another game than the one already served, if any: under the lock
\* it checks the identity, makes the private copy and takes its reservation.
ReserveLaunch ==
  /\ reservation = None /\ ~reserved
  /\ ValidatedImport
  /\ runtimes[config] # None /\ ~Matches(config) => ~live
  /\ runtimes' = Collected(Materialized)
  /\ reserved' = TRUE
  /\ UNCHANGED <<disk, config, manager, service, live, uses, counts, had>>

\* The reserved launch forks, one Cheat Engine at a time, or is given up.
Fork ==
  /\ reserved /\ ~live
  /\ reserved' = FALSE /\ live' = TRUE /\ uses' = config
  /\ UNCHANGED <<disk, config, runtimes, manager, service, counts, had>>

LaunchGivenUp ==
  /\ reserved
  /\ reserved' = FALSE
  /\ UNCHANGED <<disk, config, runtimes, manager, service, live, uses, counts, had>>

\* Cheat Engine writes into its own directory.
RuntimeDrifts ==
  /\ live /\ Matches(uses)
  /\ runtimes' = [runtimes EXCEPT ![uses] = "changed"]
  /\ UNCHANGED <<disk, config, manager, service, launch, counts, had>>

CEEnds ==
  /\ live
  /\ live' = FALSE /\ uses' = None
  /\ UNCHANGED <<disk, config, runtimes, manager, service, reserved, counts, had>>

-----------------------------------------------------------------------------
(* Faults.                                                                 *)

\* A tree or the kept installer goes bad, but not between the promotion of an
\* install and its registration.
Damage ==
  /\ faults < MaxFaults /\ task = None /\ (op # None => op.state # "completed")
  /\ faults' = faults + 1
  /\ \/ /\ dest # None
        /\ dest' = [dest EXCEPT !.ok = FALSE] /\ had' = FALSE /\ UNCHANGED cache
     \/ /\ cache # None
        /\ cache' = [cache EXCEPT !.ok = FALSE] /\ UNCHANGED <<dest, had>>
  /\ UNCHANGED <<prev, packed, config, runtimes, manager, service, launch, imports>>

\* What the plugin's memory is when it comes back; a Cheat Engine outlives it.
Forgotten ==
  /\ faults < MaxFaults
  /\ faults' = faults + 1
  /\ op' = None /\ task' = None
  /\ reservation' = None /\ completion' = None
  /\ reserved' = FALSE
  /\ UNCHANGED <<runtimes, lastId, adopted, live, uses, imports>>

\* Dying between two steps, or unloaded: close drains a task it cancelled, which
\* is the same as a restart after the step it was at.
Restart ==
  /\ Forgotten
  /\ UNCHANGED <<disk, config, had>>

DieKeepingInstaller ==
  /\ Forgotten
  /\ Fetching
  /\ \E cut \in {1, 2} : Kept(cut)
  /\ UNCHANGED <<dest, prev, packed, config, had>>

DiePromoting ==
  /\ Forgotten
  /\ task # None /\ op.state = "verifying" /\ Replacing
  /\ \E cut \in {1, 2} : Promotion(cut)
  /\ UNCHANGED <<cache, packed, config, had>>

\* Between the two renames of an archive's promotion the tree is only beside
\* its place; between the promotion and the settings it is not yet named.
DieImporting ==
  /\ Forgotten
  /\ IdentityMayChange
  /\ \E cut \in {1, 2} : (cut = 1 => packed = "whole") /\ ArchivePromotion(cut)
  /\ UNCHANGED <<dest, prev, cache, config, had>>

-----------------------------------------------------------------------------
TaskStep == UseCache \/ Download \/ Rediscover \/ Extracted \/ Promoted
            \/ InstallFails \/ InstallCancelled \/ PromotionFails

Surroundings ==
  \/ \E what \in {None, "own"} : Import(what)
  \/ ImportArchive
  \/ ReserveLaunch \/ Fork \/ LaunchGivenUp \/ RuntimeDrifts \/ CEEnds
  \/ Damage

RestartStep == Restart \/ DieKeepingInstaller \/ DiePromoting \/ DieImporting

-----------------------------------------------------------------------------
(* What the setup owes.                                                    *)

\* What a game is being served from does not change under it: neither the
\* identity the settings name nor, the disk's own faults apart, the tree, while
\* a Cheat Engine runs or a launch is reserved, and the copy it was started from
\* is neither removed nor rebuilt (ce_runtime.py:317, service.py:886 and 2606).
IdentityStands ==
  [][/\ (live /\ live') \/ (reserved /\ reserved')
          => /\ UNCHANGED <<config, packed>>
             /\ dest' # dest => dest # None /\ dest' = [dest EXCEPT !.ok = FALSE]
     /\ live /\ live' => runtimes'[uses] \in {runtimes[uses], "changed"}
     /\ live /\ live' /\ runtimes[uses] = "changed" => runtimes'[uses] = "changed"]_setupVars

\* "It never destroys the last validated managed installation before replacement
\* validation" (docs/SECURITY.md:50): once a managed tree was whole it is in its
\* place or beside it, wherever a reinstall failed, was cancelled or was cut short.
OneIsKept ==
  had => Installed(dest) \/ Installed(prev)

==============================================================================
