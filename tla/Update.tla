------------------------------- MODULE Update -------------------------------
(***************************************************************************)
(* The plugin's own update: `update_manager.py`, the detached installer in  *)
(* `update_runner.py`, and the calls of `service.py` that start it, poll it  *)
(* and delete the tree it works in.                                         *)
(*                                                                         *)
(* One transaction crosses three lives.  The backend reads the release,     *)
(* fetches and verifies it, and hands it to a runner; Decky replaces the    *)
(* backend; the next one reads what happened from the record the first left *)
(* and the file the runner left.  Any of them may die at any step, the disk *)
(* may refuse a write, and the clock may have gone back.                    *)
(***************************************************************************)
EXTENDS Naturals, FiniteSets

CONSTANTS
    None, Absent,
    MaxVersion,  \* the newest release there will be; the device starts at 0
    MaxStarts,   \* bound: updates started; an update makes at most one attempt
    MaxFaults,   \* bound: crashes, kills, reboots and steps during which the disk takes no write
    Races,       \* BOOLEAN: a worker's poll may run inside the loop's synchronous steps
    Outlasts     \* BOOLEAN: a check may be out longer than a deletion waits for it, 90 s

ASSUME UpdateAssumption ==
    /\ MaxVersion \in Nat \ {0} /\ MaxStarts \in Nat \ {0} /\ MaxFaults \in Nat
    /\ {Races, Outlasts} \subseteq BOOLEAN

VARIABLES
    rec,         \* the durable record, plugin-update.json
    held,        \* _unwritten: what a failed write left in memory over it
    result,      \* the runner's result file
    kept,        \* the version of the recovery archive in the user's home, 0 when there is none
    staged,      \* the version of the archive in the staging directory
    op,          \* _operation
    attempt,     \* _attempt
    handle,      \* _process: the attempt whose runner this backend started
    observed,    \* _observed_starts: how old a start in the clock's future was seen to be
    task,        \* where _run is
    check,       \* where a check is
    base,        \* the record the loop has read and is about to write over
    reservation, \* service._plugin_update_reservation
    deletion,    \* where delete_managed_data is; the manager is suspended while it is not "none"
    backend,     \* "up", "closing" or "down"
    current,     \* the version the backend runs
    installed,   \* the version Decky has on disk
    published,   \* the newest release
    runner,      \* the installer process of each attempt
    starts, faults

files == <<rec, result, kept, staged>>
memory == <<held, op, attempt, handle, observed>>
world == <<installed, published, runner>>
counts == <<starts, faults>>
vars == <<files, memory, task, check, base, reservation, deletion, backend, current, world, counts>>

Attempts == 1..MaxStarts
Versions == 0..MaxVersion
Settled == {"failed", "cancelled"}
LivePhases == {"verifying", "asking", "asked", "preserving", "reporting"}

Ages == {"recent", "old", "future"}
Pending == [attempt : Attempts, version : Versions, start : Ages]
Outcomes == [attempt : {0} \cup Attempts, version : Versions, ok : BOOLEAN]
Operations == [id : Attempts, version : Versions, adopted : BOOLEAN,
               state : {"checking", "downloading", "installing"} \cup Settled]
Records == [install : {None} \cup Pending, last : {None} \cup Outcomes,
            recovery : Versions, latest : Versions]
Changes == [install : {Absent, None} \cup Pending, last : {Absent, None} \cup Outcomes,
            recovery : {Absent} \cup Versions, latest : {Absent} \cup Versions]
Empty == [install |-> None, last |-> None, recovery |-> 0, latest |-> 0]
Nothing == [install |-> Absent, last |-> Absent, recovery |-> Absent, latest |-> Absent]

\* What stands for "none" and for "not there" is no value of the state.
ASSUME NoneAssumption ==
    /\ None \notin Pending \cup Outcomes \cup Operations \cup Records
    /\ Absent \notin {None} \cup Pending \cup Outcomes \cup Versions

TypeOK ==
    /\ rec \in Records /\ held \in Changes /\ base \in {None} \cup Records
    /\ result \in {None} \cup Outcomes
    /\ {kept, staged, current, installed, published} \subseteq Versions
    /\ op \in {None} \cup Operations
    /\ {attempt, handle, reservation} \subseteq {0} \cup Attempts
    /\ observed \in [Attempts -> {"unseen", "recent", "old"}]
    /\ task \in {"none", "reading", "fetching", "waiting", "committed"}
    /\ check \in {"idle", "out"}
    /\ deletion \in {"none", "draining", "cleared"}
    /\ backend \in {"up", "closing", "down"}
    /\ runner \in [Attempts -> [phase : {"unborn", "ended"} \cup LivePhases, version : Versions,
                                verified : BOOLEAN, ok : BOOLEAN]]
    /\ starts \in 0..MaxStarts /\ faults \in 0..MaxFaults

-----------------------------------------------------------------------------
(* The record, and what is known over it.  The manager's steps are chains   *)
(* of these, so each takes the manager's files and memory and gives them    *)
(* back; `ok` is whether the disk takes writes during the call.             *)

Manager == [rec |-> rec, held |-> held, result |-> result, kept |-> kept, op |-> op,
            attempt |-> attempt, handle |-> handle, observed |-> observed, current |-> current]
Becomes(t) ==
    /\ rec' = t.rec /\ held' = t.held /\ result' = t.result /\ kept' = t.kept
    /\ op' = t.op /\ attempt' = t.attempt /\ handle' = t.handle /\ observed' = t.observed

\* A change laid over a record, or over what is known of it already.
Known(new, old) == IF new = Absent THEN old ELSE new
Over(new, old) == [install |-> Known(new.install, old.install), last |-> Known(new.last, old.last),
                   recovery |-> Known(new.recovery, old.recovery), latest |-> Known(new.latest, old.latest)]
Left(new, old) == IF new = Absent THEN old ELSE Absent
Without(new, old) == [install |-> Left(new.install, old.install), last |-> Left(new.last, old.last),
                      recovery |-> Left(new.recovery, old.recovery), latest |-> Left(new.latest, old.latest)]

Stored(t) == Over(t.held, t.rec)
Written == IF faults < MaxFaults THEN BOOLEAN ELSE {TRUE}
Writes(ok) == faults' = IF ok THEN faults ELSE faults + 1

\* _record: what could not be written is kept in memory, and a write empties what it wrote.
Record(t, new, ok) ==
    IF ok THEN [t EXCEPT !.rec = Over(new, @), !.held = Without(new, @)]
    ELSE [t EXCEPT !.held = Over(new, @)]

\* discard_kept_archive: the recovery archive goes, and the record with it.
DiscardKeptArchive(t, ok) ==
    LET gone == [t EXCEPT !.kept = 0]
    IN IF Stored(t).recovery = 0 THEN gone ELSE Record(gone, [Nothing EXCEPT !.recovery = 0], ok)

\* _recovery_record: the kept file is this attempt's only if it carries its digest.
RecoveryRecord(t, version) == IF t.kept # 0 /\ t.kept = version THEN version ELSE Absent

\* _recovery_view: what a screen offers for a manual install.
RecoveryView(t) ==
    LET v == Stored(t).recovery IN IF v > t.current /\ t.kept = v THEN v ELSE 0

RetireSupersededRecovery(t, ok) ==
    LET v == Stored(t).recovery
    IN IF v # 0 /\ v <= t.current THEN DiscardKeptArchive(t, ok) ELSE t

\* _observed_start: a start in this clock's future is aged from when it was first seen.
Seen(t, p) ==
    IF p.start = "future" /\ t.observed[p.attempt] = "unseen"
    THEN [t EXCEPT !.observed[p.attempt] = "recent"] ELSE t
\* Mutant of ObservedStart: a start is what was written, in the clock's future too.
ObservedAsWritten(t, p) == p.start
ObservedStart(t, p) == IF p.start = "future" THEN Seen(t, p).observed[p.attempt] ELSE p.start
Observe(t, p, ok) ==
    IF p.start # "future" THEN t
    ELSE Record(Seen(t, p), [Nothing EXCEPT !.install = [p EXCEPT !.start = ObservedStart(t, p)]], ok)

\* Mutant of AdoptPendingInstall: the next backend takes nothing over.
AdoptNothing(t) == t
\* _adopt_pending_install: own an install another backend started, in memory.
AdoptPendingInstall(t) ==
    LET p == Stored(t).install
    IN IF p = None THEN t
       ELSE IF ObservedStart(t, p) = "old" THEN Seen(t, p)
       ELSE IF t.op # None /\ t.op.state = "installing" /\ t.attempt = p.attempt THEN Seen(t, p)
       ELSE [Seen(t, p) EXCEPT !.attempt = p.attempt,
                !.op = [id |-> p.attempt, version |-> p.version, adopted |-> TRUE, state |-> "installing"]]

\* A settled attempt: the record first, and the runner's file only once it is written.
SettledWith(t, p, outcome, ok) ==
    LET told == IF outcome.ok
                THEN Record(DiscardKeptArchive(t, ok),
                            [install |-> None, last |-> outcome, recovery |-> 0, latest |-> 0], ok)
                ELSE Record(t, [Nothing EXCEPT !.install = None, !.last = outcome,
                                               !.recovery = RecoveryRecord(t, p.version)], ok)
    IN [told EXCEPT !.result = IF ok THEN None ELSE @]

\* consume_runner_result: fold what the installer reported, or what its absence
\* says, into the record.  A file that claims nothing is removed whoever left it.
Unreported(t, p, ok) ==
    LET of(succeeded) == [attempt |-> p.attempt, version |-> p.version, ok |-> succeeded]
    IN IF p = None THEN t
       ELSE IF p.version = t.current THEN SettledWith(t, p, of(TRUE), ok)
       ELSE IF ObservedStart(t, p) = "old" THEN SettledWith(t, p, of(FALSE), ok)
       ELSE AdoptPendingInstall(t)
ConsumeRunnerResult(t, ok) ==
    LET p       == Stored(t).install
        claimed == t.result # None /\ p # None /\ t.result.attempt = p.attempt
        orphan  == [t EXCEPT !.result = None]
    IN IF claimed THEN SettledWith(t, p, t.result, ok)
       ELSE Unreported(IF p = None THEN orphan ELSE Observe(orphan, p, ok), p, ok)

\* _settled_by_record: the operation follows what the record says of its attempt.
SettledByRecord(t) ==
    LET last == Stored(t).last IN last # None /\ last.attempt = t.attempt
FollowRecord(t, id) ==
    IF SettledByRecord(t) /\ ~Stored(t).last.ok /\ t.op # None /\ t.op.id = id
    THEN [t EXCEPT !.op.state = "failed"] ELSE t

StoppedUnreported(t, own, ok) ==
    LET p    == Stored(t).install
        over == [attempt |-> t.attempt, version |-> own.version, ok |-> FALSE]
        told == Record(t, [Nothing EXCEPT !.install = None, !.last = over,
                              !.recovery = IF p = None THEN Absent ELSE RecoveryRecord(t, p.version)], ok)
    IN [told EXCEPT !.op.state = "failed", !.handle = 0]
\* Mutant of SettleFolded: a runner that has not reported yet is one that is gone.
SettleUnasked(t, own, ok) ==
    IF SettledByRecord(t) THEN FollowRecord(t, own.id) ELSE StoppedUnreported(t, own, ok)
SettleFolded(t, own, ok) ==
    IF SettledByRecord(t) THEN FollowRecord(t, own.id)
    ELSE IF t.handle = 0
         THEN IF own.adopted THEN FollowRecord(ConsumeRunnerResult(t, ok), own.id) ELSE t
    ELSE IF runner[t.handle].phase = "ended" THEN StoppedUnreported(t, own, ok)
    ELSE t
SettleInstalling(t, ok) ==
    IF t.op = None THEN t
    ELSE IF t.op.state # "installing" THEN t
    ELSE SettleFolded(IF t.result # None THEN ConsumeRunnerResult(t, ok) ELSE t, t.op, ok)

\* maintain: the durable half of reconciling.
Adopted(t) == IF t.op = None THEN AdoptPendingInstall(t) ELSE t
Maintain(t, ok) ==
    RetireSupersededRecovery(Adopted(SettleInstalling(ConsumeRunnerResult(t, ok), ok)), ok)

\* has_active_operation, once maintained.
HasActiveOperation(t) == task # "none" \/ (t.op # None /\ t.op.state \notin Settled)

\* replacement_committed: what admissions and stops ask of the updater.
ReplacementCommitted == op # None /\ op.state = "installing"

\* _reconcile_plugin_update_reservation
Reconciled(t) ==
    IF t.op # None /\ t.op.state \in Settled /\ reservation = t.op.id THEN 0 ELSE reservation

-----------------------------------------------------------------------------
Init ==
    /\ rec = Empty /\ held = Nothing
    /\ result = None /\ kept = 0 /\ staged = 0
    /\ op = None /\ attempt = 0 /\ handle = 0
    /\ observed = [a \in Attempts |-> "unseen"]
    /\ task = "none" /\ check = "idle" /\ base = None
    /\ reservation = 0 /\ deletion = "none"
    /\ backend = "up" /\ current = 0 /\ installed = 0 /\ published = 1
    /\ runner = [a \in Attempts |-> [phase |-> "unborn", version |-> 0, verified |-> FALSE, ok |-> FALSE]]
    /\ starts = 0 /\ faults = 0

\* The loop runs one synchronous step at a time; a worker's call may overlap it only when Races.
LoopFree == task # "committed" /\ base = None
Loop == backend = "up" /\ LoopFree
Worker == backend = "up" /\ (LoopFree \/ Races)

\* Mutant of CheckBegins: one is not refused while the plugin's data is deleted.
CheckBeginsAnyway ==
    /\ Loop /\ check = "idle" /\ check' = "out"
    /\ UNCHANGED <<files, memory, task, base, reservation, deletion, backend, current, world, counts>>
\* check: one request at a time, refused while closing or suspended.
CheckBegins ==
    /\ Loop /\ deletion = "none" /\ check = "idle"
    /\ check' = "out"
    /\ UNCHANGED <<files, memory, task, base, reservation, deletion, backend, current, world, counts>>

CheckFails ==
    /\ Loop /\ check = "out"
    /\ check' = "idle"
    /\ UNCHANGED <<files, memory, task, base, reservation, deletion, backend, current, world, counts>>

\* UpdateStateStore.update reads the record ...
CheckReads ==
    /\ Loop /\ check = "out"
    /\ base' = rec
    /\ UNCHANGED <<files, memory, task, check, reservation, deletion, backend, current, world, counts>>

\* ... and writes it back with the answer in it; an outcome nobody can act on any more goes.
CheckAnswers ==
    /\ backend = "up" /\ base # None
    /\ \E ok \in Written :
         /\ Writes(ok)
         /\ LET answer == [Nothing EXCEPT !.latest = published,
                              !.last = IF Stored(Manager).last = None THEN Absent ELSE None]
            IN Becomes(Record([Manager EXCEPT !.rec = IF ok THEN base ELSE @], answer, ok))
    /\ base' = None /\ check' = "idle"
    /\ UNCHANGED <<staged, task, reservation, deletion, backend, current, world, starts>>

\* start_plugin_update and start: one update, for the version the screen showed.
StartUpdate ==
    /\ Loop /\ starts < MaxStarts
    /\ \E ok \in Written :
         /\ Writes(ok)
         /\ LET t    == Maintain(Manager, ok)
                shown == Stored(t).latest
                id   == starts + 1
            IN IF reservation # 0 \/ HasActiveOperation(t) \/ deletion # "none" \/ shown <= current
               THEN Becomes(t) /\ UNCHANGED <<task, reservation, world, starts>>
               ELSE /\ Becomes([t EXCEPT !.handle = 0, !.attempt = 0,
                           !.op = [id |-> id, version |-> shown, adopted |-> FALSE, state |-> "checking"]])
                    /\ task' = "reading" /\ reservation' = id /\ starts' = id
                    /\ UNCHANGED world
    /\ UNCHANGED <<staged, check, base, deletion, backend, current>>

\* _run's failure: the archive goes, no install is pending, and the outcome belongs to no attempt.
Failed(t, ok) ==
    Record([t EXCEPT !.op.state = "failed"],
           [Nothing EXCEPT !.install = None,
                           !.last = [attempt |-> 0, version |-> t.op.version, ok |-> FALSE]], ok)
RunFails ==
    /\ Loop /\ task \in {"reading", "fetching", "waiting"}
    /\ \E ok \in Written :
         /\ Writes(ok)
         /\ Becomes(Failed(Manager, ok))
    /\ staged' = 0 /\ task' = "none"
    /\ UNCHANGED <<check, base, reservation, deletion, backend, current, world, starts>>

RunReads ==
    /\ Loop /\ task = "reading"
    /\ \E ok \in Written :
         /\ Writes(ok)
         /\ LET t == Record(Manager, [Nothing EXCEPT !.latest = published], ok)
            IN IF published <= current \/ published # op.version
               THEN Becomes(Failed(t, ok)) /\ task' = "none"
               ELSE Becomes([t EXCEPT !.op.state = "downloading"]) /\ task' = "fetching"
    /\ UNCHANGED <<staged, check, base, reservation, deletion, backend, current, world, starts>>

\* _fetch_verified_archive: only the archive the release's own digest names stays.
RunFetches ==
    /\ Loop /\ task = "fetching"
    /\ staged' = op.version /\ task' = "waiting"
    /\ UNCHANGED <<rec, result, kept, memory, check, base, reservation, deletion, backend, current, world, counts>>

\* _await_install_admission: the owner lets the install through, and `installing` is published.
RunCommits ==
    /\ Loop /\ task = "waiting"
    /\ op' = [op EXCEPT !.state = "installing"] /\ task' = "committed"
    /\ UNCHANGED <<files, held, attempt, handle, observed, check, base, reservation, deletion, backend,
                   current, world, counts>>

\* _spawn_runner: the record first, strictly, and then the process nothing takes back.
RunSpawns ==
    /\ backend = "up" /\ task = "committed" /\ op # None
    /\ rec' = [rec EXCEPT !.install = [attempt |-> op.id, version |-> op.version, start |-> "recent"]]
    /\ attempt' = op.id /\ handle' = op.id /\ task' = "none"
    /\ runner' = [runner EXCEPT ![op.id] =
                    [phase |-> "verifying", version |-> op.version, verified |-> FALSE, ok |-> FALSE]]
    /\ UNCHANGED <<result, kept, staged, held, op, observed, check, base, reservation, deletion, backend,
                   current, installed, published, starts, faults>>

\* _spawn_runner refused: the record could not be written, or the interpreter could not be started.
SpawnFails ==
    /\ backend = "up" /\ task = "committed" /\ op # None
    /\ \E ok \in Written :
         /\ Writes(ok)
         /\ Becomes(Failed(Manager, ok))
    /\ staged' = 0 /\ task' = "none"
    /\ UNCHANGED <<check, base, reservation, deletion, backend, current, world, starts>>

\* cancel: only the half this process owns.
CancelUpdate ==
    /\ Loop /\ op # None
    /\ \E ok \in Written :
         /\ Writes(ok)
         /\ LET t == Maintain(Manager, ok)
                stops == t.op.state # "installing" /\ task # "none"
                done == IF stops THEN [t EXCEPT !.op.state = "cancelled"] ELSE t
            IN /\ Becomes(done)
               /\ reservation' = IF t.op.state = "installing" THEN reservation ELSE Reconciled(done)
               /\ task' = IF stops THEN "none" ELSE task
               /\ staged' = IF stops THEN 0 ELSE staged
    /\ UNCHANGED <<check, base, deletion, backend, current, world, starts>>

\* poll_plugin_update, once a second while the window is open, in a worker thread.
Poll ==
    /\ Worker /\ op # None
    /\ \E ok \in Written :
         /\ Writes(ok)
         /\ LET t == Maintain(Manager, ok) IN Becomes(t) /\ reservation' = Reconciled(t)
    /\ UNCHANGED <<staged, task, check, base, deletion, backend, current, world, starts>>

\* snapshot, through get_status: adoption in memory and nothing written.
StatusRead ==
    /\ Worker
    /\ LET t == Adopted(Manager)
       IN /\ Becomes(t)
          /\ reservation' = IF t.op = None THEN 0 ELSE Reconciled(t)
    /\ UNCHANGED <<staged, task, check, base, deletion, backend, current, world, counts>>

\* The scheduler's tick, and every other boundary that may write.
Tick ==
    /\ Loop
    /\ \E ok \in Written :
         /\ Writes(ok)
         /\ Becomes(Maintain(Manager, ok))
    /\ UNCHANGED <<staged, task, check, base, reservation, deletion, backend, current, world, starts>>

-----------------------------------------------------------------------------
(* Deleting what the plugin keeps: refused over an update, which is held off  *)
(* and whose running check is waited out.                                     *)

Refused(t) == HasActiveOperation(t) \/ reservation # 0

DeletionBegins ==
    /\ Worker /\ deletion = "none"
    /\ \E ok \in Written :
         /\ Writes(ok)
         /\ LET t == Maintain(Manager, ok)
            IN Becomes(t) /\ deletion' = IF Refused(t) THEN "none" ELSE "draining"
    /\ UNCHANGED <<staged, task, check, base, reservation, backend, current, world, starts>>

\* reset_after_state_deletion: memory of a file that is gone goes with it.
Forgotten(t) == [t EXCEPT !.held = Nothing, !.observed = [a \in Attempts |-> "unseen"],
                          !.attempt = 0, !.handle = 0, !.op = None]
Cleared(t, scope, ok) ==
    LET carried == IF scope = "setup" THEN RecoveryView(t) ELSE 0
        gone    == IF scope = "cache" THEN t ELSE Forgotten([t EXCEPT !.rec = Empty, !.result = None])
        left    == IF scope = "all" THEN DiscardKeptArchive(gone, ok) ELSE gone
    IN IF carried = 0 THEN left ELSE Record(left, [Nothing EXCEPT !.recovery = carried], ok)

\* _delete_managed_data_locked, after drain_check: its wait has an end, and the deletion goes on.
DeletionClears ==
    /\ Worker /\ deletion = "draining" /\ (check = "idle" \/ Outlasts)
    /\ \E scope \in {"cache", "setup", "all"}, ok \in Written :
         /\ Writes(ok)
         /\ LET t == Maintain(Manager, ok)
            IN IF Refused(t)
               THEN Becomes(t) /\ deletion' = "none" /\ UNCHANGED staged
               ELSE /\ Becomes(Cleared(t, scope, ok)) /\ staged' = 0
                    /\ deletion' = IF scope = "cache" THEN "none" ELSE "cleared"
    /\ UNCHANGED <<task, check, base, reservation, backend, current, world, starts>>

DeletionEnds ==
    /\ Loop /\ deletion = "cleared"
    /\ deletion' = "none"
    /\ UNCHANGED <<files, memory, task, check, base, reservation, backend, current, world, counts>>

-----------------------------------------------------------------------------
\* What goes with a backend: all that only it knows.
Lost == /\ held' = Nothing /\ op' = None /\ attempt' = 0 /\ handle' = 0
        /\ observed' = [a \in Attempts |-> "unseen"]
        /\ task' = "none" /\ check' = "idle" /\ base' = None
        /\ reservation' = 0 /\ deletion' = "none" /\ backend' = "down"

\* Decky installs a version: it stops the backend, and replaces the tree it ran from.
Replaces(version) == installed' = version /\ Lost

(* The detached installer, update_runner.run.                               *)

Step(a, phase) == runner' = [runner EXCEPT ![a].phase = phase]
RunnerFrame == UNCHANGED <<memory, task, check, base, reservation, deletion, backend, current,
                           published, starts>>

\* The staged archive is still what it was verified as; without it nothing is asked of Decky.
RunnerVerifies(a) ==
    /\ runner[a].phase = "verifying"
    /\ IF staged = runner[a].version
       THEN \E phase \in {"asking", "preserving"} :  \* a path or a token that cannot be used
              runner' = [runner EXCEPT ![a].phase = phase, ![a].verified = TRUE]
       ELSE Step(a, "preserving")
    /\ UNCHANGED <<files, installed, faults>> /\ RunnerFrame

\* install_and_confirm: Decky installs it, refuses it, or closes the socket on the way.
RunnerAsks(a) ==
    /\ runner[a].phase = "asking"
    /\ Step(a, "asked")
    /\ \/ Replaces(runner[a].version) /\ UNCHANGED <<current, published, starts>>
       \/ UNCHANGED installed /\ RunnerFrame
    /\ UNCHANGED <<files, faults>>

\* The loader's inventory says whether it happened, also after a failure.
RunnerReadsBack(a) ==
    /\ runner[a].phase = "asked"
    /\ \E read \in BOOLEAN :
         IF read /\ installed = runner[a].version
         THEN /\ runner' = [runner EXCEPT ![a].phase = "reporting", ![a].ok = TRUE]
              /\ staged' = IF staged = runner[a].version THEN 0 ELSE staged
         ELSE Step(a, "preserving") /\ UNCHANGED staged
    /\ UNCHANGED <<rec, result, kept, installed, faults>> /\ RunnerFrame

\* _preserve_for_manual_install: verified bytes are kept, any others are deleted; a move that fails
\* leaves them where they are.
RunnerPreserves(a) ==
    /\ runner[a].phase = "preserving" /\ Step(a, "reporting")
    /\ \/ /\ kept' = IF runner[a].verified /\ staged = runner[a].version THEN staged ELSE kept
          /\ staged' = IF staged = runner[a].version THEN 0 ELSE staged
       \/ runner[a].verified /\ UNCHANGED <<kept, staged>>
    /\ UNCHANGED <<rec, result, installed, faults>> /\ RunnerFrame

\* _write_result, and the exit after it.
RunnerReports(a) ==
    /\ runner[a].phase = "reporting"
    /\ \E ok \in Written :
         /\ Writes(ok)
         /\ result' = IF ok THEN [attempt |-> a, version |-> runner[a].version, ok |-> runner[a].ok] ELSE result
    /\ Step(a, "ended")
    /\ UNCHANGED <<rec, kept, staged, installed>> /\ RunnerFrame

RunnerDies(a) ==
    /\ runner[a].phase \in LivePhases /\ faults < MaxFaults
    /\ Step(a, "ended") /\ faults' = faults + 1
    /\ UNCHANGED <<files, memory, task, check, base, reservation, deletion, backend, current,
                   installed, published, starts>>

Runner(a) ==
    \/ RunnerVerifies(a) \/ RunnerAsks(a) \/ RunnerReadsBack(a)
    \/ RunnerPreserves(a) \/ RunnerReports(a)

-----------------------------------------------------------------------------
(* The backend's lives, and what else happens to the device.                 *)

\* begin_close: nothing new starts.
Close ==
    /\ Loop
    /\ backend' = "closing"
    /\ UNCHANGED <<files, memory, task, check, base, reservation, deletion, current, world, counts>>

\* close: the run is cancelled, and a cancelled run takes its archive with it.
CloseEnds ==
    /\ backend = "closing"
    /\ staged' = IF task \in {"fetching", "waiting"} THEN 0 ELSE staged
    /\ Lost
    /\ UNCHANGED <<rec, result, kept, current, world, starts, faults>>

BackendDies ==
    /\ backend # "down" /\ faults < MaxFaults
    /\ faults' = faults + 1 /\ Lost
    /\ UNCHANGED <<files, current, world, starts>>

\* The device restarts, and its clock may be behind what is written on it.
Reboots ==
    /\ faults < MaxFaults
    /\ faults' = faults + 1 /\ Lost
    /\ runner' = [a \in Attempts |-> IF runner[a].phase \in LivePhases
                                     THEN [runner[a] EXCEPT !.phase = "ended"] ELSE runner[a]]
    /\ \E behind \in BOOLEAN :
         rec' = IF behind /\ rec.install # None
                THEN [rec EXCEPT !.install.start = "future"] ELSE rec
    /\ UNCHANGED <<result, kept, staged, current, installed, published, starts>>

\* The backend Decky has on disk is loaded, and maintains before it answers anything.
Load ==
    /\ backend = "down"
    /\ backend' = "up" /\ current' = installed
    /\ \E ok \in Written :
         /\ Writes(ok)
         /\ Becomes(Maintain([Manager EXCEPT !.current = installed], ok))
    /\ UNCHANGED <<staged, task, check, base, reservation, deletion, world, starts>>

Publish ==
    /\ published < MaxVersion
    /\ published' = published + 1
    /\ UNCHANGED <<files, memory, task, check, base, reservation, deletion, backend, current,
                   installed, runner, counts>>

\* The user installs the archive that was kept for that, by hand in Decky.
InstallByHand ==
    /\ kept > installed /\ \A a \in Attempts : runner[a].phase \notin LivePhases
    /\ Replaces(kept)
    /\ UNCHANGED <<files, current, published, runner, counts>>

\* Fifteen minutes pass: no installer lives that long.
Older(p) == IF p = None \/ p = Absent THEN p ELSE IF p.start = "recent" THEN [p EXCEPT !.start = "old"] ELSE p
Age ==
    /\ \A a \in Attempts : runner[a].phase \notin LivePhases
    /\ rec' = [rec EXCEPT !.install = Older(@)]
    /\ base' = IF base = None THEN None ELSE [base EXCEPT !.install = Older(@)]
    /\ held' = [held EXCEPT !.install = Older(@)]
    /\ observed' = [a \in Attempts |-> IF observed[a] = "recent" THEN "old" ELSE observed[a]]
    /\ <<rec, held, observed>>' # <<rec, held, observed>>
    /\ UNCHANGED <<result, kept, staged, op, attempt, handle, task, check, reservation, deletion,
                   backend, current, world, counts>>

Next ==
    \/ CheckBegins \/ CheckFails \/ CheckReads \/ CheckAnswers
    \/ StartUpdate \/ RunFails \/ RunReads \/ RunFetches \/ RunCommits \/ RunSpawns \/ SpawnFails
    \/ CancelUpdate \/ Poll \/ StatusRead \/ Tick
    \/ DeletionBegins \/ DeletionClears \/ DeletionEnds
    \/ \E a \in Attempts : Runner(a) \/ RunnerDies(a)
    \/ Close \/ CloseEnds \/ BackendDies \/ Reboots \/ Load
    \/ Publish \/ InstallByHand \/ Age

Spec == Init /\ [][Next]_vars

\* The scheduler ticks as long as the backend lives and asyncio runs its ready
\* callbacks in turn, so maintenance with something to do is not put off for
\* ever by other work of the loop.  Strong fairness of Tick, its ENABLED spelled out.
TickIsDue == Loop /\ \E ok \in Written : Maintain(Manager, ok) # Manager
TicksComeBack == []<>TickIsDue => []<><<Tick>>_vars

FairSpec ==
    /\ Spec /\ TicksComeBack
    /\ WF_vars(RunSpawns) /\ WF_vars(CheckAnswers) /\ WF_vars(DeletionEnds) /\ WF_vars(CloseEnds)
    /\ \A a \in Attempts : WF_vars(Runner(a))
    /\ WF_vars(Age)

-----------------------------------------------------------------------------
Live(a) == runner[a].phase \in LivePhases
Verifying(a) == runner[a].phase \in {"verifying", "asking"}

\* One privileged installer at a time, whatever is reloaded, killed, deleted or
\* asked for again: `_adopt_pending_install` and `has_active_operation`.
OneInstaller ==
    Cardinality({a \in Attempts : Verifying(a)}) <= 1

\* An update that says it is over has no installer of its own still going:
\* `_settle_installing` settles by facts, and a retry starts beside nothing.
OverMeansOver ==
    op # None /\ op.state \in Settled => ~Live(op.id)

\* What an installer wrote about its own attempt is not thrown away while the
\* record still waits for that attempt: "the runner's file is left where it is
\* when the write failed, because the backend that loads next has nothing else
\* to read it from" (update_manager.py:407).
ResultIsKept ==
    [][ (/\ result # None /\ rec.install # None /\ result.attempt = rec.install.attempt
         /\ result' = None /\ deletion' # "cleared")
        => rec'.install # rec.install ]_vars

\* A deletion's cleared state is not written back by what was under way before it, a check that is
\* out no longer than it is waited for among it (suspend, drain_check, _delete_managed_data_locked).
NothingComesBack ==
    deletion = "cleared" => rec.install = None /\ rec.last = None /\ rec.latest = 0

\* An installer that died, or failed, does not leave a backend that stays
\* "installing" for ever: a retry comes back, whatever was lost, and however far
\* back the clock went.  After a success Decky replaces the backend.
InstallEnds ==
    (op # None /\ op.state = "installing") ~> (op = None \/ op.state # "installing")
=============================================================================
