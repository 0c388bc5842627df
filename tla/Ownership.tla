------------------------------ MODULE Ownership ------------------------------
(***************************************************************************)
(* Who owns a running Cheat Engine: `ce_launch.py`, `CELaunchSupervisor`, from *)
(* the admission of a start to the proof that its processes are gone.       *)
(*                                                                         *)
(* A start forks a process group, and Wine clients may leave that group.    *)
(* The supervisor's memory, lost with the backend, and one durable record   *)
(* per game are all that says a Cheat Engine is its own; a self-test has no *)
(* record.  Every game and the self-test share one private runtime tree.    *)
(***************************************************************************)
EXTENDS Naturals, FiniteSets

CONSTANTS Apps,       \* the games
          Test,       \* what a self-test is for
          Starts,     \* launches: an operation and its session each
          Nobody,
          Invalid,    \* a record that does not parse
          Corrupts    \* BOOLEAN: a record may turn invalid

ASSUME OwnershipAssumption ==
    /\ Test \notin Apps /\ Nobody \notin Apps \cup Starts \cup {Test}
    /\ Invalid \notin Starts \cup {Nobody}
    /\ Corrupts \in BOOLEAN

VARIABLES
    procs,      \* the processes of each launch: its leader, its group, escaped ones
    game,       \* what each launch is for
    state,      \* operation["state"]; "none" for an operation not in memory
    task,       \* where its _run is
    asked,      \* operation["stop_requested"]
    stopping,   \* where a stop() of it is
    processes,  \* _processes
    exits,      \* _exits
    closing,    \* _closing
    record,     \* the durable launch records
    retiring,   \* the record whose process _terminate_recovered is ending
    rebuilding, \* the private runtime tree is being replaced
    lost        \* launches that were cut off before anything named them

memory == <<state, task, asked, stopping, processes, exits>>
vars == <<procs, game, memory, closing, record, retiring, rebuilding, lost>>

Parts == {"leader", "group", "escaped"}
LiveStates == {"starting", "running", "connected"}

TypeOK ==
    /\ procs \in [Starts -> SUBSET Parts]
    /\ game \in [Starts -> Apps \cup {Test, Nobody}]
    /\ state \in [Starts -> {"none", "stopped", "failed"} \cup LiveStates]
    /\ task \in [Starts -> {"none", "starting", "forked", "up", "ending", "failing", "cancelled"}]
    /\ asked \subseteq Starts
    /\ stopping \in [Starts -> {"no", "settling", "waiting"}]
    /\ processes \subseteq Starts
    /\ exits \subseteq Starts
    /\ closing \in BOOLEAN
    /\ record \in [Apps -> Starts \cup {Nobody, Invalid}]
    /\ retiring \in [Apps -> Starts \cup {Nobody}]
    /\ rebuilding \in BOOLEAN
    /\ lost \subseteq Starts

Init ==
    /\ procs = [s \in Starts |-> {}]
    /\ game = [s \in Starts |-> Nobody]
    /\ state = [s \in Starts |-> "none"]
    /\ task = [s \in Starts |-> "none"]
    /\ asked = {}
    /\ stopping = [s \in Starts |-> "no"]
    /\ processes = {} /\ exits = {}
    /\ closing = FALSE
    /\ record = [a \in Apps |-> Nobody]
    /\ retiring = [a \in Apps |-> Nobody]
    /\ rebuilding = FALSE
    /\ lost = {}

-----------------------------------------------------------------------------
(* What the backend can tell.                                              *)

Running == {s \in Starts : procs[s] # {}}
Live == {s \in Starts : state[s] \in LiveStates}

\* A record whose processes a complete scan does not find.
GoneRecord(a) == record[a] \in Starts /\ procs[record[a]] = {}

\* The records after recover_owned_launch has dropped those that are gone.
Recovered(gone) == [a \in Apps |-> IF a \in gone THEN Nobody ELSE record[a]]

\* Mutant of HasLive: the recorded process group is the last word.
HasLiveByGroup ==
    \/ Live # {}
    \/ \E s \in processes : "leader" \in procs[s]
    \/ \E a \in Apps : \/ record[a] = Invalid
                      \/ /\ record[a] \in Starts
                         /\ procs[record[a]] \cap {"leader", "group"} # {}

\* has_live_owned_launch: an operation, a leader, an entry whose leader has exited
\* while something anywhere carries a descriptor, or a record not proven gone.
HasLive ==
    \/ Live # {}
    \/ \E s \in processes : "leader" \in procs[s]
    \/ processes # {} /\ Running # {}
    \/ \E a \in Apps : record[a] # Nobody /\ ~GoneRecord(a)

Recorded(s) == game[s] \in Apps /\ record[game[s]] \in {s, Invalid}

-----------------------------------------------------------------------------
(* The processes.                                                          *)

\* Proton starts Wine and Cheat Engine, in its group and out of it.
Spreads(s) ==
    /\ procs[s] # {}
    /\ \E p \in {"group", "escaped"} : procs' = [procs EXCEPT ![s] = @ \cup {p}]
    /\ UNCHANGED <<game, memory, closing, record, retiring, rebuilding, lost>>

Exits(s) ==
    /\ \E p \in procs[s] : procs' = [procs EXCEPT ![s] = @ \ {p}]
    /\ UNCHANGED <<game, memory, closing, record, retiring, rebuilding, lost>>

\* A stop of its processes: the group, then whatever carries its descriptor (or
\* its prefix, of a self-test).  Either a complete scan finds nothing of it, or
\* some of it may be left and the entry stays.
Proven(s) ==
    /\ procs' = [procs EXCEPT ![s] = {}]
    /\ processes' = processes \ {s}
    /\ exits' = exits \cup {s}
Unproven(s) ==
    /\ \E rest \in SUBSET (procs[s] \ {"leader"}) : procs' = [procs EXCEPT ![s] = rest]
    /\ UNCHANGED <<processes, exits>>
NothingToStop(s) ==
    /\ s \notin processes
    /\ UNCHANGED <<procs, processes, exits>>

\* Mutant of StopProcess: an empty process group is proof.
StopProcessByGroup(s) ==
    \/ /\ s \in processes
       /\ procs' = [procs EXCEPT ![s] = @ \cap {"escaped"}]
       /\ processes' = processes \ {s}
       /\ exits' = exits \cup {s}
    \/ NothingToStop(s)

StopProcess(s) ==
    \/ s \in processes /\ (Proven(s) \/ Unproven(s))
    \/ NothingToStop(s)

\* _clear_record drops the record of this session only.
Cleared(s) == [a \in Apps |-> IF record[a] = s THEN Nobody ELSE record[a]]

-----------------------------------------------------------------------------
(* A start.                                                                *)

\* The admission, under _launch_exclusion and with no await before the operation
\* is listed: no Cheat Engine that can be known of.
Begin(s, g) ==
    /\ game[s] = Nobody /\ ~closing
    /\ ~HasLive
    /\ processes' = {}
    /\ LET gone == {a \in Apps : a = g /\ GoneRecord(a)} IN
         /\ record' = Recovered(gone)
         /\ exits' = exits \cup {record[a] : a \in gone}
    /\ game' = [game EXCEPT ![s] = g]
    /\ state' = [state EXCEPT ![s] = "starting"]
    /\ task' = [task EXCEPT ![s] = "starting"]
    /\ UNCHANGED <<procs, asked, stopping, closing, retiring, rebuilding, lost>>

\* Mutant of Fork: the gate is not asked again.
ForkUngated(s) ==
    /\ task[s] = "starting"
    /\ procs' = [procs EXCEPT ![s] = {"leader"}]
    /\ task' = [task EXCEPT ![s] = "forked"]
    /\ UNCHANGED <<game, state, asked, stopping, processes, exits, closing, record, retiring, rebuilding, lost>>

\* The fork, under the gate's lock where it has one: a rebuild of the runtime
\* holds the same lock, and a self-test has no gate.
Fork(s) ==
    /\ task[s] = "starting"
    /\ game[s] \in Apps => s \notin asked /\ ~rebuilding
    /\ procs' = [procs EXCEPT ![s] = {"leader"}]
    /\ task' = [task EXCEPT ![s] = "forked"]
    /\ UNCHANGED <<game, state, asked, stopping, processes, exits, closing, record, retiring, rebuilding, lost>>

\* The gate, the Proton tool or the log refuses it.
Refused(s) ==
    /\ task[s] = "starting"
    /\ task' = [task EXCEPT ![s] = "failing"]
    /\ UNCHANGED <<procs, game, state, asked, stopping, processes, exits, closing, record, retiring, rebuilding, lost>>

\* Mutant of Register: the operation runs before its record is written.
RegisterUnrecorded(s) ==
    /\ task[s] = "forked"
    /\ processes' = processes \cup {s}
    /\ state' = [state EXCEPT ![s] = "running"]
    /\ task' = [task EXCEPT ![s] = "up"]
    /\ UNCHANGED <<procs, game, asked, stopping, exits, closing, record, retiring, rebuilding, lost>>

\* create_subprocess_exec has returned: the process is the supervisor's, and a
\* game's is recorded, or its record cannot be written.
Register(s) ==
    /\ task[s] = "forked"
    /\ processes' = processes \cup {s}
    /\ \/ /\ record' = IF game[s] = Test THEN record ELSE [record EXCEPT ![game[s]] = s]
          /\ state' = [state EXCEPT ![s] = "running"]
          /\ task' = [task EXCEPT ![s] = "up"]
       \/ /\ game[s] # Test
          /\ task' = [task EXCEPT ![s] = "failing"]
          /\ UNCHANGED <<record, state>>
    /\ UNCHANGED <<procs, game, asked, stopping, exits, closing, retiring, rebuilding, lost>>

\* Its bridge is ready; a self-test ends there.
Connects(s) ==
    /\ task[s] = "up" /\ state[s] = "running"
    /\ state' = [state EXCEPT ![s] = "connected"]
    /\ task' = [task EXCEPT ![s] = IF game[s] = Test THEN "ending" ELSE "up"]
    /\ UNCHANGED <<procs, game, asked, stopping, processes, exits, closing, record, retiring, rebuilding, lost>>

\* Its bridge never is, or the loop that watches the game is over.
Gives(s) ==
    /\ task[s] = "up"
    /\ task' = [task EXCEPT ![s] = IF state[s] = "running" THEN "failing" ELSE "ending"]
    /\ UNCHANGED <<procs, game, state, asked, stopping, processes, exits, closing, record, retiring, rebuilding, lost>>

\* The end of an ordinary run: stopped and proven gone, or it fails.
Ends(s) ==
    /\ task[s] = "ending"
    /\ StopProcess(s)
    /\ IF s \in processes'
         THEN task' = [task EXCEPT ![s] = "failing"] /\ UNCHANGED <<state, record>>
         ELSE /\ task' = [task EXCEPT ![s] = "none"]
              /\ state' = [state EXCEPT ![s] = "stopped"]
              /\ record' = Cleared(s)
    /\ UNCHANGED <<game, asked, stopping, closing, retiring, rebuilding, lost>>

\* The end of a run that failed: its record goes with its process.
Fails(s) ==
    /\ task[s] = "failing"
    /\ StopProcess(s)
    /\ record' = IF s \in processes' THEN record ELSE Cleared(s)
    /\ state' = [state EXCEPT ![s] = IF s \in asked /\ s \notin processes' THEN "stopped" ELSE "failed"]
    /\ task' = [task EXCEPT ![s] = "none"]
    /\ UNCHANGED <<game, asked, stopping, closing, retiring, rebuilding, lost>>

-----------------------------------------------------------------------------
(* stop() and stop_for_app.                                                *)

\* One that has not forked is asked not to; the bridge of one that has is asked
\* to put its records down, for as long as that takes.
StopBegins(s) ==
    /\ state[s] # "none" /\ stopping[s] = "no" /\ ~closing
    /\ asked' = IF s \in processes THEN asked ELSE asked \cup {s}
    /\ stopping' = [stopping EXCEPT ![s] = "settling"]
    /\ UNCHANGED <<procs, game, state, task, processes, exits, closing, record, retiring, rebuilding, lost>>

\* The cancellation of a run whose child asyncio knows of and the supervisor does
\* not yet: asyncio kills that child, and what the child has started is lost.
Orphans(s) ==
    /\ procs' = IF task[s] = "forked" THEN [procs EXCEPT ![s] = @ \ {"leader"}] ELSE procs
    /\ lost' = IF task[s] = "forked" THEN lost \cup {s} ELSE lost

\* It has settled, or SPAWN_SETTLE_SECONDS are over, and its task is cancelled.
StopCancels(s) ==
    /\ stopping[s] = "settling"
    /\ stopping' = [stopping EXCEPT ![s] = "waiting"]
    /\ asked' = IF task[s] = "none" THEN asked ELSE asked \cup {s}
    /\ task' = [task EXCEPT ![s] = IF @ \in {"up", "ending"} THEN "cancelled" ELSE "none"]
    /\ Orphans(s)
    /\ UNCHANGED <<game, state, processes, exits, closing, record, retiring, rebuilding>>

\* What a cancelled run does.  While the plugin unloads a game's is let go of.
Cancelled(s) ==
    /\ task[s] = "cancelled"
    /\ \/ /\ closing /\ game[s] \in Apps
          /\ processes' = processes \ {s}
          /\ UNCHANGED <<procs, state, exits>>
       \/ /\ ~(closing /\ game[s] \in Apps)
          /\ StopProcess(s)
          /\ state' = [state EXCEPT ![s] = IF s \in processes' THEN "failed"
                                           ELSE IF s \in asked THEN @ ELSE "stopped"]
    /\ task' = [task EXCEPT ![s] = "none"]
    /\ UNCHANGED <<game, asked, stopping, closing, record, retiring, rebuilding, lost>>

\* stop() then ends what is left, clears the record and says so; or it raises.
StopEnds(s) ==
    /\ stopping[s] = "waiting" /\ task[s] = "none"
    /\ StopProcess(s)
    /\ stopping' = [stopping EXCEPT ![s] = "no"]
    /\ IF s \in processes'
         THEN UNCHANGED <<state, record>>
         ELSE /\ record' = Cleared(s)
              /\ state' = [state EXCEPT ![s] = IF @ \in LiveStates THEN "stopped" ELSE @]
    /\ UNCHANGED <<game, task, asked, closing, retiring, rebuilding, lost>>

-----------------------------------------------------------------------------
(* A Cheat Engine known by its record alone.                               *)

\* Any reading of a game's ownership drops a record whose processes are gone.
Recover(a) ==
    /\ GoneRecord(a)
    /\ exits' = exits \cup {record[a]}
    /\ record' = Recovered({a})
    /\ UNCHANGED <<procs, game, state, task, asked, stopping, processes, closing, retiring, rebuilding, lost>>

\* Any has_live_owned_launch drops the entries of leaders that have exited, once
\* no process anywhere carries a descriptor.
Released ==
    /\ Live = {} /\ processes # {} /\ Running = {}
    /\ processes' = {}
    /\ UNCHANGED <<procs, game, state, task, asked, stopping, exits, closing, record, retiring, rebuilding, lost>>

\* The stop of a recovered launch, or its supervisor, ends it by its record.
RetireBegins(a) ==
    /\ record[a] \in Running /\ retiring[a] = Nobody
    /\ \A s \in Live : game[s] # a
    /\ retiring' = [retiring EXCEPT ![a] = record[a]]
    /\ UNCHANGED <<procs, game, memory, closing, record, rebuilding, lost>>

RetireEnds(a) ==
    LET s == retiring[a] IN
    /\ s # Nobody
    /\ retiring' = [retiring EXCEPT ![a] = Nobody]
    /\ \/ /\ procs' = [procs EXCEPT ![s] = {}]
          /\ exits' = exits \cup {s}
          /\ record' = IF record[a] = s THEN [record EXCEPT ![a] = Nobody] ELSE record
       \/ /\ \E rest \in SUBSET procs[s] : procs' = [procs EXCEPT ![s] = rest]
          /\ UNCHANGED <<exits, record>>
    /\ UNCHANGED <<game, state, task, asked, stopping, processes, closing, rebuilding, lost>>

Corrupt(a) ==
    /\ Corrupts /\ record[a] # Invalid
    /\ record' = [record EXCEPT ![a] = Invalid]
    /\ UNCHANGED <<procs, game, memory, closing, retiring, rebuilding, lost>>

\* An invalid record is set aside once nothing anywhere carries a descriptor.
Repair(a) ==
    /\ record[a] = Invalid /\ Live = {}
    /\ \A s \in processes : "leader" \notin procs[s]
    /\ Running = {}
    /\ processes' = {}
    /\ record' = Recovered({a})
    /\ UNCHANGED <<procs, game, state, task, asked, stopping, exits, closing, retiring, rebuilding, lost>>

-----------------------------------------------------------------------------
(* The private runtime, which prepare_private_ce_runtime replaces in place. *)

RebuildBegins ==
    /\ ~rebuilding /\ ~HasLive
    /\ rebuilding' = TRUE
    /\ processes' = {}
    /\ UNCHANGED <<procs, game, state, task, asked, stopping, exits, closing, record, retiring, lost>>

RebuildEnds ==
    /\ rebuilding
    /\ rebuilding' = FALSE
    /\ UNCHANGED <<procs, game, memory, closing, record, retiring, lost>>

-----------------------------------------------------------------------------
(* The backend's own end.                                                  *)

\* Its record is not written yet, or could not be; a self-test never has one.
Unwritten(s) ==
    \/ game[s] = Test
    \/ state[s] \in {"starting", "failed"} /\ ~Recorded(s)

\* begin_close, before the unload suspends once: self-tests are stopped there and
\* then.  operations.close cancels every stop under way at the loop's next turn,
\* which is before anything one waits for can answer it.
BeginClose ==
    /\ ~closing
    /\ closing' = TRUE
    /\ stopping' = [s \in Starts |-> "no"]
    /\ \E rest \in [{s \in processes : game[s] = Test} -> SUBSET Parts] :
         /\ \A s \in DOMAIN rest : rest[s] \subseteq procs[s]
         /\ procs' = [s \in Starts |-> IF s \in DOMAIN rest THEN rest[s] ELSE procs[s]]
    /\ UNCHANGED <<game, state, task, asked, processes, exits, record, retiring, rebuilding, lost>>

\* close cancels a run: one that has forked and is not registered loses the child
\* asyncio knows of, and a game's Cheat Engine is let go of.
CloseCancels(s) ==
    /\ closing /\ task[s] # "none"
    /\ task' = [task EXCEPT ![s] = IF @ \in {"up", "ending"} THEN "cancelled" ELSE "none"]
    /\ Orphans(s)
    /\ UNCHANGED <<game, state, asked, stopping, processes, exits, closing, record, retiring, rebuilding>>

\* The next backend: it knows what the records say.
Forgets ==
    /\ state' = [s \in Starts |-> "none"]
    /\ task' = [s \in Starts |-> "none"]
    /\ asked' = {} /\ processes' = {} /\ exits' = {}
    /\ stopping' = [s \in Starts |-> "no"]
    /\ closing' = FALSE
    /\ retiring' = [a \in Apps |-> Nobody]
    /\ rebuilding' = FALSE

\* close ends by stopping the self-tests again; whatever it could not prove, and
\* whatever else is not recorded, the next backend does not know.
Reload ==
    /\ closing /\ \A s \in Starts : task[s] = "none"
    /\ \E rest \in [{s \in processes : game[s] = Test} -> SUBSET Parts] :
         /\ \A s \in DOMAIN rest : rest[s] \subseteq procs[s] \ {"leader"}
         /\ procs' = [s \in Starts |-> IF s \in DOMAIN rest THEN rest[s] ELSE procs[s]]
    /\ lost' = lost \cup {s \in Starts : procs'[s] # {} /\ Unwritten(s)}
    /\ Forgets
    /\ UNCHANGED <<game, record>>

\* It is killed, or crashes.
Dies ==
    /\ lost' = lost \cup {s \in Running : Unwritten(s)}
    /\ Forgets
    /\ UNCHANGED <<procs, game, record>>

-----------------------------------------------------------------------------
Launch(s) ==
    \/ \E g \in Apps \cup {Test} : Begin(s, g)
    \/ Fork(s) \/ Refused(s) \/ Register(s) \/ Connects(s) \/ Gives(s) \/ Ends(s) \/ Fails(s)
    \/ StopBegins(s) \/ StopCancels(s) \/ Cancelled(s) \/ StopEnds(s)
    \/ CloseCancels(s)

Records(a) == Recover(a) \/ RetireBegins(a) \/ RetireEnds(a) \/ Corrupt(a) \/ Repair(a)

Next ==
    \/ \E s \in Starts : Launch(s) \/ Spreads(s) \/ Exits(s)
    \/ \E a \in Apps : Records(a)
    \/ Released \/ RebuildBegins \/ RebuildEnds
    \/ BeginClose \/ Reload \/ Dies

Spec == Init /\ [][Next]_vars

-----------------------------------------------------------------------------
(* Properties.                                                             *)

\* What runs and has not been lost.
Kept == Running \ lost

\* One Cheat Engine at a time, across every game and the self-test, but for one that
\* was lost (_assert_launcher_is_free).
OneAtATime == \A s, t \in Kept : s = t

\* Ownership must never quietly disappear: every running Cheat Engine is in the
\* supervisor's hands or in a record.  A backend that is killed, and a run that is
\* cancelled, can lose a self-test and one whose record was never written, and no
\* other: not one that was reported up (_run, _write_record, close).
NoneUnowned ==
    \A s \in Kept : s \in processes \/ task[s] = "forked" \/ Recorded(s)

\* An exit that was published is an exit (confirmed_exit_epoch).
ExitsAreReal == \A s \in exits : procs[s] = {}

\* The runtime is not replaced under a Cheat Engine of a game that was not lost
\* (prepare_private_ce_runtime).
NoGameInRebuild == rebuilding => \A s \in Kept : game[s] = Test

\* Once nothing runs or is under way, and every record can be read, the next
\* start is admitted or a stop will see to it: no doubt latches the launcher
\* (has_live_owned_launch).
NeverLatched ==
    /\ ~closing /\ Running = {} /\ \A s \in Starts : task[s] = "none" /\ stopping[s] = "no"
    /\ \A a \in Apps : record[a] # Invalid
    => ~HasLive \/ \E s \in Live : s \in asked
=============================================================================
