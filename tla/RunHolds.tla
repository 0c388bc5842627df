------------------------------ MODULE RunHolds ------------------------------
(***************************************************************************)
(* Which starts of Cheat Engine the backend admits in a game, and what a    *)
(* Stop leaves behind: `service.py` (launch reservations, stop transitions, *)
(* run holds, the install of an update) over `game_run_holds.py`.  Cheat    *)
(* Engine is seen here as its owner sees it; its supervisor is Supervision.  *)
(*                                                                         *)
(* A game is a set of programs.  A session's cheats patch the program the   *)
(* bridge is attached to; a patch lives as long as that process does.  A    *)
(* Stop that cannot say the patches are out takes a "dirty" hold, which     *)
(* refuses every start until the run it was taken on is over; one a user    *)
(* pressed also takes a "stopped" hold, which refuses Auto-load.            *)
(***************************************************************************)
EXTENDS Naturals, FiniteSets

CONSTANTS Apps,       \* the games
          Programs,   \* the executables a game may run
          Main,       \* the one the game's profile names
          Starts,     \* calls of launch_ce_for_game; one session each
          Stops,      \* calls of stop_ce_for_game and of stop_ce_launch
          Nobody,
          MaxRuns,    \* bound: how often one program is started
          Unproven,   \* BOOLEAN: a stop may fail to prove Cheat Engine gone
          Retries,    \* BOOLEAN: the user may retry the attach to another program
          Transient,  \* BOOLEAN: the holds file may be deleted, or read well again after it did not
          Returns,    \* BOOLEAN: a game that a stop found gone may be back before Cheat Engine is ended
          Fails,      \* BOOLEAN: the supervisor may end a connected Cheat Engine over an error of its own
          Forgets     \* BOOLEAN: the backend may die with a verdict that is in memory only

ASSUME RunHoldsAssumption ==
    /\ Main \in Programs
    /\ Nobody \notin Starts \cup Stops
    /\ MaxRuns \in Nat
    /\ {Unproven, Retries, Transient, Returns, Fails, Forgets} \subseteq BOOLEAN

VARIABLES
    up,          \* the programs of a game that are running
    runs,        \* how often each was started: with its name, its identity
    patched,     \* running programs with a cheat of the game's last Cheat Engine in them
    left,        \* history: programs a stop left patched
    owned,       \* what the launcher holds for the game
    alive,       \* whether that Cheat Engine is running
    at,          \* the program its bridge is attached to
    quiet,       \* whether that bridge has answered a quiesce
    op,          \* the start whose operation is the last one still listed
    session,     \* the start that prepared the current session
    pointed,     \* the programs that session has been pointed at
    holds,       \* _run_holds
    file,        \* what its file says
    unreadable,  \* _run_holds_unreadable
    unsaved,     \* _run_holds_unsaved
    transition,  \* _run_transitions
    reservation, \* _launch_reservations
    committed,   \* plugin_updates.replacement_committed()
    profile,     \* the table's consent and its Auto-load
    start,       \* where each start is
    stop         \* where each stop is

game    == <<up, runs, patched>>
ghosts  == <<left>>
ce      == <<owned, alive, at, quiet, op>>
pointer == <<session, pointed>>
record  == <<holds, file, unsaved>>
locks   == <<transition, reservation>>
calls   == <<start, stop>>
vars == <<game, ghosts, ce, pointer, record, unreadable, locks, committed, profile, calls>>

Kinds == {"dirty", "stopped"}
Intents == {"press", "auto", "unstated"}

NoHold == [ids |-> {}, names |-> {}, since |-> Nobody]
Hold == [ids : SUBSET (Programs \X (0..MaxRuns)), names : SUBSET Programs, since : Stops \cup {Nobody}]
NoHolds == [k \in Kinds |-> NoHold]

StartCall ==
    [pc : {"idle", "asked", "admitted", "checked", "published", "done"}, app : Apps \cup {Nobody},
     intent : Intents, answered : Hold]
StopCall ==
    [pc : {"idle", "begun", "asked", "ended", "ending", "done"}, app : Apps \cup {Nobody},
     route : {"game", "operation"}, hold : BOOLEAN, names : SUBSET Programs, confirmed : BOOLEAN]

IdleStart == [pc |-> "idle", app |-> Nobody, intent |-> "press", answered |-> NoHold]
IdleStop == [pc |-> "idle", app |-> Nobody, route |-> "game", hold |-> FALSE, names |-> {}, confirmed |-> FALSE]
DoneStop(a) == [IdleStop EXCEPT !.pc = "done", !.app = a]

TypeOK ==
    /\ up \in [Apps -> SUBSET Programs]
    /\ runs \in [Apps -> [Programs -> 0..MaxRuns]]
    /\ patched \in [Apps -> SUBSET Programs]
    /\ left \in [Apps -> SUBSET Programs]
    /\ owned \in [Apps -> {"none", "published", "live", "connected", "recovered"}]
    /\ alive \in [Apps -> BOOLEAN]
    /\ at \in [Apps -> Programs]
    /\ quiet \in [Apps -> BOOLEAN]
    /\ op \in [Apps -> Starts \cup {Nobody}]
    /\ session \in [Apps -> Starts \cup {Nobody}]
    /\ pointed \in [Apps -> SUBSET Programs]
    /\ holds \in [Apps -> [Kinds -> Hold]]
    /\ file \in [Apps -> [Kinds -> Hold]]
    /\ unreadable \in BOOLEAN
    /\ unsaved \in BOOLEAN
    /\ transition \in [Apps -> Stops \cup {Nobody}]
    /\ reservation \in [Apps -> Starts \cup {Nobody}]
    /\ committed \in BOOLEAN
    /\ profile \in [Apps -> {"revoked", "consented", "autoload"}]
    /\ start \in [Starts -> StartCall]
    /\ stop \in [Stops -> StopCall]

Init ==
    /\ up \in [Apps -> SUBSET Programs]
    /\ runs = [a \in Apps |-> [p \in Programs |-> 0]]
    /\ patched = [a \in Apps |-> {}]
    /\ left = patched
    /\ owned = [a \in Apps |-> "none"]
    /\ alive = [a \in Apps |-> FALSE]
    /\ at = [a \in Apps |-> Main]
    /\ quiet = [a \in Apps |-> FALSE]
    /\ op = [a \in Apps |-> Nobody]
    /\ session = [a \in Apps |-> Nobody]
    /\ pointed = [a \in Apps |-> {}]
    /\ holds = [a \in Apps |-> NoHolds]
    /\ file = holds
    /\ unreadable \in BOOLEAN
    /\ unsaved = FALSE
    /\ transition = [a \in Apps |-> Nobody]
    /\ reservation = [a \in Apps |-> Nobody]
    /\ committed = FALSE
    /\ profile \in [Apps -> {"consented", "autoload"}]
    /\ start = [s \in Starts |-> IdleStart]
    /\ stop = [t \in Stops |-> IdleStop]

-----------------------------------------------------------------------------
(* The record of holds.                                                    *)

Identity(a, p) == <<p, runs[a][p]>>
Identities(a, names) == {Identity(a, p) : p \in names \cap up[a]}

\* Whether the run a hold was taken on is proven over: every process it lists
\* gone, or where it lists none, every program it names absent.
IsOver(a, h) ==
    /\ h # NoHold
    /\ IF h.ids # {} THEN h.ids \cap Identities(a, Programs) = {}
                     ELSE h.names # {} /\ h.names \cap up[a] = {}

\* Mutant: a save that fails leaves the new hold out of force.
WriteOrForget(new, bad) ==
    \/ bad /\ holds' = new /\ UNCHANGED <<file, unsaved>>
    \/ ~bad /\ holds' = new /\ file' = new /\ unsaved' = FALSE
    \/ ~bad /\ UNCHANGED <<holds, file>> /\ unsaved' = TRUE

\* In force first, and on disk where that can be done: a save that fails may
\* still have replaced the file, and nothing is written over an unreadable one.
Write(new, bad) ==
    /\ holds' = new
    /\ \/ bad /\ UNCHANGED <<file, unsaved>>
       \/ ~bad /\ file' = new /\ unsaved' = FALSE
       \/ ~bad /\ file' \in {file, new} /\ unsaved' = TRUE

Without(a, kinds) ==
    [holds EXCEPT ![a] = [k \in Kinds |-> IF k \in kinds THEN NoHold ELSE holds[a][k]]]

\* Reading a game's holds retires those whose run a complete scan proves over.
Retires(a, over) ==
    /\ over \subseteq {k \in Kinds : IsOver(a, holds[a][k])}
    /\ IF over = {} THEN UNCHANGED record ELSE Write(Without(a, over), unreadable)

\* Any poll that shows a game's holds.
Retire(a) ==
    /\ \E over \in SUBSET Kinds \ {{}} : Retires(a, over)
    /\ UNCHANGED <<game, ghosts, ce, pointer, unreadable, locks, committed, profile, calls>>

\* The user clears a game's holds, and the unreadable record with them.
Clear(a) ==
    /\ unreadable \/ holds[a] # NoHolds
    /\ unreadable' = FALSE
    /\ Write(Without(a, Kinds), FALSE)
    /\ left' = [b \in Apps |-> IF unreadable \/ b = a THEN {} ELSE left[b]]
    /\ UNCHANGED <<game, ce, pointer, locks, committed, profile, calls>>

-----------------------------------------------------------------------------
(* The game and its Cheat Engine.                                          *)

\* A stop has found the game gone, asked nothing of the bridge, and is about to
\* end Cheat Engine.
FoundGone(a) ==
    \E t \in Stops : stop[t].app = a /\ stop[t].pc = "asked" /\ stop[t].confirmed /\ ~quiet[a]

ProgramStarts(a, p) ==
    /\ p \notin up[a] /\ runs[a][p] < MaxRuns
    /\ Returns \/ ~FoundGone(a)
    /\ up' = [up EXCEPT ![a] = @ \cup {p}]
    /\ runs' = [runs EXCEPT ![a][p] = @ + 1]
    /\ UNCHANGED <<patched, ghosts, ce, pointer, record, unreadable, locks, committed, profile, calls>>

\* A process takes every patch in it along.
ProgramEnds(a, p) ==
    /\ p \in up[a]
    /\ up' = [up EXCEPT ![a] = @ \ {p}]
    /\ patched' = [patched EXCEPT ![a] = @ \ {p}]
    /\ left' = [left EXCEPT ![a] = @ \ {p}]
    /\ UNCHANGED <<runs, ce, pointer, record, unreadable, locks, committed, profile, calls>>

Running(a) == owned[a] \in {"live", "connected", "recovered"} /\ alive[a]

\* A cheat is switched on by a bridge that has booted and found its program: at
\* any point of a stop too, but for a bridge that has answered a quiesce.
Patch(a) ==
    /\ Running(a) /\ owned[a] # "live" /\ ~quiet[a]
    /\ at[a] \in up[a] \ patched[a]
    /\ patched' = [patched EXCEPT ![a] = @ \cup {at[a]}]
    /\ UNCHANGED <<up, runs, ghosts, ce, pointer, record, unreadable, locks, committed, profile, calls>>

\* write_runtime_commands takes no command but a read while a stop runs; what it
\* takes counts as a target, whether or not the bridge still moves.
RetryAttach(a, p) ==
    /\ Retries
    /\ Running(a) /\ session[a] # Nobody /\ p # at[a]
    /\ transition[a] = Nobody
    /\ at' = [at EXCEPT ![a] = IF quiet[a] THEN @ ELSE p]
    /\ pointed' = [pointed EXCEPT ![a] = @ \cup {p}]
    /\ UNCHANGED <<game, ghosts, owned, alive, quiet, op, session, record, unreadable, locks, committed, profile, calls>>

\* The bridge has booted, and the supervisor sees that it has.
Connect(a) ==
    /\ owned[a] = "live" /\ alive[a]
    /\ owned' = [owned EXCEPT ![a] = "connected"]
    /\ UNCHANGED <<game, ghosts, alive, at, quiet, op, pointer, record, unreadable, locks, committed, profile, calls>>

\* Cheat Engine ends on its own: the user closes it, or it crashes.
CheatEngineExits(a) ==
    /\ Running(a)
    /\ alive' = [alive EXCEPT ![a] = FALSE]
    /\ UNCHANGED <<game, ghosts, owned, at, quiet, op, pointer, record, unreadable, locks, committed, profile, calls>>

\* The supervisor sees it gone, or ends it: a bridge that never became ready, or
\* any error of its own loop.  What it ends leaves what it had switched on.
SupervisorDrops(a) ==
    /\ \/ owned[a] \in {"live", "connected", "recovered"} /\ ~alive[a]
       \/ owned[a] = "live"
       \/ Fails /\ owned[a] = "connected"
    /\ owned' = [owned EXCEPT ![a] = "none"]
    /\ alive' = [alive EXCEPT ![a] = FALSE]
    /\ left' = [left EXCEPT ![a] = IF alive[a] THEN @ \cup patched[a] ELSE @]
    /\ UNCHANGED <<game, at, quiet, op, pointer, record, unreadable, locks, committed, profile, calls>>

\* The supervisor ends a Cheat Engine whose watched program has exited: nothing
\* is asked of the bridge, and no hold is taken.
SupervisorStops(a) ==
    /\ owned[a] \in {"connected", "recovered"} /\ alive[a] /\ at[a] \notin up[a]
    /\ owned' = [owned EXCEPT ![a] = "none"]
    /\ alive' = [alive EXCEPT ![a] = FALSE]
    /\ left' = [left EXCEPT ![a] = @ \cup patched[a]]
    /\ UNCHANGED <<game, at, quiet, op, pointer, record, unreadable, locks, committed, profile, calls>>

-----------------------------------------------------------------------------
(* A start.                                                                *)

\* No operation is listed as live and no record names a running Cheat Engine.
Free(a) == owned[a] = "none" \/ (owned[a] = "recovered" /\ ~alive[a])

\* Mutants of Admissible: what is left in the game, an install under way.
AdmissibleOverDirty(a, intent, over) ==
    /\ transition[a] = Nobody /\ ~committed /\ ~unreadable
    /\ intent = "press" \/ (profile[a] = "autoload" /\ ("stopped" \in over \/ holds[a]["stopped"] = NoHold))

AdmissibleInInstall(a, intent, over) ==
    /\ transition[a] = Nobody /\ ~unreadable
    /\ intent = "press" \/ (profile[a] = "autoload" /\ ("stopped" \in over \/ holds[a]["stopped"] = NoHold))
    /\ "dirty" \in over \/ holds[a]["dirty"] = NoHold

\* _admit_launch, over the holds as the same read leaves them.
Admissible(a, intent, over) ==
    /\ transition[a] = Nobody
    /\ ~committed
    /\ ~unreadable
    /\ intent = "press" \/ profile[a] = "autoload"
    /\ "dirty" \in over \/ holds[a]["dirty"] = NoHold
    /\ intent = "press" \/ "stopped" \in over \/ holds[a]["stopped"] = NoHold

\* A press answers the stopped hold that is there as it is made.
StartAsks(s, a, intent) ==
    /\ start[s].pc = "idle"
    /\ \E over \in SUBSET Kinds :
        /\ intent # "press" => over = {}
        /\ Retires(a, over)
        /\ start' = [start EXCEPT ![s] =
             [pc |-> "asked", app |-> a, intent |-> intent,
              answered |-> IF intent = "press" /\ "stopped" \notin over THEN holds[a]["stopped"] ELSE NoHold]]
    /\ UNCHANGED <<game, ghosts, ce, pointer, unreadable, locks, committed, profile, stop>>

\* _attached_launch_inputs: admission, a fresh session, and the reservation.
Admit(s) ==
    LET a == start[s].app IN
    /\ start[s].pc = "asked"
    /\ reservation[a] = Nobody /\ transition[a] = Nobody /\ Free(a)
    /\ profile[a] # "revoked"
    /\ \E over \in SUBSET Kinds : Retires(a, over) /\ Admissible(a, start[s].intent, over)
    /\ owned' = [owned EXCEPT ![a] = "none"]
    /\ session' = [session EXCEPT ![a] = s]
    /\ pointed' = [pointed EXCEPT ![a] = {Main}]
    /\ reservation' = [reservation EXCEPT ![a] = s]
    /\ start' = [start EXCEPT ![s].pc = "admitted"]
    /\ UNCHANGED <<game, ghosts, alive, at, quiet, op, unreadable, transition, committed, profile, stop>>

\* _revalidate_launch_reservation
Revalidate(s) ==
    LET a == start[s].app IN
    /\ start[s].pc = "admitted"
    /\ reservation[a] = s /\ session[a] = s /\ profile[a] # "revoked"
    /\ transition[a] = Nobody /\ Free(a)
    /\ owned' = [owned EXCEPT ![a] = "none"]
    /\ start' = [start EXCEPT ![s].pc = "checked"]
    /\ UNCHANGED <<game, ghosts, alive, at, quiet, op, pointer, record, unreadable, locks, committed, profile, stop>>

\* start_attached: one Cheat Engine at a time, in a game that is running.
Publish(s) ==
    LET a == start[s].app IN
    /\ start[s].pc = "checked"
    /\ \A b \in Apps : Free(b)
    /\ up[a] # {}
    /\ owned' = [owned EXCEPT ![a] = "published"]
    /\ op' = [op EXCEPT ![a] = s]
    /\ start' = [start EXCEPT ![s].pc = "published"]
    /\ UNCHANGED <<game, ghosts, alive, at, quiet, pointer, record, unreadable, locks, committed, profile, stop>>

\* Any refusal or failure before the launch is published.  The reservation it
\* gives back is the game's, whoever made it.
Refuse(s) ==
    LET a == start[s].app IN
    /\ start[s].pc \in {"asked", "admitted", "checked"}
    /\ reservation' = [reservation EXCEPT ![a] = Nobody]
    /\ start' = [start EXCEPT ![s] = [IdleStart EXCEPT !.pc = "done"]]
    /\ UNCHANGED <<game, ghosts, ce, pointer, record, unreadable, transition, committed, profile, stop>>

\* The launch is published: the call gives the reservation back and lifts the
\* stopped hold it answered, if that one still stands.
StartReturns(s) ==
    LET a == start[s].app
        answers == start[s].answered # NoHold /\ holds[a]["stopped"] = start[s].answered IN
    /\ start[s].pc = "published"
    /\ reservation' = [reservation EXCEPT ![a] = Nobody]
    /\ IF answers THEN Write(Without(a, {"stopped"}), unreadable) ELSE UNCHANGED record
    /\ start' = [start EXCEPT ![s].pc = "done", ![s].answered = NoHold]
    /\ UNCHANGED <<game, ghosts, ce, pointer, unreadable, transition, committed, profile, stop>>

\* The fork, under the gate: admission is asked again.
Fork(a) ==
    /\ owned[a] = "published" /\ session[a] = op[a]
    /\ \E over \in SUBSET Kinds : Retires(a, over) /\ Admissible(a, start[op[a]].intent, over)
    /\ owned' = [owned EXCEPT ![a] = "live"]
    /\ alive' = [alive EXCEPT ![a] = TRUE]
    /\ at' = [at EXCEPT ![a] = Main]
    /\ quiet' = [quiet EXCEPT ![a] = FALSE]
    /\ patched' = [patched EXCEPT ![a] = {}]
    /\ UNCHANGED <<up, runs, ghosts, op, pointer, unreadable, locks, committed, profile, calls>>

\* The gate refuses, or what precedes the fork fails.
ForkRefused(a) ==
    /\ owned[a] = "published"
    /\ owned' = [owned EXCEPT ![a] = "none"]
    /\ UNCHANGED <<game, ghosts, alive, at, quiet, op, pointer, record, unreadable, locks, committed, profile, calls>>

-----------------------------------------------------------------------------
(* What the user changes.                                                  *)

Untouched(a) == reservation[a] = Nobody /\ transition[a] = Nobody /\ Free(a)

\* Mutant: a start on its way does not keep the consent.
SetConsentUnreserved(a, consent) ==
    /\ transition[a] = Nobody /\ Free(a)
    /\ owned' = [owned EXCEPT ![a] = "none"]
    /\ profile' = [profile EXCEPT ![a] = IF ~consent THEN "revoked" ELSE IF @ = "revoked" THEN "consented" ELSE @]
    /\ UNCHANGED <<game, ghosts, alive, at, quiet, op, pointer, record, unreadable, locks, committed, calls>>

SetConsent(a, consent) ==
    /\ Untouched(a)
    /\ owned' = [owned EXCEPT ![a] = "none"]
    /\ profile' = [profile EXCEPT ![a] = IF ~consent THEN "revoked" ELSE IF @ = "revoked" THEN "consented" ELSE @]
    /\ UNCHANGED <<game, ghosts, alive, at, quiet, op, pointer, record, unreadable, locks, committed, calls>>

SetAutoload(a, enabled) ==
    /\ profile[a] # "revoked"
    /\ profile' = [profile EXCEPT ![a] = IF enabled THEN "autoload" ELSE "consented"]
    /\ IF enabled /\ holds[a]["stopped"] # NoHold
         THEN Write(Without(a, {"stopped"}), unreadable)
         ELSE UNCHANGED record
    /\ UNCHANGED <<game, ghosts, ce, pointer, unreadable, locks, committed, calls>>

RetireSession(a) ==
    /\ session[a] # Nobody /\ transition[a] = Nobody /\ Free(a)
    /\ owned' = [owned EXCEPT ![a] = "none"]
    /\ session' = [session EXCEPT ![a] = Nobody]
    /\ pointed' = [pointed EXCEPT ![a] = {}]
    /\ UNCHANGED <<game, ghosts, alive, at, quiet, op, record, unreadable, locks, committed, profile, calls>>

-----------------------------------------------------------------------------
(* A stop.                                                                 *)

\* The programs the session was pointed at: none can be named where its record
\* cannot be read, and the profile's stands in for a session that is not there.
Evidence(a, readable) ==
    IF ~readable THEN {} ELSE IF session[a] = Nobody THEN {Main} ELSE pointed[a]

BeginStop(t, a, route, hold) ==
    /\ stop[t].pc = "idle"
    /\ transition[a] = Nobody /\ ~committed
    /\ route = "operation" => op[a] # Nobody /\ ~hold
    /\ \E readable \in BOOLEAN :
         stop' = [stop EXCEPT ![t] =
           [pc |-> "begun", app |-> a, route |-> route, hold |-> hold,
            names |-> Evidence(a, readable), confirmed |-> FALSE]]
    /\ transition' = [transition EXCEPT ![a] = t]
    /\ UNCHANGED <<game, ghosts, ce, pointer, record, unreadable, reservation, committed, profile, start>>

\* Nothing to stop by the game, which takes no hold; a finished operation is
\* stopped again all the same.
StopFindsNothing(t) ==
    LET a == stop[t].app IN
    /\ stop[t].pc = "begun"
    /\ IF stop[t].route = "game" THEN Free(a) ELSE owned[a] = "none"
    /\ owned' = [owned EXCEPT ![a] = "none"]
    /\ stop' = [stop EXCEPT ![t].pc = IF stop[t].route = "game" THEN "ending" ELSE "ended"]
    /\ UNCHANGED <<game, ghosts, alive, at, quiet, op, pointer, record, unreadable, locks, committed, profile, start>>

\* A launch that has not forked is asked not to.
StopUnforked(t) ==
    LET a == stop[t].app IN
    /\ stop[t].pc = "begun"
    /\ owned[a] = "published"
    /\ owned' = [owned EXCEPT ![a] = "none"]
    /\ stop' = [stop EXCEPT ![t].pc = "ended", ![t].confirmed = (stop[t].route = "game")]
    /\ UNCHANGED <<game, ghosts, alive, at, quiet, op, pointer, record, unreadable, locks, committed, profile, start>>

\* Whether a complete scan finds none of the session's programs running.
GameIsGone(a) == Evidence(a, TRUE) \cap up[a] = {}

\* The bridge is asked to put every cheat down.  It does and says so, or the
\* game proves gone, or nobody can say.  The stop by operation asks nothing.
Quiesce(t) ==
    LET a == stop[t].app IN
    /\ stop[t].pc = "begun" /\ stop[t].route = "game"
    /\ owned[a] \in {"live", "connected", "recovered"}
    /\ \/ /\ Running(a) /\ session[a] # Nobody
          /\ patched' = [patched EXCEPT ![a] = @ \ {at[a]}]
          /\ quiet' = [quiet EXCEPT ![a] = TRUE]
          /\ stop' = [stop EXCEPT ![t].pc = "asked", ![t].confirmed = TRUE]
       \/ /\ GameIsGone(a)
          /\ UNCHANGED <<patched, quiet>>
          /\ stop' = [stop EXCEPT ![t].pc = "asked", ![t].confirmed = TRUE]
       \/ /\ UNCHANGED <<patched, quiet>>
          /\ stop' = [stop EXCEPT ![t].pc = "asked"]
    /\ UNCHANGED <<up, runs, ghosts, owned, alive, at, op, pointer, record, unreadable, locks, committed, profile, start>>

ReadyToEnd(t) ==
    \/ stop[t].pc = "asked"
    \/ stop[t].pc = "begun" /\ stop[t].route = "operation"
         /\ owned[stop[t].app] \in {"live", "connected", "recovered"}

\* What a Cheat Engine that a stop ends leaves in the game.
Leaves(t) ==
    LET a == stop[t].app IN
    left' = [left EXCEPT ![a] = @ \cup patched[a]]

EndCheatEngine(t) ==
    LET a == stop[t].app IN
    /\ ReadyToEnd(t)
    /\ owned' = [owned EXCEPT ![a] = "none"]
    /\ alive' = [alive EXCEPT ![a] = FALSE]
    /\ Leaves(t)
    /\ stop' = [stop EXCEPT ![t].pc = "ended"]
    /\ UNCHANGED <<game, at, quiet, op, pointer, record, unreadable, locks, committed, profile, start>>

\* The scan that would prove it gone cannot be read, or it survives: the stop
\* answers that it stopped nothing, or raises.  Ownership is kept and no hold is
\* taken.
EndUnproven(t) ==
    LET a == stop[t].app IN
    /\ Unproven /\ ReadyToEnd(t)
    /\ owned' = [owned EXCEPT ![a] = "recovered"]
    /\ \/ alive' = [alive EXCEPT ![a] = FALSE] /\ Leaves(t)
       \/ UNCHANGED <<alive, ghosts>>
    /\ stop' = [stop EXCEPT ![t].pc = "ending"]
    /\ UNCHANGED <<game, at, quiet, op, pointer, record, unreadable, locks, committed, profile, start>>

\* The processes a hold lists: all of its programs' where each could be read,
\* none otherwise, which leaves only the names to prove the run over by.
Captured(a, names) == {Identities(a, names), {}}

\* _hold_after_stop: a dirty hold unless the stop was confirmed or every named
\* program is proven absent, and a stopped hold where the user pressed Stop.
TakeHolds(t) ==
    LET a == stop[t].app
        names == stop[t].names
        lifted == names # {} /\ names \cap up[a] = {}
        autoNames == IF names = {} THEN {Main} ELSE names
        kept == holds[a]["dirty"]
        taken(n) == {[ids |-> i, names |-> n, since |-> t] : i \in Captured(a, n)} IN
    /\ stop[t].pc = "ended"
    /\ \E dirty \in IF stop[t].confirmed THEN {kept} ELSE taken(names) \cup (IF lifted THEN {kept} ELSE {}),
          stopped \in taken(autoNames) :
         LET new == [holds EXCEPT ![a] = [k \in Kinds |->
                       IF k = "dirty" THEN dirty ELSE IF stop[t].hold THEN stopped ELSE @[k]]] IN
         IF new = holds THEN UNCHANGED record ELSE Write(new, unreadable)
    /\ stop' = [stop EXCEPT ![t].pc = "ending"]
    /\ UNCHANGED <<game, ghosts, ce, pointer, unreadable, locks, committed, profile, start>>

\* Mutant: the stop forgets to give the game back.
KeepTransition(t) ==
    /\ stop[t].pc = "ending"
    /\ stop' = [stop EXCEPT ![t] = DoneStop(stop[t].app)]
    /\ UNCHANGED <<game, ghosts, ce, pointer, record, unreadable, locks, committed, profile, start>>

EndTransition(t) ==
    LET a == stop[t].app IN
    /\ stop[t].pc = "ending"
    /\ transition' = [transition EXCEPT ![a] = IF @ = t THEN Nobody ELSE @]
    /\ stop' = [stop EXCEPT ![t] = DoneStop(a)]
    /\ UNCHANGED <<game, ghosts, ce, pointer, record, unreadable, reservation, committed, profile, start>>

-----------------------------------------------------------------------------
(* The plugin's own life.                                                  *)

\* _admit_plugin_install and the commit, in one hold of the lock.
CommitInstall ==
    /\ ~committed
    /\ \A a \in Apps : Untouched(a) /\ up[a] = {}
    /\ IF unsaved /\ ~unreadable THEN file' = holds /\ unsaved' = FALSE ELSE UNCHANGED <<file, unsaved>>
    /\ ~unsaved'
    /\ committed' = TRUE
    /\ UNCHANGED <<game, ghosts, ce, pointer, holds, unreadable, locks, profile, calls>>

\* The helper could not replace the plugin, and this backend goes on.
InstallFails ==
    /\ committed
    /\ committed' = FALSE
    /\ UNCHANGED <<game, ghosts, ce, pointer, record, unreadable, locks, profile, calls>>

\* The backend ends, at any point, and its next load reads the holds again: what
\* had not reached the file, and the verdict of a stop that it did not live to
\* write, are forgotten.  A Cheat Engine that was forked goes on and its record
\* is found.
Reload ==
    /\ unreadable' \in {TRUE, unreadable} \cup (IF Transient THEN {FALSE} ELSE {})
    /\ Forgets \/ unreadable' \/ ~(unsaved \/ \E t \in Stops : stop[t].pc = "ended")
    /\ holds' = IF unreadable' THEN [a \in Apps |-> NoHolds] ELSE file
    /\ unsaved' = FALSE
    /\ committed' = FALSE
    /\ transition' = [a \in Apps |-> Nobody]
    /\ reservation' = [a \in Apps |-> Nobody]
    /\ op' = [a \in Apps |-> Nobody]
    /\ owned' = [a \in Apps |-> CASE owned[a] \in {"live", "connected"} -> "recovered"
                                  [] owned[a] = "published" -> "none"
                                  [] OTHER -> owned[a]]
    /\ start' = [s \in Starts |-> IF start[s].pc = "idle" THEN start[s] ELSE [IdleStart EXCEPT !.pc = "done"]]
    /\ stop' = [t \in Stops |-> IF stop[t].pc = "idle" THEN stop[t] ELSE DoneStop(stop[t].app)]
    /\ UNCHANGED <<game, ghosts, alive, at, quiet, pointer, file, profile>>

\* delete_managed_data, with the state directory in its scope: refused over an
\* owned Cheat Engine or an install, not over a hold, a start or a stop.  The
\* holds in force stay what they are, and the next load finds no file.
DeleteState ==
    /\ Transient /\ ~committed /\ \A a \in Apps : Free(a)
    /\ owned' = [a \in Apps |-> "none"]
    /\ session' = [a \in Apps |-> Nobody]
    /\ pointed' = [a \in Apps |-> {}]
    /\ file' = [a \in Apps |-> NoHolds]
    /\ profile' = [a \in Apps |-> "revoked"]
    /\ UNCHANGED <<game, ghosts, alive, at, quiet, op, holds, unsaved, unreadable, locks, committed, calls>>

StopSteps(t) ==
    \/ StopFindsNothing(t) \/ StopUnforked(t) \/ Quiesce(t)
    \/ EndCheatEngine(t) \/ EndUnproven(t) \/ TakeHolds(t) \/ EndTransition(t)

Next ==
    \/ \E a \in Apps, p \in Programs : ProgramStarts(a, p) \/ ProgramEnds(a, p) \/ RetryAttach(a, p)
    \/ \E a \in Apps :
         \/ Retire(a) \/ Clear(a) \/ Patch(a) \/ Connect(a) \/ CheatEngineExits(a)
         \/ SupervisorDrops(a) \/ SupervisorStops(a) \/ Fork(a) \/ ForkRefused(a) \/ RetireSession(a)
    \/ \E a \in Apps, b \in BOOLEAN : SetConsent(a, b) \/ SetAutoload(a, b)
    \/ \E s \in Starts, a \in Apps, i \in Intents : StartAsks(s, a, i)
    \/ \E s \in Starts : Admit(s) \/ Revalidate(s) \/ Publish(s) \/ Refuse(s) \/ StartReturns(s)
    \/ \E t \in Stops, a \in Apps, r \in {"game", "operation"}, h \in BOOLEAN : BeginStop(t, a, r, h)
    \/ \E t \in Stops : StopSteps(t)
    \/ CommitInstall \/ InstallFails \/ Reload \/ DeleteState

Spec == Init /\ [][Next]_vars

\* A stop is a running call of the backend: each of its steps is bounded in
\* time, and it waits on no one else.
FairSpec == Spec /\ \A t \in Stops : WF_vars(StopSteps(t))

-----------------------------------------------------------------------------
(* Properties.                                                             *)

\* A stop has ended Cheat Engine and its verdict is still to be written down.
Settling(a) == transition[a] # Nobody /\ stop[transition[a]].pc = "ended"

\* What refuses a start in a game something may have been left in.
Refused(a) ==
    \/ unreadable
    \/ Settling(a)
    \/ holds[a]["dirty"] # NoHold /\ ~IsOver(a, holds[a]["dirty"])

\* "A stop that ended Cheat Engine without proving every cheat put down or the
\* game gone holds that game from every start until the run is over"
\* (stop_ce_for_game): as long as a program a Cheat Engine of ours was ended
\* over still runs with its patches, something refuses every start in the game.
\* That a stop was confirmed is no excuse, nor that the backend is another one.
LeftIsHeld == \A a \in Apps : left[a] # {} => Refused(a)

Forks(a) == owned[a] = "published" /\ owned'[a] = "live"

\* No Cheat Engine is started in a program an earlier one was ended over while
\* its patches are in, whatever happened between the admission and the fork.
NoForkOverLeft == [][\A a \in Apps : Forks(a) => left[a] = {}]_vars

\* The table is authorized at the moment its Cheat Engine appears.
ConsentedAtFork == [][\A a \in Apps : Forks(a) => profile[a] # "revoked"]_vars

\* The private runtime is one directory: one Cheat Engine, over all the games.
OneCheatEngine == \A a, b \in Apps : Running(a) /\ Running(b) => a = b

\* Once an install is committed no stop is under way and no Cheat Engine runs
\* that the replacement would leave nobody to own (_admit_plugin_install).
NothingRunsIntoInstall ==
    committed => \A a \in Apps : transition[a] = Nobody /\ ~Running(a)

\* Every stop ends, and gives the game back to starts and stops.
StopSettles ==
    \A t \in Stops, a \in Apps : transition[a] = t ~> transition[a] # t
=============================================================================
