----------------------------- MODULE Supervision -----------------------------
(***************************************************************************)
(* When Cheat Engine is ended because its game is over (`ce_launch.py`): the *)
(* loop of an attached launch, and the one that takes over after a reload.   *)
(* Both walk /proc, which refuses some processes, for a program the user can *)
(* change while they watch; the game's programs hand over to each other, and *)
(* Cheat Engine itself keeps the game's Proton session alive.                *)
(*                                                                         *)
(* One launch.  A process is the number of the start it came from.           *)
(***************************************************************************)
EXTENDS Naturals, FiniteSets

CONSTANTS Programs,    \* the game's own Windows programs, and names it never runs
          Runnable,    \* those it runs
          Target,      \* the program the session was prepared for
          Pointable,   \* what a retried attach can name
          Confirming,  \* GAME_LEFT_CONFIRMING_SCANS
          Interval,    \* TARGET_SCAN_INTERVAL_TICKS
          Blind,       \* BOOLEAN: procfs may refuse a program's environment
          Unreadable,  \* BOOLEAN: a scan for the owned process may be unreadable
          MaxRuns, MaxReloads, MaxRefused  \* bounds: starts, reloads, walks refused

ASSUME SupervisionAssumption ==
    /\ Runnable \subseteq Programs /\ Target \in Programs /\ Pointable \subseteq Programs
    /\ Confirming \in Nat \ {0} /\ Interval \in Nat \ {0}
    /\ Blind \in BOOLEAN /\ Unreadable \in BOOLEAN
    /\ MaxRuns \in Nat /\ MaxReloads \in Nat /\ MaxRefused \in Nat

VARIABLES
    run,      \* the start each program is running from, 0 where it is not
    starts,   \* starts so far
    hidden,   \* programs whose environment procfs refuses now
    around,   \* something of the game's Proton session reports its AppID
    base,     \* a process the launch saw is still there
    ce,       \* the owned Cheat Engine
    pointed,  \* the program the session is pointed at
    rec,      \* the durable record: its target, and whether that was seen alive
    loaded,   \* the plugin is loaded, and has looked for what outlived it
    mode,     \* who supervises: the launch's own loop, a recovered one, nobody
    pc,       \* where in an iteration it is
    watching, seen, known, gameSeen, left, tick, wasGone, \* its memory
    reloads, refused,
    sighted,  \* history: programs that were seen running by a walk
    empty,    \* history: consecutive walks that met none of the game's programs
    moved     \* history: the session was pointed at another program since

world == <<run, starts, hidden, around, base>>
loopMemory == <<watching, seen, known, gameSeen, left, tick, wasGone>>
history == <<sighted, empty, moved>>
watchVars == <<world, ce, pointed, rec, loaded, mode, pc, loopMemory, reloads, refused, history>>

Up == {p \in Programs : run[p] > 0}

WatchTypeOK ==
    /\ run \in [Programs -> Nat] /\ starts \in Nat /\ hidden \subseteq Programs
    /\ around \in BOOLEAN /\ base \in BOOLEAN
    /\ ce \in {"running", "ended"} /\ pointed \in Programs
    /\ rec \in [target : {Target}, seen : BOOLEAN]
    /\ loaded \in BOOLEAN /\ mode \in {"attached", "recovered", "none"}
    /\ pc \in {"sleep", "walk", "mark", "end"}
    /\ watching \in Programs /\ seen \in BOOLEAN /\ known \in Nat /\ gameSeen \in BOOLEAN
    /\ left \in Nat /\ tick \in 0..Interval - 1 /\ wasGone \in BOOLEAN
    /\ reloads \in Nat /\ refused \in Nat /\ sighted \subseteq Programs /\ empty \in Nat
    /\ moved \in BOOLEAN

\* Mutant of WatchInit: a game that runs at all counts as its target seen.
WatchInitRunning ==
    /\ \E up \in SUBSET Runnable :
         /\ run = [p \in Programs |-> IF p \in up THEN 1 ELSE 0]
         /\ seen = (up # {}) /\ gameSeen = (up # {}) /\ sighted = up
    /\ starts = 1 /\ hidden = {} /\ around = TRUE /\ base = TRUE
    /\ ce = "running" /\ pointed = Target /\ rec = [target |-> Target, seen |-> seen]
    /\ loaded = TRUE /\ mode = "attached" /\ pc = "sleep"
    /\ watching = Target /\ known = 0 /\ left = 0 /\ tick = 0 /\ wasGone = FALSE
    /\ reloads = 0 /\ refused = 0 /\ empty = 0 /\ moved = FALSE

\* The bridge has connected; what the start observed is what it observed before
\* the fork, and the game was running in some form.
WatchInit ==
    /\ \E up \in SUBSET Runnable :
         /\ run = [p \in Programs |-> IF p \in up THEN 1 ELSE 0]
         /\ seen = (Target \in up)
         /\ gameSeen = (up # {})
         /\ sighted = up
    /\ starts = 1 /\ hidden = {} /\ around = TRUE /\ base = TRUE
    /\ ce = "running" /\ pointed = Target
    /\ rec = [target |-> Target, seen |-> seen]
    /\ loaded = TRUE /\ mode = "attached" /\ pc = "sleep"
    /\ watching = Target /\ known = 0 /\ left = 0 /\ tick = 0 /\ wasGone = FALSE
    /\ reloads = 0 /\ refused = 0 /\ empty = 0 /\ moved = FALSE

-----------------------------------------------------------------------------
(* The game, and the user.                                                 *)

Alive == ce = "running"
others == <<ce, pointed, rec, loaded, mode, pc, loopMemory, reloads, refused, history>>

StartProgram(p) ==
    /\ Alive /\ run[p] = 0 /\ starts < MaxRuns
    /\ starts' = starts + 1
    /\ run' = [run EXCEPT ![p] = starts']
    /\ around' = TRUE
    /\ UNCHANGED <<hidden, base, others>>

ExitProgram(p) ==
    /\ Alive /\ run[p] > 0
    /\ run' = [run EXCEPT ![p] = 0]
    /\ hidden' = hidden \ {p}
    /\ UNCHANGED <<starts, around, base, others>>

\* The launcher and the bootstrap a launch saw exit in an ordinary handoff.
BaselineExits ==
    /\ Alive /\ base
    /\ base' = FALSE
    /\ UNCHANGED <<run, starts, hidden, around, others>>

\* The Proton session ends, once none of the game's programs is left in it.
SessionEnds ==
    /\ Alive /\ around /\ Up = {}
    /\ around' = FALSE
    /\ UNCHANGED <<run, starts, hidden, base, others>>

\* A process turns non-dumpable, or back.
Refuse(p) ==
    /\ Alive /\ Blind /\ run[p] > 0
    /\ hidden' = IF p \in hidden THEN hidden \ {p} ELSE hidden \cup {p}
    /\ UNCHANGED <<run, starts, around, base, others>>

\* A retried attach moves the session, whether it attaches or not.
Retry(p) ==
    /\ Alive /\ p # pointed
    /\ pointed' = p /\ moved' = TRUE
    /\ UNCHANGED <<world, ce, rec, loaded, mode, pc, loopMemory, reloads, refused, sighted, empty>>

\* It exits by itself, or is stopped: the loop ends and the record is cleared.
Leaves ==
    /\ Alive
    /\ ce' = "ended"
    /\ UNCHANGED <<world, pointed, rec, loaded, mode, pc, loopMemory, reloads, refused, history>>

-----------------------------------------------------------------------------
(* What one walk says (`ok`: it was complete and nothing conflicted).       *)

Confirmed == known > 0 /\ run[watching] = known /\ watching \notin hidden

\* The program watched: `absent` only of a complete walk that skipped nothing
\* running it.
TargetState(ok) ==
    IF Confirmed THEN "present"
    ELSE IF ~ok THEN "unknown"
    ELSE IF watching \in Up \ hidden THEN "present"
    ELSE IF watching \in hidden THEN "unknown" ELSE "absent"

\* What is left of the game, read off the same walk.
GameState(ok) ==
    LET state == TargetState(ok) IN
    IF state # "absent" THEN IF state = "present" THEN "running" ELSE "unknown"
    ELSE IF Up \ hidden = {} /\ ~around THEN "gone"
    ELSE IF Up \ hidden # {} THEN "running"
    ELSE IF hidden # {} THEN "unknown" ELSE "left"

\* Walks in a row, counted as far as they are asked about.
Counted(n) == IF n < Confirming THEN n + 1 ELSE n

\* Over on a complete absence only: of a target seen alive, of everything, or of
\* the game's programs twice in a row where one had been seen.
ExitIsProved(state, game) ==
    /\ state = "absent"
    /\ \/ seen \/ game = "gone"
       \/ game = "left" /\ gameSeen' /\ left' >= Confirming

\* A walk costs too much for every tick.
ScanIsDue ==
    \/ left > 0
    \/ ~base /\ (~wasGone \/ ~seen)
    \/ tick' = 0

-----------------------------------------------------------------------------
(* One iteration of either loop.                                           *)

Watches == Alive /\ mode # "none"

\* Mutant of Look: what was learned of the last program is kept for the next.
LookCarries ==
    /\ Watches /\ pc = "sleep"
    /\ tick' = (tick + 1) % Interval
    /\ wasGone' = ~base
    /\ watching' = IF ScanIsDue THEN pointed ELSE watching
    /\ pc' = IF ScanIsDue THEN "walk" ELSE "sleep"
    /\ UNCHANGED <<world, ce, pointed, rec, loaded, mode, seen, known, gameSeen, left, reloads, refused, history>>
\* The baseline is asked, and where a walk is due the session is asked for its
\* program, if it can be read: nothing learned of the one before is kept.
Look ==
    /\ Watches /\ pc = "sleep"
    /\ tick' = (tick + 1) % Interval
    /\ wasGone' = ~base
    /\ IF ScanIsDue
       THEN /\ pc' = "walk"
            /\ watching' \in {pointed, watching}
            /\ seen' = (seen /\ watching' = watching)
            /\ known' = IF watching' = watching THEN known ELSE 0
       ELSE UNCHANGED <<pc, watching, seen, known>>
    /\ UNCHANGED <<world, ce, pointed, rec, loaded, mode, gameSeen, left, reloads, refused, history>>

Walk ==
    /\ Watches /\ pc = "walk"
    /\ \E ok \in BOOLEAN :
         LET state == TargetState(ok)
             game == GameState(ok) IN
         /\ refused' = IF ok THEN refused ELSE refused + 1
         /\ refused' <= MaxRefused
         /\ known' = IF state = "present" THEN run[watching]
                     ELSE IF known > 0 /\ run[watching] = known THEN known ELSE 0
         /\ gameSeen' = (gameSeen \/ game = "running")
         /\ left' = IF game = "left" THEN Counted(left) ELSE 0
         /\ seen' = (seen \/ state = "present")
         /\ pc' = IF state = "present" /\ ~seen THEN "mark"
                  ELSE IF ExitIsProved(state, game) THEN "end" ELSE "sleep"
         /\ sighted' = IF state = "present" THEN sighted \cup {watching} ELSE sighted
         /\ empty' = IF Up = {} THEN Counted(empty) ELSE 0
    /\ UNCHANGED <<world, ce, pointed, rec, loaded, mode, watching, tick, wasGone, reloads, moved>>

\* The first sight of a target is written to the launch's record, best effort.
Mark ==
    /\ Watches /\ pc = "mark"
    /\ rec' \in {rec, [rec EXCEPT !.seen = TRUE]}
    /\ pc' = "sleep"
    /\ UNCHANGED <<world, ce, pointed, loaded, mode, loopMemory, reloads, refused, history>>

\* The stop.  One that cannot prove the process gone keeps the record, and the
\* loop is over all the same.
End ==
    /\ Watches /\ pc = "end"
    /\ mode' = "none" /\ pc' = "sleep"
    /\ ce' \in {"ended"} \cup (IF Unreadable THEN {"running"} ELSE {})
    /\ UNCHANGED <<world, pointed, rec, loaded, loopMemory, reloads, refused, history>>

\* The plugin is updated or restarted; its Cheat Engine stays.
Unload ==
    /\ Alive /\ loaded /\ reloads < MaxReloads
    /\ reloads' = reloads + 1
    /\ loaded' = FALSE /\ mode' = "none" /\ pc' = "sleep"
    /\ UNCHANGED <<world, ce, pointed, rec, loopMemory, refused, history>>

\* Mutants of Resume: nothing was seen before the reload; only a target that was
\* seen is watched again.
ResumeForgets ==
    /\ Alive /\ ~loaded
    /\ loaded' = TRUE /\ pc' = "sleep" /\ mode' = "recovered"
    /\ watching' = rec.target /\ seen' = FALSE /\ gameSeen' = FALSE
    /\ known' = 0 /\ left' = 0 /\ tick' = 0 /\ wasGone' = FALSE
    /\ UNCHANGED <<world, ce, pointed, rec, reloads, refused, history>>
ResumeSeen ==
    /\ Alive /\ ~loaded
    /\ loaded' = TRUE /\ pc' = "sleep" /\ mode' = IF rec.seen THEN "recovered" ELSE "none"
    /\ watching' = rec.target /\ seen' = rec.seen /\ gameSeen' = rec.seen
    /\ known' = 0 /\ left' = 0 /\ tick' = 0 /\ wasGone' = FALSE
    /\ UNCHANGED <<world, ce, pointed, rec, reloads, refused, history>>

\* Loaded again: the record says what to watch.  An identity that cannot be read
\* just then is left alone.
Resume ==
    /\ Alive /\ ~loaded
    /\ loaded' = TRUE /\ pc' = "sleep"
    /\ mode' \in {"recovered"} \cup (IF Unreadable THEN {"none"} ELSE {})
    /\ watching' = rec.target /\ seen' = rec.seen /\ gameSeen' = rec.seen
    /\ known' = 0 /\ left' = 0 /\ tick' = 0 /\ wasGone' = FALSE
    /\ UNCHANGED <<world, ce, pointed, rec, reloads, refused, history>>

Game == \/ \E p \in Runnable : StartProgram(p) \/ ExitProgram(p) \/ Refuse(p)
        \/ BaselineExits \/ SessionEnds \/ Leaves
        \/ \E p \in Pointable : Retry(p)
WatchNext == Look \/ Walk \/ Mark \/ End \/ Unload \/ Resume \/ Game

WatchSpec == WatchInit /\ [][WatchNext]_watchVars

\* The loop polls, its walks return, and a plugin that was unloaded is loaded.
WatchFairSpec == WatchSpec /\ WF_watchVars(Look) /\ WF_watchVars(Walk) /\ WF_watchVars(Mark) /\ WF_watchVars(End) /\ WF_watchVars(Resume)

-----------------------------------------------------------------------------
(* Properties.                                                             *)

\* Cheat Engine is ended over a walk only where the program watched was seen
\* running and is not, or where the game has none of its programs left: on the
\* walk before too, unless nothing of it is left at all (target_exit_is_proved).
\* After a reload a session that was moved is watched by the mark of another.
EndsOnProof ==
    [][pc # "end" /\ pc' = "end" /\ (moved => reloads = 0) =>
         \/ watching \in sighted \ Up
         \/ Up = {} /\ (~around \/ empty + 1 >= Confirming)]_watchVars

\* "Record durably that this exact session's target was observed alive"
\* (_mark_target_seen), of a session that stays at its program.
SeenWasSeen == rec.seen /\ ~moved => rec.target \in sighted

\* A game whose programs have all gone takes its Cheat Engine with it, though that
\* keeps the game's Proton session alive, though walks are refused, and though the
\* plugin was reloaded where the record says the target was seen
\* (_supervise_recovered).
EndsWithGame ==
    (Up = {} /\ (rec.seen \/ (gameSeen /\ mode # "none")))
        ~> (~Alive \/ Up # {} \/ (~rec.seen /\ mode = "none"))

\* "Ownership must never quietly become unsupervised" (resume_recovered_supervision).
StaysSupervised == Alive ~> (mode # "none" \/ ~Alive)
=============================================================================
