------------------------------- MODULE Bridge -------------------------------
(***************************************************************************)
(* The resident bridge inside Cheat Engine (`ce_decky_bridge.lua`): the     *)
(* startup plan and its rollback, one runtime command at a time, and the    *)
(* quiesce a stop asks for, all advanced by one timer.                      *)
(*                                                                         *)
(* The timer's callback is cut where it reads Cheat Engine again, because   *)
(* an activation Cheat Engine performs asynchronously can end between any   *)
(* two readings.  A tick is the round attach, (first,) startup, settle,     *)
(* quiesce, (walk,) poll.  The order of the walk, deepest record first and  *)
(* scripts last, is the table's: here it takes them in any order.           *)
(***************************************************************************)
EXTENDS Naturals, Sequences

CONSTANTS Records,     \* the memory records of the session's table
          Sessions,    \* what a session may be: a set of Session records
          Nil,
          MaxWait,     \* MAX_ACTIVATION_WAIT_TICKS and MAX_STARTUP_WAIT_TICKS
          MaxGrace,    \* REFUSAL_GRACE_TICKS
          MaxQuiesce,  \* MAX_QUIESCE_TOTAL_TICKS
          MaxSettle,   \* MAX_QUIESCE_RECORD_TICKS
          MaxSweeps    \* MAX_QUIESCE_SWEEPS

Actions == [record : Records, kind : {"active", "value"}, to : BOOLEAN]

\* plan: the startup.  wakes: <<r, w>>, putting r down may switch w on.  kinds: the
\* kinds of command the backend writes.  unreadable: Cheat Engine may fail to answer
\* a reading.  detaches: it may be found with another process open.  commands:
\* bound, how many the backend writes.
Session == [plan : Seq(Actions), wakes : SUBSET (Records \X Records),
            kinds : SUBSET {"set_active", "set_value", "retry_attach", "quiesce"},
            unreadable : BOOLEAN, detaches : BOOLEAN, commands : Nat]

ASSUME BridgeAssumption ==
    /\ Sessions \subseteq Session
    /\ {MaxWait, MaxGrace, MaxQuiesce, MaxSettle, MaxSweeps} \subseteq Nat

VARIABLES
    session,    \* the one of Sessions this is
    on,         \* which records are active in Cheat Engine
    busy,       \* what Cheat Engine is still performing on each
    set,        \* whose value is one a startup or a command wrote
    attached,   \* state.attached
    index,      \* state.startup_index
    waits,      \* state.startup_waits
    startupPending, \* state.startup_pending
    snaps,      \* state.startup_snapshots
    applied,    \* state.startup_applied
    failed,     \* state.startup_failed
    rollback,   \* state.rollback
    rolledBack, \* state.startup_rolled_back
    moving,     \* state.moving
    unrestored, \* state.unrestored
    command,    \* state.pending_command
    run,        \* state.quiesce
    quiesced,   \* state.quiesced
    answer,     \* the names in the last quiesce's answer; empty is a clean one
    phase,      \* where the timer's callback is
    sent,       \* how many commands were executed
    debt,       \* history: values a failed startup changed, not restored
    late        \* history: the answer was given at the deadline

engine  == <<session, on, busy, set>>
startup == <<index, waits, startupPending, snaps, applied, failed>>
undo    == <<rollback, rolledBack>>
known   == <<moving, unrestored>>
quiesce == <<run, quiesced, answer, late>>
bridgeVars == <<engine, attached, startup, undo, known, command, quiesce, phase, sent, debt>>

Plan == session.plan
Wakes == session.wakes
Unreadable == session.unreadable

Steps == 1..Len(Plan)
Goals == {"no", "on", "off"}
Goal(to) == IF to THEN "on" ELSE "off"
Names == Records \cup {"detached", "rollback", "unread"}
Wait == [at : Nat, waits : Nat, refused : BOOLEAN]
Waiting(i, refused) == [at |-> i, waits |-> 0, refused |-> refused]
Command == [record : Records, to : BOOLEAN, waits : Nat, refused : BOOLEAN]
Rollback == [at : Nat, settling : BOOLEAN, waits : Nat, proven : BOOLEAN]
Run == [left : SUBSET Records, settling : Records \cup {Nil}, waits : Nat,
        ticks : Nat, sweeps : Nat, named : SUBSET Names]
Snapshots == [on : BOOLEAN, set : BOOLEAN]

ASSUME NilAssumption == Nil \notin Records \cup Wait \cup Command \cup Rollback \cup Run \cup Snapshots

BridgeTypeOK ==
    /\ session \in Sessions
    /\ on \in [Records -> BOOLEAN]
    /\ busy \in [Records -> Goals]
    /\ set \in [Records -> BOOLEAN]
    /\ attached \in BOOLEAN
    /\ index \in 0..Len(Plan)
    /\ waits \in 0..MaxWait + 1
    /\ startupPending # Nil =>
         startupPending \in Wait /\ startupPending.at \in Steps /\ startupPending.waits <= MaxWait + MaxGrace
    /\ snaps \in [Steps -> {Nil} \cup Snapshots]
    /\ applied \in BOOLEAN
    /\ failed \in BOOLEAN
    /\ rollback # Nil => rollback \in Rollback /\ rollback.at \in 0..Len(Plan) /\ rollback.waits <= MaxWait
    /\ rolledBack \in {"nil", "proven", "unproven"}
    /\ moving \subseteq Records
    /\ unrestored \subseteq Records
    /\ command # Nil => command \in Command /\ command.waits <= MaxWait + MaxGrace
    /\ run # Nil => run \in Run /\ run.ticks <= MaxQuiesce /\ run.sweeps <= MaxSweeps
    /\ quiesced \in BOOLEAN
    /\ answer \subseteq Names
    /\ phase \in {"attach", "first", "startup", "again", "settle", "quiesce", "walk", "poll"}
    /\ sent \in 0..session.commands
    /\ debt \subseteq Records
    /\ late \in BOOLEAN

BridgeInit ==
    /\ session \in Sessions
    /\ on \in [Records -> BOOLEAN]
    /\ busy = [r \in Records |-> "no"]
    /\ set = [r \in Records |-> FALSE]
    /\ attached = FALSE
    /\ index = 0 /\ waits = 0 /\ startupPending = Nil
    /\ snaps = [i \in Steps |-> Nil]
    /\ applied = FALSE /\ failed = FALSE
    /\ rollback = Nil /\ rolledBack = "nil"
    /\ moving = {} /\ unrestored = {}
    /\ command = Nil
    /\ run = Nil /\ quiesced = FALSE /\ answer = {} /\ late = FALSE
    /\ phase = "attach" /\ sent = 0 /\ debt = {}

-----------------------------------------------------------------------------
(* Cheat Engine.                                                           *)

\* What is active once Cheat Engine has carried a change of r out.
After(r, to) ==
    IF on[r] = to THEN {on}
    ELSE IF to THEN {[on EXCEPT ![r] = TRUE]}
    ELSE {[x \in Records |-> x # r /\ (on[x] \/ x \in woken)] :
            woken \in SUBSET {x \in Records : <<r, x>> \in Wakes}}

\* Writing record.Active, and what the readings after it say: it is done, it is
\* under way, it was not carried out, the write raised, or nobody can say.
Written(r, to, how) ==
    \/ how = "done" /\ busy[r] = "no" /\ on' \in After(r, to) /\ UNCHANGED busy
    \/ how = "busy" /\ on[r] # to /\ busy' = [busy EXCEPT ![r] = Goal(to)] /\ UNCHANGED on
    \/ how = "busy" /\ busy[r] # "no" /\ UNCHANGED <<on, busy>>
    \/ how = "declined" /\ on[r] # to /\ busy[r] = "no" /\ UNCHANGED <<on, busy>>
    \/ how = "raised" /\ UNCHANGED <<on, busy>>
    \/ how = "unread" /\ Unreadable /\ on[r] # to /\ busy' = [busy EXCEPT ![r] = Goal(to)] /\ UNCHANGED on

Outcomes == {"done", "busy", "declined", "raised", "unread"}

\* Cheat Engine ends what it was performing, carried out or declined.
Finishes(r) ==
    /\ busy[r] # "no"
    /\ on' \in After(r, busy[r] = "on") \cup {on}
    /\ busy' = [busy EXCEPT ![r] = "no"]
    /\ UNCHANGED <<session, set, attached, startup, undo, known, command, quiesce, phase, sent, debt>>

-----------------------------------------------------------------------------
(* Attaching: the process open in Cheat Engine is still the one it attached *)
(* to, or it is attached anew, where that is tried and one program matches. *)

Attach ==
    /\ phase = "attach"
    /\ \/ attached /\ UNCHANGED attached /\ phase' = "startup"
       \/ /\ ~attached \/ session.detaches
          /\ attached' \in BOOLEAN
          /\ phase' = IF attached' THEN "first" ELSE "startup"
    /\ UNCHANGED <<engine, startup, undo, known, command, quiesce, sent, debt>>

-----------------------------------------------------------------------------
(* Startup and its rollback.  Phase "first" is the startup an attach runs at *)
(* once, before the tick's own; "again" the one a retried attach runs, which *)
(* goes back to the commands and not on with the tick.                      *)

Stopping == run # Nil \/ quiesced

InStartup == phase \in {"first", "startup", "again"}
Return == phase' = CASE phase = "first" -> "startup" [] phase = "startup" -> "settle" [] phase = "again" -> "poll"

\* What a startup that took its steps to shots has written over: those values
\* that were not the table's before.
Debts(shots, values) ==
    {Plan[j].record : j \in {j \in Steps : Plan[j].kind = "value" /\ shots[j] # Nil
                                          /\ ~shots[j].set /\ values[Plan[j].record]}}

\* Mutant of Fail: the failing step itself is not put back.
FailBefore(i, shots, values) ==
    /\ failed' = TRUE
    /\ startupPending' = Nil
    /\ rollback' = [at |-> i - 1, settling |-> FALSE, waits |-> 0, proven |-> TRUE]
    /\ debt' = Debts(shots, values)
    /\ Return

\* It fails at step i: from here on only the rollback runs.
Fail(i, shots, values) ==
    /\ failed' = TRUE
    /\ startupPending' = Nil
    /\ rollback' = [at |-> i, settling |-> FALSE, waits |-> 0, proven |-> TRUE]
    /\ debt' = Debts(shots, values)
    /\ Return

\* Mutant of NothingToStart: a failed startup is over, its rollback included.
NothingOnceFailed == quiesced \/ failed \/ applied \/ ~attached \/ (Stopping /\ startupPending = Nil)

\* Nothing after the answer; only the rollback after a failure; and during a stop
\* only what Cheat Engine is already performing.
NothingToStart ==
    \/ quiesced
    \/ failed /\ (~attached \/ rollback = Nil)
    \/ ~failed /\ (applied \/ ~attached \/ (Stopping /\ startupPending = Nil))

StartupRests ==
    /\ InStartup /\ NothingToStart
    /\ Return
    /\ UNCHANGED <<engine, attached, startup, undo, known, command, quiesce, sent, debt>>

\* The activation it waits for.
StartupSettles ==
    LET i == startupPending.at  r == Plan[i].record  to == Plan[i].to IN
    /\ InStartup /\ ~NothingToStart /\ ~failed /\ startupPending # Nil
    /\ \/ /\ startupPending.refused /\ startupPending.waits + 1 < MaxGrace
          /\ startupPending' = [startupPending EXCEPT !.waits = @ + 1]
          /\ Return
          /\ UNCHANGED <<index, failed, rollback, moving, debt>>
       \/ /\ \/ startupPending.refused
             \/ Unreadable
             \/ ~startupPending.refused /\ busy[r] = "no" /\ on[r] # to   \* with the game gone
          /\ Fail(i, snaps, set) /\ UNCHANGED <<index, moving>>
       \/ /\ ~startupPending.refused /\ busy[r] # "no" /\ startupPending.waits < MaxWait
          /\ startupPending' = [startupPending EXCEPT !.waits = @ + 1]
          /\ Return
          /\ UNCHANGED <<index, failed, rollback, moving, debt>>
       \/ /\ ~startupPending.refused /\ busy[r] # "no" /\ startupPending.waits = MaxWait
          /\ moving' = moving \cup {r}
          /\ Fail(i, snaps, set) /\ UNCHANGED index
       \/ /\ ~startupPending.refused /\ busy[r] = "no" /\ on[r] # to
          /\ startupPending' = Waiting(i, TRUE)
          /\ Return
          /\ UNCHANGED <<index, failed, rollback, moving, debt>>
       \/ /\ ~startupPending.refused /\ busy[r] = "no" /\ on[r] = to
          /\ index' = i /\ startupPending' = Nil
          /\ UNCHANGED <<phase, failed, rollback, moving, debt>>
    /\ UNCHANGED <<engine, attached, waits, snaps, applied, rolledBack, unrestored, command, quiesce, sent>>

\* The next step's record is not there yet, or does not answer.
StartupWaits ==
    /\ InStartup /\ ~NothingToStart /\ ~failed /\ startupPending = Nil /\ index < Len(Plan)
    /\ waits' = waits + 1
    /\ IF waits < MaxWait
         THEN Return /\ UNCHANGED <<startupPending, failed, rollback, debt>>
         ELSE Fail(index + 1, snaps, set)
    /\ UNCHANGED <<engine, attached, index, snaps, applied, rolledBack, known, command, quiesce, sent>>

\* The next step is taken: its record is snapshot first.
StartupActs ==
    LET i == index + 1  r == Plan[i].record IN
    /\ InStartup /\ ~NothingToStart /\ ~failed /\ startupPending = Nil /\ index < Len(Plan)
    /\ waits' = 0
    /\ snaps' = [snaps EXCEPT ![i] = [on |-> on[r], set |-> set[r]]]
    /\ \/ /\ Plan[i].kind = "value"
          /\ \/ /\ set' = [set EXCEPT ![r] = TRUE]
                /\ index' = i
                /\ UNCHANGED <<phase, startupPending, failed, rollback, debt>>
             \/ /\ set' \in {set, [set EXCEPT ![r] = TRUE]}
                /\ Fail(i, snaps', set') /\ UNCHANGED index
          /\ UNCHANGED <<on, busy>>
       \/ /\ Plan[i].kind = "active"
          /\ UNCHANGED set
          /\ \E how \in Outcomes :
               /\ Written(r, Plan[i].to, how)
               /\ \/ /\ how = "done" /\ index' = i
                     /\ UNCHANGED <<phase, startupPending, failed, rollback, debt>>
                  \/ /\ how \in {"busy", "declined"}
                     /\ startupPending' = Waiting(i, how = "declined")
                     /\ Return
                     /\ UNCHANGED <<index, failed, rollback, debt>>
                  \/ /\ how \in {"declined", "raised", "unread"}
                     /\ Fail(i, snaps', set') /\ UNCHANGED index
    /\ UNCHANGED <<session, attached, applied, rolledBack, known, command, quiesce, sent>>

StartupEnds ==
    /\ InStartup /\ ~NothingToStart /\ ~failed /\ startupPending = Nil /\ index = Len(Plan)
    /\ applied' = TRUE
    /\ Return
    /\ UNCHANGED <<engine, attached, index, waits, startupPending, snaps, failed, undo, known, command, quiesce, sent, debt>>

InRollback == InStartup /\ ~NothingToStart /\ failed

Unproven(r) == rollback' = [rollback EXCEPT !.settling = FALSE, !.waits = 0, !.proven = FALSE,
                                            !.at = IF rollback.settling THEN @ ELSE @ - 1]
               /\ unrestored' = unrestored \cup {r}

\* The restore it waits for.
RollbackSettles ==
    LET r == Plan[rollback.at + 1].record IN
    /\ InRollback /\ rollback.settling
    /\ \/ /\ busy[r] # "no" /\ rollback.waits < MaxWait
          /\ rollback' = [rollback EXCEPT !.waits = @ + 1]
          /\ Return
          /\ UNCHANGED known
       \/ /\ busy[r] # "no" /\ rollback.waits = MaxWait
          /\ moving' = moving \cup {r}
          /\ Unproven(r) /\ UNCHANGED phase
       \/ /\ Unreadable \/ (busy[r] = "no" /\ on[r] # snaps[rollback.at + 1].on)
          /\ Unproven(r) /\ UNCHANGED <<phase, moving>>
       \/ /\ busy[r] = "no" /\ on[r] = snaps[rollback.at + 1].on
          /\ rollback' = [rollback EXCEPT !.settling = FALSE, !.waits = 0]
          /\ UNCHANGED <<phase, known>>
    /\ UNCHANGED <<engine, attached, startup, rolledBack, command, quiesce, sent, debt>>

\* One step is put back the way its snapshot has it; one with no snapshot is not.
RollbackActs ==
    LET i == rollback.at  r == Plan[i].record
        back == [rollback EXCEPT !.at = i - 1] IN
    /\ InRollback /\ ~rollback.settling /\ i >= 1
    /\ \/ /\ snaps[i] = Nil
          /\ rollback' = back
          /\ UNCHANGED <<engine, phase, known, debt>>
       \/ /\ snaps[i] # Nil /\ Plan[i].kind = "value"
          /\ \/ /\ set' = [set EXCEPT ![r] = snaps[i].set]
                /\ debt' = IF snaps[i].set THEN debt ELSE debt \ {r}
                /\ rollback' = back /\ UNCHANGED known
             \/ Unproven(r) /\ UNCHANGED <<set, moving, debt>>
          /\ UNCHANGED <<on, busy, phase>>
       \/ /\ snaps[i] # Nil /\ Plan[i].kind = "active"
          /\ \E how \in Outcomes :
               /\ Written(r, snaps[i].on, how)
               /\ \/ how = "done" /\ rollback' = back /\ UNCHANGED <<phase, known>>
                  \/ how = "busy" /\ rollback' = [back EXCEPT !.settling = TRUE] /\ Return /\ UNCHANGED known
                  \/ how \in {"declined", "raised", "unread"} /\ Unproven(r) /\ UNCHANGED <<phase, moving>>
          /\ UNCHANGED <<set, debt>>
    /\ UNCHANGED <<session, attached, startup, rolledBack, command, quiesce, sent>>

RollbackEnds ==
    /\ InRollback /\ ~rollback.settling /\ rollback.at = 0
    /\ rolledBack' = IF rollback.proven THEN "proven" ELSE "unproven"
    /\ rollback' = Nil
    /\ Return
    /\ UNCHANGED <<engine, attached, startup, known, command, quiesce, sent, debt>>

-----------------------------------------------------------------------------
(* A command Cheat Engine has not finished.                                *)

CommandSettles ==
    LET r == command.record IN
    /\ phase = "settle"
    /\ phase' = "quiesce"
    /\ \/ command = Nil /\ UNCHANGED <<command, moving>>
       \/ /\ command # Nil
          /\ \/ /\ ~attached \/ Unreadable \/ command.refused
                   \/ busy[r] = "no"
                /\ command' = Nil /\ UNCHANGED moving
             \/ /\ attached /\ command.refused /\ command.waits + 1 < MaxGrace
                /\ command' = [command EXCEPT !.waits = @ + 1] /\ UNCHANGED moving
             \/ /\ attached /\ ~command.refused /\ busy[r] # "no" /\ command.waits < MaxWait
                /\ command' = [command EXCEPT !.waits = @ + 1] /\ UNCHANGED moving
             \/ /\ attached /\ ~command.refused /\ busy[r] # "no" /\ command.waits = MaxWait
                /\ moving' = moving \cup {r} /\ command' = Nil
             \/ /\ attached /\ ~command.refused /\ busy[r] = "no" /\ on[r] # command.to
                /\ command' = [command EXCEPT !.waits = 0, !.refused = TRUE] /\ UNCHANGED moving
    /\ UNCHANGED <<engine, attached, startup, undo, unrestored, quiesce, sent, debt>>

-----------------------------------------------------------------------------
(* The quiesce.                                                            *)

\* Of the records whose command or restore gave up waiting, those Cheat Engine
\* is still performing; it forgets the ones a reading says are over.
Moving(unread) == {r \in moving \ unread : busy[r] # "no"}
Unreads == IF Unreadable THEN SUBSET moving ELSE {{}}

\* The answer: with what a failed startup could not put back, and with every
\* mutation whose record cannot be read.
Answer(named) ==
    \E unread \in Unreads :
        /\ answer' = named \cup unrestored \cup unread
        /\ moving' = Moving(unread) \cup unread
        /\ run' = Nil
        /\ quiesced' = TRUE
        /\ phase' = "poll"

\* Mutant of Held: a rollback in flight is answered over.
HeldByMoves(unread) == startupPending # Nil \/ command # Nil \/ Moving(unread) # {}

\* Work that can still change the game is work it cannot answer over.
Held(unread) == startupPending # Nil \/ command # Nil \/ rollback # Nil \/ Moving(unread) # {}

\* Mutant of QuiesceTicks: time spent waiting for work in flight is not counted.
QuiesceTicksFree ==
    /\ phase = "quiesce"
    /\ \/ run = Nil /\ phase' = "poll" /\ UNCHANGED run
       \/ /\ run # Nil /\ attached /\ run.ticks < MaxQuiesce
          /\ run' = IF Held({}) THEN run ELSE [run EXCEPT !.ticks = @ + 1]
          /\ phase' = "walk"
    /\ UNCHANGED <<engine, attached, startup, undo, known, command, quiesced, answer, late, sent, debt>>

\* A tick of it: answered at once where nothing is attached, else a walk.
QuiesceTicks ==
    /\ phase = "quiesce"
    /\ \/ /\ run = Nil
          /\ phase' = "poll"
          /\ UNCHANGED <<quiesce, moving>>
       \/ /\ run # Nil /\ ~attached
          /\ Answer(run.named \cup {"detached"})
          /\ late' = FALSE
       \/ /\ run # Nil /\ attached /\ run.ticks < MaxQuiesce
          /\ run' = [run EXCEPT !.ticks = @ + 1]
          /\ phase' = "walk"
          /\ UNCHANGED <<quiesced, answer, late, moving>>
    /\ UNCHANGED <<engine, attached, startup, undo, unrestored, command, sent, debt>>

\* The deadline: what is known not to have ended is named, and nothing is read
\* again.
QuiesceDeadline ==
    /\ phase = "quiesce" /\ run # Nil /\ attached /\ run.ticks = MaxQuiesce
    /\ \E unread \in Unreads :
         Answer(run.named \cup run.left
                \cup {r \in Records : r = run.settling}
                \cup (IF startupPending # Nil /\ ~startupPending.refused THEN {Plan[startupPending.at].record} ELSE {})
                \cup (IF command # Nil /\ ~command.refused THEN {command.record} ELSE {})
                \cup (IF rollback # Nil THEN {"rollback"} ELSE {})
                \cup Moving(unread))
    /\ late' = TRUE
    /\ UNCHANGED <<engine, attached, startup, undo, unrestored, command, sent, debt>>

\* The record it waits for.
WalkSettles ==
    LET r == run.settling
        named(names) == [run EXCEPT !.settling = Nil, !.waits = 0, !.named = @ \cup names] IN
    /\ phase = "walk" /\ run.settling # Nil
    /\ \/ /\ busy[r] # "no" /\ run.waits < MaxSettle
          /\ run' = [run EXCEPT !.waits = @ + 1]
          /\ phase' = "poll"
       \/ /\ Unreadable \/ (busy[r] # "no" /\ run.waits = MaxSettle) \/ busy[r] = "no"
          /\ run' = named({r}) /\ UNCHANGED phase
       \/ /\ busy[r] = "no" /\ ~on[r]
          /\ run' = named({}) /\ UNCHANGED phase
    /\ UNCHANGED <<engine, attached, startup, undo, known, command, quiesced, answer, late, sent, debt>>

\* One record is put down, or named: where its write raises, its state cannot be
\* read, it stays on, or it is not left at the value it is off at.
WalkActs ==
    /\ phase = "walk" /\ run.settling = Nil
    /\ \E r \in run.left :
         LET rest == [run EXCEPT !.left = @ \ {r}]
             blamed == [rest EXCEPT !.named = @ \cup {r}] IN
         \/ /\ Unreadable /\ run' = blamed
            /\ UNCHANGED <<on, busy, phase>>
         \/ /\ ~on[r] /\ run' = rest
            /\ UNCHANGED <<on, busy, phase>>
         \/ /\ on[r]
            /\ \E how \in Outcomes :
                 /\ Written(r, FALSE, how)
                 /\ \/ how = "done" /\ run' \in {rest, blamed} /\ UNCHANGED phase
                    \/ how = "busy" /\ run' = [rest EXCEPT !.settling = r] /\ phase' = "poll"
                    \/ how \in {"declined", "raised", "unread"} /\ run' = blamed /\ UNCHANGED phase
    /\ UNCHANGED <<session, set, attached, startup, undo, known, command, quiesced, answer, late, sent, debt>>

WalkHolds ==
    /\ phase = "walk" /\ run.settling = Nil /\ run.left = {}
    /\ \E unread \in Unreads :
         /\ Held(unread)
         /\ moving' = IF startupPending # Nil \/ command # Nil \/ rollback # Nil
                        THEN moving ELSE Moving(unread) \cup unread
    /\ phase' = "poll"
    /\ UNCHANGED <<engine, attached, startup, undo, unrestored, command, quiesce, sent, debt>>

\* What is on now is asked again: another sweep, or the answer.
WalkLooksAgain ==
    /\ phase = "walk" /\ run.settling = Nil /\ run.left = {}
    /\ \E unread \in Unreads : ~Held(unread)
    /\ \E hidden \in IF Unreadable THEN SUBSET Records ELSE {{}} :
         LET named == run.named \cup (IF hidden = {} THEN {} ELSE {"unread"})
             left == {r \in Records \ (hidden \cup run.named) : on[r]} IN
         \/ /\ left # {} /\ run.sweeps < MaxSweeps
            /\ run' = [run EXCEPT !.left = left, !.sweeps = @ + 1, !.named = named]
            /\ phase' = "poll"
            /\ UNCHANGED <<quiesced, answer, late, moving>>
         \/ /\ left = {} \/ run.sweeps = MaxSweeps
            /\ Answer(named \cup left)
            /\ late' = FALSE
    /\ UNCHANGED <<engine, attached, startup, undo, unrestored, command, sent, debt>>

-----------------------------------------------------------------------------
(* The control file: one command after another, while none is pending.     *)

OneMoreCommand == sent < session.commands /\ sent' = sent + 1

PollEnds ==
    /\ phase = "poll"
    /\ phase' = "attach"
    /\ UNCHANGED <<engine, attached, startup, undo, known, command, quiesce, sent, debt>>

\* Refused while this session is being stopped, and where nothing is attached.
SetActive(r, to) ==
    /\ phase = "poll" /\ "set_active" \in session.kinds /\ command = Nil /\ OneMoreCommand
    /\ ~Stopping /\ attached
    /\ \E how \in Outcomes :
         /\ Written(r, to, how)
         /\ \/ /\ how \in {"busy", "declined"}
               /\ command' = [record |-> r, to |-> to, waits |-> 0, refused |-> how = "declined"]
               /\ phase' = "attach"
            \/ /\ how # "busy"
               /\ UNCHANGED <<command, phase>>
    /\ UNCHANGED <<session, set, attached, startup, undo, known, quiesce, debt>>

SetValue(r) ==
    /\ phase = "poll" /\ "set_value" \in session.kinds /\ command = Nil /\ OneMoreCommand
    /\ ~Stopping /\ attached
    /\ set' = [set EXCEPT ![r] = TRUE]
    /\ UNCHANGED <<session, on, busy, attached, startup, undo, known, command, quiesce, phase, debt>>

\* retry_attach starts the startup over, whatever it was in the middle of.
RetryAttach ==
    /\ phase = "poll" /\ "retry_attach" \in session.kinds /\ command = Nil /\ OneMoreCommand
    /\ ~Stopping
    /\ index' = 0 /\ waits' = 0 /\ startupPending' = Nil
    /\ snaps' = [i \in Steps |-> Nil]
    /\ applied' = FALSE /\ failed' = FALSE
    /\ rollback' = Nil /\ rolledBack' = "nil"
    /\ attached' \in BOOLEAN
    /\ phase' = IF attached' THEN "again" ELSE "poll"
    /\ UNCHANGED <<engine, known, command, quiesce, debt>>

QuiesceBegins ==
    /\ phase = "poll" /\ "quiesce" \in session.kinds /\ command = Nil /\ OneMoreCommand
    /\ attached /\ run = Nil
    /\ \E hidden \in IF Unreadable THEN SUBSET Records ELSE {{}} :
         run' = [left |-> {r \in Records \ hidden : on[r]}, settling |-> Nil, waits |-> 0, ticks |-> 0,
                 sweeps |-> 0, named |-> IF hidden = {} THEN {} ELSE {"unread"}]
    /\ phase' = "quiesce"
    /\ UNCHANGED <<engine, attached, startup, undo, known, command, quiesced, answer, late, debt>>

Timer ==
    \/ Attach
    \/ StartupRests \/ StartupSettles \/ StartupWaits \/ StartupActs \/ StartupEnds
    \/ RollbackSettles \/ RollbackActs \/ RollbackEnds
    \/ CommandSettles
    \/ QuiesceTicks \/ QuiesceDeadline
    \/ WalkSettles \/ WalkActs \/ WalkHolds \/ WalkLooksAgain
    \/ \E r \in Records, to \in BOOLEAN : SetActive(r, to)
    \/ \E r \in Records : SetValue(r)
    \/ RetryAttach \/ QuiesceBegins \/ PollEnds

BridgeNext == Timer \/ \E r \in Records : Finishes(r)

BridgeSpec == BridgeInit /\ [][BridgeNext]_bridgeVars

\* Cheat Engine runs its timer; nothing is asked of its own asynchronous work.
BridgeFairSpec == BridgeSpec /\ WF_bridgeVars(Timer)

-----------------------------------------------------------------------------
(* Properties.                                                             *)

\* Nothing is on in the game, nothing is coming on, and nothing a failed startup
\* changed is still changed.
PutBack == debt = {} /\ \A r \in Records : ~on[r] /\ busy[r] # "on"

\* The same of every answer the walk reached by itself, before its deadline.
CleanInTime == quiesced /\ answer = {} /\ ~late => PutBack

\* A rollback that calls itself proven, while no walk puts the same records down,
\* has left every record it touched as it found it (advanceRollback).
ProvenMeansRestored ==
    [][rolledBack # "proven" /\ rolledBack' = "proven" /\ ~Stopping =>
        \A i \in Steps : snaps[i] # Nil =>
            LET r == Plan[i].record IN
            IF Plan[i].kind = "value" THEN set[r] = snaps[i].set
            ELSE on[r] = snaps[i].on /\ busy[r] = "no"]_bridgeVars

\* A quiesce is answered whatever Cheat Engine does, inside its own bound: a stop
\* waits for the answer.
QuiesceAnswers == run # Nil ~> run = Nil

\* A startup ends, applied or rolled back, as long as its game stays attached
\* and nobody stops the session (advanceStartup, advanceRollback).
StartupConcludes == <>[]attached => <>(applied \/ (failed /\ rollback = Nil) \/ Stopping)
=============================================================================
