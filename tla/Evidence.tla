-------------------------------- MODULE Evidence --------------------------------
(***************************************************************************)
(* What this device knows of whether a table works: the tables the player   *)
(* marked as not working (`table_blocklist.py`), the positive evidence that *)
(* one worked (`table_compatibility.py`), and how `service.py` earns that   *)
(* evidence from a running session: from a startup that switched a cheat    *)
(* on, or from a cheat the player switched on, read back, and confirmed.    *)
(*                                                                         *)
(* One game and one of its cheats.  The proof spans several calls, answers  *)
(* of a bridge that runs them later, and polls that see only the latest     *)
(* answer; a mark may come at any moment in between.                        *)
(***************************************************************************)
EXTENDS Naturals, Sequences, FiniteSets

CONSTANTS
    Tables, Rows, None,
    MaxMarks,     \* MAX_BLOCKED_TABLES
    MaxEpochs,    \* failure epochs one file holds, 4096
    MaxTokens,    \* bound: failure epochs issued
    MaxSessions,  \* bound: sessions prepared
    MaxCommands   \* bound: commands written in all sessions

ASSUME EvidenceAssumption ==
    /\ {MaxMarks, MaxEpochs, MaxTokens, MaxSessions, MaxCommands} \subseteq Nat \ {0}
    /\ None \notin Tables \cup Rows /\ Tables \cap Rows = {}

VARIABLES
    marks,      \* the blocklist: the cause each key is marked with
    listed,     \* the blocklist can be read
    dated,      \* failure_epochs: the tables whose failure has an epoch of its own
    floor,      \* failure_floor: the epoch of every other table
    tokens,     \* how many epochs have been issued, each a fresh one
    evidence,   \* the compatibility entry of each table
    selected,   \* the table the profile selects
    session,    \* the prepared session
    connected,  \* its bridge answers
    startup,    \* how its startup went
    queue,      \* commands written and not yet run
    result,     \* the latest result for the record
    generation, \* the last generation written
    active,     \* the cheat is on in the game
    written,    \* how many commands were written in all sessions
    proof,      \* _compatibility_pending
    starting,   \* _startup_compatibility_pending
    failures,   \* ghost: how often each table was marked as not working
    wanted,     \* ghost: the player last switched the cheat on
    seen        \* ghost: a query found it on since it was last switched

blocklist == <<marks, listed, dated, floor, tokens>>
bridge == <<session, connected, startup, queue, result, generation, active, written>>
memory == <<proof, starting>>
vars == <<blocklist, evidence, selected, bridge, memory, failures, wanted, seen>>

Keys == Tables \cup Rows
Failing == "refused"
Epochs == 0..MaxTokens
Entries == [epoch : Epochs, invalidated : BOOLEAN, by : {"startup", "player"}, at : Nat]
Proofs == [session : 1..MaxSessions, activation : 1..MaxCommands, acknowledged : BOOLEAN,
           query : 0..MaxCommands, verified : BOOLEAN, at : Nat]

Sessions == [id : 1..MaxSessions, table : Tables]
ASSUME NoneIsNoSession == None \notin Sessions

TypeOK ==
    /\ marks \in [Keys -> {None, Failing, "unusable", "gone"}]
    /\ Cardinality({k \in Keys : marks[k] # None}) <= MaxMarks
    /\ listed \in BOOLEAN /\ tokens \in Epochs /\ floor \in Epochs
    /\ \A t \in DOMAIN dated : t \in Tables /\ dated[t] \in Epochs
    /\ Cardinality(DOMAIN dated) <= MaxEpochs
    /\ \A t \in Tables : evidence[t] = None \/ evidence[t] \in Entries
    /\ selected \in Tables
    /\ session = None \/ session \in Sessions
    /\ proof = None \/ proof \in Proofs
    /\ generation \in 0..MaxCommands

-----------------------------------------------------------------------------
(* The blocklist.                                                           *)

NoDates == [t \in {} |-> 0]
EpochOf(t) == IF t \in DOMAIN dated THEN dated[t] ELSE floor
IsFailing(t) == marks[t] = Failing
Marked == {k \in Keys : marks[k] # None}

\* _make_room: the list without the mark that gives way to k.  A table that did not work never does;
\* when nothing else is there, nothing can be added.
MakeRoom(k) ==
    IF k \in Marked \/ Cardinality(Marked) < MaxMarks THEN {marks}
    ELSE {[marks EXCEPT ![o] = None] : o \in {o \in Marked : marks[o] # Failing}}

\* _save: each failure in `failed` gets an epoch of its own.  A full file lets go of one that was not
\* written now, and a new floor then dates every table that has none.  (The new floor and the new
\* epochs of one write differ; no table can have had the one and get the other, so one number does.)
Dates(failed, reset) ==
    LET kept == IF reset THEN NoDates ELSE dated
        all == (DOMAIN kept) \cup failed
        fresh == tokens + 1
        full == Cardinality(all) > MaxEpochs
        afresh == reset \/ full
    IN \E gone \in SUBSET (all \ failed) :
         /\ Cardinality(all \ gone) <= MaxEpochs /\ (gone = {} \/ full)
         /\ dated' = [t \in all \ gone |-> IF t \in failed THEN fresh ELSE kept[t]]
         /\ floor' = IF afresh THEN fresh ELSE floor
         /\ tokens' = IF afresh \/ failed # {} THEN fresh ELSE tokens
         /\ tokens' <= MaxTokens

NotOfTheList == UNCHANGED <<evidence, selected, bridge, memory, wanted, seen>>

\* block_table.  Proofs under way are dropped and the evidence invalidated before the list is written;
\* the evidence file or the list may refuse.
BlockTable(t) ==
    /\ proof' = None /\ starting' = None
    /\ \E invalidates \in BOOLEAN :
         evidence' = IF invalidates /\ evidence[t] # None
                     THEN [evidence EXCEPT ![t].invalidated = TRUE] ELSE evidence
    /\ \/ UNCHANGED <<blocklist, failures>>
       \/ /\ listed /\ \E room \in MakeRoom(t) : marks' = [room EXCEPT ![t] = Failing]
          /\ Dates({t}, FALSE) /\ UNCHANGED listed
          /\ failures' = [failures EXCEPT ![t] = @ + 1]
    /\ UNCHANGED <<selected, bridge, wanted, seen>>

\* _record_unusable_table: bytes that are no table.  It does not take the place of a failure, which
\* keeps its cause and is dated again.
RecordUnusable(t) ==
    /\ listed
    /\ IF IsFailing(t) THEN UNCHANGED marks
       ELSE \E room \in MakeRoom(t) : marks' = [room EXCEPT ![t] = "unusable"]
    /\ Dates(IF IsFailing(t) THEN {t} ELSE {}, FALSE)
    /\ NotOfTheList /\ UNCHANGED <<listed, failures>>

\* block_missing_artifact: the provider says a row's file is gone.
BlockRow(r) ==
    /\ listed /\ \E room \in MakeRoom(r) : marks' = [room EXCEPT ![r] = "gone"]
    /\ Dates({}, FALSE)
    /\ NotOfTheList /\ UNCHANGED <<listed, failures>>

\* unblock: a failure that is cleared is dated again, so what was proved before it stays unproved.
Unblock(k) ==
    /\ listed /\ k \in Marked
    /\ marks' = [marks EXCEPT ![k] = None]
    /\ Dates({k} \cap {t \in Tables : IsFailing(t)}, FALSE)
    /\ NotOfTheList /\ UNCHANGED <<listed, failures>>

\* clear: a list that cannot be read is replaced, and then nothing proved before counts.
Clear ==
    /\ marks' = [k \in Keys |-> None] /\ listed' = TRUE
    /\ Dates(IF listed THEN {t \in Tables : IsFailing(t)} ELSE {}, ~listed)
    /\ NotOfTheList /\ UNCHANGED failures

ListDamaged ==
    /\ listed /\ listed' = FALSE
    /\ NotOfTheList /\ UNCHANGED <<marks, dated, floor, tokens, failures>>

-----------------------------------------------------------------------------
(* The evidence.                                                            *)

\* Mutant of Stands: evidence is what it was when it was earned.
StandsAsEarned(e, t) == ~e.invalidated
\* _compatibility_snapshot and compatibility_state: evidence of another epoch needs a retest, and so
\* does all of it while the list cannot be read.  (A game that was updated since asks for a retest
\* too, which takes away from what stands and adds nothing to it.)
Stands(e, t) == ~e.invalidated /\ listed /\ e.epoch = EpochOf(t)

\* TableCompatibility.record
Earned(t, epoch, by, at) ==
    [evidence EXCEPT ![t] = [epoch |-> epoch, invalidated |-> FALSE, by |-> by, at |-> at]]

SessionCurrent == session # None /\ session.table = selected

\* _observe_startup_compatibility.  `unreadable` failure epochs leave everything as it is.
StartupProves ==
    /\ starting # None /\ session # None /\ starting.session = session.id
    /\ connected /\ startup = "proved" /\ listed
    /\ EpochOf(starting.table) = starting.epoch /\ ~IsFailing(starting.table)
    /\ selected = starting.table
StartupWaits ==
    /\ starting # None /\ session # None /\ starting.session = session.id
    /\ ~connected \/ startup = "pending" \/ (startup = "proved" /\ ~listed)
ObserveStartup ==
    /\ starting' = IF StartupWaits THEN starting ELSE None
    /\ evidence' = IF StartupProves
                   THEN Earned(starting.table, starting.epoch, "startup", starting.at)
                   ELSE evidence

\* Mutant of ObserveProof: an answer to any command about the record will do.
ObserveAnyAnswer ==
    IF proof = None \/ session = None \/ result = None THEN proof
    ELSE [proof EXCEPT !.acknowledged = TRUE, !.verified = result.good]
\* _observe_compatibility: the activation has to be acknowledged, and a query written after it has to
\* find the cheat still on.
ObserveProof ==
    IF proof = None THEN None
    ELSE IF ~SessionCurrent \/ proof.session # session.id THEN None
    ELSE IF ~connected \/ result = None THEN proof
    ELSE IF result.generation = proof.activation
         THEN IF result.good THEN [proof EXCEPT !.acknowledged = TRUE] ELSE None
    ELSE IF proof.acknowledged /\ result.generation = proof.query
         THEN IF result.good THEN [proof EXCEPT !.verified = TRUE] ELSE None
    ELSE proof

\* get_runtime_status
Poll ==
    /\ ObserveStartup
    /\ proof' = ObserveProof
    /\ UNCHANGED <<blocklist, selected, bridge, failures, wanted, seen>>

\* confirm_table_working looks at the runtime once more before it believes the proof.
Confirm ==
    /\ ~StartupProves
    /\ listed /\ connected /\ SessionCurrent
    /\ ObserveProof # None /\ ObserveProof.verified /\ ~IsFailing(session.table)
    /\ evidence' = Earned(session.table, EpochOf(session.table), "player", proof.at)
    /\ proof' = None /\ starting' = IF StartupWaits THEN starting ELSE None
    /\ UNCHANGED <<blocklist, selected, bridge, failures, wanted, seen>>

-----------------------------------------------------------------------------
(* The session the evidence comes from.                                     *)

\* _assert_selectable, as save_profile asks it
Select(t) ==
    /\ ~connected /\ t # selected
    /\ listed => ~IsFailing(t)
    /\ selected' = t
    /\ UNCHANGED <<blocklist, evidence, bridge, memory, failures, wanted, seen>>

\* prepare_session, and Cheat Engine started on it.  `leaves`: its startup switches a cheat on that
\* can be read back.
PrepareSession == \E leaves \in BOOLEAN :
    LET id == IF session = None THEN 1 ELSE session.id + 1
    IN /\ ~connected /\ id <= MaxSessions
       /\ session' = [id |-> id, table |-> selected] /\ connected' = TRUE
       /\ startup' = "pending" /\ queue' = << >> /\ result' = None
       /\ generation' = 0 /\ active' = FALSE
       /\ starting' = IF leaves /\ listed
                      THEN [session |-> id, table |-> selected, epoch |-> EpochOf(selected),
                            at |-> failures[selected]]
                      ELSE None
       /\ wanted' = FALSE /\ seen' = FALSE
       /\ UNCHANGED <<blocklist, evidence, selected, written, proof, failures>>

\* What write_runtime_commands makes of the proof under way.
Tracked(kind, g) ==
    LET ours == IF proof # None /\ proof.session = session.id THEN proof ELSE None
    IN CASE kind = "on" -> [session |-> session.id, activation |-> g, acknowledged |-> FALSE,
                            query |-> 0, verified |-> FALSE, at |-> failures[session.table]]
         [] kind = "off" -> None
         [] OTHER -> IF ours = None THEN None ELSE [ours EXCEPT !.query = g, !.verified = FALSE]

WriteCommand(kind) ==
    /\ SessionCurrent /\ connected /\ written < MaxCommands
    /\ generation' = generation + 1 /\ written' = written + 1
    /\ queue' = Append(queue, [kind |-> kind, generation |-> generation'])
    /\ proof' = Tracked(kind, generation')
    /\ wanted' = IF kind = "query" THEN wanted ELSE kind = "on"
    /\ UNCHANGED <<blocklist, evidence, selected, session, connected, startup, result,
                   active, starting, failures, seen>>

\* The bridge runs a command.  An activation may fail, and a cheat may have gone off by itself when a
\* query comes to it.
BridgeRuns ==
    /\ connected /\ queue # << >>
    /\ \E works \in IF Head(queue).kind = "off" THEN {FALSE} ELSE BOOLEAN :
         LET kind == Head(queue).kind
             on == works /\ (kind = "query" => active)
         IN /\ active' = on
            /\ result' = [generation |-> Head(queue).generation, good |-> on]
            /\ seen' = (kind = "query" /\ on)
    /\ queue' = Tail(queue)
    /\ UNCHANGED <<blocklist, evidence, selected, session, connected, startup, generation,
                   written, memory, failures, wanted>>
StartupEnds ==
    /\ connected /\ startup = "pending"
    /\ startup' \in {"proved", "failed"}
    /\ UNCHANGED <<blocklist, evidence, selected, session, connected, queue, result,
                   generation, active, written, memory, failures, wanted, seen>>
\* Nothing reads the status of a session whose bridge is silent.
SessionEnds ==
    /\ connected /\ connected' = FALSE
    /\ queue' = << >> /\ result' = None /\ generation' = 0 /\ startup' = "pending"
    /\ active' = FALSE /\ wanted' = FALSE /\ seen' = FALSE
    /\ UNCHANGED <<blocklist, evidence, selected, session, written, memory, failures>>
Restart ==
    /\ proof' = None /\ starting' = None
    /\ UNCHANGED <<blocklist, evidence, selected, bridge, failures, wanted, seen>>

Init ==
    /\ marks = [k \in Keys |-> None] /\ listed = TRUE
    /\ dated = NoDates /\ floor = 0 /\ tokens = 0
    /\ evidence = [t \in Tables |-> None]
    /\ selected \in Tables
    /\ session = None /\ connected = FALSE /\ startup = "pending"
    /\ queue = << >> /\ result = None /\ generation = 0 /\ active = FALSE /\ written = 0
    /\ proof = None /\ starting = None
    /\ failures = [t \in Tables |-> 0]
    /\ wanted = FALSE /\ seen = FALSE

Next ==
    \/ \E t \in Tables : BlockTable(t) \/ Select(t) \/ RecordUnusable(t)
    \/ \E r \in Rows : BlockRow(r)
    \/ \E k \in Keys : Unblock(k)
    \/ Clear \/ ListDamaged
    \/ Poll \/ Confirm \/ PrepareSession
    \/ \E kind \in {"on", "off", "query"} : WriteCommand(kind)
    \/ BridgeRuns \/ StartupEnds \/ SessionEnds \/ Restart

Spec == Init /\ [][Next]_vars

-----------------------------------------------------------------------------
(* Evidence speaks for a table only if what earned it began after the last  *)
(* time the table was marked as not working: neither clearing the mark, nor *)
(* losing the list, nor a full list brings an older success back.           *)
EvidenceIsFresh == \A t \in Tables :
    evidence[t] # None /\ Stands(evidence[t], t) => evidence[t].at = failures[t]

(* What the player confirms was on: the cheat was last switched on, and a   *)
(* query that ran after that found it on.                                   *)
ConfirmedWasOn == [][
    \A t \in Tables :
        /\ evidence'[t] # evidence[t] /\ evidence'[t] # None
        /\ evidence'[t].by = "player" /\ ~evidence'[t].invalidated
        => wanted /\ seen]_vars
================================================================================
