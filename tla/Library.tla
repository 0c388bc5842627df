-------------------------------- MODULE Library --------------------------------
(***************************************************************************)
(* The tables on this device and what each game does with them: the blob    *)
(* store of `table_store.py`, the profiles of `profiles.py`, the current    *)
(* session of `session_protocol.py`, and the calls of `service.py` that     *)
(* change them.  Every call runs under `_mutation_lock`, so a call is one   *)
(* step; a launch is two, because it lets go of the lock between reserving  *)
(* its session and forking Cheat Engine, and any other call may run there.  *)
(***************************************************************************)
EXTENDS Naturals, FiniteSets, TLC

CONSTANTS
    Apps, Tables, None,
    Targets,     \* the programs a profile may name
    MaxHistory,  \* _MAX_HISTORY_TABLES: tables put away in one profile
    MaxLibrary,  \* _MAX_TABLE_LIBRARY: tables one profile knows
    MaxDamage,   \* bound: what goes wrong outside: damaged files, failed or interrupted writes
    MidLaunch    \* BOOLEAN: the profiles may be repaired after a launch has last looked at them

ASSUME LibraryAssumption ==
    /\ None \notin Apps \cup Tables \cup Targets
    /\ MaxHistory \in Nat \ {0} /\ MaxLibrary \in Nat /\ MaxLibrary > MaxHistory
    /\ MaxDamage \in Nat /\ {MidLaunch} \subseteq BOOLEAN

VARIABLES
    blob,        \* sha256/<digest>/table.CT: "none", "good", or "bad" when something outside changed it
    meta,        \* metadata/<digest>.json: "none", "listed", or "lost" to something outside
    profiles,    \* the profile of each game
    readable,    \* profiles.json can be read
    session,     \* the session current.json names
    pointer,     \* it can be read
    reserved,    \* _launch_reservations, and whether the launch has been authorized again
    run,         \* the Cheat Engine that runs a session's table, and whether CE Decky still owns it
    chosen,      \* ghost: the settings the player chose for each table a profile keeps
    agreed,      \* ghost: the tables the player agreed to run in each game
    damage

store == <<blob, meta>>
files == <<profiles, readable, session, pointer>>
ghosts == <<chosen, agreed>>
vars == <<store, files, reserved, run, ghosts, damage>>

Settings == {0, 1}   \* startup, pinned, remembered and configured values: none of them, or some
Kept == [settings : Settings, consent : BOOLEAN]
Profiles == [shortcut : BOOLEAN, target : Targets \cup {None}, table : Tables \cup {None},
             consent : Tables \cup {None}, settings : Settings, autoload : BOOLEAN,
             previous : Tables \cup {None}, history : UNION {[S -> Kept] : S \in SUBSET Tables},
             library : SUBSET Tables]
Sessions == [table : Tables, shortcut : BOOLEAN, target : Targets]
Reservations == [session : Sessions, checked : BOOLEAN]
Runs == [table : Tables, owned : BOOLEAN]

ASSUME NoneIsNoRecord == None \notin Profiles \cup Sessions \cup Reservations \cup Runs

TypeOK ==
    /\ blob \in [Tables -> {"none", "good", "bad"}] /\ meta \in [Tables -> {"none", "listed", "lost"}]
    /\ profiles \in [Apps -> {None} \cup Profiles] /\ readable \in BOOLEAN
    /\ session \in [Apps -> {None} \cup Sessions] /\ pointer \in [Apps -> BOOLEAN]
    /\ reserved \in [Apps -> {None} \cup Reservations]
    /\ run \in [Apps -> {None} \cup Runs]
    /\ chosen \in [Apps -> [Tables -> Settings]] /\ agreed \in [Apps -> SUBSET Tables]
    /\ damage \in 0..MaxDamage

-----------------------------------------------------------------------------
(* One profile.                                                             *)

Blank == [settings |-> 0, consent |-> FALSE]
NoHistory == [t \in {} |-> Blank]
With(h, t, kept) == [u \in DOMAIN h \cup {t} |-> IF u = t THEN kept ELSE h[u]]
Without(h, S) == [t \in DOMAIN h \ S |-> h[t]]
\* A bound is kept by giving up one entry that nothing needs; which one is the oldest.
Histories(h, keep) ==
    IF Cardinality(DOMAIN h) <= MaxHistory THEN {h} ELSE {Without(h, {t}) : t \in DOMAIN h \ {keep}}
Libraries(lib, needed) ==
    IF Cardinality(lib) <= MaxLibrary THEN {lib} ELSE {lib \ {t} : t \in lib \ needed}
Needed(p) == ({p.table, p.previous} \cup DOMAIN p.history) \ {None}

InUse(p) == [settings |-> p.settings, consent |-> p.consent = p.table]
PutAway(p) == IF p.table = None THEN p.history ELSE With(p.history, p.table, InUse(p))

\* Mutant of Upsert: the table goes into use with the settings of the one before it.
UpsertCarries(p, shortcut, table, target) ==
    {[shortcut |-> shortcut, target |-> target, table |-> table, consent |-> None,
      settings |-> IF p = None THEN 0 ELSE p.settings, autoload |-> p # None /\ p.autoload,
      previous |-> None, history |-> NoHistory, library |-> {table} \ {None}]}

\* ProfileStore.upsert: the table in use is put away with its settings, and the one that takes its
\* place comes back with its own.  A change of identity starts over.
Fresh(shortcut) ==
    [shortcut |-> shortcut, target |-> None, table |-> None, consent |-> None, settings |-> 0,
     autoload |-> FALSE, previous |-> None, history |-> NoHistory, library |-> {}]
Continued(p, shortcut) == IF p # None /\ p.shortcut = shortcut THEN p ELSE Fresh(shortcut)
Found(b, table) == IF table \in DOMAIN PutAway(b) THEN PutAway(b)[table] ELSE Blank
Left(b, table) == Without(PutAway(b), {table})
Before(b, table) ==
    LET before == IF b.table \in {None, table} THEN b.previous ELSE b.table
    IN IF before = table THEN None ELSE before
Switched(b, table, target, h, lib) ==
    [shortcut |-> b.shortcut, target |-> target, table |-> table,
     consent |-> IF Found(b, table).consent THEN table ELSE None,
     settings |-> Found(b, table).settings, autoload |-> b.autoload,
     previous |-> Before(b, table), history |-> h, library |-> lib]
Upsert(p, shortcut, table, target) ==
    LET b == Continued(p, shortcut)
        known == b.library \cup ({table} \ {None}) \cup DOMAIN Left(b, table)
    IN UNION {{Switched(b, table, target, h, lib)
               : lib \in Libraries(known, ({table, Before(b, table)} \cup DOMAIN h) \ {None})}
              : h \in Histories(Left(b, table), Before(b, table))}

\* ProfileStore.revoke_table: the table goes out of use with its consent withdrawn.
Revoked(p, t) ==
    {[p EXCEPT !.consent = None, !.autoload = FALSE, !.table = None, !.previous = t,
               !.settings = 0, !.history = h]
     : h \in Histories(With(p.history, t, [InUse(p) EXCEPT !.consent = FALSE]), t)}

-----------------------------------------------------------------------------
(* What the calls ask before they change anything.                          *)

Profile(a) == profiles[a]
Selected(a, t) == readable /\ Profile(a) # None /\ Profile(a).table = t
Verified(t) == blob[t] = "good"            \* verified_blob reads the bytes again each time

\* _assert_no_run_transition and _assert_no_live_owned_launch
Owned(a) == run[a] # None /\ run[a].owned
Idle(a) == reserved[a] = None /\ ~Owned(a)
NothingOwned == \A a \in Apps : ~Owned(a)

\* load_current: a pointer that cannot be read refuses the call.
CurrentReads(a) == pointer[a]
\* _assert_session_replacement_safe, _bridge_blocks_session_change: a resident bridge whose heartbeat
\* is still fresh refuses the call.  One that runs unowned and has gone silent does not, so nothing
\* more is certain of a game than that no owned Cheat Engine runs in it.
Replaceable(a) == CurrentReads(a) /\ ~Owned(a)

\* _session_stale_reason
Stale(a, s) ==
    \/ ~readable \/ Profile(a) = None
    \/ LET p == Profile(a)
       IN \/ p.shortcut # s.shortcut \/ p.target # s.target
          \/ p.table # s.table \/ p.consent # s.table

Init ==
    /\ blob = [t \in Tables |-> "none"] /\ meta = [t \in Tables |-> "none"]
    /\ profiles = [a \in Apps |-> None] /\ readable = TRUE
    /\ session = [a \in Apps |-> None] /\ pointer = [a \in Apps |-> TRUE]
    /\ reserved = [a \in Apps |-> None] /\ run = [a \in Apps |-> None]
    /\ chosen = [a \in Apps |-> [t \in Tables |-> 0]] /\ agreed = [a \in Apps |-> {}]
    /\ damage = 0

Breaks == IF damage < MaxDamage THEN BOOLEAN ELSE {FALSE}
Broke(b) == damage' = IF b THEN damage + 1 ELSE damage

-----------------------------------------------------------------------------
(* The store.                                                               *)

\* Mutant of Promote: the bytes are put in place before the metadata that lists them.
PromoteBlobFirst(t, torn) ==
    /\ blob' = [blob EXCEPT ![t] = "good"]
    /\ meta' = [meta EXCEPT ![t] = IF torn THEN @ ELSE "listed"]
    /\ Broke(torn)
\* _validate_and_promote: the metadata is written, then the blob put in place; either may be the last
\* thing that happens.
Promote(t, torn) ==
    /\ meta' = [meta EXCEPT ![t] = "listed"]
    /\ blob' = [blob EXCEPT ![t] = IF torn THEN @ ELSE "good"]
    /\ Broke(torn)

Elsewhere == UNCHANGED <<files, reserved, run, ghosts>>

\* import_selection, from a file or out of an archive
ImportTable(t) == \E torn \in Breaks : Promote(t, torn) /\ Elsewhere
\* import_repaired_table: the copy differs from the table it was made from, which is verified.
ImportRepaired(t, u) == \E torn \in Breaks : Verified(t) /\ u # t /\ Promote(u, torn) /\ Elsewhere
\* prepare_table_copy reads its table before it takes the lock: by the time the copy is stored, that
\* table may be gone.
StoreCopy(t, u) == \E torn \in Breaks : u # t /\ Promote(u, torn) /\ Elsewhere

InUseSomewhere(t) == \E a \in Apps : Profile(a) # None /\ Profile(a).table = t

\* delete_table: the bytes go first, then the metadata.
DeleteTable(t) == \E torn \in Breaks :
    /\ readable /\ ~InUseSomewhere(t)
    /\ meta[t] = "listed"
    /\ blob' = [blob EXCEPT ![t] = "none"]
    /\ meta' = [meta EXCEPT ![t] = IF torn THEN @ ELSE "none"]
    /\ Broke(torn) /\ Elsewhere

-----------------------------------------------------------------------------
(* The profiles.                                                            *)

NoStoreChange == UNCHANGED <<store, run, damage>>
Saved(a, q) == profiles' = [profiles EXCEPT ![a] = q]
KeptBy(q) == ({q.table} \ {None}) \cup DOMAIN q.history
Forgets(a, kept) == chosen' = [chosen EXCEPT ![a] = [t \in Tables |-> IF t \in kept THEN @[t] ELSE 0]]

SaveProfile(a, shortcut, table, target) ==
    /\ readable
    /\ LET p == Profile(a)
           same == p # None /\ p.shortcut = shortcut
       IN /\ p # None /\ ~(same /\ p.table = table /\ p.target = target) => Idle(a)
          /\ table # None => Verified(table)
          /\ \E q \in Upsert(p, shortcut, table, target) :
               Saved(a, q) /\ Forgets(a, IF same THEN KeptBy(q) ELSE {})
          /\ agreed' = IF same THEN agreed ELSE [agreed EXCEPT ![a] = {}]
    /\ NoStoreChange /\ UNCHANGED <<readable, session, pointer, reserved>>

DeleteProfile(a) ==
    /\ readable /\ Profile(a) # None
    /\ Idle(a) /\ CurrentReads(a) /\ session[a] = None
    /\ Saved(a, None) /\ Forgets(a, {}) /\ agreed' = [agreed EXCEPT ![a] = {}]
    /\ NoStoreChange /\ UNCHANGED <<readable, session, pointer, reserved>>

\* Mutant of SetExecutionConsent: consent is withdrawn under a running Cheat Engine.
SetConsentAnytime(a, t, consent) ==
    /\ Selected(a, t) /\ (consent => Verified(t))
    /\ Saved(a, [Profile(a) EXCEPT !.consent = IF consent THEN t ELSE None])
    /\ agreed' = [agreed EXCEPT ![a] = IF consent THEN @ \cup {t} ELSE @ \ {t}]
    /\ NoStoreChange /\ UNCHANGED <<readable, session, pointer, reserved, chosen>>
SetExecutionConsent(a, t, consent) ==
    /\ Selected(a, t)
    /\ ~(consent /\ Profile(a).consent = t) => Idle(a)
    /\ consent => Verified(t)
    /\ Saved(a, [Profile(a) EXCEPT !.consent = IF consent THEN t ELSE None])
    /\ agreed' = [agreed EXCEPT ![a] = IF consent THEN @ \cup {t} ELSE @ \ {t}]
    /\ NoStoreChange /\ UNCHANGED <<readable, session, pointer, reserved, chosen>>

\* revoke_table retires the session first.  A table that is out of use and was never revoked is
\* refused only after that.
RevokeTable(a, t) ==
    /\ readable /\ Profile(a) # None /\ Profile(a).table \in {None, t}
    /\ Idle(a) /\ CurrentReads(a)
    /\ session[a] # None => session[a].table = t
    /\ session' = [session EXCEPT ![a] = None]
    /\ IF Profile(a).table = t
       THEN /\ \E q \in Revoked(Profile(a), t) : Saved(a, q) /\ Forgets(a, KeptBy(q))
            /\ agreed' = [agreed EXCEPT ![a] = @ \ {t}]
       ELSE UNCHANGED <<profiles, ghosts>>
    /\ NoStoreChange /\ UNCHANGED <<readable, pointer, reserved>>

\* ProfileStore.set_startup, set_pinned, clear_startup and clear_pinned
WithSettings(p, settings) == [p EXCEPT !.settings = settings]
Prefers(a, t, settings) ==
    /\ Selected(a, t) /\ Verified(t)
    /\ Saved(a, WithSettings(Profile(a), settings))
    /\ chosen' = [chosen EXCEPT ![a][t] = settings]
    /\ NoStoreChange /\ UNCHANGED <<readable, session, pointer, reserved, agreed>>
SetStartup(a, t) == \E settings \in Settings : Prefers(a, t, settings)
\* set_remembered_cheats and set_configured_values: the selection the player applied.
SetRemembered(a, t) == Prefers(a, t, 1)

SetAutoload(a, t, enabled) ==
    /\ Selected(a, t) /\ (enabled => Verified(t))
    /\ Saved(a, [Profile(a) EXCEPT !.autoload = enabled])
    /\ NoStoreChange /\ UNCHANGED <<readable, session, pointer, reserved, ghosts>>

Associated(p, t) == {[p EXCEPT !.library = lib] : lib \in Libraries(p.library \cup {t}, Needed(p))}
AssociateTable(a, t) ==
    /\ readable /\ Profile(a) # None /\ Verified(t)
    /\ \E q \in Associated(Profile(a), t) : Saved(a, q)
    /\ NoStoreChange /\ UNCHANGED <<readable, session, pointer, reserved, ghosts>>

\* quarantine_corrupt_state: the unreadable file is set aside and an empty one takes its place.  It asks
\* for no owned Cheat Engine and not for a reservation, so with MidLaunch a table is started whose game
\* has just lost its profile.
RepairProfileState ==
    /\ ~readable /\ NothingOwned
    /\ MidLaunch \/ ~\E a \in Apps : reserved[a] # None /\ reserved[a].checked
    /\ readable' = TRUE /\ profiles' = [a \in Apps |-> None]
    /\ agreed' = [a \in Apps |-> {}] /\ chosen' = [a \in Apps |-> [t \in Tables |-> 0]]
    /\ NoStoreChange /\ UNCHANGED <<session, pointer, reserved>>

-----------------------------------------------------------------------------
(* Sessions and runs.                                                       *)

Agreed(a) ==
    LET p == Profile(a)
    IN readable /\ p # None /\ p.table # None /\ p.consent = p.table /\ p.target # None
\* The session of SessionStore.prepare; its pointer is the last thing written.
Prepared(a) == [table |-> Profile(a).table, shortcut |-> Profile(a).shortcut, target |-> Profile(a).target]

PrepareSession(a) ==
    /\ Idle(a) /\ Replaceable(a)
    /\ Agreed(a) /\ Verified(Profile(a).table)
    /\ session' = [session EXCEPT ![a] = Prepared(a)]
    /\ UNCHANGED <<store, profiles, readable, pointer, reserved, run, ghosts, damage>>

\* _attached_launch_inputs: the session a launch will run is prepared and reserved.
ReserveLaunch(a) ==
    /\ Idle(a) /\ Replaceable(a)
    /\ Agreed(a) /\ Verified(Profile(a).table)
    /\ session' = [session EXCEPT ![a] = Prepared(a)]
    /\ reserved' = [reserved EXCEPT ![a] = [session |-> Prepared(a), checked |-> FALSE]]
    /\ UNCHANGED <<store, profiles, readable, pointer, run, ghosts, damage>>

\* _revalidate_launch_reservation, before the launcher takes over
RevalidateLaunch(a) ==
    /\ reserved[a] # None /\ ~Owned(a)
    /\ CurrentReads(a) /\ session[a] = reserved[a].session
    /\ ~Stale(a, session[a])
    /\ reserved' = [reserved EXCEPT ![a].checked = TRUE]
    /\ UNCHANGED <<store, files, run, ghosts, damage>>

\* The gate at the fork itself: the session is still the one that was authorized.
SpawnGate(a) ==
    /\ reserved[a] # None /\ reserved[a].checked
    /\ CurrentReads(a) /\ session[a] = reserved[a].session
Launch(a) ==
    /\ SpawnGate(a)
    /\ run' = [run EXCEPT ![a] = [table |-> reserved[a].session.table, owned |-> TRUE]]
    /\ reserved' = [reserved EXCEPT ![a] = None]
    /\ UNCHANGED <<store, files, ghosts, damage>>
DropReservation(a) ==
    /\ reserved[a] # None
    /\ reserved' = [reserved EXCEPT ![a] = None]
    /\ UNCHANGED <<store, files, run, ghosts, damage>>

\* retire_session asks for no live Cheat Engine of CE Decky's own; it does not ask for a reservation.
RetireSession(a) ==
    /\ Replaceable(a) /\ session[a] # None
    /\ session' = [session EXCEPT ![a] = None]
    /\ UNCHANGED <<store, profiles, readable, pointer, reserved, run, ghosts, damage>>
RepairSessionState(a) ==
    /\ ~CurrentReads(a) /\ Idle(a) /\ NothingOwned
    /\ session' = [session EXCEPT ![a] = None] /\ pointer' = [pointer EXCEPT ![a] = TRUE]
    /\ UNCHANGED <<store, profiles, readable, reserved, run, ghosts, damage>>

-----------------------------------------------------------------------------
(* What happens outside.                                                    *)

CheatEngineEnds(a) ==
    /\ run[a] # None /\ run' = [run EXCEPT ![a] = None]
    /\ UNCHANGED <<store, files, reserved, ghosts, damage>>

\* Files are damaged, or Cheat Engine runs on with nobody to own it.
Damage ==
    /\ damage < MaxDamage /\ damage' = damage + 1
    /\ \/ /\ readable /\ readable' = FALSE /\ UNCHANGED <<store, profiles, session, pointer, run>>
       \/ \E a \in Apps :
            \/ /\ session[a] # None /\ pointer' = [pointer EXCEPT ![a] = FALSE]
               /\ UNCHANGED <<store, profiles, readable, session, run>>
            \/ /\ Owned(a) /\ run' = [run EXCEPT ![a].owned = FALSE]
               /\ UNCHANGED <<store, files>>
       \/ \E t \in Tables :
            /\ \/ /\ blob[t] = "good" /\ blob' = [blob EXCEPT ![t] = "bad"] /\ UNCHANGED meta
               \/ /\ meta[t] = "listed" /\ meta' = [meta EXCEPT ![t] = "lost"] /\ UNCHANGED blob
            /\ UNCHANGED <<files, run>>
    /\ UNCHANGED <<reserved, ghosts>>

\* The backend starts again: reservations are gone, and reconcile_orphan_blobs lists the tables whose
\* metadata is missing.
Restart ==
    /\ reserved' = [a \in Apps |-> None]
    /\ meta' = [t \in Tables |-> IF blob[t] = "good" THEN "listed" ELSE meta[t]]
    /\ UNCHANGED <<blob, files, run, ghosts, damage>>

Next ==
    \/ \E t \in Tables :
         \/ ImportTable(t) \/ DeleteTable(t)
         \/ \E u \in Tables : ImportRepaired(t, u) \/ StoreCopy(t, u)
    \/ \E a \in Apps :
         \/ DeleteProfile(a) \/ PrepareSession(a) \/ ReserveLaunch(a) \/ RevalidateLaunch(a) \/ Launch(a)
         \/ DropReservation(a) \/ RetireSession(a) \/ RepairSessionState(a) \/ CheatEngineEnds(a)
         \/ \E shortcut \in BOOLEAN, table \in Tables \cup {None}, target \in Targets \cup {None} :
              SaveProfile(a, shortcut, table, target)
         \/ \E t \in Tables :
              \/ RevokeTable(a, t) \/ AssociateTable(a, t)
              \/ SetStartup(a, t) \/ SetRemembered(a, t)
              \/ \E b \in BOOLEAN : SetExecutionConsent(a, t, b) \/ SetAutoload(a, t, b)
    \/ RepairProfileState \/ Damage \/ Restart

Spec == Init /\ [][Next]_vars

-----------------------------------------------------------------------------

(* A table comes back to a game with the settings the player chose for it   *)
(* there, whatever was used in between, and with no other table's.  The one *)
(* before the current one is never given up to the bound.                   *)
SettingsFollowTheTable == \A a \in Apps :
    LET p == Profile(a)
    IN p # None =>
        /\ p.table # None => p.settings = chosen[a][p.table]
        /\ \A t \in DOMAIN p.history : p.history[t].settings = chosen[a][t]
        /\ p.previous # None => p.previous \in DOMAIN p.history

(* Bytes nothing lists can be neither used nor deleted: a table's bytes are *)
(* never on the device without the metadata, wherever a call was cut short. *)
BlobsAreListed == \A t \in Tables : blob[t] # "none" => meta[t] # "none"

(* The library implements the promise: what runs is what the player agreed  *)
(* to for that game and that table, and no switch between tables, repair or *)
(* change of identity brings an agreement back that was withdrawn.          *)
Promise == INSTANCE Permit WITH
    running <- [a \in Apps |-> IF Owned(a) THEN run[a].table ELSE None]
KeepsThePromise == Promise!Spec
================================================================================
