----------------------------- MODULE LibraryProofs -----------------------------
(* Theorems about the library, for any games, tables and programs: whatever   *)
(* is imported, switched, revoked, repaired or damaged, the library keeps the *)
(* promise of Permit, as long as no repair runs between the last look of a    *)
(* launch at the profiles and its fork.                                       *)
EXTENDS Library, TLAPS

HistoryType == UNION {[S -> Kept] : S \in SUBSET Tables}

\* What a profile remembers is within what the player agreed to and chose, and the table in use is
\* not put away as well.
WithinAgreed(p, tables) ==
    /\ p.table \notin DOMAIN p.history
    /\ p.consent # None => p.consent \in tables /\ p.consent = p.table
    /\ \A t \in DOMAIN p.history : p.history[t].consent => t \in tables
AsChosen(p, choice) ==
    /\ p.table # None => p.settings = choice[p.table]
    /\ \A t \in DOMAIN p.history : p.history[t].settings = choice[t]
    /\ p.previous # None => p.previous \in DOMAIN p.history
    /\ \A t \in Tables \ KeptBy(p) : choice[t] = 0

ProfileInv == \A a \in Apps :
    /\ Profile(a) = None => agreed[a] = {}
    /\ Profile(a) # None => WithinAgreed(Profile(a), agreed[a])
RunInv == \A a \in Apps :
    /\ Owned(a) => run[a].table \in agreed[a]
    /\ reserved[a] # None => ~Owned(a)
    /\ reserved[a] # None /\ reserved[a].checked => reserved[a].session.table \in agreed[a]
ChoiceInv == \A a \in Apps : Profile(a) # None => AsChosen(Profile(a), chosen[a])

Inv == TypeOK /\ ProfileInv /\ RunInv

-----------------------------------------------------------------------------
(* What a profile puts away.                                                *)

LEMMA HistoryIs ==
    ASSUME NEW h
    PROVE  h \in HistoryType <=> /\ DOMAIN h \subseteq Tables
                                /\ h = [t \in DOMAIN h |-> h[t]]
                                /\ \A t \in DOMAIN h : h[t] \in Kept
  <1>1. ASSUME h \in HistoryType
        PROVE  DOMAIN h \subseteq Tables /\ h = [t \in DOMAIN h |-> h[t]] /\ \A t \in DOMAIN h : h[t] \in Kept
    <2>1. PICK S \in SUBSET Tables : h \in [S -> Kept]
      BY <1>1 DEF HistoryType
    <2>. QED BY <2>1
  <1>2. ASSUME DOMAIN h \subseteq Tables, h = [t \in DOMAIN h |-> h[t]], \A t \in DOMAIN h : h[t] \in Kept
        PROVE  h \in HistoryType
    <2>1. h \in [DOMAIN h -> Kept]
      BY <1>2
    <2>. QED BY <1>2, <2>1 DEF HistoryType
  <1>. QED BY <1>1, <1>2

LEMMA BlankIsKept == Blank \in Kept /\ Blank.settings = 0 /\ Blank.consent = FALSE
  BY DEF Blank, Kept, Settings

LEMMA NothingIsAHistory == NoHistory \in HistoryType /\ DOMAIN NoHistory = {}
  <1>1. DOMAIN NoHistory = {} /\ NoHistory = [t \in DOMAIN NoHistory |-> NoHistory[t]]
    BY DEF NoHistory
  <1>. QED BY <1>1, HistoryIs

LEMMA WithIs ==
    ASSUME NEW h \in HistoryType, NEW t \in Tables, NEW kept \in Kept
    PROVE  /\ With(h, t, kept) \in HistoryType
           /\ DOMAIN With(h, t, kept) = DOMAIN h \cup {t}
           /\ With(h, t, kept)[t] = kept
           /\ \A u \in DOMAIN h \ {t} : With(h, t, kept)[u] = h[u]
  <1>1. DOMAIN h \subseteq Tables /\ \A u \in DOMAIN h : h[u] \in Kept
    BY HistoryIs
  <1>. DEFINE g == With(h, t, kept)
  <1>2. /\ DOMAIN g = DOMAIN h \cup {t} /\ g[t] = kept
        /\ \A u \in DOMAIN h \ {t} : g[u] = h[u]
        /\ g = [u \in DOMAIN g |-> g[u]]
    BY DEF With
  <1>3. \A u \in DOMAIN g : g[u] \in Kept
    BY <1>1, <1>2
  <1>4. DOMAIN g \subseteq Tables
    BY <1>1, <1>2
  <1>. HIDE DEF g
  <1>5. g \in HistoryType
    BY <1>2, <1>3, <1>4, HistoryIs
  <1>. QED BY <1>2, <1>5 DEF g

LEMMA WithoutIs ==
    ASSUME NEW h \in HistoryType, NEW S
    PROVE  /\ Without(h, S) \in HistoryType
           /\ DOMAIN Without(h, S) = DOMAIN h \ S
           /\ \A u \in DOMAIN h \ S : Without(h, S)[u] = h[u]
  <1>1. DOMAIN h \subseteq Tables /\ \A u \in DOMAIN h : h[u] \in Kept
    BY HistoryIs
  <1>. DEFINE g == Without(h, S)
  <1>2. /\ DOMAIN g = DOMAIN h \ S
        /\ \A u \in DOMAIN h \ S : g[u] = h[u]
        /\ g = [u \in DOMAIN g |-> g[u]]
    BY DEF Without
  <1>3. DOMAIN g \subseteq Tables /\ \A u \in DOMAIN g : g[u] \in Kept
    BY <1>1, <1>2
  <1>. HIDE DEF g
  <1>4. g \in HistoryType
    BY <1>2, <1>3, HistoryIs
  <1>. QED BY <1>2, <1>4 DEF g

\* The bound gives up one entry, and never the one to keep.
LEMMA BoundIs ==
    ASSUME NEW h \in HistoryType, NEW keep, NEW g \in Histories(h, keep)
    PROVE  /\ g \in HistoryType /\ DOMAIN g \subseteq DOMAIN h
           /\ \A t \in DOMAIN g : g[t] = h[t]
           /\ keep \in DOMAIN h => keep \in DOMAIN g
  <1>1. CASE g = h
    BY <1>1
  <1>2. CASE \E t \in DOMAIN h \ {keep} : g = Without(h, {t})
    <2>1. PICK t \in DOMAIN h \ {keep} : g = Without(h, {t})
      BY <1>2
    <2>2. /\ g \in HistoryType /\ DOMAIN g = DOMAIN h \ {t}
          /\ \A u \in DOMAIN h \ {t} : g[u] = h[u]
      BY <2>1, WithoutIs
    <2>. QED BY <2>1, <2>2
  <1>. QED BY <1>1, <1>2 DEF Histories

LEMMA LibraryBoundIs ==
    ASSUME NEW lib \in SUBSET Tables, NEW needed, NEW l \in Libraries(lib, needed)
    PROVE  l \in SUBSET Tables
  BY DEF Libraries

LEMMA InUseIs ==
    ASSUME NEW p \in Profiles
    PROVE  /\ InUse(p) \in Kept /\ InUse(p).settings = p.settings
           /\ InUse(p).consent <=> p.consent = p.table
  BY DEF InUse, Kept, Profiles

LEMMA PutAwayIs ==
    ASSUME NEW p \in Profiles
    PROVE  /\ PutAway(p) \in HistoryType /\ p.history \in HistoryType
           /\ DOMAIN PutAway(p) = DOMAIN p.history \cup ({p.table} \ {None})
           /\ p.table # None => PutAway(p)[p.table] = InUse(p)
           /\ \A t \in DOMAIN p.history \ {p.table} : PutAway(p)[t] = p.history[t]
  <1>1. p.history \in HistoryType /\ p.table \in Tables \cup {None}
    BY DEF Profiles, HistoryType
  <1>2. CASE p.table = None
    BY <1>1, <1>2 DEF PutAway
  <1>3. CASE p.table # None
    <2>1. p.table \in Tables /\ InUse(p) \in Kept
      BY <1>1, <1>3, InUseIs
    <2>2. PutAway(p) = With(p.history, p.table, InUse(p))
      BY <1>3 DEF PutAway
    <2>3. /\ PutAway(p) \in HistoryType /\ DOMAIN PutAway(p) = DOMAIN p.history \cup {p.table}
          /\ PutAway(p)[p.table] = InUse(p)
          /\ \A t \in DOMAIN p.history \ {p.table} : PutAway(p)[t] = p.history[t]
      BY <1>1, <2>1, <2>2, WithIs
    <2>. QED BY <1>1, <1>3, <2>3
  <1>. QED BY <1>2, <1>3

-----------------------------------------------------------------------------
(* What a change of the table in use leaves of a profile.                   *)

LEMMA FreshIs ==
    ASSUME NEW shortcut \in BOOLEAN
    PROVE  /\ Fresh(shortcut) \in Profiles
           /\ WithinAgreed(Fresh(shortcut), {})
           /\ AsChosen(Fresh(shortcut), [t \in Tables |-> 0])
  <1>1. NoHistory \in HistoryType /\ DOMAIN NoHistory = {}
    BY NothingIsAHistory
  <1>2. Fresh(shortcut) \in Profiles
    BY <1>1 DEF Fresh, Profiles, Settings, HistoryType
  <1>. QED BY <1>1, <1>2 DEF Fresh, WithinAgreed, AsChosen

LEMMA SwitchIs ==
    ASSUME NEW p \in {None} \cup Profiles, NEW shortcut \in BOOLEAN, NEW table \in Tables \cup {None},
           NEW target \in Targets \cup {None}, NEW q \in Upsert(p, shortcut, table, target)
    PROVE  LET b == Continued(p, shortcut)
           IN /\ b \in Profiles /\ q \in Profiles
              /\ q.table = table /\ q.previous = Before(b, table)
              /\ q.consent = (IF Found(b, table).consent THEN table ELSE None)
              /\ q.settings = Found(b, table).settings
              /\ \A t \in DOMAIN q.history : /\ t \in DOMAIN PutAway(b) \ {table}
                                           /\ q.history[t] = PutAway(b)[t]
              /\ Before(b, table) \in DOMAIN PutAway(b) \ {table} => Before(b, table) \in DOMAIN q.history
  <1>. DEFINE b == Continued(p, shortcut)
              known == b.library \cup ({table} \ {None}) \cup DOMAIN Left(b, table)
              needed(h) == ({table, Before(b, table)} \cup DOMAIN h) \ {None}
  <1>1. b \in Profiles
    BY FreshIs DEF Continued
  <1>2. PICK h \in Histories(Left(b, table), Before(b, table)) :
            \E lib \in Libraries(known, needed(h)) : q = Switched(b, table, target, h, lib)
    BY DEF Upsert
  <1>. HIDE DEF b
  <1>3. PutAway(b) \in HistoryType
    BY <1>1, PutAwayIs
  <1>4. /\ Left(b, table) \in HistoryType /\ DOMAIN Left(b, table) = DOMAIN PutAway(b) \ {table}
        /\ \A t \in DOMAIN Left(b, table) : Left(b, table)[t] = PutAway(b)[t]
    BY <1>3, WithoutIs DEF Left
  <1>5. /\ h \in HistoryType /\ DOMAIN h \subseteq DOMAIN PutAway(b) \ {table}
        /\ \A t \in DOMAIN h : h[t] = PutAway(b)[t]
        /\ Before(b, table) \in DOMAIN PutAway(b) \ {table} => Before(b, table) \in DOMAIN h
    BY <1>4, BoundIs
  <1>6. PICK lib \in SUBSET Tables : q = Switched(b, table, target, h, lib)
    <2>1. known \in SUBSET Tables
      BY <1>1, <1>4, HistoryIs DEF Profiles
    <2>. QED BY <1>2, <2>1, LibraryBoundIs
  <1>7. Found(b, table) \in Kept
    BY <1>3, BlankIsKept, HistoryIs DEF Found
  <1>8. Before(b, table) \in Tables \cup {None}
    BY <1>1 DEF Before, Profiles
  <1>9. q \in Profiles
    BY <1>1, <1>5, <1>6, <1>7, <1>8 DEF Switched, Profiles, HistoryType, Kept
  <1>. QED BY <1>1, <1>5, <1>6, <1>9 DEF Switched, b

\* No switch brings back a word that was withdrawn.
LEMMA SwitchKeepsWithin ==
    ASSUME NEW p \in {None} \cup Profiles, NEW shortcut \in BOOLEAN, NEW table \in Tables \cup {None},
           NEW target \in Targets \cup {None}, NEW q \in Upsert(p, shortcut, table, target),
           NEW tables, WithinAgreed(Continued(p, shortcut), tables)
    PROVE  WithinAgreed(q, tables)
  <1>. DEFINE b == Continued(p, shortcut)
  <1>1. /\ b \in Profiles /\ q \in Profiles
        /\ q.table = table
        /\ q.consent = (IF Found(b, table).consent THEN table ELSE None)
        /\ \A t \in DOMAIN q.history : t \in DOMAIN PutAway(b) \ {table} /\ q.history[t] = PutAway(b)[t]
    BY SwitchIs
  <1>2. WithinAgreed(b, tables)
    OBVIOUS
  <1>. HIDE DEF b
  <1>3. ASSUME NEW t \in DOMAIN PutAway(b), PutAway(b)[t].consent
        PROVE  t \in tables
    <2>1. CASE t = b.table
      <3>1. InUse(b).consent /\ b.table # None
        BY <1>1, <1>3, <2>1, PutAwayIs, LibraryAssumption, HistoryIs
      <3>. QED BY <1>1, <1>2, <2>1, <3>1, InUseIs DEF WithinAgreed
    <2>2. CASE t # b.table
      <3>0. /\ DOMAIN PutAway(b) = DOMAIN b.history \cup ({b.table} \ {None})
            /\ \A u \in DOMAIN b.history \ {b.table} : PutAway(b)[u] = b.history[u]
        BY <1>1, PutAwayIs
      <3>1. t \in DOMAIN b.history /\ PutAway(b)[t] = b.history[t]
        BY <2>2, <3>0
      <3>. QED BY <1>2, <1>3, <3>1 DEF WithinAgreed
    <2>. QED BY <2>1, <2>2
  <1>4. q.consent # None => q.consent \in tables /\ q.consent = q.table
    BY <1>1, <1>3, BlankIsKept DEF Found
  <1>. QED BY <1>1, <1>3, <1>4 DEF WithinAgreed

\* A table comes back with the settings chosen for it, and with no other table's.
LEMMA SwitchKeepsChoice ==
    ASSUME NEW p \in {None} \cup Profiles, NEW shortcut \in BOOLEAN, NEW table \in Tables \cup {None},
           NEW target \in Targets \cup {None}, NEW q \in Upsert(p, shortcut, table, target),
           NEW choice \in [Tables -> Settings], AsChosen(Continued(p, shortcut), choice),
           Continued(p, shortcut).table \notin DOMAIN Continued(p, shortcut).history
    PROVE  AsChosen(q, [t \in Tables |-> IF t \in KeptBy(q) THEN choice[t] ELSE 0])
  <1>. DEFINE b == Continued(p, shortcut)
  <1>1. /\ b \in Profiles /\ q \in Profiles
        /\ q.table = table /\ q.previous = Before(b, table)
        /\ q.settings = Found(b, table).settings
        /\ \A t \in DOMAIN q.history : t \in DOMAIN PutAway(b) \ {table} /\ q.history[t] = PutAway(b)[t]
        /\ Before(b, table) \in DOMAIN PutAway(b) \ {table} => Before(b, table) \in DOMAIN q.history
    <2>1. q \in Profiles /\ q.table = table /\ b \in Profiles
      BY SwitchIs
    <2>2. q.previous = Before(b, table) /\ q.settings = Found(b, table).settings
      BY SwitchIs
    <2>3. \A t \in DOMAIN q.history : t \in DOMAIN PutAway(b) \ {table} /\ q.history[t] = PutAway(b)[t]
      BY SwitchIs
    <2>4. Before(b, table) \in DOMAIN PutAway(b) \ {table} => Before(b, table) \in DOMAIN q.history
      BY SwitchIs
    <2>. QED BY <2>1, <2>2, <2>3, <2>4
  <1>2. AsChosen(b, choice) /\ b.table \notin DOMAIN b.history
    OBVIOUS
  <1>. HIDE DEF b
  <1>. DEFINE kept == [t \in Tables |-> IF t \in KeptBy(q) THEN choice[t] ELSE 0]
  <1>3. b.table \in Tables \cup {None} /\ DOMAIN q.history \subseteq Tables
    BY <1>1, HistoryIs DEF Profiles, HistoryType
  <1>4. ASSUME NEW t \in DOMAIN PutAway(b)
        PROVE  PutAway(b)[t].settings = choice[t]
    <2>1. CASE t = b.table
      <3>1. b.table # None /\ PutAway(b)[t] = InUse(b)
        BY <1>1, <1>4, <2>1, PutAwayIs, LibraryAssumption, HistoryIs
      <3>. QED BY <1>1, <1>2, <2>1, <3>1, InUseIs DEF AsChosen
    <2>2. CASE t # b.table
      <3>0. /\ DOMAIN PutAway(b) = DOMAIN b.history \cup ({b.table} \ {None})
            /\ \A u \in DOMAIN b.history \ {b.table} : PutAway(b)[u] = b.history[u]
        BY <1>1, PutAwayIs
      <3>1. t \in DOMAIN b.history /\ PutAway(b)[t] = b.history[t]
        BY <2>2, <3>0
      <3>. QED BY <1>2, <3>1 DEF AsChosen
    <2>. QED BY <2>1, <2>2
  <1>5. \A t \in Tables \ DOMAIN PutAway(b) : choice[t] = 0
    BY <1>1, <1>2, PutAwayIs DEF AsChosen, KeptBy
  <1>6. q.table # None => q.settings = kept[q.table]
    <2>1. q.table # None => q.table \in KeptBy(q) /\ q.table \in Tables
      BY <1>1 DEF KeptBy
    <2>2. q.table # None => q.settings = choice[q.table]
      BY <1>1, <1>4, <1>5, <2>1, BlankIsKept DEF Found
    <2>. QED BY <2>1, <2>2
  <1>7. \A t \in DOMAIN q.history : q.history[t].settings = kept[t]
    BY <1>1, <1>3, <1>4 DEF KeptBy
  <1>8. q.previous # None => q.previous \in DOMAIN q.history
    <2>1. b.previous # None => b.previous \in DOMAIN b.history
      BY <1>2 DEF AsChosen
    <2>2. DOMAIN PutAway(b) = DOMAIN b.history \cup ({b.table} \ {None})
      BY <1>1, PutAwayIs
    <2>3. Before(b, table) # None => Before(b, table) \in DOMAIN PutAway(b) \ {table}
      BY <2>1, <2>2 DEF Before
    <2>. QED BY <1>1, <2>3
  <1>9. \A t \in Tables \ KeptBy(q) : kept[t] = 0
    OBVIOUS
  <1>. QED BY <1>6, <1>7, <1>8, <1>9 DEF AsChosen

\* What a withdrawn table leaves of a profile.
RevokedFrom(p, t, q) ==
    /\ q \in Profiles /\ q.table = None /\ q.consent = None /\ q.previous = t
    /\ t \in DOMAIN q.history
    /\ q.history[t].settings = p.settings /\ q.history[t].consent = FALSE
    /\ \A u \in DOMAIN q.history \ {t} : u \in DOMAIN p.history /\ q.history[u] = p.history[u]

LEMMA RevokedIs ==
    ASSUME NEW t \in Tables, NEW p \in Profiles, p.table = t, NEW q \in Revoked(p, t)
    PROVE  RevokedFrom(p, t, q)
  <1>. DEFINE gone == [InUse(p) EXCEPT !.consent = FALSE]
  <1>1. gone \in Kept /\ gone.settings = p.settings /\ gone.consent = FALSE
    BY InUseIs DEF Kept
  <1>. HIDE DEF gone
  <1>2. p.history \in HistoryType
    BY PutAwayIs
  <1>3. PICK h \in Histories(With(p.history, t, gone), t) :
            q = [p EXCEPT !.consent = None, !.autoload = FALSE, !.table = None, !.previous = t,
                          !.settings = 0, !.history = h]
    BY DEF Revoked, gone
  <1>4. /\ With(p.history, t, gone) \in HistoryType /\ With(p.history, t, gone)[t] = gone
        /\ DOMAIN With(p.history, t, gone) = DOMAIN p.history \cup {t}
        /\ \A u \in DOMAIN p.history \ {t} : With(p.history, t, gone)[u] = p.history[u]
    <2>1. PICK h0 \in HistoryType : h0 = p.history
      BY <1>2
    <2>2. /\ With(h0, t, gone) \in HistoryType /\ With(h0, t, gone)[t] = gone
          /\ DOMAIN With(h0, t, gone) = DOMAIN h0 \cup {t}
          /\ \A u \in DOMAIN h0 \ {t} : With(h0, t, gone)[u] = h0[u]
      BY <1>1, WithIs
    <2>. QED BY <2>1, <2>2
  <1>5. /\ h \in HistoryType /\ DOMAIN h \subseteq DOMAIN p.history \cup {t} /\ t \in DOMAIN h
        /\ h[t] = gone /\ \A u \in DOMAIN h \ {t} : h[u] = p.history[u]
    BY <1>4, BoundIs
  <1>6. q \in Profiles
    BY <1>3, <1>5 DEF Profiles, Settings, HistoryType
  <1>. QED BY <1>1, <1>3, <1>5, <1>6 DEF Profiles, RevokedFrom

-----------------------------------------------------------------------------
(* The invariant.                                                           *)

LEMMA InitInv == Init => Inv /\ ChoiceInv
  BY LibraryAssumption DEF Init, Inv, TypeOK, ProfileInv, RunInv, ChoiceInv, Profile, Owned, Settings

\* A step of the store or of what happens outside leaves every profile alone.
LEMMA ProfilesStand ==
    ASSUME Inv, ChoiceInv, UNCHANGED <<profiles, ghosts>>
    PROVE  ProfileInv' /\ ChoiceInv'
  BY DEF Inv, ProfileInv, ChoiceInv, Profile, ghosts, WithinAgreed, AsChosen, KeptBy

LEMMA RunsStand ==
    ASSUME Inv, UNCHANGED <<reserved, run>>,
           \A a \in Apps : agreed[a] \subseteq agreed'[a] \/ (reserved[a] = None /\ ~Owned(a))
    PROVE  RunInv'
  BY DEF Inv, RunInv, Owned

StoreStep ==
    \/ \E t \in Tables : ImportTable(t) \/ DeleteTable(t) \/ \E u \in Tables : ImportRepaired(t, u) \/ StoreCopy(t, u)

LEMMA BrokeIs ==
    ASSUME damage \in 0..MaxDamage, NEW b \in Breaks, Broke(b)
    PROVE  b \in BOOLEAN /\ damage' \in 0..MaxDamage
  <1>1. CASE damage < MaxDamage
    BY <1>1, LibraryAssumption DEF Broke, Breaks
  <1>2. CASE ~(damage < MaxDamage)
    BY <1>2, LibraryAssumption DEF Broke, Breaks
  <1>. QED BY <1>1, <1>2

StoreTyped ==
    blob \in [Tables -> {"none", "good", "bad"}] /\ meta \in [Tables -> {"none", "listed", "lost"}]

LEMMA StoreKeeps ==
    ASSUME Inv, StoreStep
    PROVE  TypeOK' /\ UNCHANGED <<profiles, ghosts, reserved, run>>
  <1>1. ASSUME NEW t \in Tables, NEW torn \in Breaks, Promote(t, torn), Elsewhere
        PROVE  StoreTyped' /\ damage' \in 0..MaxDamage /\ Elsewhere
    <2>1. damage' \in 0..MaxDamage /\ torn \in BOOLEAN
      BY <1>1, BrokeIs DEF Inv, TypeOK, Promote
    <2>2. blob[t] \in {"none", "good", "bad"} /\ StoreTyped
      BY DEF Inv, TypeOK, StoreTyped
    <2>3. StoreTyped'
      BY <1>1, <2>1, <2>2 DEF Promote, StoreTyped
    <2>. QED BY <1>1, <2>1, <2>3
  <1>2. ASSUME NEW t \in Tables, DeleteTable(t)
        PROVE  StoreTyped' /\ damage' \in 0..MaxDamage /\ Elsewhere
    <2>1. PICK torn \in Breaks : /\ blob' = [blob EXCEPT ![t] = "none"]
                                 /\ meta' = [meta EXCEPT ![t] = IF torn THEN @ ELSE "none"]
                                 /\ Broke(torn) /\ Elsewhere
      BY <1>2 DEF DeleteTable
    <2>2. damage' \in 0..MaxDamage
      BY <2>1, BrokeIs DEF Inv, TypeOK
    <2>3. meta[t] \in {"none", "listed", "lost"} /\ StoreTyped
      BY DEF Inv, TypeOK, StoreTyped
    <2>4. StoreTyped'
      BY <2>1, <2>3 DEF StoreTyped
    <2>. QED BY <2>1, <2>2, <2>4
  <1>3. StoreTyped' /\ damage' \in 0..MaxDamage /\ Elsewhere
    BY <1>1, <1>2 DEF StoreStep, ImportTable, ImportRepaired, StoreCopy
  <1>. QED BY <1>3 DEF Inv, TypeOK, StoreTyped, Elsewhere, files, ghosts

\* A call that changes one profile, with the player's word and choices for its game.
LEMMA OneProfile ==
    ASSUME Inv, ChoiceInv, NEW a \in Apps, NEW q \in {None} \cup Profiles,
           NEW c \in [Tables -> Settings], NEW g \in SUBSET Tables,
           profiles' = [profiles EXCEPT ![a] = q], chosen' = [chosen EXCEPT ![a] = c],
           agreed' = [agreed EXCEPT ![a] = g],
           q = None => g = {},
           q # None => WithinAgreed(q, g) /\ AsChosen(q, c),
           agreed[a] \subseteq g \/ Idle(a),
           session' \in [Apps -> {None} \cup Sessions],
           UNCHANGED <<store, readable, pointer, reserved, run, damage>>
    PROVE  Inv' /\ ChoiceInv'
  <1>1. TypeOK'
    BY DEF Inv, TypeOK, store
  <1>2. \A b \in Apps : /\ profiles'[b] = (IF b = a THEN q ELSE profiles[b])
                        /\ chosen'[b] = (IF b = a THEN c ELSE chosen[b])
                        /\ agreed'[b] = (IF b = a THEN g ELSE agreed[b])
    BY DEF Inv, TypeOK
  <1>3. ProfileInv'
    BY <1>2 DEF Inv, ProfileInv, Profile
  <1>4. ChoiceInv'
    BY <1>2 DEF ChoiceInv, Profile
  <1>5. RunInv'
    <2>1. \A d \in Apps : agreed[d] \subseteq agreed'[d] \/ (reserved[d] = None /\ ~Owned(d))
      BY <1>2 DEF Idle
    <2>2. UNCHANGED <<reserved, run>>
      OBVIOUS
    <2>. QED BY <2>1, <2>2, RunsStand
  <1>. QED BY <1>1, <1>3, <1>4, <1>5 DEF Inv

LEMMA SaveKeeps ==
    ASSUME Inv, ChoiceInv, NEW a \in Apps, NEW shortcut \in BOOLEAN, NEW table \in Tables \cup {None},
           NEW target \in Targets \cup {None}, SaveProfile(a, shortcut, table, target)
    PROVE  Inv' /\ ChoiceInv'
  <1>. DEFINE p == Profile(a)
              same == p # None /\ p.shortcut = shortcut
              b == Continued(p, shortcut)
  <1>1. PICK q \in Upsert(p, shortcut, table, target) :
            Saved(a, q) /\ Forgets(a, IF same THEN KeptBy(q) ELSE {})
    BY DEF SaveProfile
  <1>2. p \in {None} \cup Profiles /\ agreed[a] \in SUBSET Tables /\ chosen[a] \in [Tables -> Settings]
    BY DEF Inv, TypeOK, Profile
  <1>3. q \in Profiles /\ q # None
    BY <1>2, SwitchIs, NoneIsNoRecord
  <1>. DEFINE g == IF same THEN agreed[a] ELSE {}
              c == [t \in Tables |-> IF t \in KeptBy(q) THEN IF same THEN chosen[a][t] ELSE 0 ELSE 0]
  <1>4. WithinAgreed(q, g) /\ AsChosen(q, c)
    <2>1. CASE same
      <3>1. b = p /\ WithinAgreed(b, g)
        BY <2>1 DEF Continued, Inv, ProfileInv
      <3>2. AsChosen(b, chosen[a])
        BY <2>1, <3>1 DEF ChoiceInv
      <3>3. b.table \notin DOMAIN b.history
        BY <3>1 DEF WithinAgreed
      <3>4. AsChosen(q, [t \in Tables |-> IF t \in KeptBy(q) THEN chosen[a][t] ELSE 0])
        BY <1>2, <3>2, <3>3, SwitchKeepsChoice
      <3>5. c = [t \in Tables |-> IF t \in KeptBy(q) THEN chosen[a][t] ELSE 0]
        BY <2>1
      <3>. QED BY <1>2, <3>1, <3>4, <3>5, SwitchKeepsWithin
    <2>2. CASE ~same
      <3>. DEFINE zero == [t \in Tables |-> 0]
      <3>1. b = Fresh(shortcut) /\ g = {}
        BY <2>2 DEF Continued
      <3>2. WithinAgreed(b, g) /\ AsChosen(b, zero) /\ zero \in [Tables -> Settings]
        BY <3>1, FreshIs DEF Settings
      <3>3. AsChosen(q, [t \in Tables |-> IF t \in KeptBy(q) THEN zero[t] ELSE 0])
        <4>1. b.table \notin DOMAIN b.history
          BY <3>2 DEF WithinAgreed
        <4>. HIDE DEF zero
        <4>. QED BY <1>2, <3>2, <4>1, SwitchKeepsChoice
      <3>4. c = [t \in Tables |-> IF t \in KeptBy(q) THEN zero[t] ELSE 0]
        BY <2>2
      <3>. QED BY <1>2, <3>1, <3>2, <3>3, <3>4, SwitchKeepsWithin
    <2>. QED BY <2>1, <2>2
  <1>5. c \in [Tables -> Settings] /\ g \in SUBSET Tables
    BY <1>2 DEF Settings
  <1>6. chosen' = [chosen EXCEPT ![a] = c]
    BY <1>1 DEF Forgets
  <1>7. profiles' = [profiles EXCEPT ![a] = q] /\ agreed' = [agreed EXCEPT ![a] = g]
    <2>1. CASE same
      BY <1>1, <2>1 DEF SaveProfile, Saved, Inv, TypeOK
    <2>2. CASE ~same
      BY <1>1, <2>2 DEF SaveProfile, Saved
    <2>. QED BY <2>1, <2>2
  <1>8. agreed[a] \subseteq g \/ Idle(a)
    <2>1. CASE same
      BY <2>1
    <2>2. CASE p = None
      BY <2>2 DEF Inv, ProfileInv
    <2>3. CASE p # None /\ ~same
      BY <2>3 DEF SaveProfile
    <2>. QED BY <2>1, <2>2, <2>3
  <1>9. /\ session' \in [Apps -> {None} \cup Sessions]
        /\ UNCHANGED <<store, readable, pointer, reserved, run, damage>>
    BY DEF SaveProfile, NoStoreChange, Inv, TypeOK
  <1>. HIDE DEF c, g
  <1>. QED BY <1>3, <1>4, <1>5, <1>6, <1>7, <1>8, <1>9, OneProfile

LEMMA DeleteKeeps ==
    ASSUME Inv, ChoiceInv, NEW a \in Apps, DeleteProfile(a)
    PROVE  Inv' /\ ChoiceInv'
  <1>. DEFINE zero == [t \in Tables |-> 0]
  <1>1. zero \in [Tables -> Settings]
    BY DEF Settings
  <1>2. /\ profiles' = [profiles EXCEPT ![a] = None] /\ agreed' = [agreed EXCEPT ![a] = {}]
        /\ chosen' = [chosen EXCEPT ![a] = zero]
    BY DEF DeleteProfile, Saved, Forgets
  <1>3. /\ Idle(a) /\ session' \in [Apps -> {None} \cup Sessions]
        /\ UNCHANGED <<store, readable, pointer, reserved, run, damage>>
    BY DEF DeleteProfile, NoStoreChange, Inv, TypeOK
  <1>. HIDE DEF zero
  <1>. QED BY <1>1, <1>2, <1>3, OneProfile

\* A call on the table in use: what it asks of the profile.
LEMMA SelectedIs ==
    ASSUME Inv, ChoiceInv, NEW a \in Apps, NEW t \in Tables, Selected(a, t)
    PROVE  /\ Profile(a) \in Profiles /\ Profile(a) = profiles[a] /\ Profile(a).table = t
           /\ t # None /\ t \notin DOMAIN Profile(a).history
           /\ WithinAgreed(Profile(a), agreed[a]) /\ AsChosen(Profile(a), chosen[a])
           /\ agreed[a] \in SUBSET Tables /\ chosen[a] \in [Tables -> Settings]
           /\ chosen = [chosen EXCEPT ![a] = chosen[a]] /\ agreed = [agreed EXCEPT ![a] = agreed[a]]
  <1>1. Profile(a) \in Profiles /\ Profile(a) = profiles[a] /\ Profile(a) # None /\ Profile(a).table = t
    BY DEF Inv, TypeOK, Selected, Profile
  <1>2. WithinAgreed(Profile(a), agreed[a]) /\ AsChosen(Profile(a), chosen[a])
    BY <1>1 DEF Inv, ProfileInv, ChoiceInv
  <1>3. t # None
    BY LibraryAssumption
  <1>. QED BY <1>1, <1>2, <1>3 DEF Inv, TypeOK, WithinAgreed

LEMMA ConsentKeeps ==
    ASSUME Inv, ChoiceInv, NEW a \in Apps, NEW t \in Tables, NEW consent \in BOOLEAN,
           SetExecutionConsent(a, t, consent)
    PROVE  Inv' /\ ChoiceInv'
  <1>. DEFINE p == Profile(a)
              q == [p EXCEPT !.consent = IF consent THEN t ELSE None]
              g == IF consent THEN agreed[a] \cup {t} ELSE agreed[a] \ {t}
  <1>1. Selected(a, t)
    BY DEF SetExecutionConsent
  <1>2. /\ p \in Profiles /\ p.table = t /\ t # None /\ t \notin DOMAIN p.history
        /\ WithinAgreed(p, agreed[a]) /\ AsChosen(p, chosen[a])
        /\ agreed[a] \in SUBSET Tables /\ chosen[a] \in [Tables -> Settings]
        /\ chosen = [chosen EXCEPT ![a] = chosen[a]]
    BY <1>1, SelectedIs
  <1>. HIDE DEF p
  <1>3. /\ q \in Profiles /\ q.table = p.table /\ q.history = p.history /\ q.previous = p.previous
        /\ q.settings = p.settings /\ q.consent = (IF consent THEN t ELSE None)
    BY <1>2 DEF Profiles
  <1>. HIDE DEF q
  <1>4. WithinAgreed(q, g)
    BY <1>2, <1>3 DEF WithinAgreed
  <1>5. AsChosen(q, chosen[a])
    BY <1>2, <1>3 DEF AsChosen, KeptBy
  <1>6. q # None
    BY <1>3, NoneIsNoRecord
  <1>7. profiles' = [profiles EXCEPT ![a] = q] /\ agreed' = [agreed EXCEPT ![a] = g]
    BY DEF SetExecutionConsent, Saved, p, q
  <1>8. agreed[a] \subseteq g \/ Idle(a)
    BY DEF SetExecutionConsent
  <1>9. /\ chosen' = [chosen EXCEPT ![a] = chosen[a]] /\ g \in SUBSET Tables
        /\ session' \in [Apps -> {None} \cup Sessions]
        /\ UNCHANGED <<store, readable, pointer, reserved, run, damage>>
    BY <1>2 DEF SetExecutionConsent, NoStoreChange, Inv, TypeOK
  <1>. HIDE DEF g
  <1>. QED BY <1>2, <1>3, <1>4, <1>5, <1>6, <1>7, <1>8, <1>9, OneProfile

\* A change of the profile that touches neither tables nor consent.
LEMMA MinorKeeps ==
    ASSUME Inv, ChoiceInv, NEW a \in Apps, NEW q \in Profiles, Profile(a) # None,
           NEW c \in [Tables -> Settings], AsChosen(q, c), chosen' = [chosen EXCEPT ![a] = c],
           profiles' = [profiles EXCEPT ![a] = q],
           q.table = Profile(a).table, q.consent = Profile(a).consent, q.history = Profile(a).history,
           UNCHANGED <<store, readable, session, pointer, reserved, run, agreed, damage>>
    PROVE  Inv' /\ ChoiceInv'
  <1>1. WithinAgreed(q, agreed[a])
    BY DEF Inv, ProfileInv, WithinAgreed
  <1>2. /\ agreed[a] \in SUBSET Tables /\ agreed' = [agreed EXCEPT ![a] = agreed[a]]
        /\ session' \in [Apps -> {None} \cup Sessions] /\ q # None
    BY NoneIsNoRecord DEF Inv, TypeOK
  <1>3. UNCHANGED <<store, readable, pointer, reserved, run, damage>>
    OBVIOUS
  <1>. QED BY <1>1, <1>2, <1>3, OneProfile

LEMMA PrefersKeeps ==
    ASSUME Inv, ChoiceInv, NEW a \in Apps, NEW t \in Tables, NEW settings \in Settings,
           Prefers(a, t, settings)
    PROVE  Inv' /\ ChoiceInv'
  <1>. DEFINE p == Profile(a)
              q == [p EXCEPT !.settings = settings]
              c == [chosen[a] EXCEPT ![t] = settings]
  <1>1. Selected(a, t)
    BY DEF Prefers
  <1>2. /\ p \in Profiles /\ p.table = t /\ t # None /\ t \notin DOMAIN p.history
        /\ AsChosen(p, chosen[a]) /\ chosen[a] \in [Tables -> Settings]
    BY <1>1, SelectedIs
  <1>3. chosen' = [chosen EXCEPT ![a] = c] /\ profiles' = [profiles EXCEPT ![a] = q]
    BY DEF Prefers, Saved, WithSettings
  <1>4. UNCHANGED <<store, readable, session, pointer, reserved, run, agreed, damage>>
    BY DEF Prefers, NoStoreChange
  <1>5. Profile(a) # None
    BY <1>1 DEF Selected
  <1>. HIDE DEF p
  <1>6. /\ q \in Profiles /\ q.table = t /\ q.history = p.history /\ q.previous = p.previous
        /\ q.settings = settings /\ q.consent = p.consent /\ q.table = p.table
    BY <1>2 DEF Profiles
  <1>. HIDE DEF q
  <1>7. DOMAIN p.history \subseteq Tables
    BY <1>2, PutAwayIs, HistoryIs
  <1>8. c \in [Tables -> Settings] /\ c[t] = settings /\ \A u \in Tables \ {t} : c[u] = chosen[a][u]
    BY <1>2
  <1>. HIDE DEF c
  <1>9. AsChosen(q, c)
    BY <1>2, <1>6, <1>7, <1>8 DEF AsChosen, KeptBy
  <1>. QED BY <1>3, <1>4, <1>5, <1>6, <1>8, <1>9, MinorKeeps DEF p

LEMMA AutoloadKeeps ==
    ASSUME Inv, ChoiceInv, NEW a \in Apps, NEW t \in Tables, NEW enabled \in BOOLEAN,
           SetAutoload(a, t, enabled)
    PROVE  Inv' /\ ChoiceInv'
  <1>. DEFINE p == Profile(a)
              q == [p EXCEPT !.autoload = enabled]
  <1>1. Selected(a, t)
    BY DEF SetAutoload
  <1>2. /\ p \in Profiles /\ AsChosen(p, chosen[a]) /\ chosen[a] \in [Tables -> Settings]
        /\ chosen = [chosen EXCEPT ![a] = chosen[a]] /\ Profile(a) # None
    BY <1>1, SelectedIs DEF Selected
  <1>3. /\ chosen' = [chosen EXCEPT ![a] = chosen[a]] /\ profiles' = [profiles EXCEPT ![a] = q]
        /\ UNCHANGED <<store, readable, session, pointer, reserved, run, agreed, damage>>
    BY <1>2 DEF SetAutoload, Saved, NoStoreChange, ghosts
  <1>. HIDE DEF p
  <1>4. /\ q \in Profiles /\ q.table = p.table /\ q.history = p.history /\ q.previous = p.previous
        /\ q.settings = p.settings /\ q.consent = p.consent
    BY <1>2 DEF Profiles
  <1>. HIDE DEF q
  <1>5. AsChosen(q, chosen[a])
    BY <1>2, <1>4 DEF AsChosen, KeptBy
  <1>. QED BY <1>2, <1>3, <1>4, <1>5, MinorKeeps DEF p

LEMMA AssociateKeeps ==
    ASSUME Inv, ChoiceInv, NEW a \in Apps, NEW t \in Tables, AssociateTable(a, t)
    PROVE  Inv' /\ ChoiceInv'
  <1>. DEFINE p == Profile(a)
  <1>1. /\ p \in Profiles /\ p # None /\ AsChosen(p, chosen[a]) /\ chosen[a] \in [Tables -> Settings]
        /\ chosen = [chosen EXCEPT ![a] = chosen[a]]
    BY DEF AssociateTable, Inv, TypeOK, ChoiceInv, Profile
  <1>2. PICK q \in Associated(p, t) : Saved(a, q)
    BY DEF AssociateTable
  <1>3. /\ chosen' = [chosen EXCEPT ![a] = chosen[a]] /\ profiles' = [profiles EXCEPT ![a] = q]
        /\ UNCHANGED <<store, readable, session, pointer, reserved, run, agreed, damage>>
    BY <1>1, <1>2 DEF AssociateTable, Saved, NoStoreChange, ghosts
  <1>. HIDE DEF p
  <1>4. PICK lib \in SUBSET Tables : q = [p EXCEPT !.library = lib]
    <2>1. p.library \cup {t} \in SUBSET Tables
      BY <1>1 DEF Profiles
    <2>. QED BY <2>1, LibraryBoundIs DEF Associated
  <1>5. /\ q \in Profiles /\ q.table = p.table /\ q.history = p.history /\ q.previous = p.previous
        /\ q.settings = p.settings /\ q.consent = p.consent
    BY <1>1, <1>4 DEF Profiles
  <1>6. AsChosen(q, chosen[a])
    BY <1>1, <1>5 DEF AsChosen, KeptBy
  <1>. QED BY <1>1, <1>3, <1>5, <1>6, MinorKeeps DEF p

LEMMA RevokeKeeps ==
    ASSUME Inv, ChoiceInv, NEW a \in Apps, NEW t \in Tables, RevokeTable(a, t)
    PROVE  Inv' /\ ChoiceInv'
  <1>. DEFINE p == Profile(a)
  <1>1. /\ Idle(a) /\ session' \in [Apps -> {None} \cup Sessions]
        /\ UNCHANGED <<store, readable, pointer, reserved, run, damage>>
    BY DEF RevokeTable, NoStoreChange, Inv, TypeOK
  <1>2. CASE p.table = t
    <2>1. PICK q \in Revoked(p, t) : Saved(a, q) /\ Forgets(a, KeptBy(q))
      BY <1>2 DEF RevokeTable
    <2>2. Selected(a, t)
      BY <1>2 DEF RevokeTable, Selected
    <2>. DEFINE g == agreed[a] \ {t}
                c == [u \in Tables |-> IF u \in KeptBy(q) THEN chosen[a][u] ELSE 0]
    <2>3. profiles' = [profiles EXCEPT ![a] = q] /\ agreed' = [agreed EXCEPT ![a] = g]
      BY <1>2, <2>1 DEF RevokeTable, Saved
    <2>4. chosen' = [chosen EXCEPT ![a] = c]
      BY <2>1 DEF Forgets
    <2>5. /\ p \in Profiles /\ t # None /\ t \notin DOMAIN p.history
          /\ WithinAgreed(p, agreed[a]) /\ AsChosen(p, chosen[a])
          /\ agreed[a] \in SUBSET Tables /\ chosen[a] \in [Tables -> Settings]
      BY <2>2, SelectedIs
    <2>. HIDE DEF p
    <2>6. /\ q \in Profiles /\ q.table = None /\ q.consent = None /\ q.previous = t
          /\ t \in DOMAIN q.history
          /\ q.history[t].settings = p.settings /\ q.history[t].consent = FALSE
          /\ \A u \in DOMAIN q.history \ {t} : u \in DOMAIN p.history /\ q.history[u] = p.history[u]
      <3>1. p \in Profiles /\ p.table = t /\ q \in Revoked(p, t)
        BY <1>2, <2>1, <2>5
      <3>2. RevokedFrom(p, t, q)
        BY <3>1, RevokedIs
      <3>. QED BY <3>2 DEF RevokedFrom
    <2>7. DOMAIN q.history \subseteq Tables
      BY <2>6, PutAwayIs, HistoryIs
    <2>8. WithinAgreed(q, g)
      <3>1. q.table \notin DOMAIN q.history
        BY <2>6, <2>7, LibraryAssumption
      <3>2. ASSUME NEW u \in DOMAIN q.history, q.history[u].consent PROVE u \in g
        <4>1. u # t
          BY <2>6, <3>2
        <4>2. u \in DOMAIN p.history /\ p.history[u].consent
          BY <2>6, <3>2, <4>1
        <4>. QED BY <2>5, <4>1, <4>2 DEF WithinAgreed
      <3>. HIDE DEF g
      <3>. QED BY <2>6, <3>1, <3>2 DEF WithinAgreed
    <2>9. AsChosen(q, c)
      <3>1. KeptBy(q) = DOMAIN q.history /\ c[t] = chosen[a][t]
        BY <2>6 DEF KeptBy
      <3>2. \A u \in DOMAIN q.history : q.history[u].settings = chosen[a][u] /\ c[u] = chosen[a][u]
        BY <1>2, <2>5, <2>6, <2>7, <3>1 DEF AsChosen
      <3>3. \A u \in Tables \ KeptBy(q) : c[u] = 0
        OBVIOUS
      <3>. HIDE DEF c
      <3>. QED BY <2>6, <3>2, <3>3 DEF AsChosen
    <2>10. c \in [Tables -> Settings] /\ g \in SUBSET Tables /\ q # None
      BY <2>5, <2>6, NoneIsNoRecord DEF Settings
    <2>. HIDE DEF c, g
    <2>. QED BY <1>1, <2>3, <2>4, <2>6, <2>8, <2>9, <2>10, OneProfile
  <1>3. CASE p.table # t
    <2>1. UNCHANGED <<profiles, ghosts, reserved, run>>
      BY <1>1, <1>3 DEF RevokeTable
    <2>2. TypeOK'
      BY <1>1, <2>1 DEF Inv, TypeOK, ghosts, store
    <2>3. RunInv'
      BY <2>1, RunsStand DEF ghosts
    <2>. QED BY <2>1, <2>2, <2>3, ProfilesStand DEF Inv
  <1>. QED BY <1>2, <1>3

LEMMA RepairKeeps ==
    ASSUME Inv, ChoiceInv, ~MidLaunch, RepairProfileState
    PROVE  Inv' /\ ChoiceInv'
  <1>1. /\ profiles' = [a \in Apps |-> None] /\ agreed' = [a \in Apps |-> {}]
        /\ chosen' = [a \in Apps |-> [t \in Tables |-> 0]] /\ readable' = TRUE
        /\ NothingOwned /\ (\A a \in Apps : reserved[a] # None => ~reserved[a].checked)
        /\ UNCHANGED <<store, session, pointer, reserved, run, damage>>
    BY DEF RepairProfileState, NoStoreChange
  <1>2. TypeOK'
    BY <1>1 DEF Inv, TypeOK, store, Settings
  <1>3. ProfileInv' /\ ChoiceInv'
    BY <1>1 DEF ProfileInv, ChoiceInv, Profile
  <1>4. RunInv'
    BY <1>1 DEF Inv, RunInv, Owned, NothingOwned
  <1>. QED BY <1>2, <1>3, <1>4 DEF Inv

\* Sessions, reservations and runs: the profiles stand.
LaunchStep(a) ==
    \/ PrepareSession(a) \/ ReserveLaunch(a) \/ RevalidateLaunch(a) \/ Launch(a) \/ DropReservation(a)
    \/ RetireSession(a) \/ RepairSessionState(a) \/ CheatEngineEnds(a)

\* A session is only ever prepared for a table the player agreed to run.
LEMMA PreparedIs ==
    ASSUME Inv, NEW a \in Apps, Agreed(a)
    PROVE  Prepared(a) \in Sessions
  <1>1. profiles[a] \in Profiles
    BY DEF Inv, TypeOK, Agreed, Profile
  <1>. QED BY <1>1 DEF Agreed, Profile, Prepared, Profiles, Sessions

LEMMA RevalidatedIs ==
    ASSUME Inv, NEW a \in Apps, RevalidateLaunch(a)
    PROVE  reserved[a].session.table \in agreed[a]
  <1>1. /\ reserved[a] \in Reservations /\ session[a] = reserved[a].session
        /\ Profile(a) # None /\ Profile(a).consent = reserved[a].session.table
    BY DEF Inv, TypeOK, RevalidateLaunch, Stale, Profile
  <1>2. Profile(a).consent # None
    BY <1>1, LibraryAssumption DEF Reservations, Sessions
  <1>. QED BY <1>1, <1>2 DEF Inv, ProfileInv, WithinAgreed

LEMMA LaunchKeeps ==
    ASSUME Inv, ChoiceInv, NEW a \in Apps, LaunchStep(a)
    PROVE  Inv' /\ ChoiceInv'
  <1>1. UNCHANGED <<store, profiles, readable, ghosts, damage>>
    BY DEF LaunchStep, PrepareSession, ReserveLaunch, RevalidateLaunch, Launch, DropReservation,
           RetireSession, RepairSessionState, CheatEngineEnds, files
  <1>2. ProfileInv' /\ ChoiceInv'
    BY <1>1, ProfilesStand
  <1>3. ASSUME session' \in [Apps -> {None} \cup Sessions], pointer' \in [Apps -> BOOLEAN],
               reserved' \in [Apps -> {None} \cup Reservations], run' \in [Apps -> {None} \cup Runs]
        PROVE  TypeOK'
    BY <1>1, <1>3 DEF Inv, TypeOK, store, ghosts
  <1>4. agreed' = agreed
    BY <1>1 DEF ghosts
  <1>5. CASE PrepareSession(a) \/ RetireSession(a) \/ RepairSessionState(a)
    <2>1. UNCHANGED <<reserved, run>>
      BY <1>5 DEF PrepareSession, RetireSession, RepairSessionState
    <2>2. session' \in [Apps -> {None} \cup Sessions] /\ pointer' \in [Apps -> BOOLEAN]
      BY <1>5, PreparedIs DEF PrepareSession, RetireSession, RepairSessionState, Inv, TypeOK
    <2>3. RunInv'
      BY <1>4, <2>1, RunsStand
    <2>. QED BY <1>2, <1>3, <2>1, <2>2, <2>3 DEF Inv, TypeOK
  <1>6. CASE ReserveLaunch(a)
    <2>. DEFINE r == [session |-> Prepared(a), checked |-> FALSE]
    <2>1. r \in Reservations /\ Prepared(a) \in Sessions
      BY <1>6, PreparedIs DEF ReserveLaunch, Reservations
    <2>2. /\ reserved' = [reserved EXCEPT ![a] = r] /\ session' = [session EXCEPT ![a] = Prepared(a)]
          /\ UNCHANGED <<pointer, run>> /\ ~Owned(a) /\ r.checked = FALSE
      BY <1>6 DEF ReserveLaunch, Idle
    <2>. HIDE DEF r
    <2>3. RunInv'
      BY <1>4, <2>1, <2>2 DEF Inv, RunInv, TypeOK, Owned
    <2>4. TypeOK'
      BY <1>3, <2>1, <2>2 DEF Inv, TypeOK
    <2>. QED BY <1>2, <2>3, <2>4 DEF Inv
  <1>7. CASE RevalidateLaunch(a)
    <2>1. /\ reserved[a] \in Reservations /\ ~Owned(a) /\ reserved' = [reserved EXCEPT ![a].checked = TRUE]
          /\ UNCHANGED <<session, pointer, run>>
      BY <1>7 DEF RevalidateLaunch, Inv, TypeOK, files
    <2>2. reserved[a].session.table \in agreed[a]
      BY <1>7, RevalidatedIs
    <2>3. reserved' \in [Apps -> {None} \cup Reservations] /\ reserved'[a].session = reserved[a].session
      BY <2>1 DEF Inv, TypeOK, Reservations
    <2>4. RunInv'
      BY <1>4, <2>1, <2>2, <2>3 DEF Inv, RunInv, TypeOK, Owned
    <2>. QED BY <1>2, <1>3, <2>1, <2>3, <2>4 DEF Inv, TypeOK
  <1>8. CASE Launch(a)
    <2>. DEFINE r == [table |-> reserved[a].session.table, owned |-> TRUE]
    <2>1. /\ reserved[a] \in Reservations /\ reserved[a].session.table \in agreed[a]
          /\ reserved' = [reserved EXCEPT ![a] = None] /\ run' = [run EXCEPT ![a] = r]
          /\ UNCHANGED <<session, pointer>>
      BY <1>8 DEF Launch, SpawnGate, Inv, TypeOK, RunInv, files
    <2>2. r \in Runs /\ r.table = reserved[a].session.table
      BY <2>1 DEF Reservations, Sessions, Runs
    <2>. HIDE DEF r
    <2>3. RunInv'
      BY <1>4, <2>1, <2>2 DEF Inv, RunInv, TypeOK, Owned
    <2>. QED BY <1>2, <1>3, <2>1, <2>2, <2>3 DEF Inv, TypeOK
  <1>9. CASE DropReservation(a)
    <2>1. reserved' = [reserved EXCEPT ![a] = None] /\ UNCHANGED <<session, pointer, run>>
      BY <1>9 DEF DropReservation, files
    <2>2. RunInv'
      BY <1>4, <2>1 DEF Inv, RunInv, TypeOK, Owned
    <2>. QED BY <1>2, <1>3, <2>1, <2>2 DEF Inv, TypeOK
  <1>10. CASE CheatEngineEnds(a)
    <2>1. run' = [run EXCEPT ![a] = None] /\ UNCHANGED <<session, pointer, reserved>>
      BY <1>10 DEF CheatEngineEnds, files
    <2>2. RunInv'
      BY <1>4, <2>1 DEF Inv, RunInv, TypeOK, Owned
    <2>. QED BY <1>2, <1>3, <2>1, <2>2 DEF Inv, TypeOK
  <1>. QED BY <1>5, <1>6, <1>7, <1>8, <1>9, <1>10 DEF LaunchStep

LEMMA DamageKeeps ==
    ASSUME Inv, ChoiceInv, Damage
    PROVE  Inv' /\ ChoiceInv'
  <1>1. UNCHANGED <<profiles, reserved, ghosts>>
    BY DEF Damage, files
  <1>2. damage' \in 0..MaxDamage
    BY LibraryAssumption DEF Damage, Inv, TypeOK
  <1>3. StoreTyped'
    BY DEF Damage, Inv, TypeOK, StoreTyped, store
  <1>4. /\ readable' \in BOOLEAN /\ session' \in [Apps -> {None} \cup Sessions]
        /\ pointer' \in [Apps -> BOOLEAN]
    BY DEF Damage, Inv, TypeOK, files
  <1>5. \/ UNCHANGED run
        \/ \E a \in Apps : Owned(a) /\ run' = [run EXCEPT ![a].owned = FALSE]
    BY DEF Damage, files
  <1>6. run' \in [Apps -> {None} \cup Runs]
    <2>1. CASE UNCHANGED run
      BY <2>1 DEF Inv, TypeOK
    <2>2. CASE \E a \in Apps : Owned(a) /\ run' = [run EXCEPT ![a].owned = FALSE]
      <3>1. PICK a \in Apps : Owned(a) /\ run' = [run EXCEPT ![a].owned = FALSE]
        BY <2>2
      <3>2. run[a] \in Runs
        BY <3>1 DEF Owned, Inv, TypeOK
      <3>3. [run[a] EXCEPT !.owned = FALSE] \in Runs
        BY <3>2 DEF Runs
      <3>. QED BY <3>1, <3>3 DEF Inv, TypeOK
    <2>. QED BY <1>5, <2>1, <2>2
  <1>7. RunInv'
    <2>1. agreed' = agreed /\ reserved' = reserved
      BY <1>1 DEF ghosts
    <2>2. CASE UNCHANGED run
      BY <2>1, <2>2, RunsStand
    <2>3. CASE \E a \in Apps : Owned(a) /\ run' = [run EXCEPT ![a].owned = FALSE]
      <3>1. PICK a \in Apps : Owned(a) /\ run' = [run EXCEPT ![a].owned = FALSE]
        BY <2>3
      <3>2. run[a] \in Runs
        BY <3>1 DEF Owned, Inv, TypeOK
      <3>3. ~Owned(a)' /\ \A b \in Apps \ {a} : run'[b] = run[b]
        BY <3>1, <3>2 DEF Owned, Runs, Inv, TypeOK
      <3>. QED BY <2>1, <3>3 DEF Inv, RunInv, Owned
    <2>. QED BY <1>5, <2>2, <2>3
  <1>8. TypeOK'
    BY <1>1, <1>2, <1>3, <1>4, <1>6 DEF Inv, TypeOK, StoreTyped, ghosts
  <1>. QED BY <1>1, <1>7, <1>8, ProfilesStand DEF Inv

LEMMA RestartKeeps ==
    ASSUME Inv, ChoiceInv, Restart
    PROVE  Inv' /\ ChoiceInv'
  <1>1. UNCHANGED <<profiles, ghosts, run>> /\ reserved' = [a \in Apps |-> None]
    BY DEF Restart, files
  <1>2. TypeOK'
    BY DEF Restart, Inv, TypeOK, files, ghosts
  <1>3. RunInv'
    BY <1>1 DEF Inv, RunInv, Owned, ghosts
  <1>. QED BY <1>1, <1>2, <1>3, ProfilesStand DEF Inv

\* The calls that change a profile.
ProfileStep ==
    \/ \E a \in Apps :
         \/ DeleteProfile(a)
         \/ \E shortcut \in BOOLEAN, table \in Tables \cup {None}, target \in Targets \cup {None} :
              SaveProfile(a, shortcut, table, target)
         \/ \E t \in Tables :
              \/ RevokeTable(a, t) \/ AssociateTable(a, t)
              \/ SetStartup(a, t) \/ SetRemembered(a, t)
              \/ \E b \in BOOLEAN : SetExecutionConsent(a, t, b) \/ SetAutoload(a, t, b)
    \/ RepairProfileState

LEMMA NextIs ==
    Next => StoreStep \/ ProfileStep \/ (\E a \in Apps : LaunchStep(a)) \/ Damage \/ Restart
  BY DEF Next, StoreStep, ProfileStep, LaunchStep

LEMMA ProfileStepKeeps ==
    ASSUME Inv, ChoiceInv, ~MidLaunch, ProfileStep
    PROVE  Inv' /\ ChoiceInv'
  <1>1. ASSUME NEW a \in Apps, NEW t \in Tables, SetStartup(a, t) \/ SetRemembered(a, t)
        PROVE  Inv' /\ ChoiceInv'
    <2>1. PICK settings \in Settings : Prefers(a, t, settings)
      BY <1>1 DEF SetStartup, SetRemembered, Settings
    <2>. QED BY <2>1, PrefersKeeps
  <1>. QED BY <1>1, DeleteKeeps, SaveKeeps, RevokeKeeps, AssociateKeeps, ConsentKeeps, AutoloadKeeps,
              RepairKeeps DEF ProfileStep

LEMMA StepKeeps ==
    ASSUME Inv, ChoiceInv, ~MidLaunch, [Next]_vars
    PROVE  Inv' /\ ChoiceInv'
  <1>1. CASE StoreStep
    <2>1. TypeOK' /\ UNCHANGED <<profiles, ghosts, reserved, run>>
      BY <1>1, StoreKeeps
    <2>2. RunInv'
      BY <2>1, RunsStand DEF ghosts
    <2>. QED BY <2>1, <2>2, ProfilesStand DEF Inv
  <1>2. CASE UNCHANGED vars
    BY <1>2 DEF vars, store, files, ghosts, Inv, TypeOK, ProfileInv, RunInv, ChoiceInv, Profile, Owned,
                WithinAgreed, AsChosen, KeptBy
  <1>. QED BY <1>1, <1>2, ProfileStepKeeps, LaunchKeeps, DamageKeeps, RestartKeeps, NextIs

LEMMA Invariance ==
    ASSUME ~MidLaunch
    PROVE  Spec => [](Inv /\ ChoiceInv)
  <1>1. Inv /\ ChoiceInv /\ [Next]_vars => (Inv /\ ChoiceInv)'
    BY StepKeeps
  <1>. QED BY <1>1, InitInv, PTL DEF Spec

-----------------------------------------------------------------------------
(* The theorems.                                                            *)

(* A table comes back to a game with the settings the player chose for it    *)
(* there (ProfileStore.upsert and revoke_table), and the one before the      *)
(* current one survives the bound.                                          *)
THEOREM SettingsReturn ==
    ASSUME ~MidLaunch
    PROVE  Spec => []SettingsFollowTheTable
  <1>1. ChoiceInv => SettingsFollowTheTable
    BY DEF ChoiceInv, SettingsFollowTheTable, AsChosen
  <1>. QED BY <1>1, Invariance, PTL

(* The bytes of a table are never on the device without the metadata that    *)
(* lists it (TableStore._validate_and_promote and delete_table), cut short   *)
(* wherever they are.                                                       *)
THEOREM BytesListed == Spec => []BlobsAreListed
  <1>1. Init => StoreTyped /\ BlobsAreListed
    BY DEF Init, StoreTyped, BlobsAreListed
  <1>2. ASSUME StoreTyped, BlobsAreListed, [Next]_vars
        PROVE  StoreTyped' /\ BlobsAreListed'
    <2>1. CASE UNCHANGED store
      BY <1>2, <2>1 DEF StoreTyped, BlobsAreListed, store
    <2>2. ASSUME NEW t \in Tables, NEW torn \in Breaks, Promote(t, torn)
          PROVE  StoreTyped' /\ BlobsAreListed'
      BY <1>2, <2>2 DEF Promote, StoreTyped, BlobsAreListed
    <2>3. ASSUME NEW t \in Tables, DeleteTable(t)
          PROVE  StoreTyped' /\ BlobsAreListed'
      BY <1>2, <2>3 DEF DeleteTable, StoreTyped, BlobsAreListed
    <2>4. CASE Damage
      BY <1>2, <2>4 DEF Damage, StoreTyped, BlobsAreListed, store
    <2>5. CASE Restart
      BY <1>2, <2>5 DEF Restart, StoreTyped, BlobsAreListed
    <2>6. CASE StoreStep
      BY <2>2, <2>3, <2>6 DEF StoreStep, ImportTable, ImportRepaired, StoreCopy
    <2>7. ASSUME NEW a \in Apps, LaunchStep(a) PROVE UNCHANGED store
      BY <2>7 DEF LaunchStep, PrepareSession, ReserveLaunch, RevalidateLaunch, Launch, DropReservation,
                  RetireSession, RepairSessionState, CheatEngineEnds
    <2>8. CASE ProfileStep
      <3>1. UNCHANGED store
        <4>1. NoStoreChange => UNCHANGED store
          BY DEF NoStoreChange
        <4>2. ASSUME NEW a \in Apps, NEW t \in Tables, NEW settings, Prefers(a, t, settings)
              PROVE  NoStoreChange
          BY <4>2 DEF Prefers
        <4>3. RepairProfileState => NoStoreChange
          BY DEF RepairProfileState
        <4>. QED BY <2>8, <4>1, <4>2, <4>3
                 DEF ProfileStep, DeleteProfile, SaveProfile, RevokeTable, AssociateTable, SetStartup,
                     SetRemembered, SetExecutionConsent, SetAutoload
      <3>. QED BY <2>1, <3>1
    <2>. QED BY <1>2, <2>1, <2>4, <2>5, <2>6, <2>7, <2>8, NextIs DEF vars
  <1>. QED BY <1>1, <1>2, PTL DEF Spec

\* One step of the library, seen from the promise.
LEMMA StepKeepsThePromise ==
    ASSUME Inv, ~MidLaunch, [Next]_vars
    PROVE  [Promise!Next]_<<agreed, [a \in Apps |-> IF Owned(a) THEN run[a].table ELSE None]>>
  <1>. DEFINE running == [a \in Apps |-> IF Owned(a) THEN run[a].table ELSE None]
  <1>1. UNCHANGED run => UNCHANGED running
    BY DEF Owned
  <1>2. CASE UNCHANGED <<agreed, run>>
    BY <1>1, <1>2
  <1>3. ASSUME NEW a \in Apps, UNCHANGED run, running[a] = None,
               NEW left \in SUBSET agreed[a], agreed' = [agreed EXCEPT ![a] = left]
        PROVE  Promise!Next
    BY <1>1, <1>3 DEF Promise!Next, Promise!Withdraw
  <1>4. CASE StoreStep
    BY <1>2, <1>4 DEF StoreStep, ImportTable, ImportRepaired, StoreCopy, DeleteTable, Elsewhere, ghosts
  <1>5. CASE Restart
    BY <1>2, <1>5 DEF Restart, ghosts
  <1>6. CASE UNCHANGED vars
    BY <1>2, <1>6 DEF vars, ghosts
  <1>7. CASE Damage
    <2>1. UNCHANGED run \/ \E a \in Apps : Owned(a) /\ run' = [run EXCEPT ![a].owned = FALSE]
      BY <1>7 DEF Damage, files
    <2>2. ASSUME NEW a \in Apps, Owned(a), run' = [run EXCEPT ![a].owned = FALSE]
          PROVE  Promise!Stop(a)
      <3>1. run[a] \in Runs
        BY <2>2 DEF Owned, Inv, TypeOK
      <3>2. ~Owned(a)' /\ \A b \in Apps \ {a} : run'[b] = run[b]
        BY <2>2, <3>1 DEF Owned, Runs, Inv, TypeOK
      <3>3. running' = [running EXCEPT ![a] = None]
        BY <3>2 DEF Owned
      <3>. QED BY <1>7, <3>3 DEF Promise!Stop, Damage, ghosts
    <2>3. UNCHANGED agreed
      BY <1>7 DEF Damage, ghosts
    <2>. QED BY <1>2, <2>1, <2>2, <2>3 DEF Promise!Next
  <1>8. ASSUME NEW a \in Apps, LaunchStep(a)
        PROVE  Promise!Next \/ UNCHANGED <<agreed, run>>
    <2>1. CASE Launch(a)
      <3>. DEFINE r == [table |-> reserved[a].session.table, owned |-> TRUE]
      <3>1. /\ reserved[a] \in Reservations /\ r.table \in agreed[a] /\ ~Owned(a)
            /\ run' = [run EXCEPT ![a] = r] /\ agreed' = agreed
        BY <2>1 DEF Launch, SpawnGate, Inv, TypeOK, RunInv, ghosts
      <3>2. r.table \in Tables /\ r \in Runs /\ r # None /\ r.owned
        <4>1. reserved[a].session.table \in Tables
          BY <3>1 DEF Reservations, Sessions
        <4>2. r \in Runs
          BY <4>1 DEF Runs
        <4>. QED BY <4>1, <4>2, NoneIsNoRecord
      <3>. HIDE DEF r
      <3>3. running' = [running EXCEPT ![a] = r.table]
        BY <3>1, <3>2 DEF Owned, Inv, TypeOK
      <3>4. running[a] = None
        BY <3>1
      <3>. QED BY <3>1, <3>2, <3>3, <3>4 DEF Promise!Next, Promise!Start
    <2>2. CASE CheatEngineEnds(a)
      <3>1. run' = [run EXCEPT ![a] = None] /\ agreed' = agreed
        BY <2>2 DEF CheatEngineEnds, ghosts
      <3>2. running' = [running EXCEPT ![a] = None]
        BY <3>1 DEF Owned, Inv, TypeOK
      <3>. QED BY <3>1, <3>2 DEF Promise!Next, Promise!Stop
    <2>. QED BY <1>8, <2>1, <2>2
             DEF LaunchStep, PrepareSession, ReserveLaunch, RevalidateLaunch, DropReservation,
                 RetireSession, RepairSessionState, ghosts
  <1>9. CASE ProfileStep
    <2>1. ASSUME NoStoreChange PROVE UNCHANGED run
      BY <2>1 DEF NoStoreChange
    <2>2. ASSUME NEW a \in Apps, NEW shortcut, NEW table, NEW target, SaveProfile(a, shortcut, table, target)
          PROVE  Promise!Next \/ UNCHANGED <<agreed, run>>
      <3>1. CASE Profile(a) # None /\ Profile(a).shortcut = shortcut
        BY <2>1, <2>2, <3>1 DEF SaveProfile
      <3>2. CASE ~(Profile(a) # None /\ Profile(a).shortcut = shortcut)
        <4>1. UNCHANGED run /\ agreed' = [agreed EXCEPT ![a] = {}]
          BY <2>1, <2>2, <3>2 DEF SaveProfile
        <4>2. CASE Profile(a) = None
          <5>1. agreed[a] = {}
            BY <4>2 DEF Inv, ProfileInv
          <5>2. agreed' = agreed
            BY <4>1, <5>1 DEF Inv, TypeOK
          <5>. QED BY <4>1, <5>2
        <4>3. CASE Profile(a) # None
          <5>1. running[a] = None
            BY <2>2, <3>2, <4>3 DEF SaveProfile, Idle
          <5>. QED BY <1>3, <4>1, <5>1
        <4>. QED BY <4>2, <4>3
      <3>. QED BY <3>1, <3>2
    <2>3. ASSUME NEW a \in Apps, DeleteProfile(a)
          PROVE  Promise!Next
      <3>1. UNCHANGED run /\ agreed' = [agreed EXCEPT ![a] = {}] /\ running[a] = None
        BY <2>1, <2>3 DEF DeleteProfile, Idle
      <3>. QED BY <1>3, <3>1
    <2>4. ASSUME NEW a \in Apps, NEW t \in Tables, NEW b \in BOOLEAN, SetExecutionConsent(a, t, b)
          PROVE  Promise!Next
      <3>1. UNCHANGED run /\ agreed' = [agreed EXCEPT ![a] = IF b THEN @ \cup {t} ELSE @ \ {t}]
        BY <2>1, <2>4 DEF SetExecutionConsent
      <3>2. CASE b
        BY <1>1, <3>1, <3>2 DEF Promise!Next, Promise!Agree
      <3>3. CASE ~b
        <4>1. running[a] = None
          BY <2>4, <3>3 DEF SetExecutionConsent, Idle
        <4>. QED BY <1>3, <3>1, <3>3, <4>1
      <3>. QED BY <3>2, <3>3
    <2>5. ASSUME NEW a \in Apps, NEW t \in Tables, RevokeTable(a, t)
          PROVE  Promise!Next \/ UNCHANGED <<agreed, run>>
      <3>1. UNCHANGED run /\ running[a] = None
        BY <2>1, <2>5 DEF RevokeTable, Idle
      <3>2. agreed' = [agreed EXCEPT ![a] = @ \ {t}] \/ agreed' = agreed
        BY <2>5 DEF RevokeTable, ghosts
      <3>. QED BY <1>3, <3>1, <3>2
    <2>6. CASE RepairProfileState
      <3>1. UNCHANGED run /\ agreed' = [a \in Apps |-> {}] /\ \A a \in Apps : running[a] = None
        BY <2>1, <2>6 DEF RepairProfileState, NothingOwned
      <3>. QED BY <1>1, <3>1 DEF Promise!Next, Promise!WithdrawAll
    <2>7. ASSUME NEW a \in Apps, NEW t \in Tables,
                 \/ AssociateTable(a, t) \/ SetStartup(a, t) \/ SetRemembered(a, t)
                 \/ \E b \in BOOLEAN : SetAutoload(a, t, b)
          PROVE  UNCHANGED <<agreed, run>>
      BY <2>1, <2>7 DEF AssociateTable, SetStartup, SetRemembered, Prefers, SetAutoload, ghosts
    <2>. QED BY <1>9, <2>2, <2>3, <2>4, <2>5, <2>6, <2>7, <1>2 DEF ProfileStep
  <1>. QED BY <1>2, <1>4, <1>5, <1>6, <1>7, <1>8, <1>9, NextIs

(* What runs is what the player agreed to, for that game and that table: the *)
(* library, its sessions and the launches of service.py implement Permit, as  *)
(* long as the profiles are not repaired under a launch.                     *)
THEOREM PromiseKept ==
    ASSUME ~MidLaunch
    PROVE  Spec => KeepsThePromise
  <1>1. Init => Promise!Init
    BY DEF Init, Promise!Init, Owned
  <1>2. Inv /\ [Next]_vars
          => [Promise!Next]_<<agreed, [a \in Apps |-> IF Owned(a) THEN run[a].table ELSE None]>>
    BY StepKeepsThePromise
  <1>3. Spec => []Inv
    BY Invariance, PTL
  <1>. QED BY <1>1, <1>2, <1>3, PTL DEF Spec, KeepsThePromise, Promise!Spec
================================================================================
