---------------------------- MODULE EvidenceProofs ----------------------------
(* Theorems about the evidence, for any tables, rows, marks and sessions: no  *)
(* success outlives a later failure, and what the player confirms was on.     *)
EXTENDS Evidence, TLAPS

DatesTyped ==
    /\ tokens \in Nat /\ floor \in 0..tokens
    /\ DOMAIN dated \subseteq Tables /\ dated = [t \in DOMAIN dated |-> dated[t]]
    /\ \A t \in DOMAIN dated : dated[t] \in 0..tokens

Entry == [epoch : Nat, invalidated : BOOLEAN, by : {"startup", "player"}, at : Nat]
Proof == [session : Nat, activation : Nat, acknowledged : BOOLEAN,
          query : Nat, verified : BOOLEAN, at : Nat]
Starting == [session : Nat, table : Tables, epoch : Nat, at : Nat]

Typed ==
    /\ selected \in Tables
    /\ evidence \in [Tables -> {None} \cup Entry]
    /\ session \in {None} \cup Sessions
    /\ proof \in {None} \cup Proof
    /\ starting \in {None} \cup Starting
    /\ failures \in [Tables -> Nat] /\ generation \in Nat

Ours == proof # None /\ session # None /\ proof.session = session.id

\* What was earned, or is on its way to be, in an epoch that still holds began after the last failure.
Dated(t, epoch, at) == epoch <= tokens /\ (epoch = EpochOf(t) => at = failures[t])
DatedNext(t, epoch, at) == epoch <= tokens' /\ (epoch = EpochOf(t)' => at = failures'[t])
Fresh ==
    /\ \A t \in Tables : evidence[t] # None => Dated(t, evidence[t].epoch, evidence[t].at)
    /\ \A t \in Tables : starting # None /\ starting.table = t => Dated(t, starting.epoch, starting.at)
    /\ Ours => proof.at = failures[session.table]
    /\ proof # None => session # None /\ proof.session <= session.id

Inv == DatesTyped /\ Typed /\ Fresh

-----------------------------------------------------------------------------

\* The one fact about the file of epochs: a table keeps its epoch or gets one never given before, and
\* a table that failed gets one.
LEMMA DatesIs ==
    ASSUME DatesTyped, NEW failed \in SUBSET Tables, NEW reset \in BOOLEAN, Dates(failed, reset)
    PROVE  /\ DatesTyped' /\ tokens' \in {tokens, tokens + 1}
           /\ \A t \in Tables : EpochOf(t)' = EpochOf(t) \/ (EpochOf(t)' = tokens + 1 /\ tokens' = tokens + 1)
           /\ \A t \in failed : EpochOf(t)' = tokens + 1 /\ tokens' = tokens + 1
  <1>. DEFINE kept == IF reset THEN NoDates ELSE dated
              all == (DOMAIN kept) \cup failed
              fresh == tokens + 1
              full == Cardinality(all) > MaxEpochs
              afresh == reset \/ full
  <1>1. PICK gone \in SUBSET (all \ failed) :
            /\ gone = {} \/ full
            /\ dated' = [t \in all \ gone |-> IF t \in failed THEN fresh ELSE kept[t]]
            /\ floor' = IF afresh THEN fresh ELSE floor
            /\ tokens' = IF afresh \/ failed # {} THEN fresh ELSE tokens
    BY DEF Dates
  <1>2. DOMAIN NoDates = {}
    BY DEF NoDates
  <1>3. /\ DOMAIN kept \subseteq Tables /\ \A t \in DOMAIN kept : kept[t] \in 0..tokens
        /\ \A t \in DOMAIN kept : t \in DOMAIN dated /\ kept[t] = dated[t]
        /\ ~reset => kept = dated
    BY <1>2 DEF DatesTyped
  <1>. HIDE DEF kept, full
  <1>4. DOMAIN dated' = all \ gone
    BY <1>1
  <1>5. \A t \in all \ gone : dated'[t] = IF t \in failed THEN fresh ELSE kept[t]
    BY <1>1
  <1>6. tokens' \in {tokens, tokens + 1} /\ tokens' \in Nat
    BY <1>1 DEF DatesTyped
  <1>7. DatesTyped'
    <2>1. floor' \in 0..tokens'
      BY <1>1 DEF DatesTyped
    <2>2. DOMAIN dated' \subseteq Tables /\ dated' = [t \in DOMAIN dated' |-> dated'[t]]
      BY <1>1, <1>3, <1>4
    <2>3. \A t \in DOMAIN dated' : dated'[t] \in 0..tokens'
      BY <1>1, <1>3, <1>4, <1>5, <1>6 DEF DatesTyped
    <2>. QED BY <1>6, <2>1, <2>2, <2>3 DEF DatesTyped
  <1>8. ASSUME NEW t \in failed PROVE EpochOf(t)' = tokens + 1 /\ tokens' = tokens + 1
    BY <1>1, <1>4, <1>5 DEF EpochOf
  <1>9. ASSUME NEW t \in Tables, t \notin failed
        PROVE  EpochOf(t)' = EpochOf(t) \/ (EpochOf(t)' = tokens + 1 /\ tokens' = tokens + 1)
    <2>1. CASE t \in DOMAIN dated'
      BY <1>3, <1>4, <1>5, <1>9, <2>1 DEF EpochOf
    <2>2. CASE t \notin DOMAIN dated' /\ afresh
      BY <1>1, <2>2 DEF EpochOf
    <2>3. CASE t \notin DOMAIN dated' /\ ~afresh
      BY <1>1, <1>3, <1>4, <1>9, <2>3 DEF EpochOf
    <2>. QED BY <2>1, <2>2, <2>3
  <1>. QED BY <1>6, <1>7, <1>8, <1>9

\* No epoch that holds after this step was given out before it, but to the same table.
Move == \A t \in Tables : EpochOf(t)' = EpochOf(t) \/ (EpochOf(t)' = tokens + 1 /\ tokens' = tokens + 1)

LEMMA InitInv == Init => Inv
  <1>. SUFFICES ASSUME Init PROVE Inv
    OBVIOUS
  <1>1. DatesTyped
    <2>1. dated = [t \in {} |-> 0] /\ tokens = 0 /\ floor = 0
      BY DEF Init, NoDates
    <2>. QED BY <2>1 DEF DatesTyped
  <1>2. Typed /\ Fresh
    BY DEF Init, Typed, Fresh, Ours
  <1>. QED BY <1>1, <1>2 DEF Inv

\* The list changes, and nothing is marked as not working.
LEMMA ListKeeps ==
    ASSUME Inv, DatesTyped', tokens' \in {tokens, tokens + 1}, Move,
           UNCHANGED <<evidence, selected, bridge, memory, failures>>
    PROVE  Inv'
  <1>1. UNCHANGED <<evidence, selected, session, generation, proof, starting, failures>>
    BY DEF bridge, memory
  <1>2. Typed'
    BY <1>1 DEF Inv, Typed
  <1>3. ASSUME NEW t \in Tables, NEW epoch \in Nat, NEW at, Dated(t, epoch, at)
        PROVE  DatedNext(t, epoch, at)
    BY <1>1, <1>3 DEF Dated, DatedNext, Move, Inv, DatesTyped
  <1>4. ASSUME NEW t \in Tables, evidence'[t] # None
        PROVE  DatedNext(t, evidence'[t].epoch, evidence'[t].at)
    BY <1>1, <1>3, <1>4 DEF Inv, Typed, Entry, Fresh
  <1>5. ASSUME NEW t \in Tables, starting' # None, starting'.table = t
        PROVE  DatedNext(t, starting'.epoch, starting'.at)
    BY <1>1, <1>3, <1>5 DEF Inv, Typed, Starting, Fresh
  <1>6. Fresh'
    BY <1>1, <1>4, <1>5 DEF Inv, Fresh, Ours, Dated, DatedNext
  <1>. QED BY <1>2, <1>6 DEF Inv

LEMMA BlockKeeps ==
    ASSUME Inv, NEW t \in Tables, BlockTable(t)
    PROVE  Inv'
  <1>1. PICK invalidates \in BOOLEAN :
            evidence' = IF invalidates /\ evidence[t] # None
                        THEN [evidence EXCEPT ![t].invalidated = TRUE] ELSE evidence
    BY DEF BlockTable
  <1>2. /\ proof' = None /\ starting' = None /\ UNCHANGED <<selected, session, generation>>
    BY DEF BlockTable, bridge
  <1>3. /\ evidence' \in [Tables -> {None} \cup Entry]
        /\ \A u \in Tables : evidence'[u].epoch = evidence[u].epoch /\ evidence'[u].at = evidence[u].at
        /\ \A u \in Tables : evidence'[u] # None => evidence[u] # None
    <2>1. CASE invalidates /\ evidence[t] # None
      <3>1. evidence[t] \in Entry
        BY <2>1 DEF Inv, Typed
      <3>2. /\ [evidence[t] EXCEPT !.invalidated = TRUE] \in Entry
            /\ [evidence[t] EXCEPT !.invalidated = TRUE].epoch = evidence[t].epoch
            /\ [evidence[t] EXCEPT !.invalidated = TRUE].at = evidence[t].at
        BY <3>1 DEF Entry
      <3>. QED BY <1>1, <2>1, <3>2 DEF Inv, Typed
    <2>2. CASE ~(invalidates /\ evidence[t] # None)
      BY <1>1, <2>2 DEF Inv, Typed
    <2>. QED BY <2>1, <2>2
  <1>4. CASE UNCHANGED <<blocklist, failures>>
    <2>1. DatesTyped' /\ failures' = failures /\ tokens' = tokens /\ \A u \in Tables : EpochOf(u)' = EpochOf(u)
      BY <1>4 DEF Inv, DatesTyped, blocklist, EpochOf
    <2>2. Typed'
      BY <1>2, <1>3, <2>1 DEF Inv, Typed
    <2>3. ASSUME NEW u \in Tables, evidence'[u] # None
          PROVE  DatedNext(u, evidence'[u].epoch, evidence'[u].at)
      <3>1. evidence[u] # None /\ evidence'[u].epoch = evidence[u].epoch /\ evidence'[u].at = evidence[u].at
        BY <1>3, <2>3
      <3>2. Dated(u, evidence[u].epoch, evidence[u].at)
        BY <3>1 DEF Inv, Fresh
      <3>. QED BY <2>1, <3>1, <3>2 DEF Dated, DatedNext
    <2>4. Fresh'
      BY <1>2, <2>3 DEF Fresh, Ours, Dated, DatedNext
    <2>. QED BY <2>1, <2>2, <2>4 DEF Inv
  <1>5. CASE Dates({t}, FALSE) /\ failures' = [failures EXCEPT ![t] = @ + 1]
    <2>1. /\ DatesTyped' /\ tokens' \in {tokens, tokens + 1} /\ Move
          /\ EpochOf(t)' = tokens + 1 /\ tokens' = tokens + 1
      BY <1>5, DatesIs DEF Inv, Move
    <2>2. Typed'
      BY <1>2, <1>3, <1>5 DEF Inv, Typed
    <2>3. ASSUME NEW u \in Tables, evidence'[u] # None
          PROVE  DatedNext(u, evidence'[u].epoch, evidence'[u].at)
      <3>1. /\ evidence'[u].epoch \in Nat /\ evidence'[u].epoch <= tokens /\ tokens \in Nat
            /\ Dated(u, evidence'[u].epoch, evidence'[u].at)
        <4>1. evidence[u] # None /\ evidence'[u].epoch = evidence[u].epoch /\ evidence'[u].at = evidence[u].at
          BY <1>3, <2>3
        <4>2. Dated(u, evidence[u].epoch, evidence[u].at) /\ evidence[u] \in Entry
          BY <4>1 DEF Inv, Fresh, Typed
        <4>. QED BY <4>1, <4>2 DEF Dated, Entry, Inv, DatesTyped
      <3>2. CASE u = t
        BY <2>1, <3>1, <3>2 DEF DatedNext
      <3>3. CASE u # t
        <4>1. failures'[u] = failures[u]
          BY <1>5, <3>3 DEF Inv, Typed
        <4>. QED BY <2>1, <3>1, <4>1 DEF Move, Dated, DatedNext
      <3>. QED BY <3>2, <3>3
    <2>4. Fresh'
      BY <1>2, <2>3 DEF Fresh, Ours, Dated, DatedNext
    <2>. QED BY <2>1, <2>2, <2>4 DEF Inv
  <1>. QED BY <1>4, <1>5 DEF BlockTable

LEMMA ListStepKeeps ==
    ASSUME Inv, \/ \E t \in Tables : RecordUnusable(t)
                \/ \E r \in Rows : BlockRow(r)
                \/ \E k \in Keys : Unblock(k)
                \/ Clear \/ ListDamaged
    PROVE  Inv'
  <1>1. UNCHANGED <<evidence, selected, bridge, memory, failures>>
    BY DEF RecordUnusable, BlockRow, Unblock, Clear, ListDamaged, NotOfTheList
  <1>2. CASE ListDamaged
    <2>1. DatesTyped' /\ tokens' = tokens /\ Move
      BY <1>2 DEF ListDamaged, Inv, DatesTyped, Move, EpochOf
    <2>. QED BY <1>1, <2>1, ListKeeps
  <1>3. ASSUME NEW failed \in SUBSET Tables, NEW reset \in BOOLEAN, Dates(failed, reset)
        PROVE  Inv'
    <2>1. DatesTyped' /\ tokens' \in {tokens, tokens + 1} /\ Move
      BY <1>3, DatesIs DEF Inv, Move
    <2>. QED BY <1>1, <2>1, ListKeeps
  <1>4. CASE \E t \in Tables : RecordUnusable(t)
    <2>1. PICK t \in Tables : Dates(IF IsFailing(t) THEN {t} ELSE {}, FALSE)
      BY <1>4 DEF RecordUnusable
    <2>. QED BY <1>3, <2>1
  <1>5. CASE \E r \in Rows : BlockRow(r)
    BY <1>3, <1>5 DEF BlockRow
  <1>6. CASE \E k \in Keys : Unblock(k)
    BY <1>3, <1>6 DEF Unblock
  <1>7. CASE Clear
    <2>1. Dates(IF listed THEN {t \in Tables : IsFailing(t)} ELSE {}, ~listed)
      BY <1>7 DEF Clear
    <2>2. (~listed) \in BOOLEAN /\ (IF listed THEN {t \in Tables : IsFailing(t)} ELSE {}) \in SUBSET Tables
      OBVIOUS
    <2>. QED BY <1>3, <2>1, <2>2
  <1>. QED BY <1>2, <1>4, <1>5, <1>6, <1>7

\* What the calls earn: an entry of an epoch that still holds, begun after the last failure.
LEMMA EarnedKeeps ==
    ASSUME Inv, NEW t \in Tables, NEW epoch \in Nat, NEW by \in {"startup", "player"}, NEW at \in Nat,
           Dated(t, epoch, at), evidence' = Earned(t, epoch, by, at)
    PROVE  /\ evidence' \in [Tables -> {None} \cup Entry]
           /\ \A u \in Tables : evidence'[u] # None => Dated(u, evidence'[u].epoch, evidence'[u].at)
  <1>. DEFINE e == [epoch |-> epoch, invalidated |-> FALSE, by |-> by, at |-> at]
  <1>1. evidence' = [evidence EXCEPT ![t] = e]
    BY DEF Earned
  <1>2. e \in Entry /\ e.epoch = epoch /\ e.at = at
    BY DEF Entry
  <1>. HIDE DEF e
  <1>3. evidence'[t] = e /\ \A u \in Tables \ {t} : evidence'[u] = evidence[u]
    BY <1>1 DEF Inv, Typed
  <1>. QED BY <1>1, <1>2, <1>3 DEF Inv, Typed, Fresh

LEMMA PollKeeps ==
    ASSUME Inv, Poll \/ Confirm
    PROVE  Inv'
  <1>1. UNCHANGED <<blocklist, selected, session, generation, failures>>
    BY DEF Poll, Confirm, bridge
  <1>2. DatesTyped' /\ tokens' = tokens /\ \A t \in Tables : EpochOf(t)' = EpochOf(t)
    BY <1>1 DEF Inv, DatesTyped, blocklist, EpochOf
  <1>3. starting' \in {None, starting}
    BY DEF Poll, Confirm, ObserveStartup
  <1>4. /\ proof' \in {None} \cup Proof
        /\ proof' # None => proof # None /\ proof'.session = proof.session /\ proof'.at = proof.at
    <2>1. CASE proof = None
      BY <2>1 DEF Poll, Confirm, ObserveProof
    <2>2. CASE proof # None
      <3>1. proof \in Proof
        BY <2>2 DEF Inv, Typed
      <3>2. /\ [proof EXCEPT !.acknowledged = TRUE] \in Proof /\ [proof EXCEPT !.verified = TRUE] \in Proof
            /\ [proof EXCEPT !.acknowledged = TRUE].session = proof.session
            /\ [proof EXCEPT !.acknowledged = TRUE].at = proof.at
            /\ [proof EXCEPT !.verified = TRUE].session = proof.session
            /\ [proof EXCEPT !.verified = TRUE].at = proof.at
        BY <3>1 DEF Proof
      <3>3. proof' \in {None, proof, [proof EXCEPT !.acknowledged = TRUE], [proof EXCEPT !.verified = TRUE]}
        BY <2>2 DEF Poll, Confirm, ObserveProof
      <3>. QED BY <2>2, <3>1, <3>2, <3>3
    <2>. QED BY <2>1, <2>2
  <1>5. /\ evidence' \in [Tables -> {None} \cup Entry]
        /\ \A u \in Tables : evidence'[u] # None => Dated(u, evidence'[u].epoch, evidence'[u].at)
    <2>1. CASE evidence' = evidence
      BY <2>1 DEF Inv, Typed, Fresh
    <2>2. CASE Poll /\ evidence' # evidence
      <3>1. StartupProves /\ evidence' = Earned(starting.table, starting.epoch, "startup", starting.at)
        BY <2>2 DEF Poll, ObserveStartup
      <3>2. starting \in Starting /\ starting # None
        BY <3>1 DEF StartupProves, Inv, Typed
      <3>3. /\ starting.table \in Tables /\ starting.epoch \in Nat /\ starting.at \in Nat
            /\ Dated(starting.table, starting.epoch, starting.at)
        BY <3>2 DEF Starting, Inv, Fresh
      <3>. QED BY <3>1, <3>3, EarnedKeeps
    <2>3. CASE Confirm
      <3>1. /\ proof # None /\ session # None /\ proof.session = session.id
            /\ evidence' = Earned(session.table, EpochOf(session.table), "player", proof.at)
        BY <2>3 DEF Confirm, ObserveProof, SessionCurrent
      <3>2. proof.at = failures[session.table] /\ session.table \in Tables /\ proof.at \in Nat
        BY <3>1 DEF Inv, Fresh, Ours, Typed, Sessions, Proof
      <3>3. EpochOf(session.table) \in Nat /\ EpochOf(session.table) <= tokens
        BY <3>2 DEF EpochOf, Inv, DatesTyped
      <3>4. Dated(session.table, EpochOf(session.table), proof.at)
        BY <3>2, <3>3 DEF Dated
      <3>. QED BY <3>1, <3>2, <3>3, <3>4, EarnedKeeps
    <2>. QED BY <2>1, <2>2, <2>3
  <1>6. Typed'
    BY <1>1, <1>3, <1>4, <1>5 DEF Inv, Typed
  <1>7. \A t \in Tables : \A epoch, at : Dated(t, epoch, at) => DatedNext(t, epoch, at)
    BY <1>1, <1>2 DEF Dated, DatedNext
  <1>8. \A u \in Tables : evidence'[u] # None => DatedNext(u, evidence'[u].epoch, evidence'[u].at)
    BY <1>5, <1>7
  <1>9. \A u \in Tables : starting' # None /\ starting'.table = u => DatedNext(u, starting'.epoch, starting'.at)
    BY <1>3, <1>7 DEF Inv, Fresh
  <1>10. Fresh'
    BY <1>1, <1>4, <1>8, <1>9 DEF Inv, Fresh, Ours, Dated, DatedNext
  <1>. QED BY <1>2, <1>6, <1>10 DEF Inv

\* A step that earns nothing and fails nothing.
LEMMA RestKeeps ==
    ASSUME Inv, UNCHANGED <<blocklist, evidence, failures>>, Typed',
           starting' # None => starting' = starting \/ Dated(starting'.table, starting'.epoch, starting'.at),
           Ours' => proof'.at = failures[session'.table],
           proof' # None => session' # None /\ proof'.session <= session'.id
    PROVE  Inv'
  <1>1. DatesTyped' /\ \A t \in Tables : EpochOf(t)' = EpochOf(t)
    BY DEF Inv, DatesTyped, blocklist, EpochOf
  <1>2. \A t \in Tables : \A epoch, at : Dated(t, epoch, at) => DatedNext(t, epoch, at)
    BY <1>1 DEF Dated, DatedNext, blocklist
  <1>3. \A u \in Tables : evidence'[u] # None => DatedNext(u, evidence'[u].epoch, evidence'[u].at)
    BY <1>2 DEF Inv, Fresh
  <1>4. \A u \in Tables : starting' # None /\ starting'.table = u => DatedNext(u, starting'.epoch, starting'.at)
    BY <1>2 DEF Inv, Fresh
  <1>5. Fresh'
    BY <1>3, <1>4 DEF Fresh, Dated, DatedNext
  <1>. QED BY <1>1, <1>5 DEF Inv

LEMMA PrepareKeeps ==
    ASSUME Inv, PrepareSession
    PROVE  Inv'
  <1>. DEFINE id == IF session = None THEN 1 ELSE session.id + 1
              begun == [session |-> id, table |-> selected, epoch |-> EpochOf(selected),
                        at |-> failures[selected]]
  <1>1. /\ session' = [id |-> id, table |-> selected] /\ generation' = 0
        /\ starting' \in {begun, None}
        /\ UNCHANGED <<blocklist, evidence, selected, proof, failures>>
    BY DEF PrepareSession
  <1>2. id \in 1..MaxSessions /\ id \in Nat /\ (session # None => id = session.id + 1 /\ session.id \in Nat)
    <2>1. id <= MaxSessions
      BY DEF PrepareSession
    <2>. QED BY <2>1 DEF Inv, Typed, Sessions
  <1>. HIDE DEF id
  <1>3. selected \in Tables /\ EpochOf(selected) \in Nat /\ EpochOf(selected) <= tokens /\ failures[selected] \in Nat
    BY DEF EpochOf, Inv, DatesTyped, Typed
  <1>4. begun \in Starting /\ Dated(begun.table, begun.epoch, begun.at)
    BY <1>2, <1>3 DEF Starting, Dated
  <1>5. session' \in Sessions /\ session'.id = id
    BY <1>1, <1>2, <1>3 DEF Sessions
  <1>. HIDE DEF begun
  <1>6. Typed'
    BY <1>1, <1>4, <1>5 DEF Inv, Typed
  <1>7. proof' # None => proof'.session < session'.id /\ proof'.session \in Nat
    BY <1>1, <1>2, <1>5 DEF Inv, Fresh, Typed, Proof
  <1>8. session' # None \/ proof' = None
    BY <1>1, NoneIsNoSession, <1>5
  <1>. QED BY <1>1, <1>2, <1>4, <1>5, <1>6, <1>7, <1>8, RestKeeps DEF Ours

\* What a command makes of the proof under way.
LEMMA TrackedIs ==
    ASSUME Inv, SessionCurrent, NEW kind \in {"on", "off", "query"}, NEW g \in Nat
    PROVE  /\ Tracked(kind, g) \in {None} \cup Proof
           /\ Tracked(kind, g) # None => /\ Tracked(kind, g).session = session.id
                                        /\ Tracked(kind, g).at = failures[session.table]
  <1>1. session \in Sessions /\ session # None /\ failures[session.table] \in Nat /\ session.id \in Nat
    BY DEF Inv, Typed, SessionCurrent, Sessions
  <1>2. CASE kind = "on"
    BY <1>1, <1>2 DEF Tracked, Proof
  <1>3. CASE kind = "off"
    BY <1>3 DEF Tracked
  <1>4. CASE kind = "query"
    <2>1. CASE Ours
      <3>1. proof \in Proof /\ proof.session = session.id /\ proof.at = failures[session.table]
        BY <2>1 DEF Inv, Typed, Ours, Fresh
      <3>2. Tracked(kind, g) \in {None, [proof EXCEPT !.query = g, !.verified = FALSE]}
        BY <1>4, <2>1 DEF Tracked, Ours
      <3>3. /\ [proof EXCEPT !.query = g, !.verified = FALSE] \in Proof
            /\ [proof EXCEPT !.query = g, !.verified = FALSE].session = session.id
            /\ [proof EXCEPT !.query = g, !.verified = FALSE].at = failures[session.table]
        BY <3>1 DEF Proof
      <3>. QED BY <3>2, <3>3
    <2>2. CASE ~Ours
      BY <1>1, <1>4, <2>2 DEF Tracked, Ours
    <2>. QED BY <2>1, <2>2
  <1>. QED BY <1>2, <1>3, <1>4

LEMMA WriteKeeps ==
    ASSUME Inv, NEW kind \in {"on", "off", "query"}, WriteCommand(kind)
    PROVE  Inv'
  <1>1. /\ SessionCurrent /\ generation' = generation + 1 /\ proof' = Tracked(kind, generation')
        /\ UNCHANGED <<blocklist, evidence, selected, session, starting, failures>>
    BY DEF WriteCommand
  <1>2. generation' \in Nat
    BY <1>1 DEF Inv, Typed
  <1>3. /\ proof' \in {None} \cup Proof
        /\ proof' # None => proof'.session = session.id /\ proof'.at = failures[session.table]
    BY <1>1, <1>2, TrackedIs
  <1>4. Typed'
    BY <1>1, <1>2, <1>3 DEF Inv, Typed
  <1>5. session # None /\ session.id \in Nat
    BY <1>1 DEF SessionCurrent, Inv, Typed, Sessions
  <1>. QED BY <1>1, <1>3, <1>4, <1>5, RestKeeps DEF Ours

LEMMA OtherKeeps ==
    ASSUME Inv, \/ \E t \in Tables : Select(t)
                \/ BridgeRuns \/ StartupEnds \/ SessionEnds \/ Restart \/ UNCHANGED vars
    PROVE  Inv'
  <1>1. /\ UNCHANGED <<blocklist, evidence, session, failures>> /\ selected' \in Tables
        /\ generation' \in {generation, 0} /\ proof' \in {None, proof} /\ starting' \in {None, starting}
    BY DEF Select, BridgeRuns, StartupEnds, SessionEnds, Restart, vars, bridge, memory, Inv, Typed
  <1>2. Typed'
    BY <1>1 DEF Inv, Typed
  <1>. QED BY <1>1, <1>2, RestKeeps DEF Inv, Fresh, Ours

LEMMA StepKeeps == Inv /\ [Next]_vars => Inv'
  BY BlockKeeps, ListStepKeeps, PollKeeps, PrepareKeeps, WriteKeeps, OtherKeeps DEF Next

(* No success outlives a later failure of the same table: whatever is cleared, *)
(* lost or given up to a bound in table_blocklist.py, evidence that stands was *)
(* begun after the last time the table was marked as not working.            *)
THEOREM NothingOutlivesAFailure == Spec => []EvidenceIsFresh
  <1>1. Inv => EvidenceIsFresh
    BY DEF Inv, Fresh, Dated, EvidenceIsFresh, Stands
  <1>. QED BY <1>1, InitInv, StepKeeps, PTL DEF Spec

-----------------------------------------------------------------------------
(* What the player confirms.                                                *)

Commands == [kind : {"on", "off", "query"}, generation : Nat]
Results == [generation : Nat, good : BOOLEAN]

\* The queue holds the last generations written, in order, and the latest result is of the one before.
QueueInv ==
    /\ queue \in Seq(Commands) /\ result \in {None} \cup Results
    /\ Len(queue) <= generation
    /\ \A i \in 1..Len(queue) : queue[i].generation = generation - Len(queue) + i
    /\ result # None => result.generation = generation - Len(queue) /\ result.generation > 0
    /\ connected => session # None
    /\ wanted \in BOOLEAN /\ seen \in BOOLEAN

\* The proof under way is about the last commands: the last activation, or the last query after it.
LastIs(kind) == queue # << >> => queue[Len(queue)].kind = kind
ActivationInv == proof.query = 0 /\ proof.activation = generation /\ LastIs("on")
QueryInv == proof.query = generation /\ proof.query > 0 /\ LastIs("query")
ProofInv == connected /\ Ours =>
    /\ wanted
    /\ ActivationInv \/ QueryInv
    /\ proof.query > 0 /\ result # None /\ result.generation = proof.query /\ result.good => seen
    /\ proof.verified => proof.query > 0 /\ queue = << >> /\ seen

ConfirmInv == Inv /\ QueueInv /\ ProofInv

LEMMA InitConfirm == Init => QueueInv /\ ProofInv
  <1>. SUFFICES ASSUME Init PROVE QueueInv /\ ProofInv
    OBVIOUS
  <1>1. /\ queue = << >> /\ Len(queue) = 0 /\ queue \in Seq(Commands) /\ generation = 0
        /\ result = None /\ connected = FALSE /\ wanted = FALSE /\ seen = FALSE
    BY DEF Init
  <1>2. \A i \in 1..Len(queue) : queue[i].generation = generation - Len(queue) + i
    BY <1>1
  <1>3. Len(queue) <= generation
    BY <1>1
  <1>4. wanted \in BOOLEAN /\ seen \in BOOLEAN /\ ~connected
    BY <1>1
  <1>5. QueueInv
    BY <1>1, <1>2, <1>3, <1>4 DEF QueueInv
  <1>. QED BY <1>4, <1>5 DEF ProofInv

LEMMA BridgeRunsConfirm ==
    ASSUME ConfirmInv, BridgeRuns
    PROVE  QueueInv' /\ ProofInv'
  <1>. DEFINE kind == Head(queue).kind
  <1>1. PICK works \in BOOLEAN :
            /\ result' = [generation |-> Head(queue).generation, good |-> works /\ (kind = "query" => active)]
            /\ seen' = (kind = "query" /\ works /\ (kind = "query" => active))
    BY DEF BridgeRuns
  <1>2. /\ queue' = Tail(queue) /\ queue # << >> /\ connected
        /\ UNCHANGED <<session, connected, generation, proof, wanted>>
    BY DEF BridgeRuns, memory
  <1>3. /\ queue \in Seq(Commands) /\ Len(queue) > 0 /\ queue[1] = Head(queue) /\ queue[1] \in Commands
        /\ Len(queue') = Len(queue) - 1 /\ queue' \in Seq(Commands)
        /\ \A i \in 1..Len(queue') : queue'[i] = queue[i + 1]
    BY <1>2 DEF ConfirmInv, QueueInv
  <1>4. generation \in Nat /\ Head(queue).generation = generation - Len(queue) + 1 /\ Len(queue) <= generation
    BY <1>3 DEF ConfirmInv, QueueInv, Inv, Typed
  <1>5. result' \in Results /\ result'.generation = generation' - Len(queue') /\ result'.generation > 0
    <2>1. Head(queue).generation \in Nat
      BY <1>3 DEF Commands
    <2>2. result' \in Results
      BY <1>1, <2>1 DEF Results
    <2>. QED BY <1>1, <1>2, <1>3, <1>4, <2>2
  <1>6. \A i \in 1..Len(queue') : queue'[i].generation = generation' - Len(queue') + i
    <2>1. \A i \in 1..Len(queue') : i + 1 \in 1..Len(queue)
      BY <1>3
    <2>. QED BY <1>2, <1>3, <1>4, <2>1 DEF ConfirmInv, QueueInv
  <1>7. QueueInv'
    <2>1. seen' \in BOOLEAN /\ wanted' \in BOOLEAN /\ (connected' => session' # None)
      BY <1>1, <1>2 DEF ConfirmInv, QueueInv
    <2>. QED BY <1>2, <1>3, <1>4, <1>5, <1>6, <2>1 DEF QueueInv
  <1>8. ASSUME Ours'
        PROVE  /\ wanted' /\ (ActivationInv' \/ QueryInv')
               /\ proof'.query > 0 /\ result'.generation = proof'.query /\ result'.good => seen'
               /\ proof'.verified => FALSE
    <2>1. Ours /\ proof' = proof
      BY <1>2, <1>8 DEF Ours
    <2>2. wanted /\ (ActivationInv \/ QueryInv) /\ ~proof.verified
      BY <1>2, <2>1 DEF ConfirmInv, ProofInv
    <2>3. queue' # << >> => queue'[Len(queue')] = queue[Len(queue)]
      BY <1>3
    <2>4. \A k : LastIs(k) => LastIs(k)'
      BY <1>2, <2>3 DEF LastIs
    <2>5. ActivationInv' \/ QueryInv'
      BY <1>2, <2>1, <2>2, <2>4 DEF ActivationInv, QueryInv
    <2>6. ASSUME proof.query > 0, result'.generation = proof.query, result'.good
          PROVE  seen'
      <3>1. QueryInv
        BY <2>2, <2>6 DEF ActivationInv
      <3>2. Len(queue) = 1
        BY <1>2, <1>3, <1>4, <1>5, <2>6, <3>1 DEF QueryInv
      <3>3. Head(queue).kind = "query"
        BY <1>2, <1>3, <3>1, <3>2 DEF QueryInv, LastIs
      <3>. QED BY <1>1, <2>6, <3>3
    <2>. QED BY <1>2, <2>1, <2>2, <2>5, <2>6
  <1>9. ProofInv'
    BY <1>2, <1>8 DEF ProofInv
  <1>. QED BY <1>7, <1>9

LEMMA WriteConfirm ==
    ASSUME ConfirmInv, NEW kind \in {"on", "off", "query"}, WriteCommand(kind)
    PROVE  QueueInv' /\ ProofInv'
  <1>. DEFINE g == generation + 1
              command == [kind |-> kind, generation |-> g]
  <1>1. /\ SessionCurrent /\ connected /\ generation' = g /\ queue' = Append(queue, command)
        /\ proof' = Tracked(kind, g) /\ wanted' = (IF kind = "query" THEN wanted ELSE kind = "on")
        /\ UNCHANGED <<session, connected, result, seen>>
    BY DEF WriteCommand
  <1>2. generation \in Nat /\ g \in Nat /\ command \in Commands
    BY DEF Commands, ConfirmInv, Inv, Typed
  <1>3. /\ queue' \in Seq(Commands) /\ Len(queue') = Len(queue) + 1 /\ queue' # << >>
        /\ queue'[Len(queue')] = command /\ \A i \in 1..Len(queue) : queue'[i] = queue[i]
        /\ Len(queue) \in Nat
    BY <1>1, <1>2 DEF ConfirmInv, QueueInv
  <1>. HIDE DEF command
  <1>4. command.kind = kind /\ command.generation = g
    BY DEF command
  <1>5. \A i \in 1..Len(queue') : queue'[i].generation = generation' - Len(queue') + i
    <2>1. ASSUME NEW i \in 1..Len(queue'), i <= Len(queue)
          PROVE  queue'[i].generation = generation' - Len(queue') + i
      BY <1>1, <1>2, <1>3, <2>1 DEF ConfirmInv, QueueInv
    <2>2. ASSUME NEW i \in 1..Len(queue'), i > Len(queue)
          PROVE  queue'[i].generation = generation' - Len(queue') + i
      <3>1. i = Len(queue')
        BY <1>3, <2>2
      <3>. QED BY <1>1, <1>2, <1>3, <1>4, <3>1
    <2>. QED BY <1>3, <2>1, <2>2
  <1>6. QueueInv'
    <2>1. wanted' \in BOOLEAN
      BY <1>1 DEF ConfirmInv, QueueInv
    <2>2. result' # None => result'.generation = generation' - Len(queue') /\ result'.generation > 0
      BY <1>1, <1>2, <1>3 DEF ConfirmInv, QueueInv
    <2>. QED BY <1>1, <1>2, <1>3, <1>5, <2>1, <2>2 DEF ConfirmInv, QueueInv
  <1>7. ASSUME Ours'
        PROVE  /\ wanted' /\ ~proof'.verified
               /\ \/ proof'.query = 0 /\ proof'.activation = g /\ kind = "on"
                  \/ proof'.query = g /\ kind = "query"
    <2>1. CASE kind = "on"
      BY <1>1, <2>1 DEF Tracked
    <2>2. CASE kind = "off"
      BY <1>1, <1>7, <2>2 DEF Tracked, Ours
    <2>3. CASE kind = "query"
      <3>1. Ours /\ proof' = [proof EXCEPT !.query = g, !.verified = FALSE]
        BY <1>1, <1>7, <2>3 DEF Tracked, Ours
      <3>2. proof \in Proof
        BY <3>1 DEF ConfirmInv, Inv, Typed, Ours
      <3>3. proof'.query = g /\ proof'.verified = FALSE
        BY <3>1, <3>2 DEF Proof
      <3>4. wanted
        BY <1>1, <3>1 DEF ConfirmInv, ProofInv
      <3>. QED BY <1>1, <2>3, <3>3, <3>4
    <2>. QED BY <2>1, <2>2, <2>3
  <1>8. result' # None => result'.generation < g
    BY <1>1, <1>2, <1>3 DEF ConfirmInv, QueueInv
  <1>9. ASSUME Ours' PROVE ActivationInv' \/ QueryInv'
    <2>1. LastIs(kind)'
      BY <1>3, <1>4 DEF LastIs
    <2>. QED BY <1>1, <1>2, <1>7, <1>9, <2>1 DEF ActivationInv, QueryInv
  <1>10. ASSUME Ours' PROVE proof'.query > 0 /\ result' # None => result'.generation # proof'.query
    BY <1>2, <1>7, <1>8, <1>10, <1>1 DEF ConfirmInv, QueueInv, Results
  <1>11. ProofInv'
    BY <1>7, <1>9, <1>10 DEF ProofInv
  <1>. QED BY <1>6, <1>11

\* A poll, or the look that a confirmation takes, believes an answer only to the last query.
LEMMA ObservedIs ==
    ASSUME ConfirmInv, connected, ObserveProof # None
    PROVE  /\ Ours /\ ObserveProof \in Proof
           /\ ObserveProof.session = proof.session /\ ObserveProof.query = proof.query
           /\ ObserveProof.activation = proof.activation
           /\ ObserveProof.verified => proof.query > 0 /\ queue = << >> /\ seen
  <1>1. Ours /\ proof \in Proof
    BY DEF ObserveProof, SessionCurrent, Ours, ConfirmInv, Inv, Typed
  <1>2. /\ ActivationInv \/ QueryInv
        /\ proof.query > 0 /\ result # None /\ result.generation = proof.query /\ result.good => seen
        /\ proof.verified => proof.query > 0 /\ queue = << >> /\ seen
    BY <1>1 DEF ConfirmInv, ProofInv
  <1>3. CASE ObserveProof = proof
    BY <1>1, <1>2, <1>3
  <1>4. CASE ObserveProof = [proof EXCEPT !.acknowledged = TRUE]
    <2>1. /\ ObserveProof \in Proof /\ ObserveProof.session = proof.session /\ ObserveProof.query = proof.query
          /\ ObserveProof.activation = proof.activation /\ ObserveProof.verified = proof.verified
      BY <1>1, <1>4 DEF Proof
    <2>. QED BY <1>1, <1>2, <2>1
  <1>5. CASE /\ ObserveProof = [proof EXCEPT !.verified = TRUE]
             /\ result # None /\ result.generation = proof.query /\ result.good
    <2>1. /\ ObserveProof \in Proof /\ ObserveProof.session = proof.session /\ ObserveProof.query = proof.query
          /\ ObserveProof.activation = proof.activation
      BY <1>1, <1>5 DEF Proof
    <2>2. proof.query > 0 /\ generation \in Nat
      BY <1>2, <1>5 DEF ActivationInv, QueryInv, ConfirmInv, QueueInv, Inv, Typed
    <2>3. Len(queue) = 0
      <3>1. proof.query = generation
        BY <1>2, <2>2 DEF ActivationInv, QueryInv
      <3>2. result.generation = generation - Len(queue) /\ Len(queue) \in Nat
        BY <1>5 DEF ConfirmInv, QueueInv
      <3>. QED BY <1>5, <2>2, <3>1, <3>2
    <2>4. queue = << >>
      BY <2>3 DEF ConfirmInv, QueueInv
    <2>. QED BY <1>1, <1>2, <1>5, <2>1, <2>2, <2>4
  <1>. QED BY <1>3, <1>4, <1>5, <1>1 DEF ObserveProof, Ours

LEMMA PollConfirm ==
    ASSUME ConfirmInv, Poll \/ Confirm
    PROVE  QueueInv' /\ ProofInv'
  <1>1. UNCHANGED <<session, connected, queue, result, generation, wanted, seen>>
    BY DEF Poll, Confirm, bridge
  <1>2. QueueInv'
    BY <1>1 DEF ConfirmInv, QueueInv
  <1>3. ASSUME connected, Ours' PROVE Ours /\ proof' = ObserveProof /\ ObserveProof # None
    <2>1. proof' = ObserveProof /\ ObserveProof # None
      BY <1>3 DEF Poll, Confirm, Ours
    <2>. QED BY <1>3, <2>1, ObservedIs
  <1>4. ASSUME connected, Ours'
        PROVE  /\ wanted' /\ (ActivationInv' \/ QueryInv')
               /\ proof'.query > 0 /\ result' # None /\ result'.generation = proof'.query /\ result'.good => seen'
               /\ proof'.verified => proof'.query > 0 /\ queue' = << >> /\ seen'
    <2>1. Ours /\ proof' = ObserveProof /\ ObserveProof # None
      BY <1>3, <1>4
    <2>2. /\ proof'.query = proof.query /\ proof'.activation = proof.activation
          /\ proof'.verified => proof.query > 0 /\ queue = << >> /\ seen
      BY <1>4, <2>1, ObservedIs
    <2>3. /\ wanted /\ (ActivationInv \/ QueryInv)
          /\ proof.query > 0 /\ result # None /\ result.generation = proof.query /\ result.good => seen
      BY <1>4, <2>1 DEF ConfirmInv, ProofInv
    <2>. QED BY <1>1, <2>2, <2>3 DEF ActivationInv, QueryInv, LastIs
  <1>. QED BY <1>1, <1>2, <1>4 DEF ProofInv

LEMMA SessionConfirm ==
    ASSUME ConfirmInv, PrepareSession \/ SessionEnds
    PROVE  QueueInv' /\ ProofInv'
  <1>1. queue' = << >> /\ result' = None /\ generation' = 0 /\ wanted' = FALSE /\ seen' = FALSE
    BY DEF PrepareSession, SessionEnds
  <1>2. queue' \in Seq(Commands) /\ Len(queue') = 0
    BY <1>1
  <1>3. connected' => session' # None
    BY NoneIsNoSession DEF PrepareSession, SessionEnds, ConfirmInv, Inv, Typed, Sessions
  <1>4. QueueInv'
    <2>1. \A i \in 1..Len(queue') : queue'[i].generation = generation' - Len(queue') + i
      BY <1>2
    <2>2. wanted' \in BOOLEAN /\ seen' \in BOOLEAN
      BY <1>1
    <2>3. Len(queue') <= generation'
      BY <1>1, <1>2
    <2>. QED BY <1>1, <1>2, <1>3, <2>1, <2>2, <2>3 DEF QueueInv
  <1>5. connected' => ~Ours'
    <2>1. CASE SessionEnds
      BY <2>1 DEF SessionEnds
    <2>2. CASE PrepareSession
      <3>. DEFINE id == IF session = None THEN 1 ELSE session.id + 1
      <3>1. session'.id = id /\ proof' = proof
        BY <2>2 DEF PrepareSession
      <3>2. ASSUME proof # None PROVE proof.session < id
        BY <3>2 DEF ConfirmInv, Inv, Fresh, Typed, Sessions, Proof
      <3>3. proof # None => proof.session \in Nat /\ id \in Nat
        BY DEF ConfirmInv, Inv, Typed, Sessions, Proof
      <3>. HIDE DEF id
      <3>. QED BY <3>1, <3>2, <3>3 DEF Ours
    <2>. QED BY <2>1, <2>2
  <1>. QED BY <1>4, <1>5 DEF ProofInv

\* The steps that touch neither the queue nor the answers, and start no proof.
LEMMA OtherConfirm ==
    ASSUME ConfirmInv, proof' \in {None, proof},
           UNCHANGED <<session, connected, queue, result, generation, wanted, seen>>
    PROVE  QueueInv' /\ ProofInv'
  <1>1. QueueInv'
    BY DEF ConfirmInv, QueueInv
  <1>2. Ours' => Ours /\ proof' = proof
    BY DEF Ours
  <1>. QED BY <1>1, <1>2 DEF ConfirmInv, ProofInv, ActivationInv, QueryInv, LastIs

LEMMA StepConfirm == ConfirmInv /\ [Next]_vars => ConfirmInv'
  <1>. SUFFICES ASSUME ConfirmInv, [Next]_vars PROVE QueueInv' /\ ProofInv'
    BY StepKeeps DEF ConfirmInv
  <1>1. ASSUME NEW t \in Tables, BlockTable(t) \/ Select(t) \/ RecordUnusable(t)
        PROVE  QueueInv' /\ ProofInv'
    <2>1. proof' \in {None, proof} /\ UNCHANGED <<session, connected, queue, result, generation, wanted, seen>>
      BY <1>1 DEF BlockTable, Select, RecordUnusable, NotOfTheList, bridge, memory
    <2>. QED BY <2>1, OtherConfirm
  <1>2. ASSUME \/ \E r \in Rows : BlockRow(r)
               \/ \E k \in Keys : Unblock(k)
               \/ Clear \/ ListDamaged \/ StartupEnds \/ Restart \/ UNCHANGED vars
        PROVE  QueueInv' /\ ProofInv'
    <2>1. proof' \in {None, proof} /\ UNCHANGED <<session, connected, queue, result, generation, wanted, seen>>
      BY <1>2 DEF BlockRow, Unblock, Clear, ListDamaged, StartupEnds, Restart, vars, NotOfTheList,
                  bridge, memory
    <2>. QED BY <2>1, OtherConfirm
  <1>. QED BY <1>1, <1>2, BridgeRunsConfirm, WriteConfirm, PollConfirm, SessionConfirm DEF Next

(* What the player confirms was on (write_runtime_commands, get_runtime_status *)
(* and confirm_table_working): the cheat was last switched on, and a query run *)
(* after that found it on, whatever commands, polls and restarts came between. *)
THEOREM ConfirmationsAreTrue == Spec => ConfirmedWasOn
  <1>0. ConfirmInv => evidence \in [Tables -> {None} \cup Entry]
    BY DEF ConfirmInv, Inv, Typed
  <1>1. ASSUME ConfirmInv, Next, NEW t \in Tables,
               evidence'[t] # evidence[t], evidence'[t] # None,
               evidence'[t].by = "player", ~evidence'[t].invalidated
        PROVE  wanted /\ seen
    <2>1. CASE Confirm
      <3>1. connected /\ ObserveProof # None /\ ObserveProof.verified
        BY <2>1 DEF Confirm
      <3>2. Ours /\ seen
        BY <1>1, <3>1, ObservedIs
      <3>. QED BY <1>1, <3>1, <3>2 DEF ConfirmInv, ProofInv
    <2>2. CASE Poll
      <3>1. evidence' = Earned(starting.table, starting.epoch, "startup", starting.at)
        BY <1>1, <2>2 DEF Poll, ObserveStartup
      <3>2. evidence' = [evidence EXCEPT ![starting.table] =
                [epoch |-> starting.epoch, invalidated |-> FALSE, by |-> "startup", at |-> starting.at]]
        BY <3>1 DEF Earned
      <3>3. starting.table = t
        BY <1>0, <1>1, <3>2
      <3>4. evidence'[t].by = "startup"
        BY <1>0, <1>1, <3>2, <3>3
      <3>. QED BY <1>1, <3>4
    <2>3. ASSUME NEW u \in Tables, BlockTable(u)
          PROVE  FALSE
      <3>1. evidence' = [evidence EXCEPT ![u].invalidated = TRUE] /\ evidence[u] # None
        BY <1>1, <2>3 DEF BlockTable
      <3>2. u = t
        BY <1>0, <1>1, <3>1
      <3>3. evidence[t] \in Entry
        BY <1>0, <1>1, <3>1, <3>2
      <3>4. evidence'[t] = [evidence[t] EXCEPT !.invalidated = TRUE]
        BY <1>0, <1>1, <3>1, <3>2
      <3>5. evidence'[t].invalidated = TRUE
        BY <3>3, <3>4 DEF Entry
      <3>. QED BY <1>1, <3>5
    <2>4. CASE UNCHANGED evidence
      BY <1>1, <2>4
    <2>. QED BY <1>1, <2>1, <2>2, <2>3, <2>4
             DEF Next, Select, RecordUnusable, BlockRow, Unblock, Clear, ListDamaged, PrepareSession,
                 WriteCommand, BridgeRuns, StartupEnds, SessionEnds, Restart, NotOfTheList
  <1>2. ConfirmInv /\ [Next]_vars =>
            [\A t \in Tables : /\ evidence'[t] # evidence[t] /\ evidence'[t] # None
                               /\ evidence'[t].by = "player" /\ ~evidence'[t].invalidated
                               => wanted /\ seen]_vars
    BY <1>1
  <1>3. Init => ConfirmInv
    BY InitInv, InitConfirm DEF ConfirmInv
  <1>. QED BY <1>2, <1>3, StepConfirm, PTL DEF Spec, ConfirmedWasOn
================================================================================
