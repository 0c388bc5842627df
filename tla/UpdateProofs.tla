----------------------------- MODULE UpdateProofs -----------------------------
(***************************************************************************)
(* What Update promises, for every number of versions, starts and faults.  *)
(* A start is refused by what the record says of an earlier install, by    *)
(* the operation, and by the handle on its installer, and each of the      *)
(* three is lost or rewritten on its own: a store that fails, a backend    *)
(* that dies, a deletion. The invariant says what they always still say    *)
(* together about the installer that may yet ask Decky (Tracked).          *)
(* Everything the manager holds is one record here (Manager), so that each *)
(* of its helpers has one lemma saying what it keeps of Sound, whatever    *)
(* came before it in the same step. Where a worker's poll may run inside   *)
(* the loop's step (Races) the invariant does not hold: what a run has     *)
(* committed is settled before it is entered.                              *)
(***************************************************************************)
EXTENDS Update, FiniteSetTheorems, TLAPS


\* The types of what the manager keeps and reads.
Managers == [rec : Records, held : Changes, result : {None} \cup Outcomes, kept : Versions,
             op : {None} \cup Operations, attempt : {0} \cup Attempts, handle : {0} \cup Attempts,
             observed : [Attempts -> {"unseen", "recent", "old"}], current : Versions]

\* An install that is pending: its installer was started, and one that is not
\* known to be recent is not running.
Begun(p) == p \in Pending => /\ runner[p.attempt].phase # "unborn"
                             /\ p.start # "recent" => ~Live(p.attempt)

\* An outcome that names an attempt: its installer is past asking, and gone when it failed.
Told(l) == l \in Outcomes /\ l.attempt # 0 =>
             /\ runner[l.attempt].phase # "unborn" /\ ~Verifying(l.attempt)
             /\ ~l.ok => ~Live(l.attempt)

\* What is pending is not what is told.
Apart(r) == r.install # None /\ r.last # None => r.install.attempt # r.last.attempt

RecordInv(t) ==
    /\ Begun(t.rec.install) /\ Begun(t.held.install)
    /\ Told(t.rec.last) /\ Told(t.held.last)
    /\ Apart(t.rec) /\ Apart(Stored(t))
    /\ t.held.install \in Pending =>
         t.rec.install # None /\ t.rec.install.attempt = t.held.install.attempt

ResultInv(t) == t.result # None => t.result.attempt \in Attempts /\ runner[t.result.attempt].phase = "ended"

RunningInv(t) ==
    task # "none" => /\ t.op # None /\ t.op.id = starts /\ t.op.version > t.current
                     /\ t.attempt = 0 /\ t.handle = 0 /\ runner[starts].phase = "unborn"
                     /\ t.op.state \notin Settled
                     /\ t.op.state = "installing" <=> task = "committed"
OpInv(t) ==
    /\ t.op = None => t.attempt = 0 /\ t.handle = 0
    /\ t.op # None =>
         /\ t.op.id <= starts /\ t.attempt \in {0, t.op.id} /\ t.handle \in {0, t.attempt}
         /\ t.attempt # 0 => runner[t.attempt].phase # "unborn"
         /\ t.op.state \in Settled => ~Live(t.op.id)
         /\ task = "none" => t.op.state \in Settled \/ (t.op.state = "installing" /\ t.attempt = t.op.id)
         /\ Stored(t).install # None =>
              /\ task = "none" /\ t.op.state = "installing" /\ Stored(t).install.attempt = t.op.id

\* The installer that may yet ask Decky is the one the record and the operation are about.
Tracked(t, a) ==
    /\ a = starts /\ runner[a].version > installed
    /\ t.rec.install # None /\ t.rec.install.attempt = a
    /\ t.rec.install.version = runner[a].version /\ t.rec.install.start = "recent"
    /\ t.held.install \in {Absent, None}
    /\ t.op = None => t.held.install = Absent
    /\ t.op # None => task = "none" /\ t.op.id = a /\ t.op.state = "installing"
TrackInv(t) == \A a \in Attempts : Verifying(a) => Tracked(t, a)

Sound(t) == t \in Managers /\ RecordInv(t) /\ ResultInv(t) /\ RunningInv(t) /\ OpInv(t) /\ TrackInv(t)

Owned(t) == t.op = None => \A a \in Attempts : ~Verifying(a)

LifeInv ==
    /\ backend # "down" => current = installed /\ Owned(Manager)
    /\ backend = "down" =>
         /\ held = Nothing /\ op = None /\ task = "none" /\ check = "idle" /\ base = None
         /\ reservation = 0 /\ deletion = "none"
StartInv == \A a \in Attempts : runner[a].phase # "unborn" => a <= starts
BaseInv == base # None => base = rec /\ task # "committed" /\ check = "out"
\* What a deletion leaves of the update.
Emptied(t) ==
    /\ t.op = None
    /\ t.rec.install = None /\ t.rec.last = None /\ t.held.install = Absent /\ t.held.last = Absent
    /\ Outlasts \/ (t.rec.latest = 0 /\ t.held.latest = Absent)
ClearedInv == deletion = "cleared" => (check = "idle" \/ Outlasts) /\ Emptied(Manager)

Inv == TypeOK /\ Sound(Manager) /\ LifeInv /\ StartInv /\ BaseInv /\ ClearedInv

-----------------------------------------------------------------------------
(* What the manager's steps do to the record and what is known over it.     *)

LEMMA NothingTyped == /\ Nothing \in Changes
                      /\ \A new \in Changes, v \in Versions : [new EXCEPT !.recovery = v] \in Changes
BY DEF Nothing, Changes

LEMMA RecordIs ==
    ASSUME NEW t \in Managers, NEW new \in Changes, NEW ok \in BOOLEAN,
           NEW u, u = Record(t, new, ok)
    PROVE  /\ u \in Managers
           /\ u.result = t.result /\ u.kept = t.kept /\ u.op = t.op /\ u.attempt = t.attempt
           /\ u.handle = t.handle /\ u.observed = t.observed /\ u.current = t.current
           /\ ok => u.rec = Over(new, t.rec) /\ u.held = Without(new, t.held)
           /\ ~ok => u.rec = t.rec /\ u.held = Over(new, t.held)
<1>1. Over(new, t.rec) \in Records /\ Over(new, t.held) \in Changes /\ Without(new, t.held) \in Changes
  BY NoneAssumption DEF Managers, Over, Without, Known, Left, Records, Changes
<1>2. QED
  BY <1>1 DEF Record, Managers

LEMMA StoredIs ==
    ASSUME NEW t \in Managers
    PROVE  /\ Stored(t) \in Records
           /\ Stored(t).install = Known(t.held.install, t.rec.install)
           /\ Stored(t).last = Known(t.held.last, t.rec.last)
           /\ Stored(t).recovery = Known(t.held.recovery, t.rec.recovery)
           /\ Stored(t).latest = Known(t.held.latest, t.rec.latest)
BY NoneAssumption DEF Stored, Over, Known, Managers, Records, Changes

LEMMA RecordStored ==
    ASSUME NEW t \in Managers, NEW new \in Changes, NEW ok \in BOOLEAN,
           NEW u, u = Record(t, new, ok)
    PROVE  /\ Stored(u).install = Known(new.install, Stored(t).install)
           /\ Stored(u).last = Known(new.last, Stored(t).last)
<1>1. u \in Managers BY RecordIs
<1>2. /\ ok => u.rec = Over(new, t.rec) /\ u.held = Without(new, t.held)
      /\ ~ok => u.rec = t.rec /\ u.held = Over(new, t.held)
  BY RecordIs
<1>3. /\ Stored(t).install = Known(t.held.install, t.rec.install)
      /\ Stored(t).last = Known(t.held.last, t.rec.last)
      /\ Stored(u).install = Known(u.held.install, u.rec.install)
      /\ Stored(u).last = Known(u.held.last, u.rec.last)
  BY <1>1, StoredIs
<1>4. QED
  BY <1>2, <1>3 DEF Over, Without, Known, Left

\* A change that lets no installer out of sight keeps what is known sound.
LEMMA RecordKeeps ==
    ASSUME NEW t, Sound(t), NEW new \in Changes, NEW ok \in BOOLEAN,
           new.install \in {Absent, None},
           new.install = None => \A a \in Attempts : ~Verifying(a),
           new.last \in Outcomes => new.install = None /\ Told(new.last),
           NEW u, u = Record(t, new, ok)
    PROVE  Sound(u)
<1>0. t \in Managers BY DEF Sound
<1>1. /\ u \in Managers
      /\ u.result = t.result /\ u.op = t.op /\ u.attempt = t.attempt /\ u.handle = t.handle
      /\ u.current = t.current
      /\ ok => u.rec = Over(new, t.rec) /\ u.held = Without(new, t.held)
      /\ ~ok => u.rec = t.rec /\ u.held = Over(new, t.held)
  BY <1>0, RecordIs
<1>2. /\ Stored(u).install = Known(new.install, Stored(t).install)
      /\ Stored(u).last = Known(new.last, Stored(t).last)
  BY <1>0, RecordStored
<1>3. /\ ok => /\ u.rec.install = Known(new.install, t.rec.install)
               /\ u.rec.last = Known(new.last, t.rec.last)
               /\ u.held.install = Left(new.install, t.held.install)
               /\ u.held.last = Left(new.last, t.held.last)
      /\ ~ok => /\ u.rec = t.rec
                /\ u.held.install = Known(new.install, t.held.install)
                /\ u.held.last = Known(new.last, t.held.last)
  BY <1>1 DEF Over, Without
<1>4. ResultInv(u) /\ RunningInv(u)
  BY <1>1 DEF Sound, ResultInv, RunningInv
<1>5. RecordInv(u)
  <2>1. /\ Begun(t.rec.install) /\ Begun(t.held.install) /\ Told(t.rec.last) /\ Told(t.held.last)
        /\ Apart(t.rec) /\ Apart(Stored(t))
        /\ t.held.install \in Pending =>
             t.rec.install # None /\ t.rec.install.attempt = t.held.install.attempt
    BY DEF Sound, RecordInv
  <2>2. Absent # None /\ Absent \notin Pending /\ None \notin Pending /\ Absent \notin Outcomes /\ None \notin Outcomes
    BY NoneAssumption
  <2>3. new.last \in {Absent, None} \cup Outcomes
    BY DEF Changes
  <2>4. Begun(u.rec.install) /\ Begun(u.held.install)
    BY <1>3, <2>1, <2>2 DEF Known, Left, Begun
  <2>5. Told(u.rec.last) /\ Told(u.held.last)
    BY <1>3, <2>1, <2>2, <2>3 DEF Known, Left, Told
  <2>6. Apart(u.rec)
    BY <1>3, <2>1, <2>2, <2>3 DEF Known, Apart
  <2>7. Apart(Stored(u))
    BY <1>2, <2>1, <2>2, <2>3 DEF Known, Apart
  <2>8. u.held.install \in Pending =>
          u.rec.install # None /\ u.rec.install.attempt = u.held.install.attempt
    BY <1>3, <2>1, <2>2 DEF Known, Left
  <2>9. QED
    BY <2>4, <2>5, <2>6, <2>7, <2>8 DEF RecordInv
<1>6. OpInv(u)
  <2>1. Stored(u).install # None => Stored(u).install = Stored(t).install
    BY <1>2 DEF Known
  <2>2. QED
    BY <1>1, <2>1 DEF Sound, OpInv
<1>7. TrackInv(u)
  <2>1. SUFFICES ASSUME NEW a \in Attempts, Verifying(a)
                 PROVE  Tracked(u, a)
    BY DEF TrackInv
  <2>2. Tracked(t, a) /\ new.install = Absent
    BY <2>1 DEF Sound, TrackInv
  <2>3. u.rec.install = t.rec.install /\ u.held.install \in {t.held.install, Absent}
    BY <1>3, <2>2 DEF Known, Left
  <2>4. QED
    BY <1>1, <2>2, <2>3 DEF Tracked
<1>8. QED
  BY <1>1, <1>4, <1>5, <1>6, <1>7 DEF Sound

\* What the recovery archive, the report or a start seen before say of it changes nothing else.
LEMMA AsideKeeps ==
    ASSUME NEW t, Sound(t), NEW u \in Managers,
           u.rec = t.rec, u.held = t.held, u.op = t.op, u.attempt = t.attempt, u.handle = t.handle,
           u.current = t.current, u.result \in {None, t.result}
    PROVE  Sound(u) /\ Stored(u) = Stored(t)
<1>1. Stored(u) = Stored(t)
  BY DEF Stored
<1>2. ResultInv(u) /\ RunningInv(u)
  BY DEF Sound, ResultInv, RunningInv
<1>3. RecordInv(u) /\ TrackInv(u)
  BY <1>1 DEF Sound, RecordInv, TrackInv, Tracked
<1>4. OpInv(u)
  BY <1>1 DEF Sound, OpInv
<1>5. QED
  BY <1>1, <1>2, <1>3, <1>4 DEF Sound

LEMMA StoredInstall ==
    ASSUME NEW t, Sound(t), Stored(t).install # None
    PROVE  /\ Stored(t).install \in Pending
           /\ Begun(Stored(t).install)
           /\ \A a \in Attempts : Verifying(a) => Stored(t).install = t.rec.install
<1>1. t \in Managers BY DEF Sound
<1>2. /\ Stored(t) \in Records
      /\ Stored(t).install = Known(t.held.install, t.rec.install)
  BY <1>1, StoredIs
<1>3. Begun(t.rec.install) /\ Begun(t.held.install)
  BY DEF Sound, RecordInv
<1>4. \A a \in Attempts : Verifying(a) => t.held.install \in {Absent, None}
  BY DEF Sound, TrackInv, Tracked
<1>5. QED
  BY <1>2, <1>3, <1>4 DEF Known, Records

LEMMA SeenKeeps ==
    ASSUME NEW t, Sound(t), NEW p \in Pending, NEW u, u = Seen(t, p)
    PROVE  /\ Sound(u) /\ Stored(u) = Stored(t)
           /\ u \in Managers /\ u.rec = t.rec /\ u.held = t.held /\ u.op = t.op
           /\ u.attempt = t.attempt /\ u.handle = t.handle /\ u.current = t.current
           /\ u.result = t.result /\ u.kept = t.kept
<1>1. t \in Managers /\ p.attempt \in Attempts
  BY DEF Sound, Pending
<1>2. /\ u \in Managers /\ u.rec = t.rec /\ u.held = t.held /\ u.op = t.op
      /\ u.attempt = t.attempt /\ u.handle = t.handle /\ u.current = t.current
      /\ u.result = t.result /\ u.kept = t.kept
  BY <1>1 DEF Seen, Managers
<1>3. QED
  BY <1>2, AsideKeeps

LEMMA ObservedIs ==
    ASSUME NEW t \in Managers, NEW p \in Pending
    PROVE  /\ ObservedStart(t, p) \in {"recent", "old"}
           /\ p.start = "recent" => ObservedStart(t, p) = "recent"
<1>1. p.attempt \in Attempts /\ p.start \in Ages
  BY DEF Pending
<1>2. t.observed \in [Attempts -> {"unseen", "recent", "old"}]
  BY DEF Managers
<1>3. Seen(t, p).observed =
        IF p.start = "future" /\ t.observed[p.attempt] = "unseen"
        THEN [t.observed EXCEPT ![p.attempt] = "recent"] ELSE t.observed
  BY DEF Seen, Managers
<1>4. p.start = "future" => Seen(t, p).observed[p.attempt] \in {"recent", "old"}
  BY <1>1, <1>2, <1>3
<1>5. QED
  BY <1>1, <1>4 DEF ObservedStart, Ages

\* The start that was seen takes the place of the one that was written.
LEMMA ObserveKeeps ==
    ASSUME NEW t, Sound(t), NEW p, p = Stored(t).install, p # None, NEW ok \in BOOLEAN,
           NEW u, u = Observe(t, p, ok)
    PROVE  /\ Sound(u) /\ u.op = t.op /\ u.attempt = t.attempt /\ u.handle = t.handle
           /\ u.current = t.current /\ u.result = t.result
           /\ Stored(u).install # None
           /\ Stored(u).install.attempt = p.attempt /\ Stored(u).install.version = p.version
           /\ ObservedStart(u, Stored(u).install) = ObservedStart(u, p)
<1>1. p \in Pending /\ Begun(p) /\ \A a \in Attempts : Verifying(a) => p = t.rec.install
  BY StoredInstall
<1>2. CASE p.start # "future"
  BY <1>1, <1>2 DEF Observe
<1>3. CASE p.start = "future"
  <2>1. PICK s : s = Seen(t, p)
    OBVIOUS
  <2>2. /\ Sound(s) /\ s \in Managers /\ s.rec = t.rec /\ s.held = t.held /\ s.op = t.op
        /\ s.attempt = t.attempt /\ s.handle = t.handle /\ s.current = t.current /\ s.result = t.result
        /\ Stored(s) = Stored(t)
    BY <1>1, <2>1, SeenKeeps
  <2>3. PICK q : q = [p EXCEPT !.start = ObservedStart(t, p)]
    OBVIOUS
  <2>4. /\ q \in Pending /\ q.attempt = p.attempt /\ q.version = p.version
        /\ ~Live(p.attempt) /\ ~Verifying(p.attempt) /\ runner[p.attempt].phase # "unborn"
    <3>1. t \in Managers BY DEF Sound
    <3>2. ObservedStart(t, p) \in Ages BY <1>1, <3>1, ObservedIs DEF Ages
    <3>3. QED BY <1>1, <1>3, <2>3, <3>2 DEF Pending, Begun, Live, Verifying, LivePhases
  <2>5. PICK new : new = [Nothing EXCEPT !.install = q]
    OBVIOUS
  <2>6. new \in Changes /\ new.install = q /\ new.last = Absent
    BY <2>4, <2>5 DEF Nothing, Changes
  <2>7. u = Record(s, new, ok)
    BY <1>3, <2>1, <2>3, <2>5 DEF Observe
  <2>8. /\ u \in Managers
        /\ u.result = t.result /\ u.op = t.op /\ u.attempt = t.attempt /\ u.handle = t.handle
        /\ u.current = t.current
        /\ ok => u.rec = Over(new, t.rec) /\ u.held = Without(new, t.held)
        /\ ~ok => u.rec = t.rec /\ u.held = Over(new, t.held)
    BY <2>2, <2>6, <2>7, RecordIs
  <2>9. Absent # None /\ Absent \notin Pending /\ None \notin Pending
    BY NoneAssumption
  <2>10. Stored(u).install = q /\ Stored(u).last = Stored(t).last
    <3>1. Stored(u).install = Known(new.install, Stored(s).install)
        /\ Stored(u).last = Known(new.last, Stored(s).last)
      BY <2>2, <2>6, <2>7, RecordStored
    <3>2. QED BY <2>2, <2>4, <2>6, <2>9, <3>1 DEF Known
  <2>11. /\ ok => u.rec.install = q /\ u.rec.last = t.rec.last /\ u.held.install = Absent
                  /\ u.held.last = t.held.last
         /\ ~ok => u.rec = t.rec /\ u.held.install = q /\ u.held.last = t.held.last
    BY <2>4, <2>6, <2>8, <2>9 DEF Over, Without, Known, Left
  <2>12. ResultInv(u) /\ RunningInv(u)
    BY <2>8 DEF Sound, ResultInv, RunningInv
  <2>13. OpInv(u)
    <3>1. Stored(u).install.attempt = Stored(t).install.attempt /\ Stored(t).install # None
      BY <2>4, <2>10
    <3>2. QED BY <2>8, <3>1 DEF Sound, OpInv
  <2>14. \A a \in Attempts : ~Verifying(a)
    <3>1. SUFFICES ASSUME NEW a \in Attempts, Verifying(a)
                   PROVE  FALSE
      OBVIOUS
    <3>2. Tracked(t, a) /\ p = t.rec.install
      BY <1>1, <3>1 DEF Sound, TrackInv
    <3>3. p.start = "recent"
      BY <3>2 DEF Tracked
    <3>4. QED BY <1>3, <3>3
  <2>15. RecordInv(u)
    <3>1. /\ Begun(t.rec.install) /\ Begun(t.held.install) /\ Told(t.rec.last) /\ Told(t.held.last)
          /\ Apart(t.rec) /\ Apart(Stored(t))
          /\ t.held.install \in Pending =>
               t.rec.install # None /\ t.rec.install.attempt = t.held.install.attempt
      BY DEF Sound, RecordInv
    <3>2. t.rec.install # None /\ t.rec.install.attempt = q.attempt
      <4>1. t \in Managers BY DEF Sound
      <4>2. p = Known(t.held.install, t.rec.install)
        BY <4>1, StoredIs
      <4>3. QED BY <1>1, <2>4, <2>9, <3>1, <4>2 DEF Known
    <3>3. Begun(q)
      BY <2>4 DEF Begun
    <3>4. Begun(u.rec.install) /\ Begun(u.held.install)
      BY <2>9, <2>11, <3>1, <3>3 DEF Begun
    <3>5. Told(u.rec.last) /\ Told(u.held.last)
      BY <2>11, <3>1
    <3>6. Apart(u.rec)
      BY <2>4, <2>11, <3>1, <3>2 DEF Apart
    <3>7. Apart(Stored(u))
      BY <2>4, <2>10, <3>1 DEF Apart
    <3>8. u.held.install \in Pending =>
            u.rec.install # None /\ u.rec.install.attempt = u.held.install.attempt
      BY <2>9, <2>11, <3>2
    <3>9. QED
      BY <3>4, <3>5, <3>6, <3>7, <3>8 DEF RecordInv
  <2>16. TrackInv(u)
    BY <2>14 DEF TrackInv
  <2>17. Sound(u)
    BY <2>8, <2>12, <2>13, <2>15, <2>16 DEF Sound
  <2>18. ObservedStart(u, q) = ObservedStart(u, p)
    <3>1. q.start = ObservedStart(t, p) /\ ObservedStart(t, p) = s.observed[p.attempt]
          /\ u.observed = s.observed
      BY <1>1, <1>3, <2>1, <2>2, <2>3, <2>6, <2>7, RecordIs DEF ObservedStart, Pending
    <3>2. q.start \in {"recent", "old"}
      BY <1>1, <2>3, <3>1, ObservedIs DEF Sound
    <3>3. Seen(u, p) = u
      BY <3>1, <3>2 DEF Seen
    <3>4. QED
      BY <1>3, <3>1, <3>2, <3>3 DEF ObservedStart
  <2>19. QED
    BY <2>4, <2>8, <2>9, <2>10, <2>17, <2>18
<1>4. QED
  BY <1>2, <1>3

\* Owning an install another backend started hides no installer.
LEMMA AdoptKeeps ==
    ASSUME StartInv, NEW t, Sound(t), NEW u, u = AdoptPendingInstall(t)
    PROVE  /\ Sound(u) /\ u.current = t.current /\ u.result = t.result
           /\ Stored(u) = Stored(t)
           /\ t.op # None => u.op = t.op /\ u.attempt = t.attempt /\ u.handle = t.handle
           /\ u.op = None /\ Stored(t).install # None => ObservedStart(t, Stored(t).install) = "old"
<1>1. PICK p : p = Stored(t).install
  OBVIOUS
<1>2. CASE p = None
  BY <1>1, <1>2 DEF AdoptPendingInstall
<1>3. CASE p # None
  <2>1. p \in Pending /\ Begun(p) /\ \A a \in Attempts : Verifying(a) => p = t.rec.install
    BY <1>1, <1>3, StoredInstall
  <2>2. PICK s : s = Seen(t, p)
    OBVIOUS
  <2>3. /\ Sound(s) /\ s \in Managers /\ s.rec = t.rec /\ s.held = t.held /\ s.op = t.op
        /\ s.attempt = t.attempt /\ s.handle = t.handle /\ s.current = t.current /\ s.result = t.result
        /\ Stored(s) = Stored(t)
    BY <2>1, <2>2, SeenKeeps
  <2>4. CASE t.op # None
    <3>1. t.op.state = "installing" /\ task = "none" /\ p.attempt = t.op.id /\ t.attempt = t.op.id
      <4>1. t.op.state = "installing" /\ task = "none" /\ p.attempt = t.op.id
        BY <1>1, <1>3, <2>4 DEF Sound, OpInv
      <4>2. t.op.state \notin Settled
        BY <4>1 DEF Settled
      <4>3. QED BY <2>4, <4>1, <4>2 DEF Sound, OpInv
    <3>2. u = s
      BY <1>1, <1>3, <2>2, <2>4, <3>1 DEF AdoptPendingInstall
    <3>3. QED BY <2>3, <2>4, <3>2
  <2>5. CASE t.op = None /\ ObservedStart(t, p) = "old"
    <3>1. u = s
      BY <1>1, <1>3, <2>2, <2>5 DEF AdoptPendingInstall
    <3>2. QED BY <1>1, <2>3, <2>5, <3>1
  <2>6. CASE t.op = None /\ ObservedStart(t, p) # "old"
    <3>1. PICK o : o = [id |-> p.attempt, version |-> p.version, adopted |-> TRUE, state |-> "installing"]
      OBVIOUS
    <3>2. o \in Operations /\ o # None
      <4>1. o \in Operations
        BY <2>1, <3>1 DEF Operations, Pending
      <4>2. QED BY <4>1, NoneAssumption
    <3>3. u = [s EXCEPT !.attempt = p.attempt, !.op = o]
      BY <1>1, <1>3, <2>2, <2>6, <3>1 DEF AdoptPendingInstall
    <3>4. /\ u \in Managers /\ u.rec = t.rec /\ u.held = t.held /\ u.op = o /\ u.attempt = p.attempt
          /\ u.handle = t.handle /\ u.current = t.current /\ u.result = t.result
      BY <2>1, <2>3, <3>2, <3>3 DEF Managers, Pending
    <3>5. Stored(u) = Stored(t)
      BY <3>4 DEF Stored
    <3>6. task = "none" /\ t.handle = 0
      BY <2>6 DEF Sound, RunningInv, OpInv
    <3>7. runner[p.attempt].phase # "unborn" /\ p.attempt <= starts /\ p.attempt \in Attempts
      BY <2>1 DEF Begun, StartInv, Pending
    <3>8. ResultInv(u) /\ RecordInv(u) /\ RunningInv(u)
      BY <3>4, <3>5, <3>6 DEF Sound, ResultInv, RecordInv, RunningInv
    <3>9. OpInv(u)
      BY <1>1, <3>1, <3>2, <3>4, <3>5, <3>6, <3>7 DEF OpInv, Settled
    <3>10. TrackInv(u)
      <4>1. SUFFICES ASSUME NEW a \in Attempts, Verifying(a)
                     PROVE  Tracked(u, a)
        BY DEF TrackInv
      <4>2. Tracked(t, a) /\ p = t.rec.install
        BY <2>1, <4>1 DEF Sound, TrackInv
      <4>3. p.attempt = a
        BY <4>2 DEF Tracked
      <4>4. QED BY <3>1, <3>2, <3>4, <3>6, <4>2, <4>3 DEF Tracked
    <3>11. Sound(u)
      BY <3>4, <3>8, <3>9, <3>10 DEF Sound
    <3>12. QED
      BY <2>6, <3>2, <3>4, <3>5, <3>11
  <2>7. QED
    BY <2>4, <2>5, <2>6
<1>4. QED
  BY <1>2, <1>3

\* The same chain with the fields that a change of the record leaves alone.
LEMMA DiscardKeeps ==
    ASSUME NEW t, Sound(t), NEW ok \in BOOLEAN, NEW u, u = DiscardKeptArchive(t, ok)
    PROVE  /\ Sound(u) /\ u.op = t.op /\ u.attempt = t.attempt /\ u.handle = t.handle
           /\ u.current = t.current /\ u.result = t.result
           /\ Stored(u).install = Stored(t).install
           /\ t.rec.install = u.rec.install /\ t.rec.last = u.rec.last /\ t.rec.latest = u.rec.latest
           /\ t.held.install = Absent => u.held.install = Absent
           /\ t.held.last = Absent => u.held.last = Absent
           /\ t.held.latest = Absent => u.held.latest = Absent
<1>1. PICK g : g = [t EXCEPT !.kept = 0]
  OBVIOUS
<1>2. /\ g \in Managers /\ g.rec = t.rec /\ g.held = t.held /\ g.op = t.op /\ g.attempt = t.attempt
      /\ g.handle = t.handle /\ g.current = t.current /\ g.result = t.result
  <2>1. t \in Managers /\ 0 \in Versions
    BY UpdateAssumption DEF Sound, Versions
  <2>2. QED BY <1>1, <2>1 DEF Managers
<1>3. Sound(g) /\ Stored(g) = Stored(t)
  BY <1>2, AsideKeeps
<1>4. CASE Stored(t).recovery = 0
  BY <1>1, <1>2, <1>3, <1>4 DEF DiscardKeptArchive
<1>5. CASE Stored(t).recovery # 0
  <2>1. PICK new : new = [Nothing EXCEPT !.recovery = 0]
    OBVIOUS
  <2>2. new \in Changes /\ new.install = Absent /\ new.last = Absent /\ new.latest = Absent
    BY <2>1, UpdateAssumption DEF Nothing, Changes, Versions
  <2>3. u = Record(g, new, ok)
    BY <1>1, <1>5, <2>1 DEF DiscardKeptArchive
  <2>4. Sound(u)
    BY <1>3, <2>2, <2>3, NoneAssumption, RecordKeeps
  <2>5. /\ u.op = t.op /\ u.attempt = t.attempt /\ u.handle = t.handle
        /\ u.current = t.current /\ u.result = t.result
        /\ ok => u.rec = Over(new, t.rec) /\ u.held = Without(new, t.held)
        /\ ~ok => u.rec = t.rec /\ u.held = Over(new, t.held)
    BY <1>2, <2>2, <2>3, RecordIs
  <2>6. Stored(u).install = Known(new.install, Stored(g).install)
    BY <1>2, <2>2, <2>3, RecordStored
  <2>7. QED
    BY <1>3, <2>2, <2>4, <2>5, <2>6 DEF Over, Without, Known, Left
<1>6. QED
  BY <1>4, <1>5

LEMMA RecoveryTyped ==
    ASSUME NEW t \in Managers, NEW v
    PROVE  RecoveryRecord(t, v) \in {Absent} \cup Versions
BY DEF RecoveryRecord, Managers

\* A settled attempt, when nothing that may still ask Decky is lost by it.
LEMMA SettledKeeps ==
    ASSUME NEW t, Sound(t), NEW p, NEW outcome \in Outcomes, Told(outcome), NEW ok \in BOOLEAN,
           \A a \in Attempts : ~Verifying(a),
           NEW u, u = SettledWith(t, p, outcome, ok)
    PROVE  /\ Sound(u) /\ u.op = t.op /\ u.attempt = t.attempt /\ u.handle = t.handle
           /\ u.current = t.current /\ Stored(u).install = None
<1>1. PICK told : u = [told EXCEPT !.result = IF ok THEN None ELSE @]
           /\ told = (IF outcome.ok
                       THEN Record(DiscardKeptArchive(t, ok),
                                   [install |-> None, last |-> outcome, recovery |-> 0, latest |-> 0], ok)
                       ELSE Record(t, [Nothing EXCEPT !.install = None, !.last = outcome,
                                          !.recovery = RecoveryRecord(t, p.version)], ok))
  BY DEF SettledWith
<1>2. /\ Sound(told) /\ told.op = t.op /\ told.attempt = t.attempt /\ told.handle = t.handle
      /\ told.current = t.current /\ Stored(told).install = None
  <2>1. CASE outcome.ok
    <3>1. PICK d : d = DiscardKeptArchive(t, ok)
      OBVIOUS
    <3>2. Sound(d) /\ d.op = t.op /\ d.attempt = t.attempt /\ d.handle = t.handle /\ d.current = t.current
      BY <3>1, DiscardKeeps
    <3>3. PICK new : new = [install |-> None, last |-> outcome, recovery |-> 0, latest |-> 0]
      OBVIOUS
    <3>4. new \in Changes /\ new.install = None /\ new.last = outcome
      BY <3>3, UpdateAssumption DEF Changes, Versions
    <3>5. told = Record(d, new, ok)
      BY <1>1, <2>1, <3>1, <3>3
    <3>6. d \in Managers BY <3>2 DEF Sound
    <3>7. Sound(told)
      BY <3>2, <3>4, <3>5, RecordKeeps
    <3>8. told.op = d.op /\ told.attempt = d.attempt /\ told.handle = d.handle /\ told.current = d.current
      BY <3>4, <3>5, <3>6, RecordIs
    <3>9. Stored(told).install = None
      BY <3>4, <3>5, <3>6, RecordStored, NoneAssumption DEF Known
    <3>10. QED BY <3>2, <3>7, <3>8, <3>9
  <2>2. CASE ~outcome.ok
    <3>1. t \in Managers BY DEF Sound
    <3>2. PICK new : new = [Nothing EXCEPT !.install = None, !.last = outcome,
                                           !.recovery = RecoveryRecord(t, p.version)]
      OBVIOUS
    <3>3. new \in Changes /\ new.install = None /\ new.last = outcome
      BY <3>1, <3>2, RecoveryTyped DEF Nothing, Changes
    <3>4. told = Record(t, new, ok)
      BY <1>1, <2>2, <3>2
    <3>5. Sound(told)
      BY <3>3, <3>4, RecordKeeps
    <3>6. told.op = t.op /\ told.attempt = t.attempt /\ told.handle = t.handle /\ told.current = t.current
      BY <3>1, <3>3, <3>4, RecordIs
    <3>7. Stored(told).install = None
      BY <3>1, <3>3, <3>4, RecordStored, NoneAssumption DEF Known
    <3>8. QED BY <3>5, <3>6, <3>7
  <2>3. QED BY <2>1, <2>2
<1>3. told \in Managers
  BY <1>2 DEF Sound
<1>4. /\ u \in Managers /\ u.rec = told.rec /\ u.held = told.held /\ u.op = told.op
      /\ u.attempt = told.attempt /\ u.handle = told.handle /\ u.current = told.current
      /\ u.result \in {None, told.result}
  BY <1>1, <1>3 DEF Managers
<1>5. Sound(u) /\ Stored(u) = Stored(told)
  BY <1>2, <1>4, AsideKeeps
<1>6. QED
  BY <1>2, <1>4, <1>5

\* What an installer's silence says: nothing is settled over one that may still ask Decky.
LEMMA UnreportedKeeps ==
    ASSUME StartInv, NEW t, Sound(t), t.current = installed, NEW p, NEW ok \in BOOLEAN,
           p = None => Stored(t).install = None,
           p # None => /\ p \in Pending /\ Begun(p) /\ Stored(t).install # None
                       /\ Stored(t).install.attempt = p.attempt /\ Stored(t).install.version = p.version
                       /\ ObservedStart(t, Stored(t).install) = ObservedStart(t, p),
           NEW u, u = Unreported(t, p, ok)
    PROVE  /\ Sound(u) /\ u.current = t.current
           /\ u.op = None => Stored(u).install = None
           /\ t.op # None => u.op = t.op /\ u.attempt = t.attempt /\ u.handle = t.handle
<1>0. t \in Managers
  BY DEF Sound
<1>1. CASE p = None
  BY <1>1 DEF Unreported
<1>2. CASE p # None
  <2>1. \A a \in Attempts : Verifying(a) =>
           /\ p.attempt = a /\ p.version > t.current /\ p.version # t.current
           /\ p.start = "recent" /\ ObservedStart(t, p) # "old"
    <3>1. SUFFICES ASSUME NEW a \in Attempts, Verifying(a)
                   PROVE  /\ p.attempt = a /\ p.version > t.current /\ p.version # t.current
                          /\ p.start = "recent" /\ ObservedStart(t, p) # "old"
      OBVIOUS
    <3>2. Tracked(t, a) /\ Stored(t).install = t.rec.install
      BY <1>2, <3>1, StoredInstall DEF Sound, TrackInv
    <3>3. p.attempt = a /\ p.version > installed
      BY <1>2, <3>2 DEF Tracked
    <3>4. p.version # installed
      BY <1>0, <1>2, <3>3 DEF Managers, Pending, Versions
    <3>5. p.start = "recent"
      BY <1>2, <3>1, <3>3 DEF Begun, Live, Verifying, LivePhases
    <3>6. ObservedStart(t, p) # "old"
      BY <1>0, <1>2, <3>5, ObservedIs
    <3>7. QED BY <3>3, <3>4, <3>5, <3>6
  <2>2. CASE p.version = t.current \/ ObservedStart(t, p) = "old"
    <3>1. \A a \in Attempts : ~Verifying(a)
      BY <2>1, <2>2
    <3>2. PICK outcome : /\ outcome = [attempt |-> p.attempt, version |-> p.version,
                                       ok |-> (p.version = t.current)]
      OBVIOUS
    <3>3. outcome \in Outcomes /\ outcome.attempt = p.attempt /\ outcome.ok = (p.version = t.current)
      BY <1>2, <3>2 DEF Outcomes, Pending
    <3>4. ~outcome.ok => ~Live(p.attempt)
      <4>1. p.version # t.current => p.start # "recent"
        BY <1>0, <1>2, <2>2, ObservedIs
      <4>2. QED BY <1>2, <3>3, <4>1 DEF Begun
    <3>5. Told(outcome)
      BY <1>2, <3>1, <3>3, <3>4 DEF Told, Begun, Pending
    <3>6. u = SettledWith(t, p, outcome, ok)
      BY <1>2, <2>2, <3>2 DEF Unreported
    <3>7. QED
      BY <3>1, <3>3, <3>5, <3>6, SettledKeeps
  <2>3. CASE p.version # t.current /\ ObservedStart(t, p) # "old"
    <3>1. u = AdoptPendingInstall(t)
      BY <1>2, <2>3 DEF Unreported
    <3>2. /\ Sound(u) /\ u.current = t.current
          /\ Stored(u) = Stored(t)
          /\ t.op # None => u.op = t.op /\ u.attempt = t.attempt /\ u.handle = t.handle
          /\ u.op = None /\ Stored(t).install # None => ObservedStart(t, Stored(t).install) = "old"
      BY <3>1, AdoptKeeps
    <3>3. QED
      BY <1>2, <2>3, <3>2
  <2>4. QED
    BY <2>2, <2>3
<1>3. QED
  BY <1>1, <1>2

\* What the installer reported, or its silence, is folded in.
LEMMA ConsumeKeeps ==
    ASSUME StartInv, NEW t, Sound(t), t.current = installed, NEW ok \in BOOLEAN,
           NEW u, u = ConsumeRunnerResult(t, ok)
    PROVE  /\ Sound(u) /\ u.current = t.current
           /\ u.op = None => Stored(u).install = None
           /\ t.op # None => u.op = t.op /\ u.attempt = t.attempt /\ u.handle = t.handle
<1>0. t \in Managers
  BY DEF Sound
<1>1. PICK p : p = Stored(t).install
  OBVIOUS
<1>2. PICK orphan : orphan = [t EXCEPT !.result = None]
  OBVIOUS
<1>3. /\ Sound(orphan) /\ Stored(orphan) = Stored(t) /\ orphan.op = t.op /\ orphan.attempt = t.attempt
      /\ orphan.handle = t.handle /\ orphan.current = t.current
  <2>1. /\ orphan \in Managers
        /\ orphan.rec = t.rec /\ orphan.held = t.held /\ orphan.op = t.op /\ orphan.attempt = t.attempt
        /\ orphan.handle = t.handle /\ orphan.current = t.current /\ orphan.result = None
    BY <1>0, <1>2 DEF Managers
  <2>2. QED BY <2>1, AsideKeeps
<1>4. CASE t.result # None /\ p # None /\ t.result.attempt = p.attempt
  <2>1. p \in Pending /\ Begun(p) /\ \A a \in Attempts : Verifying(a) => p = t.rec.install
    BY <1>1, <1>4, StoredInstall
  <2>2. t.result \in Outcomes /\ runner[p.attempt].phase = "ended"
    BY <1>0, <1>4 DEF Sound, ResultInv, Managers
  <2>3. \A a \in Attempts : ~Verifying(a)
    <3>1. SUFFICES ASSUME NEW a \in Attempts, Verifying(a)
                   PROVE  FALSE
      OBVIOUS
    <3>2. Tracked(t, a) /\ p = t.rec.install
      BY <2>1, <3>1 DEF Sound, TrackInv
    <3>3. p.attempt = a
      BY <3>2 DEF Tracked
    <3>4. QED BY <2>2, <3>1, <3>3 DEF Verifying
  <2>4. Told(t.result)
    BY <1>4, <2>2, <2>3 DEF Told, Live, LivePhases, Verifying
  <2>5. u = SettledWith(t, p, t.result, ok)
    BY <1>1, <1>4 DEF ConsumeRunnerResult
  <2>6. QED
    BY <2>2, <2>3, <2>4, <2>5, SettledKeeps
<1>5. CASE ~(t.result # None /\ p # None /\ t.result.attempt = p.attempt)
  <2>1. PICK v : v = IF p = None THEN orphan ELSE Observe(orphan, p, ok)
    OBVIOUS
  <2>2. u = Unreported(v, p, ok)
    BY <1>1, <1>2, <1>5, <2>1 DEF ConsumeRunnerResult
  <2>3. CASE p = None
    <3>1. v = orphan
      BY <2>1, <2>3
    <3>2. Sound(v) /\ v.current = installed /\ Stored(v).install = None
      BY <1>1, <1>3, <2>3, <3>1
    <3>3. /\ Sound(u) /\ u.current = v.current
          /\ u.op = None => Stored(u).install = None
          /\ v.op # None => u.op = v.op /\ u.attempt = v.attempt /\ u.handle = v.handle
      BY <2>2, <2>3, <3>2, UnreportedKeeps
    <3>4. QED BY <1>3, <3>1, <3>3
  <2>4. CASE p # None
    <3>1. v = Observe(orphan, p, ok) /\ p = Stored(orphan).install
      BY <1>1, <1>3, <2>1, <2>4
    <3>2. /\ Sound(v) /\ v.op = t.op /\ v.attempt = t.attempt /\ v.handle = t.handle /\ v.current = installed
          /\ Stored(v).install # None
          /\ Stored(v).install.attempt = p.attempt /\ Stored(v).install.version = p.version
          /\ ObservedStart(v, Stored(v).install) = ObservedStart(v, p)
      BY <1>3, <2>4, <3>1, ObserveKeeps
    <3>3. p \in Pending /\ Begun(p)
      BY <1>1, <2>4, StoredInstall
    <3>4. /\ Sound(u) /\ u.current = v.current
          /\ u.op = None => Stored(u).install = None
          /\ v.op # None => u.op = v.op /\ u.attempt = v.attempt /\ u.handle = v.handle
      BY <2>2, <2>4, <3>2, <3>3, UnreportedKeeps
    <3>5. QED BY <3>2, <3>4
  <2>5. QED BY <2>3, <2>4
<1>6. QED
  BY <1>4, <1>5

LEMMA StoredLast ==
    ASSUME NEW t, Sound(t), SettledByRecord(t)
    PROVE  Stored(t).last \in Outcomes /\ Told(Stored(t).last) /\ Stored(t).last.attempt = t.attempt
<1>1. t \in Managers /\ Told(t.rec.last) /\ Told(t.held.last)
  BY DEF Sound, RecordInv
<1>2. Stored(t) \in Records /\ Stored(t).last = Known(t.held.last, t.rec.last)
  BY <1>1, StoredIs
<1>3. QED
  BY <1>1, <1>2 DEF Known, Records, SettledByRecord

\* An install that failed has no installer left, and nothing of it is pending.
LEMMA FollowKeeps ==
    ASSUME NEW t, Sound(t), t.op # None, t.op.state = "installing", task = "none", NEW id,
           NEW u, u = FollowRecord(t, id)
    PROVE  Sound(u) /\ u.op # None /\ u.current = t.current
<1>1. CASE SettledByRecord(t) /\ ~Stored(t).last.ok /\ t.op.id = id
  <2>1. PICK o : o = [t.op EXCEPT !.state = "failed"]
    OBVIOUS
  <2>2. t \in Managers /\ t.op \in Operations
    BY DEF Sound, Managers
  <2>3. o \in Operations /\ o.id = t.op.id /\ o.state = "failed"
    BY <2>1, <2>2 DEF Operations, Settled
  <2>4. o # None
    BY <2>3, NoneAssumption
  <2>5. u = [t EXCEPT !.op = o]
    BY <1>1, <2>1, <2>2 DEF FollowRecord, Managers
  <2>6. /\ u \in Managers /\ u.op = o /\ u.rec = t.rec /\ u.held = t.held /\ u.attempt = t.attempt
        /\ u.handle = t.handle /\ u.result = t.result /\ u.current = t.current
    BY <2>2, <2>3, <2>5 DEF Managers
  <2>7. Stored(u) = Stored(t)
    BY <2>6 DEF Stored
  <2>8. t.attempt = t.op.id
    <3>1. t.op.state \notin Settled
      BY DEF Settled
    <3>2. QED BY <3>1 DEF Sound, OpInv
  <2>9. Stored(t).last \in Outcomes /\ Told(Stored(t).last) /\ Stored(t).last.attempt = t.op.id
    BY <1>1, <2>8, StoredLast
  <2>10. t.op.id \in Attempts /\ t.op.id # 0
    BY <2>2 DEF Operations, Attempts
  <2>11. ~Live(t.op.id)
    BY <1>1, <2>9, <2>10 DEF Told
  <2>12. Stored(t).install = None
    <3>1. Stored(t).install # None => Stored(t).install.attempt = t.op.id
      BY DEF Sound, OpInv
    <3>2. Stored(t).last # None
      BY <1>1 DEF SettledByRecord
    <3>3. QED BY <2>9, <3>1, <3>2 DEF Sound, RecordInv, Apart
  <2>13. \A a \in Attempts : ~Verifying(a)
    <3>1. SUFFICES ASSUME NEW a \in Attempts, Verifying(a)
                   PROVE  FALSE
      OBVIOUS
    <3>2. t.op.id = a
      BY <3>1 DEF Sound, TrackInv, Tracked
    <3>3. QED BY <2>11, <3>1, <3>2 DEF Live, Verifying, LivePhases
  <2>14. OpInv(u)
    BY <2>3, <2>4, <2>6, <2>7, <2>11, <2>12 DEF Sound, OpInv, Settled
  <2>15. RecordInv(u) /\ ResultInv(u) /\ RunningInv(u) /\ TrackInv(u)
    BY <2>6, <2>7, <2>13 DEF Sound, RecordInv, ResultInv, RunningInv, TrackInv
  <2>16. QED
    BY <2>4, <2>6, <2>14, <2>15 DEF Sound
<1>2. CASE ~(SettledByRecord(t) /\ ~Stored(t).last.ok /\ t.op.id = id)
  BY <1>2 DEF FollowRecord
<1>3. QED
  BY <1>1, <1>2

LEMMA AttemptIs ==
    ASSUME NEW t, Sound(t), t.op # None, t.op.state = "installing", task = "none"
    PROVE  t.attempt = t.op.id /\ t.op.id \in Attempts /\ t.op.id # 0 /\ t.handle \in {0, t.op.id}
<1>1. t \in Managers /\ t.op \in Operations
  BY DEF Sound, Managers
<1>2. t.op.id \in Attempts /\ t.op.id # 0
  BY <1>1 DEF Operations, Attempts
<1>3. t.op.state \notin Settled
  BY DEF Settled
<1>4. QED
  BY <1>2, <1>3 DEF Sound, OpInv

\* An installer that is gone and left no report has failed.
LEMMA StoppedKeeps ==
    ASSUME NEW t, Sound(t), t.op # None, t.op.state = "installing", task = "none",
           t.handle # 0, runner[t.handle].phase = "ended", NEW ok \in BOOLEAN,
           NEW u, u = StoppedUnreported(t, t.op, ok)
    PROVE  Sound(u) /\ u.op # None /\ u.current = t.current
<1>1. t \in Managers /\ t.op \in Operations /\ t.op.version \in Versions
  BY DEF Sound, Managers, Operations
<1>2. t.attempt = t.op.id /\ t.op.id \in Attempts /\ t.op.id # 0 /\ t.handle = t.op.id
  BY AttemptIs
<1>3. ~Live(t.op.id) /\ ~Verifying(t.op.id)
  BY <1>2 DEF Live, Verifying, LivePhases
<1>4. \A a \in Attempts : ~Verifying(a)
  BY <1>3 DEF Sound, TrackInv, Tracked
<1>5. PICK over : over = [attempt |-> t.attempt, version |-> t.op.version, ok |-> FALSE]
  OBVIOUS
<1>6. over \in Outcomes /\ Told(over)
  BY <1>1, <1>2, <1>3, <1>5 DEF Outcomes, Told
<1>7. PICK new : new = [Nothing EXCEPT !.install = None, !.last = over,
                           !.recovery = IF Stored(t).install = None THEN Absent
                                        ELSE RecoveryRecord(t, Stored(t).install.version)]
  OBVIOUS
<1>8. new \in Changes /\ new.install = None /\ new.last = over
  BY <1>1, <1>6, <1>7, RecoveryTyped DEF Nothing, Changes
<1>9. PICK told : told = Record(t, new, ok)
  OBVIOUS
<1>10. Sound(told)
  BY <1>4, <1>6, <1>8, <1>9, RecordKeeps
<1>11. /\ told \in Managers /\ told.op = t.op /\ told.attempt = t.attempt /\ told.current = t.current
       /\ told.result = t.result
  BY <1>1, <1>8, <1>9, RecordIs
<1>12. Stored(told).install = None
  BY <1>1, <1>8, <1>9, RecordStored, NoneAssumption DEF Known
<1>13. PICK o : o = [t.op EXCEPT !.state = "failed"]
  OBVIOUS
<1>14. o \in Operations /\ o.id = t.op.id /\ o.state = "failed"
  BY <1>1, <1>13 DEF Operations, Settled
<1>15. o # None
  BY <1>14, NoneAssumption
<1>16. u = [told EXCEPT !.op = o, !.handle = 0]
  BY <1>1, <1>5, <1>7, <1>9, <1>11, <1>13 DEF StoppedUnreported, Managers
<1>17. /\ u \in Managers /\ u.op = o /\ u.handle = 0 /\ u.rec = told.rec /\ u.held = told.held
       /\ u.attempt = t.attempt /\ u.result = t.result /\ u.current = t.current
  BY <1>11, <1>14, <1>16 DEF Managers
<1>18. Stored(u) = Stored(told)
  BY <1>17 DEF Stored
<1>19. OpInv(u)
  BY <1>2, <1>3, <1>11, <1>12, <1>14, <1>15, <1>17, <1>18 DEF Sound, OpInv, Settled
<1>20. RecordInv(u) /\ ResultInv(u) /\ RunningInv(u) /\ TrackInv(u)
  BY <1>4, <1>10, <1>11, <1>17, <1>18 DEF Sound, RecordInv, ResultInv, RunningInv, TrackInv
<1>21. QED
  BY <1>15, <1>17, <1>19, <1>20 DEF Sound

LEMMA FoldedKeeps ==
    ASSUME StartInv, NEW t, Sound(t), t.op # None, t.op.state = "installing", task = "none",
           t.current = installed, NEW ok \in BOOLEAN, NEW u, u = SettleFolded(t, t.op, ok)
    PROVE  Sound(u) /\ u.op # None /\ u.current = t.current
<1>1. CASE SettledByRecord(t)
  BY <1>1, FollowKeeps DEF SettleFolded
<1>2. CASE ~SettledByRecord(t) /\ t.handle = 0 /\ t.op.adopted
  <2>1. PICK c : c = ConsumeRunnerResult(t, ok)
    OBVIOUS
  <2>2. Sound(c) /\ c.current = t.current /\ c.op = t.op
    BY <2>1, ConsumeKeeps
  <2>3. u = FollowRecord(c, t.op.id)
    BY <1>2, <2>1 DEF SettleFolded
  <2>4. Sound(u) /\ u.op # None /\ u.current = c.current
    BY <2>2, <2>3, FollowKeeps
  <2>5. QED BY <2>2, <2>4
<1>3. CASE ~SettledByRecord(t) /\ t.handle # 0 /\ runner[t.handle].phase = "ended"
  <2>1. u = StoppedUnreported(t, t.op, ok)
    BY <1>3 DEF SettleFolded
  <2>2. QED BY <1>3, <2>1, StoppedKeeps
<1>4. CASE /\ ~SettledByRecord(t) /\ ~(t.handle = 0 /\ t.op.adopted)
           /\ ~(t.handle # 0 /\ runner[t.handle].phase = "ended")
  BY <1>4 DEF SettleFolded
<1>5. QED
  BY <1>1, <1>2, <1>3, <1>4

LEMMA SettleKeeps ==
    ASSUME StartInv, NEW t, Sound(t), t.current = installed, task # "committed",
           NEW ok \in BOOLEAN, NEW u, u = SettleInstalling(t, ok)
    PROVE  Sound(u) /\ u.current = t.current /\ (t.op = None => u = t) /\ (t.op # None => u.op # None)
<1>1. CASE t.op = None
  BY <1>1 DEF SettleInstalling
<1>2. CASE t.op # None /\ t.op.state # "installing"
  BY <1>2 DEF SettleInstalling
<1>3. CASE t.op # None /\ t.op.state = "installing"
  <2>1. task = "none"
    BY <1>3 DEF Sound, RunningInv
  <2>2. PICK c : c = IF t.result # None THEN ConsumeRunnerResult(t, ok) ELSE t
    OBVIOUS
  <2>3. Sound(c) /\ c.current = t.current /\ c.op = t.op
    BY <1>3, <2>2, ConsumeKeeps
  <2>4. u = SettleFolded(c, c.op, ok)
    BY <1>3, <2>2, <2>3 DEF SettleInstalling
  <2>5. Sound(u) /\ u.op # None /\ u.current = c.current
    BY <1>3, <2>1, <2>3, <2>4, FoldedKeeps
  <2>6. QED BY <1>3, <2>3, <2>5
<1>4. QED
  BY <1>1, <1>2, <1>3

\* The durable half of reconciling loses no installer, and leaves none unowned.
LEMMA MaintainKeeps ==
    ASSUME StartInv, NEW t, Sound(t), t.current = installed, task # "committed",
           NEW ok \in BOOLEAN, NEW u, u = Maintain(t, ok)
    PROVE  Sound(u) /\ u.current = t.current /\ (u.op = None => Stored(u).install = None)
<1>1. PICK c : c = ConsumeRunnerResult(t, ok)
  OBVIOUS
<1>2. Sound(c) /\ c.current = t.current /\ (c.op = None => Stored(c).install = None)
  BY <1>1, ConsumeKeeps
<1>3. PICK s : s = SettleInstalling(c, ok)
  OBVIOUS
<1>4. Sound(s) /\ s.current = t.current /\ (s.op = None => Stored(s).install = None)
  BY <1>2, <1>3, SettleKeeps
<1>5. Adopted(s) = s
  BY <1>4 DEF Adopted, AdoptPendingInstall
<1>6. u = RetireSupersededRecovery(s, ok)
  BY <1>1, <1>3, <1>5 DEF Maintain
<1>7. u = s \/ u = DiscardKeptArchive(s, ok)
  BY <1>6 DEF RetireSupersededRecovery
<1>8. QED
  BY <1>4, <1>7, DiscardKeeps

LEMMA OwnedBy ==
    ASSUME NEW t, Sound(t), t.op = None => Stored(t).install = None
    PROVE  Owned(t)
<1>1. SUFFICES ASSUME t.op = None, NEW a \in Attempts, Verifying(a)
               PROVE  FALSE
  BY DEF Owned
<1>2. Tracked(t, a)
  BY <1>1 DEF Sound, TrackInv
<1>3. t \in Managers /\ t.held.install = Absent /\ t.rec.install # None
  BY <1>1, <1>2 DEF Sound, Tracked
<1>4. Stored(t).install = t.rec.install
  BY <1>3, StoredIs DEF Known
<1>5. QED
  BY <1>1, <1>3, <1>4

-----------------------------------------------------------------------------
(* A step of the manager that leaves the rest of the world alone.           *)

LEMMA ManagerIs ==
    ASSUME NEW m \in Managers, Becomes(m), current' = m.current
    PROVE  Manager' = m
BY DEF Becomes, Manager, Managers

LEMMA RecordCarried ==
    ASSUME NEW m, RecordInv(m), ResultInv(m), Manager' = m, UNCHANGED runner
    PROVE  RecordInv(Manager)' /\ ResultInv(Manager)'
<1>1. RecordInv(Manager)'
  BY DEF RecordInv, Begun, Told, Live, Verifying, Apart, Stored
<1>2. ResultInv(Manager)'
  BY DEF ResultInv
<1>3. QED
  BY <1>1, <1>2

LEMMA Carried ==
    ASSUME NEW m, Sound(m), Manager' = m, UNCHANGED <<task, runner, starts, installed>>
    PROVE  Sound(Manager)'
<1>1. m \in Managers /\ RecordInv(m) /\ ResultInv(m) /\ RunningInv(m) /\ OpInv(m) /\ TrackInv(m)
  BY DEF Sound
<1>2. RecordInv(Manager)' /\ ResultInv(Manager)'
  BY <1>1, RecordCarried
<1>3. RunningInv(Manager)'
  BY <1>1 DEF RunningInv
<1>4. OpInv(Manager)'
  BY <1>1 DEF OpInv, Stored, Live
<1>5. TrackInv(Manager)'
  BY <1>1 DEF TrackInv, Tracked, Verifying
<1>6. QED
  BY <1>1, <1>2, <1>3, <1>4, <1>5 DEF Sound

\* An operation that has not asked for an install ends.
LEMMA EndCarried ==
    ASSUME NEW v, Sound(v), task # "none",
           NEW m \in Managers, m.rec = v.rec, m.held = v.held, m.result = v.result,
           m.attempt = v.attempt, m.handle = v.handle, m.op # None, m.op.id = v.op.id,
           m.op.state \in Settled,
           Manager' = m, task' = "none", UNCHANGED <<runner, starts, installed>>
    PROVE  Sound(Manager)'
<1>1. /\ v \in Managers /\ v.op # None /\ v.op.id = starts /\ v.attempt = 0 /\ v.handle = 0
      /\ runner[starts].phase = "unborn"
  BY DEF Sound, RunningInv
<1>2. \A a \in Attempts : ~Verifying(a)
  BY <1>1 DEF Sound, TrackInv, Tracked
<1>3. Stored(v).install = None /\ starts <= starts
  BY <1>1 DEF Sound, OpInv
<1>4. Stored(m) = Stored(v)
  BY DEF Stored
<1>5. RecordInv(m) /\ ResultInv(m)
  BY <1>4 DEF Sound, RecordInv, ResultInv
<1>6. RecordInv(Manager)' /\ ResultInv(Manager)'
  BY <1>5, RecordCarried
<1>7. RunningInv(Manager)' /\ TrackInv(Manager)'
  BY <1>2 DEF RunningInv, TrackInv, Verifying
<1>8. OpInv(Manager)'
  <2>1. Stored(Manager)' = Stored(v)
    BY <1>4 DEF Stored
  <2>2. ~Live(m.op.id)'
    BY <1>1 DEF Live, LivePhases
  <2>3. QED BY <1>1, <1>3, <2>1, <2>2 DEF OpInv
<1>9. QED
  BY <1>6, <1>7, <1>8 DEF Sound

\* What a deletion emptied, maintenance does not fill.
LEMMA MaintainEmptied ==
    ASSUME NEW t \in Managers, Sound(t), Emptied(t), NEW ok \in BOOLEAN, NEW u, u = Maintain(t, ok)
    PROVE  Emptied(u)
<1>1. Stored(t).install = None
  BY StoredIs DEF Emptied, Known
<1>2. PICK c : c = [t EXCEPT !.result = None]
  OBVIOUS
<1>3. /\ c \in Managers /\ c.rec = t.rec /\ c.held = t.held /\ c.op = t.op /\ c.attempt = t.attempt
      /\ c.handle = t.handle /\ c.current = t.current /\ c.result = None
  BY <1>2 DEF Managers
<1>4. Sound(c) /\ Stored(c) = Stored(t) /\ Emptied(c)
  BY <1>3, AsideKeeps DEF Emptied
<1>5. ConsumeRunnerResult(t, ok) = c
  BY <1>1, <1>2 DEF ConsumeRunnerResult, Unreported
<1>6. SettleInstalling(c, ok) = c /\ Adopted(c) = c
  BY <1>1, <1>4 DEF SettleInstalling, Adopted, AdoptPendingInstall, Emptied
<1>7. u = c \/ u = DiscardKeptArchive(c, ok)
  BY <1>5, <1>6 DEF Maintain, RetireSupersededRecovery
<1>8. u = DiscardKeptArchive(c, ok) => Emptied(u)
  BY <1>4, DiscardKeeps DEF Emptied
<1>9. QED
  BY <1>4, <1>7, <1>8

LEMMA WritesTyped ==
    ASSUME TypeOK, NEW ok \in Written, Writes(ok)
    PROVE  ok \in BOOLEAN /\ faults' \in 0..MaxFaults
<1>1. ok \in BOOLEAN /\ (~ok => faults < MaxFaults)
  BY DEF Written
<1>2. ok => faults' = faults
  BY DEF Writes
<1>3. ~ok => faults' = faults + 1
  BY DEF Writes
<1>4. faults \in 0..MaxFaults /\ MaxFaults \in Nat
  BY UpdateAssumption DEF TypeOK
<1>5. ~ok => faults' \in 0..MaxFaults
  BY <1>1, <1>3, <1>4
<1>6. QED
  BY <1>1, <1>2, <1>4, <1>5

\* The types of the rest.
Places ==
    /\ base \in {None} \cup Records /\ {staged, installed, published} \subseteq Versions
    /\ reservation \in {0} \cup Attempts
    /\ task \in {"none", "reading", "fetching", "waiting", "committed"}
    /\ check \in {"idle", "out"}
    /\ deletion \in {"none", "draining", "cleared"}
    /\ backend \in {"up", "closing", "down"}
    /\ runner \in [Attempts -> [phase : {"unborn", "ended"} \cup LivePhases, version : Versions,
                                verified : BOOLEAN, ok : BOOLEAN]]
    /\ starts \in 0..MaxStarts /\ faults \in 0..MaxFaults

LEMMA TypedBy == TypeOK <=> Manager \in Managers /\ Places
BY DEF TypeOK, Manager, Managers, Places

\* A step of the manager that starts, ends and hands over nothing.
LEMMA StepKeeps ==
    ASSUME Inv, backend # "down", NEW m, Sound(m), Owned(m), m.current = current, Becomes(m),
           UNCHANGED <<task, current, world, starts>>,
           faults' \in 0..MaxFaults, staged' \in Versions, reservation' \in {0} \cup Attempts,
           check' \in {"idle", "out"}, backend' \in {"up", "closing"},
           base' # None => base' = m.rec /\ task # "committed" /\ check' = "out",
           deletion' \in {"none", "draining", "cleared"},
           deletion' = "cleared" => (check' = "idle" \/ Outlasts) /\ Emptied(m)
    PROVE  Inv'
<1>1. m \in Managers /\ m.rec \in Records
  BY DEF Sound, Managers
<1>2. Manager' = m
  BY <1>1, ManagerIs
<1>3. Sound(Manager)'
  BY <1>2, Carried DEF world
<1>4. Manager' \in Managers /\ rec' = m.rec
  BY <1>1, <1>2 DEF Becomes
<1>5. TypeOK'
  <2>1. Places
    BY TypedBy DEF Inv
  <2>2. Places'
    BY <1>1, <2>1 DEF Places, world
  <2>3. QED
    BY <1>4, <2>2 DEF TypeOK, Manager, Managers, Places
<1>6. LifeInv'
  <2>1. Owned(Manager)'
    BY <1>2 DEF Owned, Verifying, world
  <2>2. QED BY <2>1 DEF Inv, LifeInv, world
<1>7. StartInv' /\ BaseInv'
  BY <1>4 DEF Inv, StartInv, BaseInv, world
<1>8. ClearedInv'
  BY <1>2 DEF ClearedInv, Emptied
<1>9. QED
  BY <1>3, <1>5, <1>6, <1>7, <1>8 DEF Inv

\* What the loop finds while it holds nothing open.
LEMMA UpIs ==
    ASSUME Inv, backend # "down"
    PROVE  /\ Sound(Manager) /\ Owned(Manager) /\ StartInv /\ Manager.current = installed
           /\ Manager \in Managers /\ current = installed
           /\ Manager.rec = rec /\ Manager.held = held /\ Manager.op = op /\ Manager.current = current
           /\ Manager.attempt = attempt /\ Manager.handle = handle /\ Manager.result = result
           /\ TypeOK /\ Places
BY TypedBy DEF Inv, LifeInv, Manager

LEMMA SameManager ==
    ASSUME UNCHANGED <<rec, result, kept, held, op, attempt, handle, observed>>
    PROVE  Becomes(Manager)
BY DEF Becomes, Manager

LEMMA QuietKeeps ==
    ASSUME Inv, CheckBegins \/ CheckFails \/ CheckReads \/ DeletionEnds \/ Close
    PROVE  Inv'
<1>1. backend = "up" /\ base = None /\ task # "committed"
  BY DEF CheckBegins, CheckFails, CheckReads, DeletionEnds, Close, Loop, LoopFree
<1>2. /\ Sound(Manager) /\ Owned(Manager) /\ Manager.current = current /\ Manager.rec = rec /\ Places
  BY <1>1, UpIs
<1>3. Becomes(Manager) /\ UNCHANGED <<task, current, world, starts, staged, reservation, faults>>
  BY SameManager DEF CheckBegins, CheckFails, CheckReads, DeletionEnds, Close, files, memory, counts
<1>4. /\ check' \in {"idle", "out"} /\ backend' \in {"up", "closing"}
      /\ base' # None => base' = rec /\ check' = "out"
      /\ deletion' \in {"none", "draining", "cleared"}
      /\ deletion' = "cleared" => deletion = "cleared" /\ check' \in {check, "idle"}
  <2>1. CASE CheckBegins BY <1>1, <1>2, <2>1 DEF CheckBegins, Places
  <2>2. CASE CheckFails
    BY <1>1, <1>2, <2>2 DEF CheckFails, Places
  <2>3. CASE CheckReads BY <1>1, <1>2, <2>3 DEF CheckReads, Places
  <2>4. CASE DeletionEnds BY <1>1, <1>2, <2>4 DEF DeletionEnds, Places
  <2>5. CASE Close BY <1>1, <1>2, <2>5 DEF Close, Places
  <2>6. QED BY <2>1, <2>2, <2>3, <2>4, <2>5
<1>5. deletion' = "cleared" => (check' = "idle" \/ Outlasts) /\ Emptied(Manager)
  BY <1>4 DEF Inv, ClearedInv
<1>6. QED
  BY <1>1, <1>2, <1>3, <1>4, <1>5, StepKeeps DEF Places

\* Maintenance, by whichever call asks for it.
LEMMA MaintainStep ==
    ASSUME Inv, backend = "up", LoopFree, NEW ok \in Written, Writes(ok),
           NEW m, m = Maintain(Manager, ok)
    PROVE  /\ Sound(m) /\ Owned(m) /\ m.current = current /\ m \in Managers
           /\ m.op = None => Stored(m).install = None
           /\ faults' \in 0..MaxFaults /\ ok \in BOOLEAN
           /\ deletion = "cleared" => (check = "idle" \/ Outlasts) /\ Emptied(m)
<1>1. /\ Sound(Manager) /\ StartInv /\ Manager.current = installed /\ TypeOK
      /\ Manager \in Managers /\ Manager.current = current
  BY UpIs
<1>2. ok \in BOOLEAN /\ faults' \in 0..MaxFaults
  BY <1>1, WritesTyped
<1>3. Sound(m) /\ m.current = Manager.current /\ (m.op = None => Stored(m).install = None)
  BY <1>1, <1>2, MaintainKeeps DEF LoopFree
<1>4. Owned(m) /\ m \in Managers
  BY <1>3, OwnedBy DEF Sound
<1>5. deletion = "cleared" => (check = "idle" \/ Outlasts) /\ Emptied(m)
  BY <1>1, <1>2, MaintainEmptied DEF Inv, ClearedInv
<1>6. QED
  BY <1>1, <1>2, <1>3, <1>4, <1>5

LEMMA PollKeeps ==
    ASSUME Inv, ~Races, Poll \/ Tick
    PROVE  Inv'
<1>1. backend = "up" /\ LoopFree /\ base = None
  BY DEF Poll, Tick, Worker, Loop, LoopFree
<1>2. PICK ok \in Written : Writes(ok) /\ Becomes(Maintain(Manager, ok))
                            /\ reservation' \in {0, reservation}
  BY DEF Poll, Tick, Reconciled
<1>3. PICK m : m = Maintain(Manager, ok)
  OBVIOUS
<1>4. /\ Sound(m) /\ Owned(m) /\ m.current = current /\ faults' \in 0..MaxFaults
      /\ deletion = "cleared" => (check = "idle" \/ Outlasts) /\ Emptied(m)
  BY <1>1, <1>2, <1>3, MaintainStep
<1>5. Places
  BY <1>1, UpIs
<1>6. UNCHANGED <<staged, task, check, base, deletion, backend, current, world, starts>>
  BY DEF Poll, Tick
<1>7. QED
  BY <1>1, <1>2, <1>3, <1>4, <1>5, <1>6, StepKeeps DEF Places

LEMMA StatusKeeps ==
    ASSUME Inv, ~Races, StatusRead
    PROVE  Inv'
<1>1. backend = "up" /\ base = None /\ task # "committed"
  BY DEF StatusRead, Worker, LoopFree
<1>2. /\ Sound(Manager) /\ Owned(Manager) /\ StartInv /\ Manager.current = current /\ Places
      /\ Manager.op = op
  BY <1>1, UpIs
<1>3. PICK m : m = Adopted(Manager)
  OBVIOUS
<1>4. /\ Becomes(m) /\ reservation' \in {0, reservation}
      /\ UNCHANGED <<staged, task, check, base, deletion, backend, current, world, counts>>
  BY <1>3 DEF StatusRead, Reconciled
<1>5. /\ Sound(m) /\ m.current = current /\ Stored(m) = Stored(Manager)
      /\ op # None => m = Manager
      /\ Stored(Manager).install = None => m = Manager
  <2>1. CASE op # None
    BY <1>2, <1>3, <2>1 DEF Adopted
  <2>2. CASE op = None
    <3>1. m = AdoptPendingInstall(Manager)
      BY <1>2, <1>3, <2>2 DEF Adopted
    <3>2. QED
      BY <1>2, <2>2, <3>1, AdoptKeeps DEF AdoptPendingInstall
  <2>3. QED BY <2>1, <2>2
<1>6. Owned(m)
  BY <1>2, <1>5 DEF Owned
<1>7. deletion = "cleared" => (check = "idle" \/ Outlasts) /\ Emptied(m)
  <2>1. SUFFICES ASSUME deletion = "cleared"
                 PROVE  (check = "idle" \/ Outlasts) /\ Emptied(m)
    OBVIOUS
  <2>2. (check = "idle" \/ Outlasts) /\ Emptied(Manager)
    BY <2>1 DEF Inv, ClearedInv
  <2>3. Stored(Manager).install = None
    BY <1>2, <2>2, StoredIs DEF Emptied, Known, Sound
  <2>4. QED BY <1>5, <2>2, <2>3
<1>8. QED
  BY <1>1, <1>2, <1>4, <1>5, <1>6, <1>7, StepKeeps DEF Places, counts

LEMMA DeletionBeginsKeeps ==
    ASSUME Inv, ~Races, DeletionBegins
    PROVE  Inv'
<1>1. backend = "up" /\ LoopFree /\ base = None /\ deletion = "none"
  BY DEF DeletionBegins, Worker, LoopFree
<1>2. PICK ok \in Written : Writes(ok) /\ Becomes(Maintain(Manager, ok))
                            /\ deletion' \in {"none", "draining"}
  BY DEF DeletionBegins
<1>3. PICK m : m = Maintain(Manager, ok)
  OBVIOUS
<1>4. Sound(m) /\ Owned(m) /\ m.current = current /\ faults' \in 0..MaxFaults
  BY <1>1, <1>2, <1>3, MaintainStep
<1>5. Places
  BY <1>1, UpIs
<1>6. UNCHANGED <<staged, task, check, base, reservation, backend, current, world, starts>>
  BY DEF DeletionBegins
<1>7. QED
  BY <1>1, <1>2, <1>3, <1>4, <1>5, <1>6, StepKeeps DEF Places

\* A record that was emptied, with at most what is kept for a manual install put back.
LEMMA ClearedKeeps ==
    ASSUME NEW t, Sound(t), task = "none", t.op = None \/ t.op.state \in Settled,
           t.op = None => Stored(t).install = None,
           NEW ok \in BOOLEAN, NEW u, u = Cleared(t, "setup", ok) \/ u = Cleared(t, "all", ok)
    PROVE  Sound(u) /\ u.current = t.current /\ Emptied(u)
<1>1. t \in Managers
  BY DEF Sound
<1>2. \A a \in Attempts : ~Verifying(a)
  <2>1. t.op = None => Owned(t)
    BY OwnedBy
  <2>2. t.op # None => \A a \in Attempts : ~Verifying(a)
    BY DEF Sound, TrackInv, Tracked, Settled
  <2>3. QED BY <2>1, <2>2 DEF Owned
<1>3. PICK g : g = Forgotten([t EXCEPT !.rec = Empty, !.result = None])
  OBVIOUS
<1>4. /\ g \in Managers /\ g.rec = Empty /\ g.held = Nothing /\ g.result = None /\ g.op = None
      /\ g.attempt = 0 /\ g.handle = 0 /\ g.current = t.current
  <2>1. Empty \in Records /\ Nothing \in Changes
    BY UpdateAssumption DEF Empty, Records, Versions, Nothing, Changes
  <2>2. QED BY <1>1, <1>3, <2>1 DEF Forgotten, Managers
<1>5. Stored(g).install = None
  BY <1>4, StoredIs DEF Known, Empty, Nothing
<1>6. Sound(g) /\ Emptied(g)
  <2>1. None \notin Pending /\ Absent \notin Pending /\ None \notin Outcomes /\ Absent \notin Outcomes
    BY NoneAssumption
  <2>2. RecordInv(g)
    BY <1>4, <1>5, <2>1 DEF RecordInv, Begun, Told, Apart, Empty, Nothing
  <2>3. ResultInv(g) /\ RunningInv(g) /\ OpInv(g) /\ TrackInv(g) /\ Emptied(g)
    BY <1>2, <1>4 DEF ResultInv, RunningInv, OpInv, TrackInv, Emptied, Empty, Nothing
  <2>4. QED BY <1>4, <2>2, <2>3 DEF Sound
<1>7. PICK l, carried : /\ carried \in Versions /\ (l = g \/ l = DiscardKeptArchive(g, ok))
                        /\ u = l \/ u = Record(l, [Nothing EXCEPT !.recovery = carried], ok)
  <2>1. PICK l, carried : /\ carried = 0 \/ carried = RecoveryView(t)
                          /\ l = g \/ l = DiscardKeptArchive(g, ok)
                          /\ u = IF carried = 0 THEN l
                                 ELSE Record(l, [Nothing EXCEPT !.recovery = carried], ok)
    BY <1>3 DEF Cleared
  <2>2. carried \in Versions
    BY <1>1, <2>1, StoredIs, UpdateAssumption DEF RecoveryView, Records, Versions
  <2>3. QED BY <2>1, <2>2
<1>8. Sound(l) /\ l.current = t.current /\ Emptied(l)
  BY <1>4, <1>6, <1>7, DiscardKeeps DEF Emptied
<1>9. ASSUME u = Record(l, [Nothing EXCEPT !.recovery = carried], ok)
      PROVE  Sound(u) /\ u.current = t.current /\ Emptied(u)
  <2>1. PICK new : new = [Nothing EXCEPT !.recovery = carried]
    OBVIOUS
  <2>2. new \in Changes /\ new.install = Absent /\ new.last = Absent /\ new.latest = Absent
    BY <1>7, <2>1 DEF Nothing, Changes
  <2>3. Sound(u)
    BY <1>8, <1>9, <2>1, <2>2, NoneAssumption, RecordKeeps
  <2>4. l \in Managers
    BY <1>8 DEF Sound
  <2>5. /\ u.op = l.op /\ u.current = l.current
        /\ ok => u.rec = Over(new, l.rec) /\ u.held = Without(new, l.held)
        /\ ~ok => u.rec = l.rec /\ u.held = Over(new, l.held)
    BY <1>9, <2>1, <2>2, <2>4, RecordIs
  <2>6. Emptied(u)
    BY <1>8, <2>2, <2>5 DEF Emptied, Over, Without, Known, Left
  <2>7. QED BY <1>8, <2>3, <2>5, <2>6
<1>10. QED
  BY <1>7, <1>8, <1>9

LEMMA DeletionClearsKeeps ==
    ASSUME Inv, ~Races, DeletionClears
    PROVE  Inv'
<1>1. backend = "up" /\ LoopFree /\ base = None /\ deletion = "draining" /\ (check = "idle" \/ Outlasts)
  BY DEF DeletionClears, Worker, LoopFree
<1>2. PICK scope \in {"cache", "setup", "all"}, ok \in Written :
        /\ Writes(ok)
        /\ LET t == Maintain(Manager, ok)
           IN IF Refused(t)
              THEN Becomes(t) /\ deletion' = "none" /\ UNCHANGED staged
              ELSE /\ Becomes(Cleared(t, scope, ok)) /\ staged' = 0
                   /\ deletion' = IF scope = "cache" THEN "none" ELSE "cleared"
  BY DEF DeletionClears
<1>3. PICK t : t = Maintain(Manager, ok)
  OBVIOUS
<1>4. /\ Sound(t) /\ Owned(t) /\ t.current = current /\ faults' \in 0..MaxFaults /\ ok \in BOOLEAN
      /\ t.op = None => Stored(t).install = None
  BY <1>1, <1>2, <1>3, MaintainStep
<1>5. Places
  BY <1>1, UpIs
<1>6. UNCHANGED <<task, check, base, reservation, backend, current, world, starts>>
  BY DEF DeletionClears
<1>7. CASE Refused(t)
  <2>1. Becomes(t) /\ deletion' = "none" /\ UNCHANGED staged
    BY <1>2, <1>3, <1>7
  <2>2. QED
    BY <1>1, <1>4, <1>5, <1>6, <2>1, StepKeeps DEF Places
<1>8. CASE ~Refused(t)
  <2>1. PICK m : m = Cleared(t, scope, ok)
    OBVIOUS
  <2>2. Becomes(m) /\ staged' = 0 /\ deletion' = IF scope = "cache" THEN "none" ELSE "cleared"
    BY <1>2, <1>3, <1>8, <2>1
  <2>3. /\ Sound(m) /\ Owned(m) /\ m.current = current
        /\ deletion' = "cleared" => Emptied(m)
    <3>1. CASE scope = "cache"
      <4>1. m = t
        BY <2>1, <3>1 DEF Cleared
      <4>2. QED BY <1>4, <2>2, <3>1, <4>1
    <3>2. CASE scope # "cache"
      <4>1. task = "none" /\ (t.op = None \/ t.op.state \in Settled)
        BY <1>8 DEF Refused, HasActiveOperation
      <4>2. Sound(m) /\ m.current = t.current /\ Emptied(m)
        BY <1>2, <1>4, <2>1, <3>2, <4>1, ClearedKeeps
      <4>3. Stored(m).install = None
        BY <4>2, StoredIs DEF Emptied, Known, Sound
      <4>4. QED BY <1>4, <4>2, <4>3, OwnedBy
    <3>3. QED BY <3>1, <3>2
  <2>4. 0 \in Versions /\ deletion' \in {"none", "cleared"}
    BY <2>2, UpdateAssumption DEF Versions
  <2>5. QED
    BY <1>1, <1>4, <1>5, <1>6, <2>2, <2>3, <2>4, StepKeeps DEF Places
<1>9. QED
  BY <1>7, <1>8

\* The answer of a check is laid over the record it read, which is the record still.
LEMMA CheckAnswersKeeps ==
    ASSUME Inv, CheckAnswers
    PROVE  Inv'
<1>1. backend = "up" /\ base = rec /\ task # "committed" /\ check = "out" /\ base # None
  BY DEF CheckAnswers, Inv, BaseInv
<1>2. /\ Sound(Manager) /\ Owned(Manager) /\ StartInv /\ Manager.current = current /\ Places /\ TypeOK
      /\ Manager \in Managers /\ Manager.rec = rec
  BY <1>1, UpIs
<1>3. PICK ok \in Written :
      /\ Writes(ok)
      /\ Becomes(Record([Manager EXCEPT !.rec = IF ok THEN base ELSE @],
                          [Nothing EXCEPT !.latest = published,
                              !.last = IF Stored(Manager).last = None THEN Absent ELSE None], ok))
  BY DEF CheckAnswers
<1>4. [Manager EXCEPT !.rec = IF ok THEN base ELSE @] = Manager
  BY <1>1, <1>2 DEF Managers
<1>5. PICK new : new = [Nothing EXCEPT !.latest = published,
                           !.last = IF Stored(Manager).last = None THEN Absent ELSE None]
  OBVIOUS
<1>6. new \in Changes /\ new.install = Absent /\ new.last \in {Absent, None}
  BY <1>2, <1>5 DEF Nothing, Changes, Places
<1>7. PICK m : m = Record(Manager, new, ok)
  OBVIOUS
<1>8. Becomes(m)
  BY <1>3, <1>4, <1>5, <1>7
<1>9. ok \in BOOLEAN /\ faults' \in 0..MaxFaults
  BY <1>2, <1>3, WritesTyped
<1>10. Sound(m)
  <2>1. new.install \in {Absent, None} /\ new.install # None /\ new.last \notin Outcomes
    BY <1>6, NoneAssumption
  <2>2. QED BY <1>2, <1>6, <1>7, <1>9, <2>1, RecordKeeps
<1>11. m.op = Manager.op /\ m.current = Manager.current
  BY <1>2, <1>6, <1>7, <1>9, RecordIs
<1>12. Owned(m)
  BY <1>2, <1>11 DEF Owned
<1>13. /\ base' = None /\ check' = "idle"
       /\ UNCHANGED <<staged, task, reservation, deletion, backend, current, world, starts>>
  BY DEF CheckAnswers
<1>14. deletion = "cleared" => Emptied(m)
  <2> SUFFICES ASSUME deletion = "cleared" PROVE Emptied(m)
    OBVIOUS
  <2>1. Outlasts /\ Emptied(Manager)
    BY <1>1 DEF Inv, ClearedInv
  <2>2. Stored(Manager).last = None
    BY <1>2, <2>1, StoredIs DEF Emptied, Known
  <2>3. new.last = Absent
    BY <1>5, <2>2 DEF Nothing
  <2>4. /\ m.op = Manager.op
        /\ ok => m.rec = Over(new, Manager.rec) /\ m.held = Without(new, Manager.held)
        /\ ~ok => m.rec = Manager.rec /\ m.held = Over(new, Manager.held)
    BY <1>2, <1>6, <1>7, <1>9, RecordIs
  <2>5. QED BY <1>6, <1>9, <2>1, <2>3, <2>4 DEF Emptied, Over, Without, Known, Left
<1>15. QED
  BY <1>1, <1>2, <1>8, <1>9, <1>10, <1>11, <1>12, <1>13, <1>14, StepKeeps DEF Places

-----------------------------------------------------------------------------
(* The steps that start an update, run it and hand it over.                 *)

LEMMA TurnKeeps ==
    ASSUME Inv, backend # "down", base = None, deletion # "cleared",
           Sound(Manager)', Owned(Manager)', StartInv',
           UNCHANGED <<check, base, deletion, backend, current, installed, published>>,
           task' \in {"none", "reading", "fetching", "waiting", "committed"},
           staged' \in Versions, reservation' \in {0} \cup Attempts,
           starts' \in 0..MaxStarts, faults' \in 0..MaxFaults,
           runner' \in [Attempts -> [phase : {"unborn", "ended"} \cup LivePhases, version : Versions,
                                     verified : BOOLEAN, ok : BOOLEAN]]
    PROVE  Inv'
<1>1. Places /\ current = installed
  BY UpIs
<1>2. Manager' \in Managers'
  BY DEF Sound
<1>3. TypeOK'
  BY <1>1, <1>2 DEF TypeOK, Manager, Managers, Places
<1>4. LifeInv'
  BY <1>1 DEF LifeInv
<1>5. BaseInv' /\ ClearedInv'
  BY DEF BaseInv, ClearedInv
<1>6. QED
  BY <1>3, <1>4, <1>5 DEF Inv

LEMMA RunningIs ==
    ASSUME NEW t, Sound(t), task # "none"
    PROVE  /\ t \in Managers /\ t.op \in Operations /\ t.op # None /\ t.op.id = starts
           /\ t.attempt = 0 /\ t.handle = 0 /\ t.op.version > t.current /\ Stored(t).install = None
           /\ runner[starts].phase = "unborn" /\ starts \in Attempts
           /\ t.op.state = "installing" <=> task = "committed"
           /\ \A a \in Attempts : ~Verifying(a)
<1>1. /\ t \in Managers /\ t.op # None /\ t.op.id = starts
      /\ t.attempt = 0 /\ t.handle = 0 /\ t.op.version > t.current
      /\ runner[starts].phase = "unborn"
      /\ t.op.state = "installing" <=> task = "committed"
  BY DEF Sound, RunningInv
<1>2. t.op \in Operations /\ starts \in Attempts
  BY <1>1 DEF Managers, Operations
<1>3. Stored(t).install = None
  BY <1>1 DEF Sound, OpInv
<1>4. \A a \in Attempts : ~Verifying(a)
  BY <1>1 DEF Sound, TrackInv, Tracked
<1>5. QED
  BY <1>1, <1>2, <1>3, <1>4

LEMMA FailedIs ==
    ASSUME NEW t, Sound(t), task # "none", NEW ok \in BOOLEAN, NEW u, u = Failed(t, ok)
    PROVE  \E v : /\ Sound(v) /\ u \in Managers /\ u.rec = v.rec /\ u.held = v.held
                  /\ u.result = v.result /\ u.attempt = v.attempt /\ u.handle = v.handle
                  /\ u.op # None /\ u.op.id = v.op.id /\ u.op.state \in Settled
                  /\ u.current = t.current
<1>1. t \in Managers /\ t.op \in Operations /\ \A a \in Attempts : ~Verifying(a)
  BY RunningIs
<1>2. PICK o : o = [t.op EXCEPT !.state = "failed"]
  OBVIOUS
<1>3. o \in Operations /\ o.id = t.op.id /\ o.state \in Settled /\ o.version = t.op.version
  BY <1>1, <1>2 DEF Operations, Settled
<1>4. o # None
  BY <1>3, NoneAssumption
<1>5. PICK f : f = [t EXCEPT !.op = o]
  OBVIOUS
<1>6. /\ f \in Managers /\ f.op = o /\ f.rec = t.rec /\ f.held = t.held /\ f.result = t.result
      /\ f.attempt = t.attempt /\ f.handle = t.handle /\ f.current = t.current
  BY <1>1, <1>3, <1>5 DEF Managers
<1>7. PICK outcome : outcome = [attempt |-> 0, version |-> t.op.version, ok |-> FALSE]
  OBVIOUS
<1>8. outcome \in Outcomes /\ Told(outcome)
  BY <1>1, <1>7 DEF Outcomes, Operations, Told
<1>9. PICK new : new = [Nothing EXCEPT !.install = None, !.last = outcome]
  OBVIOUS
<1>10. new \in Changes /\ new.install = None /\ new.last = outcome
  BY <1>8, <1>9 DEF Nothing, Changes
<1>11. PICK v : v = Record(t, new, ok)
  OBVIOUS
<1>12. Sound(v)
  BY <1>1, <1>8, <1>10, <1>11, RecordKeeps
<1>13. u = Record(f, new, ok)
  <2>1. f = [t EXCEPT !.op.state = "failed"]
    BY <1>1, <1>2, <1>5 DEF Managers
  <2>2. QED BY <1>7, <1>9, <2>1 DEF Failed
<1>14. /\ v.result = t.result /\ v.attempt = t.attempt /\ v.handle = t.handle /\ v.op = t.op
       /\ ok => v.rec = Over(new, t.rec) /\ v.held = Without(new, t.held)
       /\ ~ok => v.rec = t.rec /\ v.held = Over(new, t.held)
  BY <1>1, <1>10, <1>11, RecordIs
<1>15. /\ u \in Managers
       /\ u.result = f.result /\ u.attempt = f.attempt /\ u.handle = f.handle /\ u.op = f.op
       /\ u.current = f.current
       /\ ok => u.rec = Over(new, f.rec) /\ u.held = Without(new, f.held)
       /\ ~ok => u.rec = f.rec /\ u.held = Over(new, f.held)
  BY <1>6, <1>10, <1>13, RecordIs
<1>16. u.rec = v.rec /\ u.held = v.held
  BY <1>6, <1>14, <1>15
<1>17. QED
  BY <1>3, <1>4, <1>6, <1>12, <1>14, <1>15, <1>16

LEMMA RunningUp ==
    ASSUME Inv, task # "none"
    PROVE  /\ backend # "down" /\ deletion # "cleared" /\ op # None
           /\ Sound(Manager) /\ Manager \in Managers /\ Places /\ TypeOK /\ StartInv
           /\ Manager.op = op /\ Manager.current = current /\ Manager.attempt = attempt
           /\ Manager.handle = handle /\ Manager.rec = rec /\ Manager.held = held
           /\ Manager.result = result
<1>1. backend # "down"
  BY DEF Inv, LifeInv
<1>2. Manager.op # None /\ Manager.op = op
  BY <1>1, UpIs, RunningIs
<1>3. deletion # "cleared"
  BY <1>2 DEF Inv, ClearedInv, Emptied
<1>4. QED
  BY <1>1, <1>2, <1>3, UpIs

\* A run that ends without an install.
LEMMA EndKeeps ==
    ASSUME Inv, base = None, task # "none",
           NEW v, Sound(v),
           NEW m \in Managers, m.rec = v.rec, m.held = v.held, m.result = v.result,
           m.attempt = v.attempt, m.handle = v.handle, m.op # None, m.op.id = v.op.id,
           m.op.state \in Settled, m.current = current, Becomes(m),
           task' = "none", staged' \in Versions, reservation' \in {0} \cup Attempts,
           faults' \in 0..MaxFaults,
           UNCHANGED <<check, base, deletion, backend, current, world, starts>>
    PROVE  Inv'
<1>1. Manager' = m
  BY ManagerIs
<1>2. Sound(Manager)'
  BY <1>1, EndCarried DEF world
<1>3. Owned(Manager)'
  BY <1>1 DEF Owned
<1>4. StartInv'
  BY DEF Inv, StartInv, world
<1>5. QED
  BY <1>2, <1>3, <1>4, RunningUp, TurnKeeps DEF Places, world

LEMMA FailKeeps ==
    ASSUME Inv, base = None, task # "none", NEW t, Sound(t), t.current = current,
           NEW ok \in BOOLEAN, Becomes(Failed(t, ok)),
           task' = "none", staged' \in Versions, UNCHANGED reservation, faults' \in 0..MaxFaults,
           UNCHANGED <<check, base, deletion, backend, current, world, starts>>
    PROVE  Inv'
<1>1. PICK m : m = Failed(t, ok)
  OBVIOUS
<1>2. PICK v : /\ Sound(v) /\ m \in Managers /\ m.rec = v.rec /\ m.held = v.held
               /\ m.result = v.result /\ m.attempt = v.attempt /\ m.handle = v.handle
               /\ m.op # None /\ m.op.id = v.op.id /\ m.op.state \in Settled
               /\ m.current = t.current
  BY <1>1, FailedIs
<1>3. reservation' \in {0} \cup Attempts
  BY RunningUp DEF Places
<1>4. QED
  BY <1>1, <1>2, <1>3, EndKeeps

LEMMA RunFailsKeeps ==
    ASSUME Inv, RunFails \/ SpawnFails
    PROVE  Inv'
<1>1. task # "none" /\ base = None
  BY DEF RunFails, SpawnFails, Loop, LoopFree, Inv, BaseInv
<1>2. /\ Sound(Manager) /\ Manager.current = current /\ TypeOK
  BY <1>1, RunningUp
<1>3. PICK ok \in Written : Writes(ok) /\ Becomes(Failed(Manager, ok))
  BY DEF RunFails, SpawnFails
<1>4. ok \in BOOLEAN /\ faults' \in 0..MaxFaults
  BY <1>2, <1>3, WritesTyped
<1>5. /\ staged' = 0 /\ task' = "none"
      /\ UNCHANGED <<check, base, reservation, deletion, backend, current, world, starts>>
  BY DEF RunFails, SpawnFails
<1>6. 0 \in Versions
  BY UpdateAssumption DEF Versions
<1>7. QED
  BY <1>1, <1>2, <1>3, <1>4, <1>5, <1>6, FailKeeps

\* A run that goes on: the operation is the same, and not yet handed over.
LEMMA OnwardCarried ==
    ASSUME NEW v, Sound(v), task \notin {"none", "committed"},
           NEW m \in Managers, m.rec = v.rec, m.held = v.held, m.result = v.result,
           m.attempt = v.attempt, m.handle = v.handle, m.op # None, m.op.id = v.op.id,
           m.op.version = v.op.version, m.current = v.current, m.op.state \notin Settled,
           task' # "none", m.op.state = "installing" <=> task' = "committed",
           Manager' = m, UNCHANGED <<runner, starts, installed>>
    PROVE  Sound(Manager)'
<1>1. /\ v.op # None /\ v.op.id = starts /\ v.attempt = 0 /\ v.handle = 0 /\ v.op.version > v.current
      /\ Stored(v).install = None /\ runner[starts].phase = "unborn"
      /\ \A a \in Attempts : ~Verifying(a)
  BY RunningIs
<1>2. Stored(m) = Stored(v)
  BY DEF Stored
<1>3. RecordInv(m) /\ ResultInv(m)
  BY <1>2 DEF Sound, RecordInv, ResultInv
<1>4. RecordInv(Manager)' /\ ResultInv(Manager)'
  BY <1>3, RecordCarried
<1>5. RunningInv(Manager)' /\ TrackInv(Manager)'
  BY <1>1 DEF RunningInv, TrackInv, Verifying
<1>6. OpInv(Manager)'
  <2>1. Stored(Manager)'.install = None
    BY <1>1, <1>2 DEF Stored
  <2>2. starts <= starts
    BY <1>1 DEF Sound, OpInv
  <2>3. QED BY <1>1, <2>1, <2>2 DEF OpInv
<1>7. QED
  BY <1>4, <1>5, <1>6 DEF Sound

LEMMA OnwardKeeps ==
    ASSUME Inv, base = None, task \notin {"none", "committed"},
           NEW v, Sound(v), v.current = current,
           NEW m \in Managers, m.rec = v.rec, m.held = v.held, m.result = v.result,
           m.attempt = v.attempt, m.handle = v.handle, m.op # None, m.op.id = v.op.id,
           m.op.version = v.op.version, m.current = v.current, m.op.state \notin Settled,
           task' \in {"reading", "fetching", "waiting", "committed"},
           m.op.state = "installing" <=> task' = "committed",
           Becomes(m), staged' \in Versions, faults' \in 0..MaxFaults,
           UNCHANGED <<check, base, reservation, deletion, backend, current, world, starts>>
    PROVE  Inv'
<1>1. Manager' = m
  BY ManagerIs
<1>2. Sound(Manager)'
  BY <1>1, OnwardCarried DEF world
<1>3. Owned(Manager)'
  BY <1>1 DEF Owned
<1>4. StartInv'
  BY DEF Inv, StartInv, world
<1>5. QED
  BY <1>2, <1>3, <1>4, RunningUp, TurnKeeps DEF Places, world

LEMMA RunReadsKeeps ==
    ASSUME Inv, RunReads
    PROVE  Inv'
<1>1. task = "reading" /\ base = None
  BY DEF RunReads, Loop, LoopFree
<1>2. /\ Sound(Manager) /\ Manager \in Managers /\ Manager.current = current /\ TypeOK /\ Places
      /\ Manager.op = op
  BY <1>1, RunningUp
<1>3. PICK ok \in Written :
      /\ Writes(ok)
      /\ LET t == Record(Manager, [Nothing EXCEPT !.latest = published], ok)
           IN IF published <= current \/ published # op.version
              THEN Becomes(Failed(t, ok)) /\ task' = "none"
              ELSE Becomes([t EXCEPT !.op.state = "downloading"]) /\ task' = "fetching"
  BY DEF RunReads
<1>4. ok \in BOOLEAN /\ faults' \in 0..MaxFaults
  BY <1>2, <1>3, WritesTyped
<1>5. PICK new : new = [Nothing EXCEPT !.latest = published]
  OBVIOUS
<1>6. new \in Changes /\ new.install = Absent /\ new.last = Absent
  BY <1>2, <1>5 DEF Nothing, Changes, Places
<1>7. PICK t : t = Record(Manager, new, ok)
  OBVIOUS
<1>8. Sound(t)
  BY <1>2, <1>4, <1>6, <1>7, NoneAssumption, RecordKeeps
<1>9. t.op = op /\ t.current = current /\ t \in Managers
  BY <1>2, <1>4, <1>6, <1>7, RecordIs
<1>10. UNCHANGED <<staged, check, base, reservation, deletion, backend, current, world, starts>>
  BY DEF RunReads
<1>11. CASE published <= current \/ published # op.version
  <2>1. Becomes(Failed(t, ok)) /\ task' = "none"
    BY <1>3, <1>5, <1>7, <1>11
  <2>2. QED
    BY <1>1, <1>2, <1>4, <1>8, <1>9, <1>10, <2>1, FailKeeps DEF Places
<1>12. CASE ~(published <= current \/ published # op.version)
  <2>1. PICK m : m = [t EXCEPT !.op.state = "downloading"]
    OBVIOUS
  <2>2. Becomes(m) /\ task' = "fetching"
    BY <1>3, <1>5, <1>7, <1>12, <2>1
  <2>3. t.op \in Operations
    BY <1>1, <1>8, RunningIs
  <2>4. PICK o : o = [t.op EXCEPT !.state = "downloading"]
    OBVIOUS
  <2>5. o \in Operations /\ o.id = t.op.id /\ o.version = t.op.version /\ o.state = "downloading"
    BY <2>3, <2>4 DEF Operations
  <2>6. o # None
    BY <2>5, NoneAssumption
  <2>7. m = [t EXCEPT !.op = o]
    BY <1>9, <2>1, <2>4 DEF Managers
  <2>8. /\ m \in Managers /\ m.op = o /\ m.rec = t.rec /\ m.held = t.held /\ m.result = t.result
        /\ m.attempt = t.attempt /\ m.handle = t.handle /\ m.current = t.current
    BY <1>9, <2>5, <2>7 DEF Managers
  <2>9. m.op.state \notin Settled /\ (m.op.state = "installing" <=> task' = "committed")
    BY <2>2, <2>5, <2>8 DEF Settled
  <2>10. QED
    BY <1>1, <1>2, <1>4, <1>8, <1>9, <1>10, <2>2, <2>5, <2>6, <2>8, <2>9, OnwardKeeps DEF Places
<1>13. QED
  BY <1>11, <1>12

LEMMA RunFetchesKeeps ==
    ASSUME Inv, RunFetches
    PROVE  Inv'
<1>1. task = "fetching" /\ base = None /\ task' = "waiting" /\ staged' = op.version
  BY DEF RunFetches, Loop, LoopFree
<1>2. /\ Sound(Manager) /\ Manager \in Managers /\ Manager.current = current /\ TypeOK /\ Places
      /\ Manager.op = op /\ op # None
  BY <1>1, RunningUp
<1>3. Becomes(Manager)
  BY SameManager DEF RunFetches, memory
<1>4. op \in Operations /\ op.version \in Versions /\ (op.state = "installing" <=> task = "committed")
  BY <1>1, <1>2, RunningIs DEF Operations
<1>5. op.state \notin Settled
  BY <1>1, <1>2 DEF Sound, RunningInv
<1>6. UNCHANGED <<check, base, reservation, deletion, backend, current, world, starts, faults>>
  BY DEF RunFetches, counts
<1>7. QED
  BY <1>1, <1>2, <1>3, <1>4, <1>5, <1>6, OnwardKeeps DEF Places

LEMMA RunCommitsKeeps ==
    ASSUME Inv, RunCommits
    PROVE  Inv'
<1>1. task = "waiting" /\ base = None /\ task' = "committed"
  BY DEF RunCommits, Loop, LoopFree
<1>2. /\ Sound(Manager) /\ Manager \in Managers /\ Manager.current = current /\ TypeOK /\ Places
      /\ Manager.op = op
  BY <1>1, RunningUp
<1>3. op \in Operations
  BY <1>1, <1>2, RunningIs
<1>4. PICK o : o = [op EXCEPT !.state = "installing"]
  OBVIOUS
<1>5. o \in Operations /\ o.id = op.id /\ o.version = op.version /\ o.state = "installing"
  BY <1>3, <1>4 DEF Operations
<1>6. o # None
  BY <1>5, NoneAssumption
<1>7. PICK m : m = [Manager EXCEPT !.op = o]
  OBVIOUS
<1>8. /\ m \in Managers /\ m.op = o /\ m.rec = rec /\ m.held = held /\ m.result = result
      /\ m.attempt = attempt /\ m.handle = handle /\ m.current = current /\ m.kept = kept
      /\ m.observed = observed
  BY <1>2, <1>5, <1>7 DEF Managers, Manager
<1>9. Becomes(m)
  BY <1>4, <1>8 DEF Becomes, RunCommits, files
<1>10. m.op.state \notin Settled
  BY <1>5, <1>8 DEF Settled
<1>11. UNCHANGED <<staged, check, base, reservation, deletion, backend, current, world, starts, faults>>
  BY DEF RunCommits, counts, files
<1>12. QED
  BY <1>1, <1>2, <1>5, <1>6, <1>8, <1>9, <1>10, <1>11, RunningUp, OnwardKeeps DEF Places

LEMMA CancelKeeps ==
    ASSUME Inv, CancelUpdate
    PROVE  Inv'
<1>1. backend = "up" /\ LoopFree /\ base = None
  BY DEF CancelUpdate, Loop, LoopFree
<1>2. PICK ok \in Written :
        /\ Writes(ok)
        /\ LET t == Maintain(Manager, ok)
               stops == t.op.state # "installing" /\ task # "none"
               done == IF stops THEN [t EXCEPT !.op.state = "cancelled"] ELSE t
           IN /\ Becomes(done)
              /\ reservation' = IF t.op.state = "installing" THEN reservation ELSE Reconciled(done)
              /\ task' = IF stops THEN "none" ELSE task
              /\ staged' = IF stops THEN 0 ELSE staged
  BY DEF CancelUpdate
<1>3. PICK t : t = Maintain(Manager, ok)
  OBVIOUS
<1>4. /\ Sound(t) /\ Owned(t) /\ t.current = current /\ faults' \in 0..MaxFaults /\ t \in Managers
      /\ deletion = "cleared" => (check = "idle" \/ Outlasts) /\ Emptied(t)
  BY <1>1, <1>2, <1>3, MaintainStep
<1>5. Places
  BY <1>1, UpIs
<1>6. UNCHANGED <<check, base, deletion, backend, current, world, starts>>
  BY DEF CancelUpdate
<1>7. reservation' \in {0, reservation}
  BY <1>2 DEF Reconciled
<1>8. CASE t.op.state # "installing" /\ task # "none"
  <2>1. PICK m : m = [t EXCEPT !.op.state = "cancelled"]
    OBVIOUS
  <2>2. Becomes(m) /\ task' = "none" /\ staged' = 0
    BY <1>2, <1>3, <1>8, <2>1
  <2>3. t.op \in Operations
    BY <1>4, <1>8, RunningIs
  <2>4. PICK o : o = [t.op EXCEPT !.state = "cancelled"]
    OBVIOUS
  <2>5. o \in Operations /\ o.id = t.op.id /\ o.state \in Settled
    BY <2>3, <2>4 DEF Operations, Settled
  <2>6. o # None
    BY <2>5, NoneAssumption
  <2>7. m = [t EXCEPT !.op = o]
    BY <1>4, <2>1, <2>4 DEF Managers
  <2>8. /\ m \in Managers /\ m.op = o /\ m.rec = t.rec /\ m.held = t.held /\ m.result = t.result
        /\ m.attempt = t.attempt /\ m.handle = t.handle /\ m.current = t.current
    BY <1>4, <2>5, <2>7 DEF Managers
  <2>9. 0 \in Versions /\ reservation' \in {0} \cup Attempts
    BY <1>5, <1>7, UpdateAssumption DEF Versions, Places
  <2>10. QED
    BY <1>1, <1>4, <1>6, <1>8, <2>2, <2>5, <2>6, <2>8, <2>9, EndKeeps
<1>9. CASE ~(t.op.state # "installing" /\ task # "none")
  <2>1. Becomes(t) /\ UNCHANGED <<task, staged>>
    BY <1>2, <1>3, <1>9
  <2>2. QED
    BY <1>1, <1>4, <1>5, <1>6, <1>7, <2>1, StepKeeps DEF Places
<1>10. QED
  BY <1>8, <1>9

\* Nothing asks Decky while no operation of the manager is under way.
LEMMA NoneVerifying ==
    ASSUME NEW t, Sound(t), Owned(t), t.op = None \/ t.op.state \in Settled
    PROVE  \A a \in Attempts : ~Verifying(a)
<1>1. t.op # None => \A a \in Attempts : ~Verifying(a)
  BY DEF Sound, TrackInv, Tracked, Settled
<1>2. QED
  BY <1>1 DEF Owned

LEMMA StartKeeps ==
    ASSUME Inv, StartUpdate
    PROVE  Inv'
<1>1. backend = "up" /\ LoopFree /\ base = None /\ starts < MaxStarts
  BY DEF StartUpdate, Loop, LoopFree
<1>2. PICK ok \in Written :
        /\ Writes(ok)
        /\ LET t    == Maintain(Manager, ok)
               shown == Stored(t).latest
               id   == starts + 1
           IN IF reservation # 0 \/ HasActiveOperation(t) \/ deletion # "none" \/ shown <= current
              THEN Becomes(t) /\ UNCHANGED <<task, reservation, world, starts>>
              ELSE /\ Becomes([t EXCEPT !.handle = 0, !.attempt = 0,
                          !.op = [id |-> id, version |-> shown, adopted |-> FALSE, state |-> "checking"]])
                   /\ task' = "reading" /\ reservation' = id /\ starts' = id
                   /\ UNCHANGED world
  BY DEF StartUpdate
<1>3. PICK t : t = Maintain(Manager, ok)
  OBVIOUS
<1>4. /\ Sound(t) /\ Owned(t) /\ t.current = current /\ faults' \in 0..MaxFaults /\ t \in Managers
      /\ t.op = None => Stored(t).install = None
      /\ deletion = "cleared" => (check = "idle" \/ Outlasts) /\ Emptied(t)
  BY <1>1, <1>2, <1>3, MaintainStep
<1>5. Places /\ StartInv
  BY <1>1, UpIs
<1>6. UNCHANGED <<staged, check, base, deletion, backend, current>>
  BY DEF StartUpdate
<1>7. CASE reservation # 0 \/ HasActiveOperation(t) \/ deletion # "none" \/ Stored(t).latest <= current
  <2>1. Becomes(t) /\ UNCHANGED <<task, reservation, world, starts>>
    BY <1>2, <1>3, <1>7
  <2>2. QED
    BY <1>1, <1>4, <1>5, <1>6, <2>1, StepKeeps DEF Places
<1>8. CASE ~(reservation # 0 \/ HasActiveOperation(t) \/ deletion # "none" \/ Stored(t).latest <= current)
  <2>1. PICK id : id = starts + 1
    OBVIOUS
  <2>2. id \in Attempts /\ id \in 0..MaxStarts /\ starts \in Nat /\ id # 0 /\ id > starts
    BY <1>1, <1>5, <2>1, UpdateAssumption DEF Places, Attempts
  <2>3. PICK o : o = [id |-> id, version |-> Stored(t).latest, adopted |-> FALSE, state |-> "checking"]
    OBVIOUS
  <2>4. PICK m : m = [t EXCEPT !.handle = 0, !.attempt = 0, !.op = o]
    OBVIOUS
  <2>5. Becomes(m) /\ task' = "reading" /\ reservation' = id /\ starts' = id /\ UNCHANGED world
    BY <1>2, <1>3, <1>8, <2>1, <2>3, <2>4
  <2>6. o \in Operations /\ o.id = id /\ o.version = Stored(t).latest /\ o.state = "checking"
    BY <1>4, <2>2, <2>3, StoredIs DEF Operations, Records
  <2>7. o # None
    BY <2>6, NoneAssumption
  <2>8. /\ m \in Managers /\ m.op = o /\ m.rec = t.rec /\ m.held = t.held /\ m.result = t.result
        /\ m.attempt = 0 /\ m.handle = 0 /\ m.current = current
    BY <1>4, <2>4, <2>6 DEF Managers
  <2>9. o.version > m.current
    <3>1. o.version \in Nat /\ m.current \in Nat
      BY <2>6, <2>8 DEF Managers, Operations, Versions
    <3>2. ~(o.version <= m.current)
      BY <1>8, <2>6, <2>8
    <3>3. QED BY <3>1, <3>2
  <2>10. task = "none" /\ (t.op = None \/ t.op.state \in Settled) /\ deletion = "none"
    BY <1>8 DEF HasActiveOperation
  <2>11. \A a \in Attempts : ~Verifying(a)
    BY <1>4, <2>10, NoneVerifying
  <2>12. Stored(t).install = None
    BY <1>4, <2>10 DEF Sound, OpInv, Settled
  <2>13. runner[id].phase = "unborn"
    <3>1. ~(id <= starts)
      BY <2>2
    <3>2. QED BY <1>5, <2>2, <3>1 DEF StartInv
  <2>14. Manager' = m
    BY <2>5, <2>8, <1>6, ManagerIs
  <2>15. Stored(m) = Stored(t)
    BY <2>8 DEF Stored
  <2>16. RecordInv(m) /\ ResultInv(m)
    BY <1>4, <2>8, <2>15 DEF Sound, RecordInv, ResultInv
  <2>17. RecordInv(Manager)' /\ ResultInv(Manager)'
    BY <2>5, <2>14, <2>16, RecordCarried DEF world
  <2>18. RunningInv(Manager)'
    BY <2>5, <2>6, <2>7, <2>8, <2>9, <2>13, <2>14 DEF RunningInv, Settled, world
  <2>19. TrackInv(Manager)' /\ Owned(Manager)'
    BY <2>5, <2>11 DEF TrackInv, Owned, Verifying, world
  <2>20. OpInv(Manager)'
    <3>1. Stored(Manager)'.install = None
      BY <2>12, <2>14, <2>15 DEF Stored
    <3>2. id <= id
      BY <2>2
    <3>3. QED BY <2>5, <2>6, <2>7, <2>8, <2>14, <3>1, <3>2 DEF OpInv, Settled
  <2>21. Sound(Manager)'
    BY <2>8, <2>14, <2>17, <2>18, <2>19, <2>20 DEF Sound, Managers
  <2>22. StartInv'
    <3>1. \A a \in Attempts : a <= starts => a <= id
      BY <2>1, <2>2 DEF Attempts
    <3>2. QED BY <1>5, <2>5, <3>1 DEF StartInv, world
  <2>23. QED
    BY <1>1, <1>4, <1>5, <1>6, <2>2, <2>5, <2>10, <2>19, <2>21, <2>22, TurnKeeps DEF Places, world
<1>9. QED
  BY <1>7, <1>8

\* The installer is started: the record names it, and nothing held hides that.
LEMMA RunSpawnsKeeps ==
    ASSUME Inv, RunSpawns
    PROVE  Inv'
<1>1. task = "committed" /\ base = None /\ task' = "none"
  BY DEF RunSpawns, Inv, BaseInv
<1>2. /\ Sound(Manager) /\ Manager \in Managers /\ Manager.current = current /\ TypeOK /\ Places
      /\ Manager.op = op /\ op # None /\ Manager.rec = rec /\ Manager.held = held /\ StartInv
      /\ Manager.result = result /\ backend # "down" /\ deletion # "cleared" /\ current = installed
  BY <1>1, RunningUp, UpIs
<1>3. /\ op \in Operations /\ op.id = starts /\ op.version > current /\ Stored(Manager).install = None
      /\ runner[starts].phase = "unborn" /\ starts \in Attempts /\ op.state = "installing"
      /\ \A a \in Attempts : ~Verifying(a)
  BY <1>1, <1>2, RunningIs
<1>4. op.version \in Versions /\ starts # 0
  BY <1>3 DEF Operations, Attempts
<1>5. PICK p : p = [attempt |-> starts, version |-> op.version, start |-> "recent"]
  OBVIOUS
<1>6. p \in Pending /\ p # None /\ p.attempt = starts /\ p.version = op.version /\ p.start = "recent"
  <2>1. p \in Pending
    BY <1>3, <1>4, <1>5 DEF Pending, Ages
  <2>2. QED BY <1>5, <2>1, NoneAssumption
<1>7. PICK r : r = [phase |-> "verifying", version |-> op.version, verified |-> FALSE, ok |-> FALSE]
  OBVIOUS
<1>8. /\ rec' = [rec EXCEPT !.install = p] /\ runner' = [runner EXCEPT ![starts] = r]
      /\ attempt' = starts /\ handle' = starts
      /\ UNCHANGED <<result, kept, staged, held, op, observed, check, base, reservation, deletion,
                     backend, current, installed, published, starts, faults>>
  BY <1>3, <1>5, <1>7 DEF RunSpawns
<1>9. runner' \in [Attempts -> [phase : {"unborn", "ended"} \cup LivePhases, version : Versions,
                                verified : BOOLEAN, ok : BOOLEAN]]
  BY <1>2, <1>4, <1>7, <1>8 DEF Places, LivePhases
<1>10. /\ runner'[starts].phase = "verifying" /\ runner'[starts].version = op.version
       /\ \A a \in Attempts : a # starts => runner'[a] = runner[a]
  BY <1>2, <1>3, <1>7, <1>8 DEF Places
<1>11. rec' \in Records /\ rec'.install = p /\ rec'.last = rec.last
  BY <1>2, <1>6, <1>8 DEF TypeOK, Records
<1>12. /\ Manager' \in Managers /\ Manager'.rec = rec' /\ Manager'.held = held /\ Manager'.op = op
       /\ Manager'.attempt = starts /\ Manager'.handle = starts /\ Manager'.result = result
       /\ Manager'.current = current
  BY <1>2, <1>3, <1>8, <1>11 DEF TypeOK, Manager, Managers
<1>13. held.install \in {Absent, None}
  BY <1>2, <1>3, StoredIs DEF Known
<1>14. /\ Stored(Manager)'.install \in {None, p}
       /\ Stored(Manager)'.last = Stored(Manager).last
  <2>1. Stored(Manager)' = Over(held, rec')
    BY <1>12 DEF Stored
  <2>2. Stored(Manager) = Over(held, rec)
    BY <1>2 DEF Stored
  <2>3. QED BY <1>11, <1>13, <2>1, <2>2 DEF Over, Known
<1>15. /\ Told(rec.last) /\ Told(held.last) /\ ResultInv(Manager)
  BY <1>2 DEF Sound, RecordInv
<1>16. \A l : Told(l) /\ l \in Outcomes => l.attempt # starts
  BY <1>3, <1>4 DEF Told
<1>17. Told(rec.last)' /\ Told(held.last)'
  <2>1. ASSUME NEW l, Told(l), l \in Outcomes, l.attempt # 0
        PROVE  runner'[l.attempt] = runner[l.attempt]
    BY <1>10, <1>16, <2>1 DEF Outcomes
  <2>2. QED BY <1>8, <1>11, <1>15, <2>1 DEF Told, Live, Verifying
<1>18. RecordInv(Manager)'
  <2>1. Begun(rec.install)'
    BY <1>6, <1>10, <1>11 DEF Begun
  <2>2. Begun(held.install)'
    BY <1>8, <1>13, NoneAssumption DEF Begun
  <2>3. Apart(rec)'
    <3>1. rec.last \in {None} \cup Outcomes
      BY <1>2 DEF TypeOK, Records
    <3>2. QED BY <1>6, <1>11, <1>15, <1>16, <3>1 DEF Apart
  <2>4. Apart(Stored(Manager))'
    <3>1. Stored(Manager).last = Known(held.last, rec.last) /\ Stored(Manager).last \in {None} \cup Outcomes
      BY <1>2, StoredIs DEF Records
    <3>2. Stored(Manager).last # None => Stored(Manager).last.attempt # starts
      BY <1>15, <1>16, <3>1 DEF Known
    <3>3. QED BY <1>6, <1>14, <3>2 DEF Apart
  <2>5. held'.install \notin Pending
    BY <1>8, <1>13, NoneAssumption
  <2>6. QED
    BY <1>8, <1>12, <1>17, <2>1, <2>2, <2>3, <2>4, <2>5 DEF RecordInv, Manager
<1>19. ResultInv(Manager)'
  <2>1. result # None => result.attempt \in Attempts /\ runner[result.attempt].phase = "ended"
    BY <1>2, <1>15 DEF ResultInv
  <2>2. result # None => result.attempt # starts
    BY <1>3, <2>1
  <2>3. QED BY <1>10, <1>12, <2>1, <2>2 DEF ResultInv
<1>20. RunningInv(Manager)'
  BY <1>1 DEF RunningInv
<1>21. OpInv(Manager)'
  <2>1. starts <= starts
    BY <1>2 DEF Places
  <2>2. QED
    BY <1>1, <1>2, <1>3, <1>6, <1>8, <1>10, <1>12, <1>14, <2>1 DEF OpInv, Settled
<1>22. TrackInv(Manager)'
  <2>1. SUFFICES ASSUME NEW a \in Attempts, Verifying(a)'
                 PROVE  Tracked(Manager, a)'
    BY DEF TrackInv
  <2>2. a = starts
    BY <1>3, <1>10, <2>1 DEF Verifying
  <2>3. QED
    BY <1>1, <1>2, <1>3, <1>6, <1>8, <1>10, <1>11, <1>12, <1>13, <2>2 DEF Tracked
<1>23. Sound(Manager)'
  BY <1>12, <1>18, <1>19, <1>20, <1>21, <1>22 DEF Sound, Managers
<1>24. Owned(Manager)'
  BY <1>2, <1>12 DEF Owned
<1>25. StartInv'
  <2>1. starts <= starts
    BY <1>2 DEF Places
  <2>2. QED
    BY <1>2, <1>8, <1>10, <2>1 DEF StartInv
<1>26. QED
  BY <1>1, <1>2, <1>8, <1>9, <1>23, <1>24, <1>25, TurnKeeps DEF Places

-----------------------------------------------------------------------------
(* The installer's steps, and what ends a backend.                          *)

RunnerType == [Attempts -> [phase : {"unborn", "ended"} \cup LivePhases, version : Versions,
                            verified : BOOLEAN, ok : BOOLEAN]]

\* Installers go on, and none is started.
Advances ==
    \A b \in Attempts :
      /\ runner'[b].version = runner[b].version
      /\ runner'[b].phase = "unborn" <=> runner[b].phase = "unborn"
      /\ runner[b].phase = "ended" => runner'[b].phase = "ended"
      /\ Live(b)' => Live(b)
      /\ Verifying(b)' => Verifying(b)

LEMMA TalesCarried ==
    ASSUME Advances
    PROVE  /\ \A p : Begun(p) /\ p \in Pending =>
                /\ runner'[p.attempt].phase # "unborn"
                /\ p.start # "recent" => ~(runner'[p.attempt].phase \in LivePhases)
           /\ \A l : Told(l) /\ l \in Outcomes /\ l.attempt # 0 =>
                /\ runner'[l.attempt].phase # "unborn"
                /\ runner'[l.attempt].phase \notin {"verifying", "asking"}
                /\ ~l.ok => runner'[l.attempt].phase \notin LivePhases
<1>1. ASSUME NEW p, Begun(p), p \in Pending
      PROVE  /\ runner'[p.attempt].phase # "unborn"
             /\ p.start # "recent" => ~(runner'[p.attempt].phase \in LivePhases)
  <2>1. p.attempt \in Attempts
    BY <1>1 DEF Pending
  <2>2. QED BY <1>1, <2>1 DEF Advances, Begun, Live
<1>2. ASSUME NEW l, Told(l), l \in Outcomes, l.attempt # 0
      PROVE  /\ runner'[l.attempt].phase # "unborn"
             /\ runner'[l.attempt].phase \notin {"verifying", "asking"}
             /\ ~l.ok => runner'[l.attempt].phase \notin LivePhases
  <2>1. l.attempt \in Attempts
    BY <1>2 DEF Outcomes
  <2>2. QED BY <1>2, <2>1 DEF Advances, Told, Live, Verifying
<1>3. QED
  BY <1>1, <1>2

LEMMA RunnerKeeps ==
    ASSUME Inv, Advances, runner' \in RunnerType,
           UNCHANGED <<rec, memory, task, check, base, reservation, deletion, backend, current,
                       installed, published, starts>>,
           kept' \in Versions, staged' \in Versions, faults' \in 0..MaxFaults,
           \/ result' = result
           \/ /\ result' \in Outcomes /\ result'.attempt \in Attempts
              /\ runner'[result'.attempt].phase = "ended"
    PROVE  Inv'
<1>1. Sound(Manager) /\ Manager \in Managers /\ TypeOK
  BY DEF Inv, Sound
<1>2. TypeOK'
  BY <1>1 DEF TypeOK, memory, RunnerType
<1>3. /\ Manager' \in Managers /\ Manager'.rec = Manager.rec /\ Manager'.held = Manager.held
      /\ Manager'.op = Manager.op /\ Manager'.attempt = Manager.attempt
      /\ Manager'.handle = Manager.handle /\ Manager'.current = Manager.current
      /\ Manager'.result = result' /\ Manager.result = result
  BY <1>2 DEF TypeOK, Manager, Managers, memory
<1>4. Stored(Manager)' = Stored(Manager)
  BY <1>3 DEF Stored
<1>5. RecordInv(Manager)'
  <2>1. /\ Begun(Manager.rec.install) /\ Begun(Manager.held.install)
        /\ Told(Manager.rec.last) /\ Told(Manager.held.last)
        /\ Apart(Manager.rec) /\ Apart(Stored(Manager))
        /\ Manager.held.install \in Pending =>
             /\ Manager.rec.install # None
             /\ Manager.rec.install.attempt = Manager.held.install.attempt
    BY <1>1 DEF Sound, RecordInv
  <2>2. Begun(Manager.rec.install)' /\ Begun(Manager.held.install)'
    BY <1>3, <2>1, TalesCarried DEF Begun, Live
  <2>3. Told(Manager.rec.last)' /\ Told(Manager.held.last)'
    BY <1>3, <2>1, TalesCarried DEF Told, Live, Verifying
  <2>4. Apart(Manager.rec)' /\ Apart(Stored(Manager))'
    BY <1>3, <1>4, <2>1 DEF Apart
  <2>5. QED BY <1>3, <2>1, <2>2, <2>3, <2>4 DEF RecordInv
<1>6. ResultInv(Manager)'
  BY <1>1, <1>3 DEF Sound, ResultInv, Advances
<1>7. RunningInv(Manager)'
  <2>1. CASE task = "none" BY <2>1 DEF RunningInv
  <2>2. CASE task # "none"
    <3>1. starts \in Attempts
      BY <1>1, <2>2, RunningIs
    <3>2. QED BY <1>1, <1>3, <3>1 DEF Sound, RunningInv, Advances
  <2>3. QED BY <2>1, <2>2
<1>8. OpInv(Manager)'
  <2>1. CASE Manager.op = None
    BY <1>1, <1>3, <2>1 DEF Sound, OpInv
  <2>2. CASE Manager.op # None
    <3>1. Manager.op.id \in Attempts /\ Manager.attempt \in {0} \cup Attempts
      BY <1>1, <2>2 DEF Managers, Operations
    <3>2. Manager.attempt # 0 => runner'[Manager.attempt].phase # "unborn"
      BY <1>1, <2>2, <3>1 DEF Sound, OpInv, Advances
    <3>3. Manager.op.state \in Settled => ~Live(Manager.op.id)'
      BY <1>1, <1>3, <2>2, <3>1 DEF Sound, OpInv, Advances, Live
    <3>4. QED BY <1>1, <1>3, <1>4, <2>2, <3>2, <3>3 DEF Sound, OpInv
  <2>3. QED BY <2>1, <2>2
<1>9. TrackInv(Manager)'
  <2>1. SUFFICES ASSUME NEW a \in Attempts, Verifying(a)'
                 PROVE  Tracked(Manager, a)'
    BY DEF TrackInv
  <2>2. Tracked(Manager, a) /\ runner'[a].version = runner[a].version
    BY <1>1, <2>1 DEF Sound, TrackInv, Advances
  <2>3. QED BY <1>3, <2>2 DEF Tracked
<1>10. Sound(Manager)'
  BY <1>3, <1>5, <1>6, <1>7, <1>8, <1>9 DEF Sound, Managers
<1>11. LifeInv'
  <2>1. Owned(Manager) => Owned(Manager)'
    BY <1>3 DEF Owned, Advances
  <2>2. QED BY <2>1 DEF Inv, LifeInv, memory
<1>12. StartInv'
  BY DEF Inv, StartInv, Advances
<1>13. BaseInv'
  BY DEF Inv, BaseInv
<1>14. ClearedInv'
  BY <1>3 DEF Inv, ClearedInv, Emptied
<1>15. QED
  BY <1>2, <1>10, <1>11, <1>12, <1>13, <1>14 DEF Inv

LEMMA LostKeeps ==
    ASSUME Inv, Lost, Advances, runner' \in RunnerType,
           rec' \in Records, rec'.last = rec.last, Begun(rec.install)',
           rec'.install # None => rec.install # None /\ rec'.install.attempt = rec.install.attempt,
           \/ rec' = rec /\ UNCHANGED installed
           \/ \A a \in Attempts : ~Verifying(a)',
           UNCHANGED <<result, kept, current, published, starts>>,
           staged' \in Versions, installed' \in Versions, faults' \in 0..MaxFaults
    PROVE  Inv'
<1>1. Sound(Manager) /\ Manager \in Managers /\ TypeOK /\ Manager.rec = rec /\ Manager.result = result
  BY DEF Inv, Sound, Manager
<1>2. /\ held' = Nothing /\ op' = None /\ attempt' = 0 /\ handle' = 0
      /\ observed' = [a \in Attempts |-> "unseen"]
      /\ task' = "none" /\ check' = "idle" /\ base' = None
      /\ reservation' = 0 /\ deletion' = "none" /\ backend' = "down"
  BY DEF Lost
<1>3. TypeOK'
  <2>1. Nothing \in Changes
    BY DEF Nothing, Changes
  <2>2. QED BY <1>1, <1>2, <2>1 DEF TypeOK, RunnerType
<1>4. /\ Manager' \in Managers /\ Manager'.rec = rec' /\ Manager'.held = Nothing
      /\ Manager'.op = None /\ Manager'.attempt = 0 /\ Manager'.handle = 0 /\ Manager'.result = result
  BY <1>2, <1>3 DEF TypeOK, Manager, Managers
<1>5. RecordInv(Manager)'
  <2>1. Told(rec.last) /\ Apart(rec)
    BY <1>1 DEF Sound, RecordInv
  <2>2. Told(rec.last)'
    BY <2>1, TalesCarried DEF Told, Live, Verifying
  <2>3. Apart(rec)'
    BY <2>1 DEF Apart
  <2>4. Absent \notin Pending /\ Absent \notin Outcomes
    BY NoneAssumption
  <2>5. Begun(held.install)' /\ Told(held.last)' /\ held'.install \notin Pending
    BY <1>2, <2>4 DEF Begun, Told, Nothing
  <2>6. Apart(Stored(Manager))'
    <3>1. Stored(Manager)' = Over(Nothing, rec')
      BY <1>4 DEF Stored
    <3>2. Stored(Manager)'.install = rec'.install /\ Stored(Manager)'.last = rec'.last
      BY <3>1 DEF Over, Known, Nothing
    <3>3. QED BY <2>3, <3>2 DEF Apart
  <2>7. QED
    BY <1>2, <1>4, <2>2, <2>3, <2>5, <2>6 DEF RecordInv, Manager
<1>6. ResultInv(Manager)'
  BY <1>1, <1>4 DEF Sound, ResultInv, Advances
<1>7. RunningInv(Manager)' /\ OpInv(Manager)'
  BY <1>2, <1>4 DEF RunningInv, OpInv
<1>8. TrackInv(Manager)'
  <2>1. SUFFICES ASSUME NEW a \in Attempts, Verifying(a)'
                 PROVE  Tracked(Manager, a)'
    BY DEF TrackInv
  <2>2. /\ rec' = rec /\ UNCHANGED installed
        /\ Tracked(Manager, a) /\ runner'[a].version = runner[a].version
    BY <1>1, <2>1 DEF Sound, TrackInv, Advances
  <2>3. QED BY <1>1, <1>4, <2>2 DEF Tracked, Nothing
<1>9. Sound(Manager)'
  BY <1>4, <1>5, <1>6, <1>7, <1>8 DEF Sound, Managers
<1>10. LifeInv' /\ BaseInv' /\ ClearedInv'
  BY <1>2 DEF LifeInv, BaseInv, ClearedInv
<1>11. StartInv'
  BY DEF Inv, StartInv, Advances
<1>12. QED
  BY <1>3, <1>9, <1>10, <1>11 DEF Inv

\* One installer takes a step, and does not go back to verifying.
LEMMA StepAdvances ==
    ASSUME TypeOK, NEW a \in Attempts, runner[a].phase # "unborn", runner[a].phase # "ended",
           NEW r \in [phase : {"unborn", "ended"} \cup LivePhases, version : Versions,
                      verified : BOOLEAN, ok : BOOLEAN],
           r.version = runner[a].version, r.phase # "unborn",
           r.phase \in {"verifying", "asking"} => Verifying(a),
           runner' = [runner EXCEPT ![a] = r]
    PROVE  Advances /\ runner' \in RunnerType /\ runner'[a] = r
           /\ \A b \in Attempts : b # a => runner'[b] = runner[b]
<1>1. runner \in RunnerType
  BY DEF TypeOK, RunnerType
<1>2. /\ runner' \in RunnerType /\ runner'[a] = r
      /\ \A b \in Attempts : b # a => runner'[b] = runner[b]
  BY <1>1 DEF RunnerType
<1>3. Live(a)
  BY <1>1 DEF RunnerType, Live
<1>4. Advances
  BY <1>2, <1>3 DEF Advances, Live, Verifying
<1>5. QED
  BY <1>2, <1>4

LEMMA RunnerIs ==
    ASSUME TypeOK, NEW a \in Attempts
    PROVE  /\ runner[a] \in [phase : {"unborn", "ended"} \cup LivePhases, version : Versions,
                             verified : BOOLEAN, ok : BOOLEAN]
           /\ runner \in RunnerType
BY DEF TypeOK, RunnerType

\* The installer's own steps but the request itself.
LEMMA RunnerStepKeeps ==
    ASSUME Inv, NEW a \in Attempts,
           RunnerVerifies(a) \/ RunnerReadsBack(a) \/ RunnerPreserves(a) \/ RunnerReports(a) \/ RunnerDies(a)
    PROVE  Inv'
<1>1. TypeOK /\ 0 \in Versions
  BY UpdateAssumption DEF Inv, Versions
<1>2. runner[a] \in [phase : {"unborn", "ended"} \cup LivePhases, version : Versions,
                     verified : BOOLEAN, ok : BOOLEAN]
  BY <1>1, RunnerIs
<1>3. UNCHANGED <<rec, memory, task, check, base, reservation, deletion, backend, current,
                  installed, published, starts>>
  BY DEF RunnerVerifies, RunnerReadsBack, RunnerPreserves, RunnerReports, RunnerDies, RunnerFrame, files, memory
<1>4. PICK r : /\ runner' = [runner EXCEPT ![a] = r]
               /\ r \in {[runner[a] EXCEPT !.phase = "asking", !.verified = TRUE],
                         [runner[a] EXCEPT !.phase = "preserving", !.verified = TRUE],
                         [runner[a] EXCEPT !.phase = "preserving"],
                         [runner[a] EXCEPT !.phase = "reporting", !.ok = TRUE],
                         [runner[a] EXCEPT !.phase = "reporting"],
                         [runner[a] EXCEPT !.phase = "ended"]}
               /\ r.phase = "asking" => runner[a].phase = "verifying"
               /\ RunnerReports(a) => r.phase = "ended"
               /\ runner[a].phase \notin {"unborn", "ended"}
  <2>1. CASE RunnerVerifies(a)
    <3>1. runner[a].phase = "verifying"
      BY <2>1 DEF RunnerVerifies
    <3>2. PICK r : /\ runner' = [runner EXCEPT ![a] = r]
                   /\ r \in {[runner[a] EXCEPT !.phase = "asking", !.verified = TRUE],
                             [runner[a] EXCEPT !.phase = "preserving", !.verified = TRUE],
                             [runner[a] EXCEPT !.phase = "preserving"]}
      BY <1>1, <2>1, RunnerIs DEF RunnerVerifies, Step, RunnerType
    <3>3. ~RunnerReports(a)
      BY <3>1 DEF RunnerReports
    <3>4. QED BY <3>1, <3>2, <3>3
  <2>2. CASE RunnerReadsBack(a)
    <3>1. runner[a].phase = "asked"
      BY <2>2 DEF RunnerReadsBack
    <3>2. PICK r : /\ runner' = [runner EXCEPT ![a] = r]
                   /\ r \in {[runner[a] EXCEPT !.phase = "reporting", !.ok = TRUE],
                             [runner[a] EXCEPT !.phase = "preserving"]}
      BY <1>1, <2>2, RunnerIs DEF RunnerReadsBack, Step, RunnerType
    <3>3. r.phase # "asking"
      BY <1>2, <3>2
    <3>4. ~RunnerReports(a)
      BY <3>1 DEF RunnerReports
    <3>5. QED BY <3>1, <3>2, <3>3, <3>4
  <2>3. CASE RunnerPreserves(a)
    <3>1. runner[a].phase = "preserving"
      BY <2>3 DEF RunnerPreserves
    <3>2. runner' = [runner EXCEPT ![a] = [runner[a] EXCEPT !.phase = "reporting"]]
      BY <1>1, <2>3, RunnerIs DEF RunnerPreserves, Step, RunnerType
    <3>3. ~RunnerReports(a)
      BY <3>1 DEF RunnerReports
    <3>4. [runner[a] EXCEPT !.phase = "reporting"].phase # "asking"
      BY <1>2
    <3>5. QED BY <3>1, <3>2, <3>3, <3>4
  <2>4. CASE RunnerReports(a) \/ RunnerDies(a)
    <3>1. runner[a].phase \in LivePhases
      BY <2>4 DEF RunnerReports, RunnerDies, LivePhases
    <3>2. runner' = [runner EXCEPT ![a] = [runner[a] EXCEPT !.phase = "ended"]]
      BY <1>1, <2>4, RunnerIs DEF RunnerReports, RunnerDies, Step, RunnerType
    <3>3. [runner[a] EXCEPT !.phase = "ended"].phase = "ended"
      BY <1>2
    <3>4. runner[a].phase \notin {"unborn", "ended"}
      BY <3>1 DEF LivePhases
    <3>5. QED BY <3>2, <3>3, <3>4
  <2>5. QED BY <2>1, <2>2, <2>3, <2>4
<1>5. /\ r \in [phase : {"unborn", "ended"} \cup LivePhases, version : Versions,
                verified : BOOLEAN, ok : BOOLEAN]
      /\ r.version = runner[a].version
      /\ r.phase \in {"asking", "preserving", "reporting", "ended"}
  BY <1>2, <1>4 DEF LivePhases
<1>6. Advances /\ runner' \in RunnerType /\ runner'[a] = r
  <2>1. r.phase \in {"verifying", "asking"} => Verifying(a)
    BY <1>4, <1>5 DEF Verifying
  <2>2. QED BY <1>1, <1>4, <1>5, <2>1, StepAdvances
<1>7. kept' \in Versions /\ staged' \in Versions
  BY <1>1 DEF TypeOK, RunnerVerifies, RunnerReadsBack, RunnerPreserves, RunnerReports, RunnerDies, files
<1>8. faults' \in 0..MaxFaults
  <2>1. CASE RunnerReports(a)
    <3>1. PICK ok \in Written : Writes(ok)
      BY <2>1 DEF RunnerReports
    <3>2. QED BY <1>1, <3>1, WritesTyped
  <2>2. CASE RunnerDies(a)
    <3>1. faults < MaxFaults /\ faults' = faults + 1
      BY <2>2 DEF RunnerDies
    <3>2. QED BY <1>1, <3>1, UpdateAssumption DEF TypeOK
  <2>3. CASE RunnerVerifies(a) \/ RunnerReadsBack(a) \/ RunnerPreserves(a)
    BY <1>1, <2>3 DEF TypeOK, RunnerVerifies, RunnerReadsBack, RunnerPreserves
  <2>4. QED BY <2>1, <2>2, <2>3
<1>9. \/ result' = result
      \/ result' \in Outcomes /\ result'.attempt \in Attempts /\ runner'[result'.attempt].phase = "ended"
  <2>1. CASE RunnerReports(a)
    <3>1. PICK ok \in Written :
            result' = IF ok THEN [attempt |-> a, version |-> runner[a].version, ok |-> runner[a].ok]
                      ELSE result
      BY <2>1 DEF RunnerReports
    <3>2. r.phase = "ended"
      BY <1>4, <2>1
    <3>3. PICK o : o = [attempt |-> a, version |-> runner[a].version, ok |-> runner[a].ok]
      OBVIOUS
    <3>4. o \in Outcomes /\ o.attempt = a
      BY <1>2, <3>3 DEF Outcomes
    <3>5. result' = o \/ result' = result
      BY <3>1, <3>3
    <3>6. QED BY <1>6, <3>2, <3>4, <3>5
  <2>2. CASE ~RunnerReports(a)
    BY <2>2 DEF RunnerVerifies, RunnerReadsBack, RunnerPreserves, RunnerDies, files
  <2>3. QED BY <2>1, <2>2
<1>10. QED
  BY <1>3, <1>6, <1>7, <1>8, <1>9, RunnerKeeps

LEMMA AsksKeeps ==
    ASSUME Inv, NEW a \in Attempts, RunnerAsks(a)
    PROVE  Inv'
<1>1. TypeOK /\ Sound(Manager)
  BY DEF Inv
<1>2. runner[a] \in [phase : {"unborn", "ended"} \cup LivePhases, version : Versions,
                     verified : BOOLEAN, ok : BOOLEAN]
  BY <1>1, RunnerIs
<1>3. PICK r : r = [runner[a] EXCEPT !.phase = "asked"]
  OBVIOUS
<1>4. /\ r \in [phase : {"unborn", "ended"} \cup LivePhases, version : Versions,
                verified : BOOLEAN, ok : BOOLEAN]
      /\ r.version = runner[a].version /\ r.phase = "asked"
  BY <1>2, <1>3 DEF LivePhases
<1>5. runner[a].phase = "asking" /\ runner' = [runner EXCEPT ![a] = r]
  BY <1>1, <1>3, RunnerIs DEF RunnerAsks, Step, RunnerType
<1>6. /\ Advances /\ runner' \in RunnerType /\ runner'[a] = r
      /\ \A b \in Attempts : b # a => runner'[b] = runner[b]
  BY <1>1, <1>4, <1>5, StepAdvances
<1>7. UNCHANGED <<files, faults>>
  BY DEF RunnerAsks
<1>8. CASE UNCHANGED installed /\ RunnerFrame
  BY <1>1, <1>6, <1>7, <1>8, RunnerKeeps DEF RunnerFrame, files, TypeOK
<1>9. CASE Replaces(runner[a].version) /\ UNCHANGED <<current, published, starts>>
  <2>1. Verifying(a)
    BY <1>5 DEF Verifying
  <2>2. \A b \in Attempts : Verifying(b) => b = a
    BY <1>1, <2>1 DEF Sound, TrackInv, Tracked
  <2>3. \A b \in Attempts : ~Verifying(b)'
    BY <1>4, <1>6, <2>2 DEF Verifying
  <2>4. rec' = rec /\ rec \in Records /\ installed' \in Versions /\ Lost
    BY <1>1, <1>2, <1>7, <1>9 DEF TypeOK, files, Replaces
  <2>5. Begun(rec.install)'
    <3>1. Begun(rec.install)
      BY <1>1 DEF Sound, RecordInv, Manager
    <3>2. QED BY <1>6, <2>4, <3>1, TalesCarried DEF Begun, Live
  <2>6. QED
    BY <1>1, <1>6, <1>7, <1>9, <2>3, <2>4, <2>5, LostKeeps DEF files, TypeOK
<1>10. QED
  BY <1>8, <1>9 DEF RunnerAsks

LEMMA SameAdvances ==
    ASSUME TypeOK, UNCHANGED runner
    PROVE  Advances /\ runner' \in RunnerType
BY RunnerIs DEF Advances, Live, Verifying, RunnerType, TypeOK

LEMMA EndsKeeps ==
    ASSUME Inv, CloseEnds \/ BackendDies \/ InstallByHand
    PROVE  Inv'
<1>1. TypeOK /\ Sound(Manager) /\ 0 \in Versions
  BY UpdateAssumption DEF Inv, Versions
<1>2. /\ Lost /\ rec' = rec
      /\ UNCHANGED <<result, kept, current, published, starts, runner>>
  BY DEF CloseEnds, BackendDies, InstallByHand, Replaces, files, world, counts
<1>3. Advances /\ runner' \in RunnerType
  BY <1>1, <1>2, SameAdvances
<1>4. Begun(rec.install)'
  <2>1. Begun(rec.install)
    BY <1>1 DEF Sound, RecordInv, Manager
  <2>2. QED BY <1>2, <2>1 DEF Begun, Live
<1>5. staged' \in Versions /\ installed' \in Versions
  BY <1>1 DEF CloseEnds, BackendDies, InstallByHand, Replaces, files, world, TypeOK
<1>6. faults' \in 0..MaxFaults
  <2>1. CASE BackendDies
    <3>1. faults < MaxFaults /\ faults' = faults + 1
      BY <2>1 DEF BackendDies
    <3>2. QED BY <1>1, <3>1, UpdateAssumption DEF TypeOK
  <2>2. CASE CloseEnds \/ InstallByHand
    BY <1>1, <2>2 DEF CloseEnds, InstallByHand, counts, TypeOK
  <2>3. QED BY <2>1, <2>2
<1>7. UNCHANGED installed \/ \A a \in Attempts : ~Verifying(a)'
  <2>1. CASE InstallByHand
    BY <1>2, <2>1 DEF InstallByHand, Verifying, LivePhases
  <2>2. CASE CloseEnds \/ BackendDies
    BY <2>2 DEF CloseEnds, BackendDies, world
  <2>3. QED BY <2>1, <2>2
<1>8. QED
  BY <1>1, <1>2, <1>3, <1>4, <1>5, <1>6, <1>7, LostKeeps DEF TypeOK

LEMMA RebootKeeps ==
    ASSUME Inv, Reboots
    PROVE  Inv'
<1>1. TypeOK /\ Sound(Manager)
  BY DEF Inv
<1>2. /\ Lost /\ UNCHANGED <<result, kept, staged, current, installed, published, starts>>
      /\ faults < MaxFaults /\ faults' = faults + 1
  BY DEF Reboots
<1>3. runner' = [a \in Attempts |-> IF runner[a].phase \in LivePhases
                                    THEN [runner[a] EXCEPT !.phase = "ended"] ELSE runner[a]]
  BY DEF Reboots
<1>4. \A a \in Attempts :
      /\ runner'[a] \in [phase : {"unborn", "ended"} \cup LivePhases, version : Versions,
                           verified : BOOLEAN, ok : BOOLEAN]
      /\ runner'[a].version = runner[a].version
      /\ runner[a].phase \in LivePhases => runner'[a].phase = "ended"
      /\ runner[a].phase \notin LivePhases => runner'[a] = runner[a]
  BY <1>1, <1>3, RunnerIs
<1>5. \A a \in Attempts : ~Live(a)' /\ ~Verifying(a)'
  BY <1>4 DEF Live, Verifying, LivePhases
<1>6. runner' \in RunnerType
  BY <1>3, <1>4 DEF RunnerType
<1>7. Advances
  BY <1>4, <1>5 DEF Advances, LivePhases
<1>8. PICK behind \in BOOLEAN :
        rec' = IF behind /\ rec.install # None THEN [rec EXCEPT !.install.start = "future"] ELSE rec
  BY DEF Reboots
<1>9. PICK p : p = [rec.install EXCEPT !.start = "future"]
  OBVIOUS
<1>10. rec.install # None => p \in Pending /\ p.attempt = rec.install.attempt
  BY <1>1, <1>9 DEF TypeOK, Records, Pending, Ages
<1>11. rec' = rec \/ (rec.install # None /\ rec' = [rec EXCEPT !.install = p])
  BY <1>8, <1>9
<1>12. /\ rec' \in Records /\ rec'.last = rec.last
       /\ rec'.install # None => rec.install # None /\ rec'.install.attempt = rec.install.attempt
  BY <1>1, <1>10, <1>11 DEF TypeOK, Records
<1>13. Begun(rec.install)'
  <2>1. Begun(rec.install) /\ rec.install \in {None} \cup Pending
    BY <1>1 DEF Sound, RecordInv, Manager, TypeOK, Records
  <2>2. ASSUME rec'.install \in Pending
        PROVE  /\ runner'[rec'.install.attempt].phase # "unborn"
               /\ runner'[rec'.install.attempt].phase \notin LivePhases
    <3>1. rec'.install # None
      BY <2>2, NoneAssumption
    <3>2. rec.install \in Pending /\ rec'.install.attempt = rec.install.attempt
      BY <1>12, <2>1, <3>1
    <3>3. rec.install.attempt \in Attempts
      BY <3>2 DEF Pending
    <3>4. QED BY <1>5, <1>7, <2>1, <3>2, <3>3 DEF Begun, Advances, Live
  <2>3. QED BY <2>2 DEF Begun, Live
<1>14. faults' \in 0..MaxFaults
  BY <1>1, <1>2, UpdateAssumption DEF TypeOK
<1>15. QED
  BY <1>1, <1>2, <1>5, <1>6, <1>7, <1>12, <1>13, <1>14, LostKeeps DEF TypeOK

\* The backend that is loaded next owns what the record says is pending.
LEMMA LoadKeeps ==
    ASSUME Inv, Load
    PROVE  Inv'
<1>1. /\ TypeOK /\ Places /\ Sound(Manager) /\ StartInv /\ backend = "down"
      /\ held = Nothing /\ op = None /\ task = "none" /\ check = "idle" /\ base = None
      /\ reservation = 0 /\ deletion = "none"
  BY TypedBy DEF Inv, LifeInv, Load
<1>2. PICK ok \in Written :
        Writes(ok) /\ Becomes(Maintain([Manager EXCEPT !.current = installed], ok))
  BY DEF Load
<1>3. ok \in BOOLEAN /\ faults' \in 0..MaxFaults
  BY <1>1, <1>2, WritesTyped
<1>4. PICK t : t = [Manager EXCEPT !.current = installed]
  OBVIOUS
<1>5. /\ t \in Managers /\ t.rec = Manager.rec /\ t.held = Manager.held /\ t.op = Manager.op
      /\ t.attempt = Manager.attempt /\ t.handle = Manager.handle /\ t.result = Manager.result
      /\ t.current = installed
  BY <1>1, <1>4 DEF Sound, Managers, Places
<1>6. Sound(t)
  <2>1. Stored(t) = Stored(Manager)
    BY <1>5 DEF Stored
  <2>2. RecordInv(t) /\ ResultInv(t) /\ TrackInv(t)
    BY <1>1, <1>5, <2>1 DEF Sound, RecordInv, ResultInv, TrackInv, Tracked
  <2>3. RunningInv(t) /\ OpInv(t)
    BY <1>1, <1>5, <2>1 DEF Sound, RunningInv, OpInv
  <2>4. QED BY <1>5, <2>2, <2>3 DEF Sound
<1>7. PICK m : m = Maintain(t, ok)
  OBVIOUS
<1>8. Sound(m) /\ m.current = installed /\ (m.op = None => Stored(m).install = None)
  BY <1>1, <1>3, <1>5, <1>6, <1>7, MaintainKeeps
<1>9. Owned(m) /\ m \in Managers
  BY <1>8, OwnedBy DEF Sound
<1>10. /\ backend' = "up" /\ current' = installed
       /\ UNCHANGED <<staged, task, check, base, reservation, deletion, world, starts>>
  BY DEF Load
<1>11. Becomes(m) /\ Manager' = m
  BY <1>2, <1>4, <1>7, <1>8, <1>9, <1>10, ManagerIs
<1>12. Sound(Manager)'
  BY <1>8, <1>10, <1>11, Carried DEF world
<1>13. TypeOK'
  <2>1. Places'
    BY <1>1, <1>3, <1>10 DEF Places, world
  <2>2. QED
    BY <1>9, <1>11, <2>1 DEF TypeOK, Manager, Managers, Places
<1>14. LifeInv'
  <2>1. Owned(Manager)'
    BY <1>9, <1>10, <1>11 DEF Owned, Verifying, world
  <2>2. QED BY <1>10, <2>1 DEF LifeInv, world
<1>15. StartInv' /\ BaseInv' /\ ClearedInv'
  BY <1>1, <1>10 DEF StartInv, BaseInv, ClearedInv, world
<1>16. QED
  BY <1>12, <1>13, <1>14, <1>15 DEF Inv

LEMMA PublishKeeps ==
    ASSUME Inv, Publish
    PROVE  Inv'
<1>1. /\ UNCHANGED <<files, memory, task, check, base, reservation, deletion, backend, current,
                     installed, runner, counts>>
      /\ published < MaxVersion /\ published' = published + 1
  BY DEF Publish
<1>2. Manager' = Manager /\ Manager.current = current
  BY <1>1 DEF Manager, files, memory
<1>3. Sound(Manager)'
  BY <1>1, <1>2, Carried DEF Inv, counts
<1>4. TypeOK'
  <2>1. published' \in Versions
    BY <1>1, UpdateAssumption DEF Inv, TypeOK, Versions
  <2>2. QED BY <1>1, <2>1 DEF Inv, TypeOK, files, memory, counts
<1>5. LifeInv'
  BY <1>1, <1>2 DEF Inv, LifeInv, Owned, Verifying, memory
<1>6. StartInv' /\ BaseInv' /\ ClearedInv'
  BY <1>1, <1>2 DEF Inv, StartInv, BaseInv, ClearedInv, Emptied, files, counts
<1>7. QED
  BY <1>3, <1>4, <1>5, <1>6 DEF Inv

LEMMA OlderIs ==
    ASSUME NEW p \in {None, Absent} \cup Pending
    PROVE  /\ p \in {None, Absent} => Older(p) = p
           /\ p \in Pending => Older(p) \in Pending /\ Older(p).attempt = p.attempt
<1>1. CASE p \in {None, Absent}
  BY <1>1, NoneAssumption DEF Older
<1>2. CASE p \in Pending
  <2>1. p # None /\ p # Absent
    BY <1>2, NoneAssumption
  <2>2. QED BY <1>2, <2>1 DEF Older, Pending, Ages
<1>3. QED
  BY <1>1, <1>2

\* Time passes when no installer is there to grow old.
LEMMA AgeKeeps ==
    ASSUME Inv, Age
    PROVE  Inv'
<1>1. TypeOK /\ Sound(Manager)
  BY DEF Inv
<1>2. /\ rec' = [rec EXCEPT !.install = Older(rec.install)]
      /\ base' = IF base = None THEN None ELSE [base EXCEPT !.install = Older(base.install)]
      /\ held' = [held EXCEPT !.install = Older(held.install)]
      /\ observed' = [a \in Attempts |-> IF observed[a] = "recent" THEN "old" ELSE observed[a]]
      /\ UNCHANGED <<result, kept, staged, op, attempt, handle, task, check, reservation, deletion,
                     backend, current, world, counts>>
  BY DEF Age
<1>3. \A a \in Attempts : ~Live(a) /\ ~Verifying(a)
  BY DEF Age, Live, Verifying, LivePhases
<1>4. PICK p : p = Older(rec.install)
  OBVIOUS
<1>5. PICK q : q = Older(held.install)
  OBVIOUS
<1>6. /\ rec.install \in {None} \cup Pending /\ held.install \in {Absent, None} \cup Pending
      /\ rec.install = None => p = None
      /\ rec.install \in Pending => p \in Pending /\ p.attempt = rec.install.attempt
      /\ held.install \in {Absent, None} => q = held.install
      /\ held.install \in Pending => q \in Pending /\ q.attempt = held.install.attempt
  BY <1>1, <1>4, <1>5, OlderIs DEF TypeOK, Records, Changes
<1>7. /\ rec' \in Records /\ rec'.install = p /\ rec'.last = rec.last /\ rec'.latest = rec.latest
      /\ held' \in Changes /\ held'.install = q /\ held'.last = held.last /\ held'.latest = held.latest
  BY <1>1, <1>2, <1>4, <1>5, <1>6 DEF TypeOK, Records, Changes
<1>8. base' \in {None} \cup Records /\ (base' # None => base # None)
  BY <1>1, <1>2, OlderIs DEF TypeOK, Records
<1>9. observed' \in [Attempts -> {"unseen", "recent", "old"}]
  BY <1>1, <1>2 DEF TypeOK
<1>10. TypeOK'
  BY <1>1, <1>2, <1>7, <1>8, <1>9 DEF TypeOK, world, counts
<1>11. /\ Manager' \in Managers /\ Manager'.rec = rec' /\ Manager'.held = held' /\ Manager'.op = op
       /\ Manager'.attempt = attempt /\ Manager'.handle = handle /\ Manager'.result = result
       /\ Manager'.current = current
  BY <1>2, <1>10 DEF TypeOK, Manager, Managers
<1>12. /\ Manager.rec = rec /\ Manager.held = held /\ Manager.op = op /\ Manager.attempt = attempt
       /\ Manager.handle = handle /\ Manager.result = result /\ Manager.current = current
       /\ Manager \in Managers
  BY <1>1 DEF Manager, Sound
<1>13. Absent # None /\ Absent \notin Pending /\ None \notin Pending
  BY NoneAssumption
<1>14. /\ Stored(Manager)'.last = Stored(Manager).last
       /\ Stored(Manager)'.install # None => Stored(Manager).install # None
            /\ Stored(Manager)'.install.attempt = Stored(Manager).install.attempt
  <2>1. Stored(Manager)'.install = Known(q, p) /\ Stored(Manager)'.last = Known(held.last, rec.last)
    BY <1>7, <1>11 DEF Stored, Over
  <2>2. Stored(Manager).install = Known(held.install, rec.install)
       /\ Stored(Manager).last = Known(held.last, rec.last)
    BY <1>12, StoredIs
  <2>3. QED BY <1>6, <1>13, <2>1, <2>2 DEF Known
<1>15. RecordInv(Manager)'
  <2>1. /\ Begun(rec.install) /\ Begun(held.install) /\ Told(rec.last) /\ Told(held.last)
        /\ Apart(rec) /\ Apart(Stored(Manager))
        /\ held.install \in Pending => rec.install # None /\ rec.install.attempt = held.install.attempt
    BY <1>1, <1>12 DEF Sound, RecordInv
  <2>2. ASSUME NEW s \in Pending, runner[s.attempt].phase # "unborn"
        PROVE  runner'[s.attempt].phase # "unborn" /\ runner'[s.attempt].phase \notin LivePhases
    BY <1>2, <1>3, <2>2 DEF Pending, Live, world
  <2>3. Begun(rec.install)' /\ Begun(held.install)'
    BY <1>6, <1>7, <1>13, <2>1, <2>2 DEF Begun, Live
  <2>4. Told(rec.last)' /\ Told(held.last)'
    BY <1>2, <1>7, <2>1 DEF Told, Live, Verifying, world
  <2>5. Apart(rec)'
    BY <1>6, <1>7, <2>1 DEF Apart
  <2>6. Apart(Stored(Manager))'
    BY <1>14, <2>1 DEF Apart
  <2>7. held'.install \in Pending => rec'.install # None /\ rec'.install.attempt = held'.install.attempt
    BY <1>6, <1>7, <1>13, <2>1
  <2>8. QED
    BY <1>11, <2>3, <2>4, <2>5, <2>6, <2>7 DEF RecordInv, Manager
<1>16. ResultInv(Manager)' /\ RunningInv(Manager)' /\ TrackInv(Manager)'
  BY <1>1, <1>2, <1>3, <1>11, <1>12
     DEF Sound, ResultInv, RunningInv, TrackInv, Verifying, world, counts
<1>17. OpInv(Manager)'
  BY <1>1, <1>2, <1>11, <1>12, <1>14 DEF Sound, OpInv, Live, world, counts
<1>18. Sound(Manager)'
  BY <1>11, <1>15, <1>16, <1>17 DEF Sound, Managers
<1>19. LifeInv'
  <2>1. held = Nothing => held' = held
    BY <1>2, <1>5, <1>6 DEF Nothing, Changes
  <2>2. Owned(Manager)'
    BY <1>2, <1>3 DEF Owned, Verifying, world
  <2>3. base = None => base' = None
    BY <1>2
  <2>4. QED BY <1>2, <2>1, <2>2, <2>3 DEF Inv, LifeInv, world
<1>20. BaseInv'
  BY <1>2, <1>8 DEF Inv, BaseInv
<1>21. StartInv'
  BY <1>2 DEF Inv, StartInv, world, counts
<1>22. ClearedInv'
  <2>1. deletion = "cleared" =>
          /\ check = "idle" \/ Outlasts
          /\ op = None /\ rec.install = None /\ rec.last = None
          /\ held.install = Absent /\ held.last = Absent
          /\ Outlasts \/ (rec.latest = 0 /\ held.latest = Absent)
    BY <1>12 DEF Inv, ClearedInv, Emptied
  <2>2. deletion' = deletion /\ check' = check
    BY <1>2
  <2>3. deletion = "cleared" =>
          /\ Manager'.op = None
          /\ Manager'.rec.install = None /\ Manager'.rec.last = None
          /\ Manager'.held.install = Absent /\ Manager'.held.last = Absent
    BY <1>6, <1>7, <1>11, <2>1
  <2>4. ASSUME deletion = "cleared"
        PROVE  Outlasts \/ (Manager'.rec.latest = 0 /\ Manager'.held.latest = Absent)
    <3>1. CASE Outlasts BY <3>1
    <3>2. CASE ~Outlasts
      <4>1. rec.latest = 0 /\ held.latest = Absent
        BY <2>1, <2>4, <3>2
      <4>2. QED BY <1>7, <1>11, <4>1
    <3>3. QED BY <3>1, <3>2
  <2>5. deletion = "cleared" => Emptied(Manager)'
    BY <2>3, <2>4 DEF Emptied
  <2>6. deletion = "cleared" => check = "idle" \/ Outlasts
    BY <2>1
  <2>7. QED
    BY <2>2, <2>5, <2>6 DEF ClearedInv
<1>23. QED
  BY <1>10, <1>18, <1>19, <1>20, <1>21, <1>22 DEF Inv

-----------------------------------------------------------------------------
LEMMA InvInit == Init => Inv
<1>1. SUFFICES ASSUME Init
               PROVE  Inv
  OBVIOUS
<1>2. /\ rec = Empty /\ held = Nothing /\ result = None /\ op = None /\ attempt = 0 /\ handle = 0
      /\ task = "none" /\ check = "idle" /\ base = None /\ reservation = 0 /\ deletion = "none"
      /\ backend = "up" /\ current = 0 /\ installed = 0 /\ starts = 0
      /\ runner = [a \in Attempts |-> [phase |-> "unborn", version |-> 0, verified |-> FALSE, ok |-> FALSE]]
  BY <1>1 DEF Init
<1>3. Empty \in Records /\ Nothing \in Changes /\ 0 \in Versions /\ 1 \in Versions
  BY UpdateAssumption DEF Empty, Records, Versions, Nothing, Changes
<1>4. TypeOK
  <2>1. starts \in 0..MaxStarts /\ faults \in 0..MaxFaults
    BY <1>1, UpdateAssumption DEF Init
  <2>2. QED BY <1>1, <1>3, <2>1 DEF Init, TypeOK
<1>5. \A a \in Attempts : runner[a].phase = "unborn" /\ ~Verifying(a)
  BY <1>2 DEF Verifying
<1>6. /\ Manager \in Managers /\ Manager.rec = Empty /\ Manager.held = Nothing /\ Manager.result = None
      /\ Manager.op = None /\ Manager.attempt = 0 /\ Manager.handle = 0
  BY <1>2, <1>4, TypedBy DEF Manager
<1>7. RecordInv(Manager)
  <2>1. None \notin Pending /\ Absent \notin Pending /\ None \notin Outcomes /\ Absent \notin Outcomes
    BY NoneAssumption
  <2>2. Stored(Manager).install = None
    BY <1>6, StoredIs DEF Known, Empty, Nothing
  <2>3. QED BY <1>6, <2>1, <2>2 DEF RecordInv, Begun, Told, Apart, Empty, Nothing
<1>8. Sound(Manager)
  BY <1>2, <1>5, <1>6, <1>7 DEF Sound, ResultInv, RunningInv, OpInv, TrackInv
<1>9. QED
  BY <1>2, <1>4, <1>5, <1>8 DEF Inv, LifeInv, Owned, StartInv, BaseInv, ClearedInv

LEMMA InvNext ==
    ASSUME Inv, ~Races, [Next]_vars
    PROVE  Inv'
<1>1. CASE UNCHANGED vars
  <2>1. Manager' = Manager
    BY <1>1 DEF vars, Manager, files, memory
  <2>2. Sound(Manager)'
    BY <1>1, <2>1, Carried DEF Inv, vars, world, counts
  <2>3. TypeOK' /\ LifeInv' /\ StartInv' /\ BaseInv' /\ ClearedInv'
    BY <1>1, <2>1 DEF Inv, TypeOK, LifeInv, Owned, Verifying, StartInv, BaseInv, ClearedInv, Emptied,
                      vars, files, memory, world, counts
  <2>4. QED BY <2>2, <2>3 DEF Inv
<1>2. CASE CheckBegins \/ CheckFails \/ CheckReads \/ DeletionEnds \/ Close BY <1>2, QuietKeeps
<1>3. CASE CheckAnswers BY <1>3, CheckAnswersKeeps
<1>4. CASE StartUpdate BY <1>4, StartKeeps
<1>5. CASE RunFails \/ SpawnFails BY <1>5, RunFailsKeeps
<1>6. CASE RunReads BY <1>6, RunReadsKeeps
<1>7. CASE RunFetches BY <1>7, RunFetchesKeeps
<1>8. CASE RunCommits BY <1>8, RunCommitsKeeps
<1>9. CASE RunSpawns BY <1>9, RunSpawnsKeeps
<1>10. CASE CancelUpdate BY <1>10, CancelKeeps
<1>11. CASE Poll \/ Tick BY <1>11, PollKeeps
<1>12. CASE StatusRead BY <1>12, StatusKeeps
<1>13. CASE DeletionBegins BY <1>13, DeletionBeginsKeeps
<1>14. CASE DeletionClears BY <1>14, DeletionClearsKeeps
<1>15. CASE \E a \in Attempts : Runner(a) \/ RunnerDies(a)
  BY <1>15, RunnerStepKeeps, AsksKeeps DEF Runner
<1>16. CASE CloseEnds \/ BackendDies \/ InstallByHand BY <1>16, EndsKeeps
<1>17. CASE Reboots BY <1>17, RebootKeeps
<1>18. CASE Load BY <1>18, LoadKeeps
<1>19. CASE Publish BY <1>19, PublishKeeps
<1>20. CASE Age BY <1>20, AgeKeeps
<1>21. QED
  BY <1>1, <1>2, <1>3, <1>4, <1>5, <1>6, <1>7, <1>8, <1>9, <1>10, <1>11, <1>12, <1>13, <1>14,
     <1>15, <1>16, <1>17, <1>18, <1>19, <1>20 DEF Next

\* The invariant holds of every behaviour in which a worker's poll does not run
\* inside the loop's synchronous steps.
THEOREM InvHolds == ASSUME ~Races PROVE Spec => []Inv
<1>1. Inv /\ [Next]_vars => Inv'
  BY InvNext
<1>2. QED
  BY <1>1, InvInit, PTL DEF Spec

\* One privileged installer at a time: the one that may yet ask Decky is the last
\* that was started, and a start is refused while there is one
\* (`_adopt_pending_install`, `has_active_operation`).
THEOREM OneAtATime == ASSUME ~Races PROVE Spec => []OneInstaller
<1>1. Inv => OneInstaller
  <2>1. SUFFICES ASSUME Inv
                 PROVE  Cardinality({a \in Attempts : Verifying(a)}) <= 1
    BY DEF OneInstaller
  <2>2. \A a \in Attempts : Verifying(a) => a = starts
    BY <2>1 DEF Inv, Sound, TrackInv, Tracked
  <2>3. PICK asking : asking = {a \in Attempts : Verifying(a)}
    OBVIOUS
  <2>4. asking = {} \/ asking = {starts}
    BY <2>2, <2>3
  <2>5. Cardinality(asking) <= 1
    <3>1. Cardinality({}) = 0
      BY FS_EmptySet
    <3>2. Cardinality({starts}) = 1
      BY FS_Singleton
    <3>3. QED BY <2>4, <3>1, <3>2
  <2>6. QED
    BY <2>3, <2>5
<1>2. QED
  BY <1>1, InvHolds, PTL

\* An update that says it is over has no installer of its own still going, whatever
\* was reported, lost or refused by the disk on the way (`_settle_installing`).
THEOREM OverIsOver == ASSUME ~Races PROVE Spec => []OverMeansOver
<1>1. Inv => OverMeansOver
  BY DEF Inv, Sound, OpInv, Manager, OverMeansOver
<1>2. QED
  BY <1>1, InvHolds, PTL

\* What a deletion cleared is not written back by a run, a poll, an installer or a
\* check that was under way before it, as long as no check outlasts the wait for it
\* (`drain_check`, `_delete_managed_data_locked`).
THEOREM DeletedStaysDeleted == ASSUME ~Races, ~Outlasts PROVE Spec => []NothingComesBack
<1>1. Inv => NothingComesBack
  BY DEF Inv, ClearedInv, Emptied, Manager, NothingComesBack
<1>2. QED
  BY <1>1, InvHolds, PTL

\* The record, what is known over it, the operation, its run and its installers
\* keep their types.
THEOREM TypeCorrect == ASSUME ~Races PROVE Spec => []TypeOK
<1>1. Inv => TypeOK
  BY DEF Inv
<1>2. QED
  BY <1>1, InvHolds, PTL
====
