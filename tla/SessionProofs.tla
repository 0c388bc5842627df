--------------------------- MODULE SessionProofs ---------------------------
(* Theorems about SessionLog, for any clients, programs, batches, window and *)
(* history, and without the bound on the commands written; and about Bridge, *)
(* for any table, any session and any of its limits.                         *)
EXTENDS SessionLog, Bridge, SequenceTheorems, FiniteSetTheorems, WellFoundedInduction, TLAPS

Entry(g) == [gen |-> g, to |-> issued[g]]

\* Commands that are, each of them, one that was accepted.
Logged(cs) == \A c \in cs : c.gen \in 1..Len(issued) /\ c = Entry(c.gen)

LogInv ==
    /\ Logged(control)
    /\ issued # <<>> => Entry(Len(issued)) \in control
    /\ NothingDropped

RunInv ==
    /\ last = Len(ran) /\ last <= Len(issued)
    /\ \A g \in 1..Len(ran) : ran[g] = Entry(g)

\* What is left of a poll goes on where the bridge is, without a gap.
BatchInv ==
    /\ Logged(batch)
    /\ \A c \in batch : c.gen > last
    /\ \A c \in batch : \A g \in last + 1 .. c.gen : Entry(g) \in batch

\* Nothing is answered that was not executed.
AckInv ==
    /\ pending <= last /\ asked <= last
    /\ \A i \in DOMAIN results : results[i] <= last
    /\ status # None => \A i \in DOMAIN status.results : status.results[i] <= last

Inv == TypeOK /\ LogInv /\ RunInv /\ BatchInv /\ AckInv

-----------------------------------------------------------------------------

LEMMA NatWellFounded == IsWellFoundedOn({p \in Nat \X Nat : p[1] < p[2]}, Nat)
  BY NatLessThanWellFounded DEF OpToRel

LEMMA BoundedMax ==
    ASSUME NEW S \in SUBSET Nat, S # {}, NEW n \in Nat, \A x \in S : x <= n
    PROVE  \E m \in S : \A x \in S : x <= m
  <1>. DEFINE T == {n - x : x \in S}
              R == {p \in Nat \X Nat : p[1] < p[2]}
  <1>1. \A x \in S : n - x \in Nat
    OBVIOUS
  <1>2. T \subseteq Nat /\ T # {}
    BY <1>1
  <1>3. \E t \in T : \A u \in T : <<u, t>> \notin R
    <2>. HIDE DEF T, R
    <2>. IsWellFoundedOn(R, Nat)
      BY NatWellFounded DEF R
    <2>. QED BY WFMin, <1>2
  <1>4. PICK m \in S : \A x \in S : ~(n - x < n - m)
    BY <1>3, <1>2, <1>1
  <1>. QED BY <1>4

\* An acknowledgement is the greatest of the results, so no greater than a bound of theirs.
LEMMA AckBound ==
    ASSUME NEW s, s # None => s \in Status, NEW n \in Nat,
           s # None => \A i \in DOMAIN s.results : s.results[i] <= n
    PROVE  /\ Ack(s) \in Nat /\ Ack(s) <= n
           /\ s # None => \A i \in DOMAIN s.results : s.results[i] <= Ack(s)
  <1>1. CASE s = None \/ \A i \in DOMAIN s.results : s.results[i] = 0
    BY <1>1 DEF Ack
  <1>2. CASE ~(s = None \/ \A i \in DOMAIN s.results : s.results[i] = 0)
    <2>. DEFINE gens == {s.results[i] : i \in DOMAIN s.results}
                best(i) == \A j \in DOMAIN s.results : s.results[j] <= s.results[i]
    <2>1. s.results \in Seq(Nat)
      BY <1>2 DEF Status
    <2>2. gens \in SUBSET Nat /\ gens # {} /\ \A g \in gens : g <= n
      <3>1. \A i \in DOMAIN s.results : s.results[i] \in Nat
        BY <2>1
      <3>2. gens \in SUBSET Nat
        BY <3>1
      <3>3. gens # {}
        BY <1>2
      <3>4. \A g \in gens : g <= n
        BY <1>2
      <3>. QED BY <3>2, <3>3, <3>4
    <2>3. \E g \in gens : \A h \in gens : h <= g
      BY BoundedMax, <2>2
    <2>4. \E i \in DOMAIN s.results : best(i)
      BY <2>3
    <2>5. Ack(s) = s.results[CHOOSE i \in DOMAIN s.results : best(i)]
      BY <1>2 DEF Ack
    <2>6. /\ (CHOOSE i \in DOMAIN s.results : best(i)) \in DOMAIN s.results
          /\ best(CHOOSE i \in DOMAIN s.results : best(i))
      BY <2>4
    <2>. QED BY <2>5, <2>6, <2>2, <1>2
  <1>. QED BY <1>1, <1>2

LEMMA HighestIs ==
    ASSUME NEW cs, NEW least \in Nat, NEW n \in Nat, least <= n,
           \A c \in cs : c.gen \in Nat /\ c.gen <= n,
           (\E c \in cs : c.gen = n) \/ (cs = {} /\ least = n)
    PROVE  Highest(cs, least) = n
  <1>1. CASE cs = {}
    BY <1>1 DEF Highest
  <1>2. CASE cs # {}
    <2>. DEFINE top(c) == \A d \in cs : d.gen <= c.gen
                c == CHOOSE c \in cs : top(c)
    <2>1. \E b \in cs : top(b)
      BY <1>2
    <2>2. c \in cs /\ top(c)
      BY <2>1
    <2>3. c.gen = n
      BY <2>2, <1>2
    <2>4. Highest(cs, least) = IF c.gen > least THEN c.gen ELSE least
      BY <1>2 DEF Highest
    <2>. QED BY <2>3, <2>4
  <1>. QED BY <1>1, <1>2

\* A write is accepted under the number of the commands accepted before, plus one.
LEMMA ExpectedIs ==
    ASSUME Inv
    PROVE  Expected = Len(issued) + 1
  <1>. DEFINE ack == Ack(status)
  <1>1. ack \in Nat /\ ack <= last
    BY AckBound DEF Inv, TypeOK, AckInv
  <1>2. Len(issued) \in Nat /\ last \in Nat /\ last <= Len(issued)
    BY DEF Inv, TypeOK, RunInv
  <1>3. \A c \in Pending(ack) : c.gen \in Nat /\ c.gen <= Len(issued) /\ c.gen > ack
    BY <1>2 DEF Inv, LogInv, Logged, Pending
  <1>4. CASE ack = Len(issued)
    <2>1. Pending(ack) = {}
      BY <1>3, <1>4, <1>2, <1>1
    <2>2. Highest(Pending(ack), ack) = Len(issued)
      BY HighestIs, <2>1, <1>4, <1>2
    <2>. QED BY <2>2, <1>2 DEF Expected
  <1>5. CASE ack # Len(issued)
    <2>1. Entry(Len(issued)) \in Pending(ack)
      <3>1. issued # <<>>
        BY <1>1, <1>2, <1>5 DEF Inv, TypeOK
      <3>2. Entry(Len(issued)) \in control
        BY <3>1 DEF Inv, LogInv
      <3>. QED BY <3>2, <1>1, <1>2, <1>5 DEF Pending, Entry
    <2>2. \E c \in Pending(ack) : c.gen = Len(issued)
      BY <2>1 DEF Entry
    <2>3. Highest(Pending(ack), ack) = Len(issued)
      BY HighestIs, <2>2, <1>1, <1>2, <1>3
    <2>. QED BY <2>3, <1>2 DEF Expected
  <1>. QED BY <1>4, <1>5

LEMMA ReportKeeps ==
    ASSUME NEW n \in Nat, NEW g \in Nat, g <= n,
           results \in Seq(Nat), Len(results) <= Window,
           \A i \in DOMAIN results : results[i] <= n,
           Report(g)
    PROVE  /\ results' \in Seq(Nat) /\ Len(results') <= Window
           /\ \A i \in DOMAIN results' : results'[i] <= n
  <1>. DEFINE all == Append(results, g)
  <1>1. all \in Seq(Nat) /\ Len(all) = Len(results) + 1 /\ \A i \in DOMAIN all : all[i] <= n
    OBVIOUS
  <1>2. CASE Len(all) > Window
    <2>1. results' = Tail(all)
      BY <1>2 DEF Report
    <2>2. all # <<>>
      BY AppendProperties
    <2>3. /\ Tail(all) \in Seq(Nat) /\ Len(Tail(all)) = Len(all) - 1
          /\ \A i \in 1..Len(Tail(all)) : Tail(all)[i] = all[i + 1]
      BY <1>1, <2>2, HeadTailProperties
    <2>. HIDE DEF all
    <2>. QED BY <2>1, <2>3, <1>1, SessionAssumption
  <1>3. CASE ~(Len(all) > Window)
    BY <1>3, <1>1, SessionAssumption DEF Report
  <1>. QED BY <1>2, <1>3

-----------------------------------------------------------------------------

\* No command has been written yet, and none is under way.
LEMMA StartsClean == Init => Inv
  <1>. SUFFICES ASSUME Init PROVE Inv
    OBVIOUS
  <1>1. TypeOK
    <2>1. results \in Seq(Nat) /\ issued \in Seq(Targets) /\ ran \in Seq(Commands)
      BY EmptySeq DEF Init
    <2>2. Len(results) = 0
      BY EmptySeq DEF Init
    <2>3. knows \in [Clients -> Nat]
      BY DEF Init
    <2>4. control \subseteq Commands /\ batch \subseteq Commands /\ status = None
      BY DEF Init
    <2>5. /\ last \in Nat /\ pending \in Nat /\ asked \in Nat /\ stopping \in BOOLEAN
          /\ starting \in Nat /\ target \in Programs
      BY SessionAssumption DEF Init
    <2>6. 0 <= Window
      BY SessionAssumption
    <2>7. status # None => status \in Status
      BY <2>4
    <2>. QED BY <2>1, <2>2, <2>3, <2>4, <2>5, <2>6, <2>7 DEF TypeOK
  <1>2. LogInv
    BY DEF Init, LogInv, Logged, NothingDropped
  <1>3. RunInv
    BY DEF Init, RunInv
  <1>4. BatchInv
    BY DEF Init, BatchInv, Logged
  <1>5. AckInv
    BY DEF Init, AckInv
  <1>. QED BY <1>1, <1>2, <1>3, <1>4, <1>5 DEF Inv

\* The number a client is told is the one the next write has to start at.
LEMMA NextIs ==
    ASSUME Inv
    PROVE  NextGeneration = Len(issued) + 1
  <1>1. Ack(status) \in Nat /\ Ack(status) <= last
    BY AckBound DEF Inv, TypeOK, AckInv
  <1>2. Len(issued) \in Nat /\ last \in Nat /\ last <= Len(issued)
    BY DEF Inv, TypeOK, RunInv
  <1>3. \A c \in control : c.gen \in Nat /\ c.gen <= Len(issued) /\ c.gen > 0
    BY <1>2 DEF Inv, LogInv, Logged
  <1>4. (\E c \in control : c.gen = Len(issued)) \/ (control = {} /\ Ack(status) = Len(issued))
    <2>1. CASE issued = <<>>
      BY <2>1, <1>1, <1>2, <1>3, EmptySeq
    <2>2. CASE issued # <<>>
      BY <2>2 DEF Inv, LogInv, Entry
    <2>. QED BY <2>1, <2>2
  <1>5. Highest(control, Ack(status)) = Len(issued)
    BY HighestIs, <1>1, <1>2, <1>3, <1>4
  <1>. QED BY <1>5, <1>2 DEF NextGeneration

\* What a client is told changes nothing else.
LEMMA KnowsKeeps ==
    ASSUME Inv, knows' \in [Clients -> Nat], UNCHANGED <<control, status, bridge, issued>>
    PROVE  Inv'
  <1>1. TypeOK'
    BY DEF Inv, TypeOK, bridge
  <1>2. LogInv'
    BY DEF Inv, LogInv, Logged, NothingDropped, Entry, bridge
  <1>3. RunInv'
    BY DEF Inv, RunInv, Entry, bridge
  <1>4. BatchInv'
    BY DEF Inv, BatchInv, Logged, Entry, bridge
  <1>5. AckInv'
    BY DEF Inv, AckInv, bridge
  <1>. QED BY <1>1, <1>2, <1>3, <1>4, <1>5 DEF Inv

LEMMA AskGenerationKeeps ==
    ASSUME Inv, NEW c \in Clients, AskGeneration(c)
    PROVE  Inv'
  <1>1. NextGeneration \in Nat
    BY NextIs DEF Inv, TypeOK
  <1>2. knows' \in [Clients -> Nat]
    BY <1>1 DEF AskGeneration, Inv, TypeOK
  <1>. QED BY <1>2, KnowsKeeps DEF AskGeneration

LEMMA RefuseStaleKeeps ==
    ASSUME Inv, NEW c \in Clients, RefuseStale(c)
    PROVE  Inv'
  <1>1. knows' \in [Clients -> Nat]
    BY DEF RefuseStale, Inv, TypeOK
  <1>. QED BY <1>1, KnowsKeeps DEF RefuseStale

\* A compaction keeps what the bridge has not executed: it drops only up to the
\* acknowledgement, and nothing is acknowledged before it was executed.
LEMMA WriteCommandsKeeps ==
    ASSUME Inv, NEW c \in Clients, WriteCommands(c)
    PROVE  Inv'
  <1>. DEFINE ack == Ack(status)
  <1>. PICK k \in Nat : k = Len(issued)
    BY DEF Inv, TypeOK
  <1>1. PICK tos \in Batches :
          /\ tos # <<>>
          /\ control' = Retained(ack) \cup Pending(ack)
                        \cup {[gen |-> Expected + i - 1, to |-> tos[i]] : i \in 1..Len(tos)}
          /\ issued' = issued \o tos
          /\ knows' = [knows EXCEPT ![c] = Expected + Len(tos)]
    BY DEF WriteCommands
  <1>2. UNCHANGED <<status, last, results, target, batch, pending, asked, stopping, starting, ran>>
    BY DEF WriteCommands, bridge
  <1>3. ack \in Nat /\ ack <= last
    BY AckBound DEF Inv, TypeOK, AckInv
  <1>4. k \in Nat /\ last \in Nat /\ last <= k /\ issued \in Seq(Targets)
    BY DEF Inv, TypeOK, RunInv
  <1>5. Expected = k + 1
    BY ExpectedIs
  <1>6. tos \in Seq(Targets) /\ Len(tos) \in Nat /\ Len(tos) > 0
    <2>1. tos \in Seq(Targets)
      BY SessionAssumption DEF Targets
    <2>. QED BY <2>1, <1>1, EmptySeq
  <1>7. /\ issued' \in Seq(Targets) /\ Len(issued') = k + Len(tos)
        /\ \A g \in 1..k : issued'[g] = issued[g]
        /\ \A i \in 1..Len(tos) : issued'[k + i] = tos[i]
    BY <1>1, <1>4, <1>6, ConcatProperties
  <1>8. \A g \in 1..k : Entry(g)' = Entry(g)
    BY <1>7 DEF Entry
  <1>9. \A cs : Logged(cs) => \A d \in cs : d.gen \in 1..k /\ d = Entry(d.gen)
    BY DEF Logged
  <1>. DEFINE new == {[gen |-> Expected + i - 1, to |-> tos[i]] : i \in 1..Len(tos)}
  <1>10. \A i \in 1..Len(tos) : Entry(k + i)' \in new
    <2>. SUFFICES ASSUME NEW i \in 1..Len(tos) PROVE Entry(k + i)' \in new
      OBVIOUS
    <2>1. Entry(k + i)' = [gen |-> k + i, to |-> tos[i]]
      BY <1>7 DEF Entry
    <2>2. Expected + i - 1 = k + i
      BY <1>5, <1>4, <1>6
    <2>. QED BY <2>1, <2>2
  <1>11. \A d \in new : d.gen \in 1..Len(issued') /\ d = Entry(d.gen)'
    <2>. SUFFICES ASSUME NEW i \in 1..Len(tos),
                         NEW d, d = [gen |-> Expected + i - 1, to |-> tos[i]]
                  PROVE  d.gen \in 1..Len(issued') /\ d = Entry(d.gen)'
      OBVIOUS
    <2>1. d = [gen |-> k + i, to |-> tos[i]] /\ d.gen = k + i
      BY <1>5, <1>4, <1>6
    <2>2. Entry(k + i)' = [gen |-> k + i, to |-> tos[i]]
      BY <1>7 DEF Entry
    <2>3. k + i \in 1..Len(issued')
      BY <1>7, <1>4, <1>6
    <2>. QED BY <2>1, <2>2, <2>3
  <1>12. Logged(control)'
    <2>. SUFFICES ASSUME NEW d \in control'
                  PROVE  d.gen \in 1..Len(issued') /\ d = Entry(d.gen)'
      BY DEF Logged
    <2>1. CASE d \in control
      <3>1. d.gen \in 1..k /\ d = Entry(d.gen)
        BY <2>1, <1>9 DEF Inv, LogInv
      <3>. QED BY <3>1, <1>8, <1>7, <1>4, <1>6
    <2>2. CASE d \in new
      BY <2>2, <1>11
    <2>3. d \in control \/ d \in new
      BY <1>1 DEF Retained, Latest, Pending
    <2>. QED BY <2>1, <2>2, <2>3
  <1>13. TypeOK'
    <2>1. control' \subseteq Commands
      <3>. SUFFICES ASSUME NEW d \in control' PROVE d \in Commands
        OBVIOUS
      <3>1. d.gen \in 1..Len(issued') /\ d = [gen |-> d.gen, to |-> issued'[d.gen]]
        BY <1>12 DEF Logged, Entry
      <3>2. issued'[d.gen] \in Targets
        BY <3>1, <1>7
      <3>. QED BY <3>1, <3>2, <1>7, <1>4, <1>6 DEF Commands
    <2>2. knows' \in [Clients -> Nat]
      BY <1>1, <1>4, <1>5, <1>6 DEF Inv, TypeOK
    <2>. QED BY <2>1, <2>2, <1>2, <1>7 DEF Inv, TypeOK
  <1>14. LogInv'
    <2>1. Entry(Len(issued))' \in control'
      <3>1. Len(tos) \in 1..Len(tos)
        BY <1>6
      <3>. HIDE DEF new
      <3>2. Entry(k + Len(tos))' \in new
        BY <3>1, <1>10
      <3>3. Entry(Len(issued))' = Entry(k + Len(tos))'
        BY <1>7 DEF Entry
      <3>. QED BY <3>2, <3>3, <1>1 DEF new
    <2>2. NothingDropped'
      <3>. SUFFICES ASSUME NEW g \in 1..Len(issued'), g > last
                    PROVE  Entry(g)' \in control'
        BY <1>2, <1>7 DEF NothingDropped, Entry
      <3>1. CASE g \in 1..k
        <4>1. Entry(g) \in control
          BY <3>1, <1>4 DEF Inv, LogInv, NothingDropped, Entry
        <4>2. Entry(g) \in Pending(ack)
          BY <4>1, <1>3, <1>4 DEF Pending, Entry
        <4>. QED BY <4>2, <3>1, <1>8, <1>1
      <3>2. CASE g \notin 1..k
        <4>1. g - k \in 1..Len(tos) /\ k + (g - k) = g
          BY <3>2, <1>7, <1>4, <1>6
        <4>. QED BY <4>1, <1>10, <1>1
      <3>. QED BY <3>1, <3>2
    <2>. QED BY <2>1, <2>2, <1>12 DEF LogInv
  <1>15. RunInv'
    BY <1>2, <1>8, <1>7, <1>4, <1>6 DEF Inv, RunInv, TypeOK
  <1>16. BatchInv'
    <2>1. \A d \in batch : d.gen \in 1..k /\ d = Entry(d.gen)
      BY DEF Inv, BatchInv, Logged
    <2>2. Logged(batch)'
      BY <2>1, <1>2, <1>8, <1>7, <1>4, <1>6 DEF Logged
    <2>3. \A d \in batch : \A g \in last + 1 .. d.gen : Entry(g)' \in batch
      BY <2>1, <1>8, <1>4 DEF Inv, BatchInv
    <2>. QED BY <2>2, <2>3, <1>2 DEF Inv, BatchInv
  <1>17. AckInv'
    BY <1>2 DEF Inv, AckInv
  <1>. QED BY <1>13, <1>14, <1>15, <1>16, <1>17 DEF Inv

\* A poll sees everything accepted and not executed.
LEMMA PollKeeps ==
    ASSUME Inv, Poll
    PROVE  Inv'
  <1>1. /\ batch' = {c \in control : c.gen > last}
        /\ UNCHANGED <<control, status, last, results, target, pending, asked, stopping, starting,
                       ran, knows, issued>>
    BY DEF Poll
  <1>2. TypeOK'
    BY <1>1 DEF Inv, TypeOK
  <1>3. LogInv' /\ RunInv' /\ AckInv'
    BY <1>1 DEF Inv, LogInv, Logged, NothingDropped, Entry, RunInv, AckInv
  <1>4. BatchInv'
    <2>1. Logged(batch)'
      BY <1>1 DEF Inv, LogInv, Logged, Entry
    <2>2. ASSUME NEW c \in batch', NEW g \in last + 1 .. c.gen
          PROVE  Entry(g) \in batch'
      <3>1. c \in control /\ c.gen \in 1..Len(issued) /\ last \in Nat /\ issued \in Seq(Targets)
        BY <1>1 DEF Inv, LogInv, Logged, TypeOK
      <3>2. g \in DOMAIN issued /\ g > last
        BY <3>1
      <3>3. Entry(g) \in control
        BY <3>2 DEF Inv, LogInv, NothingDropped, Entry
      <3>. QED BY <3>2, <3>3, <1>1 DEF Entry
    <2>3. \A c \in batch' : c.gen > last
      BY <1>1
    <2>. QED BY <2>1, <2>2, <2>3, <1>1 DEF BatchInv, Entry
  <1>. QED BY <1>2, <1>3, <1>4 DEF Inv

\* What is executed is the generation after the last one.
LEMMA ExecuteIs ==
    ASSUME Inv, NEW c \in batch, \A d \in batch : c.gen <= d.gen
    PROVE  c.gen = last + 1 /\ c = Entry(last + 1) /\ last + 1 \in 1..Len(issued)
  <1>1. last \in Nat /\ Len(issued) \in Nat
    BY DEF Inv, TypeOK
  <1>2. c.gen \in 1..Len(issued) /\ c = Entry(c.gen) /\ c.gen > last
    BY DEF Inv, BatchInv, Logged
  <1>3. last + 1 \in last + 1 .. c.gen
    BY <1>1, <1>2
  <1>4. Entry(last + 1) \in batch
    BY <1>3 DEF Inv, BatchInv
  <1>5. c.gen <= last + 1
    BY <1>4 DEF Entry
  <1>. QED BY <1>1, <1>2, <1>5

LEMMA ExecuteKeeps ==
    ASSUME Inv, Execute
    PROVE  Inv'
  <1>1. PICK c \in batch :
          /\ \A d \in batch : c.gen <= d.gen
          /\ last' = c.gen
          /\ ran' = Append(ran, c)
          /\ batch' \in {batch \ {c}, {}}
          /\ target' \in {target, c.to} /\ (target' # target => c.to \in Programs)
          /\ starting' \in {starting, 0, StartupResults}
          /\ \/ Report(c.gen) /\ UNCHANGED <<pending, asked, stopping>>
             \/ pending' = c.gen /\ UNCHANGED <<results, asked, stopping>>
             \/ asked' = c.gen /\ stopping' = TRUE /\ UNCHANGED <<results, pending>>
    <2>1. PICK c \in batch : Execute!2!(c)
      BY DEF Execute
    <2>. QED BY <2>1
  <1>2. UNCHANGED <<control, status, knows, issued>>
    BY DEF Execute
  <1>3. /\ last \in Nat /\ issued \in Seq(Targets) /\ ran \in Seq(Commands)
        /\ last = Len(ran) /\ last <= Len(issued)
    BY DEF Inv, TypeOK, RunInv
  <1>4. \A d \in batch : d.gen \in 1..Len(issued) /\ d = Entry(d.gen) /\ d.gen > last
    BY DEF Inv, BatchInv, Logged
  <1>5. c.gen = last + 1
    BY <1>1, ExecuteIs
  <1>6. c \in Commands /\ last' = last + 1 /\ last' \in Nat /\ last' <= Len(issued)
    BY <1>1, <1>3, <1>4, <1>5 DEF Inv, TypeOK
  <1>7. /\ results' \in Seq(Nat) /\ Len(results') <= Window
        /\ \A i \in DOMAIN results' : results'[i] <= last'
    <2>1. \A i \in DOMAIN results : results[i] <= last'
      BY <1>6, <1>3 DEF Inv, TypeOK, AckInv
    <2>2. CASE Report(c.gen)
      <3>1. c.gen \in Nat /\ c.gen <= last'
        BY <1>5, <1>6
      <3>2. results \in Seq(Nat) /\ Len(results) <= Window
        BY DEF Inv, TypeOK
      <3>. QED BY <3>1, <3>2, <2>1, <2>2, <1>6, ReportKeeps
    <2>3. CASE results' = results
      BY <2>1, <2>3 DEF Inv, TypeOK
    <2>. QED BY <2>2, <2>3, <1>1
  <1>8. pending' \in Nat /\ asked' \in Nat /\ pending' <= last' /\ asked' <= last'
    BY <1>1, <1>5, <1>6, <1>3 DEF Inv, TypeOK, AckInv
  <1>9. TypeOK'
    <2>1. ran' \in Seq(Commands)
      BY <1>1, <1>3, <1>6, AppendProperties
    <2>2. batch' \subseteq Commands
      BY <1>1 DEF Inv, TypeOK
    <2>3. target' \in Programs
      BY <1>1 DEF Inv, TypeOK
    <2>4. starting' \in Nat
      BY <1>1, SessionAssumption DEF Inv, TypeOK
    <2>5. stopping' \in BOOLEAN
      BY <1>1 DEF Inv, TypeOK
    <2>. QED BY <2>1, <2>2, <2>3, <2>4, <2>5, <1>2, <1>6, <1>7, <1>8 DEF Inv, TypeOK
  <1>10. LogInv'
    BY <1>2, <1>3, <1>6 DEF Inv, LogInv, Logged, NothingDropped, Entry
  <1>11. RunInv'
    <2>1. /\ Len(ran') = last + 1 /\ ran'[last + 1] = c
          /\ \A g \in 1..last : ran'[g] = ran[g]
      BY <1>1, <1>3, <1>6, AppendProperties
    <2>2. \A g \in 1..last : ran'[g] = Entry(g)
      BY <2>1, <1>3 DEF Inv, RunInv
    <2>3. ran'[last + 1] = Entry(last + 1)
      BY <2>1, <1>4, <1>5
    <2>4. \A g \in 1..last + 1 : g \in 1..last \/ g = last + 1
      BY <1>3
    <2>5. \A g \in 1..Len(ran') : ran'[g] = Entry(g)
      BY <2>1, <2>2, <2>3, <2>4
    <2>6. \A g : Entry(g)' = Entry(g)
      BY <1>2 DEF Entry
    <2>. QED BY <2>1, <2>5, <2>6, <1>2, <1>6 DEF RunInv
  <1>12. BatchInv'
    <2>1. \A d \in batch' : d \in batch /\ d.gen > last'
      <3>. SUFFICES ASSUME NEW d \in batch' PROVE d \in batch /\ d.gen > last'
        OBVIOUS
      <3>1. d \in batch /\ d # c
        BY <1>1
      <3>2. d.gen # c.gen
        BY <3>1, <1>4
      <3>. QED BY <3>1, <3>2, <1>1, <1>4
    <2>2. ASSUME NEW d \in batch', NEW g \in last' + 1 .. d.gen
          PROVE  Entry(g) \in batch'
      <3>1. g \in last + 1 .. d.gen /\ g # c.gen
        BY <2>1, <1>3, <1>4, <1>5, <1>6
      <3>2. Entry(g) \in batch
        BY <3>1, <2>1 DEF Inv, BatchInv
      <3>3. Entry(g) # c
        BY <3>1 DEF Entry
      <3>4. batch' # {}
        OBVIOUS
      <3>. QED BY <3>2, <3>3, <3>4, <1>1
    <2>3. Logged(batch)'
      BY <2>1, <1>2, <1>4 DEF Logged, Entry
    <2>4. \A g : Entry(g)' = Entry(g)
      BY <1>2 DEF Entry
    <2>. QED BY <2>1, <2>2, <2>3, <2>4 DEF BatchInv
  <1>13. AckInv'
    <2>1. status # None => \A i \in DOMAIN status.results : status.results[i] <= last'
      <3>. SUFFICES ASSUME status # None, NEW i \in DOMAIN status.results
                    PROVE  status.results[i] <= last'
        OBVIOUS
      <3>1. status.results[i] \in Nat /\ status.results[i] <= last
        BY DEF Inv, TypeOK, AckInv, Status
      <3>. QED BY <3>1, <1>3, <1>6
    <2>. QED BY <2>1, <1>2, <1>7, <1>8 DEF AckInv
  <1>. QED BY <1>9, <1>10, <1>11, <1>12, <1>13 DEF Inv

\* What Settle, AnswerQuiesce and StartupReports share: one result more, of a
\* generation that was executed.
LEMMA ResultKeeps ==
    ASSUME Inv, NEW g \in Nat, g <= last, Report(g),
           UNCHANGED <<control, status, last, target, batch, stopping, ran, knows, issued>>,
           pending' \in {pending, 0}, asked' \in {asked, 0}, starting' \in Nat
    PROVE  Inv'
  <1>1. /\ results' \in Seq(Nat) /\ Len(results') <= Window
        /\ \A i \in DOMAIN results' : results'[i] <= last
    <2>1. last \in Nat /\ results \in Seq(Nat) /\ Len(results) <= Window
      BY DEF Inv, TypeOK
    <2>2. \A i \in DOMAIN results : results[i] <= last
      BY DEF Inv, AckInv
    <2>. QED BY <2>1, <2>2, ReportKeeps
  <1>2. TypeOK'
    BY <1>1 DEF Inv, TypeOK
  <1>3. LogInv' /\ RunInv' /\ BatchInv'
    BY DEF Inv, LogInv, RunInv, BatchInv, Logged, NothingDropped, Entry
  <1>4. AckInv'
    <2>1. pending' <= last' /\ asked' <= last'
      BY DEF Inv, TypeOK, AckInv
    <2>. QED BY <2>1, <1>1 DEF Inv, AckInv
  <1>. QED BY <1>2, <1>3, <1>4 DEF Inv

LEMMA WriteStatusKeeps ==
    ASSUME Inv, WriteStatus
    PROVE  Inv'
  <1>1. UNCHANGED <<control, last, results, target, batch, pending, asked, stopping, starting, ran,
                    knows, issued>>
    BY DEF WriteStatus, bridge
  <1>2. \/ status' = None
        \/ status' = [results |-> results, target |-> target]
    BY DEF WriteStatus
  <1>3. TypeOK'
    <2>1. status' # None => status' \in Status
      BY <1>2 DEF Inv, TypeOK, Status
    <2>. QED BY <2>1, <1>1 DEF Inv, TypeOK
  <1>4. LogInv' /\ RunInv' /\ BatchInv'
    BY <1>1 DEF Inv, LogInv, RunInv, BatchInv, Logged, NothingDropped, Entry
  <1>5. AckInv'
    BY <1>1, <1>2 DEF Inv, AckInv
  <1>. QED BY <1>3, <1>4, <1>5 DEF Inv

LEMMA StepKeeps == Inv /\ [Next]_vars => Inv'
  <1>. SUFFICES ASSUME Inv, [Next]_vars PROVE Inv'
    OBVIOUS
  <1>. last \in Nat /\ pending \in Nat /\ asked \in Nat /\ starting \in Nat
       /\ pending <= last /\ asked <= last
    BY DEF Inv, TypeOK, AckInv
  <1>1. CASE Poll
    BY <1>1, PollKeeps
  <1>2. CASE Execute
    BY <1>2, ExecuteKeeps
  <1>3. CASE Settle
    BY <1>3, ResultKeeps DEF Settle
  <1>4. CASE AnswerQuiesce
    BY <1>4, ResultKeeps DEF AnswerQuiesce
  <1>5. CASE StartupReports
    <2>1. Report(0) /\ starting' = starting - 1 /\ starting > 0
      BY <1>5 DEF StartupReports
    <2>2. starting' \in Nat /\ 0 <= last /\ 0 \in Nat
      BY <2>1
    <2>. QED BY <1>5, <2>1, <2>2, ResultKeeps DEF StartupReports
  <1>6. CASE WriteStatus
    BY <1>6, WriteStatusKeeps
  <1>7. ASSUME NEW c \in Clients, AskGeneration(c) PROVE Inv'
    BY <1>7, AskGenerationKeeps
  <1>8. ASSUME NEW c \in Clients, WriteCommands(c) PROVE Inv'
    BY <1>8, WriteCommandsKeeps
  <1>9. ASSUME NEW c \in Clients, RefuseStale(c) PROVE Inv'
    BY <1>9, RefuseStaleKeeps
  <1>10. CASE UNCHANGED vars
    <2>1. UNCHANGED <<control, status, bridge, issued>> /\ knows' = knows
      BY <1>10 DEF vars
    <2>2. knows' \in [Clients -> Nat]
      BY <2>1 DEF Inv, TypeOK
    <2>. QED BY <2>1, <2>2, KnowsKeeps
  <1>. QED BY <1>1, <1>2, <1>3, <1>4, <1>5, <1>6, <1>7, <1>8, <1>9, <1>10 DEF Next, Bridge

\* The inductive invariant: the log holds what was accepted, word for word, and
\* all of it that the bridge has not executed; nothing is acknowledged that was
\* not executed.
THEOREM InvHolds == Spec => []Inv
  BY StartsClean, StepKeeps, PTL DEF Spec

\* The variables stay in their types.
THEOREM TypeCorrect == Spec => []TypeOK
  <1>1. Inv => TypeOK
    BY DEF Inv
  <1>. QED BY <1>1, InvHolds, PTL

\* write_commands: rewriting the log never drops a command that was accepted and
\* not yet executed, however late, absent or emptied of its acknowledgement the
\* status is.
THEOREM NeverDropped == Spec => []NothingDropped
  <1>1. Inv => NothingDropped
    BY DEF Inv, LogInv
  <1>. QED BY <1>1, InvHolds, PTL

\* executeCommand: what the bridge executes is what was accepted, in the order it
\* was accepted, nothing twice and nothing left out.
THEOREM RunsInOrder == Spec => []RunsWhatWasIssued
  <1>1. ASSUME Inv PROVE RunsWhatWasIssued
    <2>1. Len(ran) <= Len(issued) /\ \A g \in 1..Len(ran) : ran[g] = Entry(g)
      BY <1>1 DEF Inv, RunInv
    <2>2. DOMAIN ran = 1..Len(ran)
      BY <1>1 DEF Inv, TypeOK
    <2>. QED BY <2>1, <2>2 DEF RunsWhatWasIssued, Entry
  <1>. QED BY <1>1, InvHolds, PTL

\* next_generation and write_commands agree: the number a client is told is the
\* only one accepted of it if nothing is written in between, so a command is
\* refused for its generation only where another one was accepted first.
THEOREM ToldIsExpected == Spec => [](NextGeneration = Expected)
  <1>1. Inv => NextGeneration = Expected
    BY NextIs, ExpectedIs
  <1>. QED BY <1>1, InvHolds, PTL

-----------------------------------------------------------------------------
\* What the status proves of the program it names.

\* A startup has fewer results than the status keeps, nothing is written to a
\* session that was quiesced, and no retry follows a quiesce in one write.
StopsAlone ==
    /\ StartupResults < Window
    /\ ~Survives
    /\ \A tos \in Batches : \A i, j \in DOMAIN tos :
         tos[i] = Quiesce /\ j > i => tos[j] \notin Programs

\* Of the first n commands accepted, g is the last that moves the bridge; 0 is none.
LatestIs(n, g) ==
    /\ g \in 0..n
    /\ g > 0 => issued[g] \in Programs
    /\ \A h \in 1..n : h > g => issued[h] \notin Programs

Pointed(g) == IF g = 0 THEN Home ELSE issued[g]

\* Once a quiesce was taken up nothing moves the bridge, and what is waited for
\* is what was executed last.
StopInv ==
    /\ \A i, j \in DOMAIN issued : issued[i] = Quiesce /\ j > i => issued[j] \notin Programs
    /\ stopping => \E i \in 1..last : issued[i] = Quiesce
    /\ asked > 0 => issued[asked] = Quiesce
    /\ pending \in {0, last}

\* A result of g or of a later command is among the results, and still will be
\* when this startup has reported.
Shown(g) ==
    \E i \in DOMAIN results : results[i] >= g /\ Len(results) - i + starting <= StartupResults

\* The bridge is where the last command executed that moves it took it, and that
\* one is in the log and answered.
TargetInv ==
    /\ starting <= StartupResults
    /\ \E g \in Nat : /\ LatestIs(last, g) /\ target = Pointed(g)
                      /\ g > 0 => Entry(g) \in control /\ Shown(g)

\* The status names the program of the last one it acknowledges, which is in the log.
StatusInv ==
    status # None =>
      \E g \in Nat : /\ LatestIs(Ack(status), g) /\ status.target = Pointed(g)
                     /\ g > 0 => Entry(g) \in control

ShownInv == StopInv /\ TargetInv /\ StatusInv

LEMMA ShownStarts == Init => ShownInv
  <1>. SUFFICES ASSUME Init PROVE ShownInv
    OBVIOUS
  <1>1. StopInv
    BY DEF Init, StopInv
  <1>2. TargetInv
    <2>1. LatestIs(last, 0) /\ target = Pointed(0)
      BY DEF Init, LatestIs, Pointed
    <2>. QED BY <2>1, SessionAssumption DEF Init, TargetInv
  <1>3. StatusInv
    BY DEF Init, StatusInv
  <1>. QED BY <1>1, <1>2, <1>3 DEF ShownInv

\* One result more is the last; one that was there is still there, unless the
\* window is full and it was the first.
LEMMA ReportShifts ==
    ASSUME results \in Seq(Nat), Len(results) <= Window, NEW g \in Nat, Report(g)
    PROVE  /\ Len(results') \in DOMAIN results' /\ results'[Len(results')] = g
           /\ \A i \in DOMAIN results : Len(results) - i + 1 < Window =>
                \E j \in DOMAIN results' : /\ results'[j] = results[i]
                                           /\ Len(results') - j = Len(results) - i + 1
  <1>. DEFINE all == Append(results, g)
  <1>1. /\ all \in Seq(Nat) /\ Len(all) = Len(results) + 1 /\ all[Len(all)] = g
        /\ \A i \in DOMAIN results : all[i] = results[i]
    BY AppendProperties
  <1>2. Len(results) \in Nat /\ Window \in Nat /\ Window > 0 /\ DOMAIN results = 1..Len(results)
    BY SessionAssumption
  <1>5. all # <<>>
    BY AppendProperties
  <1>3. CASE Len(all) > Window
    <2>1. results' = Tail(all)
      BY <1>3 DEF Report
    <2>2. /\ Tail(all) \in Seq(Nat) /\ Len(Tail(all)) = Len(all) - 1
          /\ \A i \in 1..Len(Tail(all)) : Tail(all)[i] = all[i + 1]
      BY <1>1, <1>5, HeadTailProperties
    <2>. HIDE DEF all
    <2>3. Len(results') \in 1..Len(results') /\ DOMAIN results' = 1..Len(results')
      BY <2>1, <2>2, <1>1, <1>2, <1>3
    <2>4. results'[Len(results')] = g
      BY <2>1, <2>2, <2>3, <1>1
    <2>5. ASSUME NEW i \in DOMAIN results, Len(results) - i + 1 < Window
          PROVE  \E j \in DOMAIN results' : /\ results'[j] = results[i]
                                            /\ Len(results') - j = Len(results) - i + 1
      <3>1. i - 1 \in 1..Len(results') /\ i \in 1..Len(results)
        BY <2>1, <2>2, <2>5, <1>1, <1>2, <1>3
      <3>2. results'[i - 1] = results[i]
        BY <3>1, <2>1, <2>2, <1>1
      <3>3. Len(results') - (i - 1) = Len(results) - i + 1
        BY <3>1, <2>1, <2>2, <1>1, <1>2
      <3>. QED BY <3>1, <3>2, <3>3, <2>3
    <2>. QED BY <2>3, <2>4, <2>5
  <1>4. CASE ~(Len(all) > Window)
    <2>1. results' = all
      BY <1>4 DEF Report
    <2>. HIDE DEF all
    <2>2. DOMAIN results' = 1..Len(results') /\ Len(results') = Len(results) + 1
      BY <2>1, <1>1
    <2>3. ASSUME NEW i \in DOMAIN results
          PROVE  \E j \in DOMAIN results' : /\ results'[j] = results[i]
                                            /\ Len(results') - j = Len(results) - i + 1
      <3>1. i \in DOMAIN results' /\ results'[i] = results[i] /\ i \in Nat
        BY <2>1, <2>2, <1>1, <1>2
      <3>2. Len(results') - i = Len(results) - i + 1
        BY <3>1, <2>2, <1>2
      <3>. QED BY <3>1, <3>2
    <2>. QED BY <2>1, <2>2, <2>3, <1>1, <1>2
  <1>. QED BY <1>3, <1>4

\* A result that is no older than the last move shows it, and one of a startup
\* leaves what shows it in the window.
LEMMA ReportShows ==
    ASSUME Inv, StopsAlone, NEW g \in Nat, NEW r \in Nat, Report(r), starting' \in Nat,
           \/ r >= g /\ starting' <= StartupResults
           \/ Shown(g) /\ starting' = starting - 1
    PROVE  Shown(g)'
  <1>1. results \in Seq(Nat) /\ Len(results) <= Window /\ Len(results) \in Nat /\ starting \in Nat
    BY DEF Inv, TypeOK
  <1>2. results' \in Seq(Nat) /\ Len(results') \in Nat
    <2>1. PICK n \in Nat : n >= r /\ \A i \in DOMAIN results : results[i] <= n
      <3>1. last \in Nat /\ \A i \in DOMAIN results : results[i] <= last /\ results[i] \in Nat
        BY <1>1 DEF Inv, TypeOK, AckInv
      <3>2. last + r \in Nat /\ last + r >= r /\ \A i \in DOMAIN results : results[i] <= last + r
        BY <3>1
      <3>. QED BY <3>2
    <2>. QED BY <2>1, <1>1, ReportKeeps
  <1>3. CASE r >= g /\ starting' <= StartupResults
    BY <1>1, <1>2, <1>3, ReportShifts, SessionAssumption DEF Shown
  <1>4. CASE Shown(g) /\ starting' = starting - 1
    <2>1. PICK i \in DOMAIN results :
            results[i] >= g /\ Len(results) - i + starting <= StartupResults
      BY <1>4 DEF Shown
    <2>2. i \in Nat /\ Len(results) - i + 1 < Window
      BY <2>1, <1>1, <1>4, SessionAssumption DEF StopsAlone
    <2>3. PICK j \in DOMAIN results' : /\ results'[j] = results[i]
                                       /\ Len(results') - j = Len(results) - i + 1
      BY <2>2, <1>1, ReportShifts
    <2>4. Len(results') - j + starting' = Len(results) - i + starting
      BY <2>2, <2>3, <1>1, <1>2, <1>4
    <2>. QED BY <2>1, <2>3, <2>4 DEF Shown
  <1>. QED BY <1>3, <1>4

\* A step that only adds a result, of nothing older than the last move.
LEMMA ShownByResult ==
    ASSUME Inv, ShownInv, StopsAlone,
           UNCHANGED <<control, status, last, target, stopping, issued>>,
           NEW r \in Nat, Report(r), starting' \in Nat,
           \/ /\ UNCHANGED starting
              /\ \A g \in 1..last : issued[g] \in Programs => r >= g
           \/ starting' = starting - 1,
           pending' \in {0, pending}, asked' \in {0, asked}
    PROVE  ShownInv'
  <1>1. StopInv' /\ StatusInv'
    BY DEF ShownInv, StopInv, StatusInv, LatestIs, Pointed, Entry
  <1>2. TargetInv'
    <2>1. PICK g \in Nat : /\ LatestIs(last, g) /\ target = Pointed(g)
                           /\ g > 0 => Entry(g) \in control /\ Shown(g)
      BY DEF ShownInv, TargetInv
    <2>2. starting <= StartupResults /\ starting \in Nat /\ StartupResults \in Nat
      BY SessionAssumption DEF ShownInv, TargetInv, Inv, TypeOK
    <2>3. g > 0 => Shown(g)'
      <3>1. CASE UNCHANGED starting /\ g > 0
        <4>1. r >= g
          BY <2>1, <3>1 DEF LatestIs
        <4>. QED BY <4>1, <3>1, <2>2, ReportShows
      <3>2. CASE starting' = starting - 1 /\ g > 0
        BY <3>2, <2>1, ReportShows
      <3>. QED BY <3>1, <3>2
    <2>4. LatestIs(last, g)' /\ target' = Pointed(g)' /\ (g > 0 => Entry(g)' \in control')
      BY <2>1 DEF LatestIs, Pointed, Entry
    <2>. QED BY <2>2, <2>3, <2>4 DEF TargetInv
  <1>. QED BY <1>1, <1>2 DEF ShownInv

LEMMA ShownByExecute ==
    ASSUME Inv, ShownInv, StopsAlone, Execute
    PROVE  ShownInv'
  <1>1. PICK c \in batch : Execute!2!(c)
    BY DEF Execute
  <1>. DEFINE to == issued[last + 1]
  <1>2. c.gen = last + 1 /\ c = Entry(last + 1) /\ c.to = to /\ last + 1 \in 1..Len(issued)
    BY <1>1, ExecuteIs DEF Entry
  <1>3. /\ last' = last + 1 /\ pending = 0
        /\ UNCHANGED <<control, status, issued>>
    BY <1>1, <1>2 DEF Execute
  <1>4. /\ last \in Nat /\ starting \in Nat /\ StartupResults \in Nat /\ DOMAIN issued = 1..Len(issued)
        /\ starting <= StartupResults
    BY SessionAssumption DEF Inv, TypeOK, ShownInv, TargetInv
  <1>5. stopping => to \notin Programs
    BY <1>2, <1>4 DEF ShownInv, StopInv
  <1>6. /\ target' = IF to \in Programs THEN to ELSE target
        /\ starting' \in {starting, 0, StartupResults}
        /\ \/ Report(last + 1) /\ UNCHANGED <<pending, asked, stopping>>
           \/ /\ to \notin Programs /\ pending' = last + 1
              /\ UNCHANGED <<results, starting, asked, stopping>>
           \/ /\ to = Quiesce /\ asked' = last + 1 /\ stopping' = TRUE
              /\ UNCHANGED <<results, starting, pending>>
    <2>1. Quiesce \notin Programs /\ None \notin Programs
      BY SessionAssumption
    <2>. QED BY <1>1, <1>2, <1>5, <2>1
  <1>7. StopInv'
    <2>1. stopping' => \E i \in 1..last' : issued'[i] = Quiesce
      <3>1. CASE stopping
        BY <3>1, <1>3, <1>4 DEF ShownInv, StopInv
      <3>2. CASE stopping' /\ ~stopping
        <4>1. issued'[last + 1] = Quiesce
          BY <3>2, <1>3, <1>6
        <4>. QED BY <4>1, <1>3, <1>4
      <3>. QED BY <3>1, <3>2
    <2>2. (asked' > 0 => issued'[asked'] = Quiesce) /\ pending' \in {0, last'}
      BY <1>3, <1>6 DEF ShownInv, StopInv
    <2>. QED BY <2>1, <2>2, <1>3 DEF ShownInv, StopInv
  <1>8. TargetInv'
    <2>1. PICK g \in Nat : /\ LatestIs(last, g) /\ target = Pointed(g)
                           /\ g > 0 => Entry(g) \in control /\ Shown(g)
      BY DEF ShownInv, TargetInv
    <2>2. starting' \in Nat /\ starting' <= StartupResults
      BY <1>4, <1>6
    <2>3. ASSUME NEW h \in 0 .. last + 1, Report(last + 1) PROVE Shown(h)'
      BY <2>2, <2>3, <1>4, ReportShows
    <2>4. CASE to \in Programs
      <3>. PICK n \in Nat : n = last + 1
        BY <1>4
      <3>1. LatestIs(last, n)' /\ target' = Pointed(n)'
        BY <2>4, <1>3, <1>4, <1>6 DEF LatestIs, Pointed
      <3>2. Entry(n) \in control
        BY <1>2, <1>4 DEF Inv, LogInv, NothingDropped, Entry
      <3>3. Report(last + 1)
        BY <2>4, <1>6, SessionAssumption
      <3>4. Shown(n)'
        BY <2>3, <3>3, <1>4
      <3>5. Entry(n)' \in control'
        BY <3>2, <1>3 DEF Entry
      <3>. QED BY <3>1, <3>4, <3>5, <2>2 DEF TargetInv
    <2>5. CASE to \notin Programs
      <3>1. LatestIs(last, g)' /\ target' = Pointed(g)' /\ g \in 0 .. last + 1
        BY <2>1, <2>5, <1>2, <1>3, <1>4, <1>6 DEF LatestIs, Pointed
      <3>2. g > 0 => Shown(g)'
        BY <2>1, <2>3, <3>1, <1>6 DEF Shown
      <3>3. g > 0 => Entry(g)' \in control'
        BY <2>1, <1>3 DEF Entry
      <3>. QED BY <3>1, <3>2, <3>3, <2>2 DEF TargetInv
    <2>. QED BY <2>4, <2>5
  <1>9. StatusInv'
    BY <1>3 DEF ShownInv, StatusInv, LatestIs, Pointed, Entry
  <1>. QED BY <1>7, <1>8, <1>9 DEF ShownInv

LEMMA ShownByWriteStatus ==
    ASSUME Inv, ShownInv, WriteStatus
    PROVE  ShownInv'
  <1>1. UNCHANGED <<control, last, results, target, pending, asked, stopping, starting, issued>>
    BY DEF WriteStatus, bridge
  <1>2. StopInv' /\ TargetInv'
    BY <1>1 DEF ShownInv, StopInv, TargetInv, LatestIs, Pointed, Entry, Shown
  <1>3. StatusInv'
    <2>. SUFFICES ASSUME status' # None PROVE StatusInv'
      BY DEF StatusInv
    <2>. PICK s : s = [results |-> results, target |-> target]
      OBVIOUS
    <2>1. status' = s /\ s # None
      BY DEF WriteStatus
    <2>2. s \in Status /\ s.results = results /\ s.target = target /\ last \in Nat
      BY DEF Inv, TypeOK, Status
    <2>3. /\ Ack(s) \in Nat /\ Ack(s) <= last
          /\ \A i \in DOMAIN results : results[i] <= Ack(s) /\ results[i] \in Nat
      <3>1. results \in Seq(Nat) /\ \A i \in DOMAIN results : results[i] <= last /\ results[i] \in Nat
        BY DEF Inv, AckInv, TypeOK
      <3>. QED BY <3>1, <2>1, <2>2, AckBound
    <2>4. PICK g \in Nat : /\ LatestIs(last, g) /\ target = Pointed(g)
                           /\ g > 0 => Entry(g) \in control /\ Shown(g)
      BY DEF ShownInv, TargetInv
    <2>5. g <= Ack(s)
      BY <2>3, <2>4 DEF Shown
    <2>6. LatestIs(Ack(s), g)
      BY <2>2, <2>3, <2>4, <2>5 DEF LatestIs
    <2>7. LatestIs(Ack(s), g)' /\ s.target = Pointed(g)' /\ (g > 0 => Entry(g)' \in control')
      BY <2>2, <2>4, <2>6, <1>1 DEF LatestIs, Pointed, Entry
    <2>. QED BY <2>1, <2>7 DEF StatusInv
  <1>. QED BY <1>2, <1>3 DEF ShownInv

\* A compaction keeps the last move it takes for answered.
LEMMA RetainedIs ==
    ASSUME Inv, NEW n \in Nat, NEW g \in Nat, g > 0, LatestIs(n, g), Entry(g) \in control
    PROVE  Entry(g) \in Retained(n)
  <1>. DEFINE answered == {c \in control : c.to \in Programs /\ c.gen <= n}
              kept == Latest(answered)
  <1>1. \A c \in answered : c.gen \in 1..n /\ c.gen <= g
    <2>1. \A c \in control : c.gen \in 1..Len(issued) /\ c = Entry(c.gen)
      BY DEF Inv, LogInv, Logged
    <2>. QED BY <2>1 DEF LatestIs, Entry
  <1>2. Entry(g) \in answered /\ Entry(g).gen = g
    BY DEF LatestIs, Entry
  <1>3. Entry(g) \in kept
    BY <1>1, <1>2 DEF Latest
  <1>4. {d \in kept : d.gen > Entry(g).gen} = {}
    BY <1>1, <1>2 DEF Latest
  <1>5. Cardinality({d \in kept : d.gen > Entry(g).gen}) < History
    <2>1. Cardinality({}) = 0 /\ 0 < History
      BY FS_EmptySet, SessionAssumption
    <2>. HIDE DEF kept
    <2>. QED BY <1>4, <2>1
  <1>. QED BY <1>3, <1>5 DEF Retained

LEMMA ShownByWriteCommands ==
    ASSUME Inv, ShownInv, StopsAlone, NEW c \in Clients, WriteCommands(c)
    PROVE  ShownInv'
  <1>. DEFINE k == Len(issued)
  <1>. PICK ack : ack = Ack(status)
    OBVIOUS
  <1>1. PICK tos \in Batches :
          /\ (\A i \in DOMAIN issued : issued[i] # Quiesce) \/ (\A i \in DOMAIN tos : tos[i] = None)
          /\ Retained(ack) \cup Pending(ack) \subseteq control'
          /\ issued' = issued \o tos
    BY DEF WriteCommands, StopsAlone
  <1>2. UNCHANGED <<status, last, results, target, batch, pending, asked, stopping, starting>>
    BY DEF WriteCommands, bridge
  <1>3. /\ ack \in Nat /\ ack <= last /\ last \in Nat /\ last <= k /\ k \in Nat
        /\ asked \in Nat /\ asked <= last
    BY AckBound DEF Inv, TypeOK, AckInv, RunInv
  <1>4. issued \in Seq(Targets) /\ tos \in Seq(Targets) /\ Len(tos) \in Nat
    BY SessionAssumption DEF Inv, TypeOK, Targets
  <1>5. /\ DOMAIN issued' = 1 .. k + Len(tos) /\ DOMAIN issued = 1..k
        /\ \A g \in 1..k : issued'[g] = issued[g]
        /\ \A i \in 1..Len(tos) : issued'[k + i] = tos[i]
    BY <1>1, <1>4, ConcatProperties
  <1>6. ASSUME NEW n \in 0..k, NEW g \in Nat, LatestIs(n, g)
        PROVE  /\ g > 0 => issued'[g] \in Programs
               /\ \A h \in 1..n : h > g => issued'[h] \notin Programs
               /\ g \in 0..n /\ Pointed(g)' = Pointed(g) /\ (g > 0 => Entry(g)' = Entry(g))
    BY <1>3, <1>5, <1>6 DEF LatestIs, Pointed, Entry
  <1>7. ASSUME NEW g \in Nat, LatestIs(ack, g) \/ LatestIs(last, g), g > 0, Entry(g) \in control
        PROVE  Entry(g) \in control'
    <2>1. CASE g > ack
      BY <2>1, <1>1, <1>7 DEF Pending, Entry
    <2>2. CASE g <= ack
      <3>1. LatestIs(ack, g)
        BY <2>2, <1>3, <1>7 DEF LatestIs
      <3>. QED BY <3>1, <1>1, <1>3, <1>7, RetainedIs
    <2>. QED BY <2>1, <2>2, <1>3
  <1>8. StopInv'
    <2>1. ASSUME NEW i \in DOMAIN issued', NEW j \in DOMAIN issued', issued'[i] = Quiesce, j > i
          PROVE  issued'[j] \notin Programs
      <3>1. CASE j \in 1..k
        <4>1. i \in 1..k
          BY <2>1, <3>1, <1>3, <1>4, <1>5
        <4>. QED BY <2>1, <3>1, <4>1, <1>5 DEF ShownInv, StopInv
      <3>2. CASE j \notin 1..k
        <4>1. j - k \in 1..Len(tos) /\ k + (j - k) = j
          BY <3>2, <1>3, <1>4, <1>5
        <4>2. issued'[j] = tos[j - k] /\ j - k \in DOMAIN tos
          BY <4>1, <1>4, <1>5
        <4>3. CASE i \in 1..k
          BY <4>2, <4>3, <2>1, <1>1, <1>5, SessionAssumption
        <4>4. CASE i \notin 1..k
          <5>1. i - k \in 1..Len(tos) /\ k + (i - k) = i
            BY <4>4, <1>3, <1>4, <1>5
          <5>2. tos[i - k] = Quiesce /\ i - k \in DOMAIN tos
            BY <5>1, <2>1, <1>4, <1>5
          <5>3. j - k > i - k
            BY <4>1, <5>1, <2>1, <1>3
          <5>. QED BY <4>2, <5>2, <5>3 DEF StopsAlone
        <4>. QED BY <4>3, <4>4
      <3>. QED BY <3>1, <3>2
    <2>2. stopping' => \E i \in 1..last' : issued'[i] = Quiesce
      BY <1>2, <1>3, <1>5 DEF ShownInv, StopInv
    <2>3. (asked' > 0 => issued'[asked'] = Quiesce) /\ pending' \in {0, last'}
      BY <1>2, <1>3, <1>5 DEF ShownInv, StopInv
    <2>. QED BY <2>1, <2>2, <2>3 DEF StopInv
  <1>9. TargetInv'
    <2>1. PICK g \in Nat : /\ LatestIs(last, g) /\ target = Pointed(g)
                           /\ g > 0 => Entry(g) \in control /\ Shown(g)
      BY DEF ShownInv, TargetInv
    <2>2. LatestIs(last, g)' /\ target' = Pointed(g)' /\ (g > 0 => Entry(g)' \in control' /\ Shown(g)')
      <3>1. last \in 0..k
        BY <1>3
      <3>2. /\ g > 0 => issued'[g] \in Programs
            /\ \A h \in 1..last : h > g => issued'[h] \notin Programs
            /\ g \in 0..last /\ Pointed(g)' = Pointed(g) /\ (g > 0 => Entry(g)' = Entry(g))
        BY <2>1, <3>1, <1>6
      <3>3. LatestIs(last, g)'
        BY <3>2, <1>2 DEF LatestIs
      <3>4. g > 0 => Entry(g) \in control'
        BY <2>1, <1>7
      <3>5. g > 0 => Shown(g)'
        BY <2>1, <1>2 DEF Shown
      <3>. QED BY <2>1, <3>2, <3>3, <3>4, <3>5, <1>2
    <2>. QED BY <2>2, <1>2 DEF ShownInv, TargetInv
  <1>10. StatusInv'
    <2>. SUFFICES ASSUME status # None PROVE StatusInv'
      BY <1>2 DEF StatusInv
    <2>1. PICK g \in Nat : /\ LatestIs(ack, g) /\ status.target = Pointed(g)
                           /\ g > 0 => Entry(g) \in control
      BY DEF ShownInv, StatusInv
    <2>2. LatestIs(ack, g)' /\ status'.target = Pointed(g)' /\ (g > 0 => Entry(g)' \in control')
      <3>1. ack \in 0..k /\ Ack(status') = ack
        BY <1>2, <1>3
      <3>2. /\ g > 0 => issued'[g] \in Programs
            /\ \A h \in 1..ack : h > g => issued'[h] \notin Programs
            /\ g \in 0..ack /\ Pointed(g)' = Pointed(g) /\ (g > 0 => Entry(g)' = Entry(g))
        BY <2>1, <3>1, <1>6
      <3>3. LatestIs(ack, g)'
        BY <3>2 DEF LatestIs
      <3>4. g > 0 => Entry(g) \in control'
        BY <2>1, <1>7
      <3>. QED BY <2>1, <3>2, <3>3, <3>4, <1>2
    <2>. QED BY <2>2, <1>2 DEF StatusInv
  <1>. QED BY <1>8, <1>9, <1>10 DEF ShownInv

LEMMA ShownKeeps ==
    ASSUME Inv, ShownInv, StopsAlone, [Next]_vars
    PROVE  ShownInv'
  <1>1. ASSUME UNCHANGED <<control, status, last, results, target, pending, asked, stopping, starting, issued>>
        PROVE  ShownInv'
    BY <1>1 DEF ShownInv, StopInv, TargetInv, StatusInv, LatestIs, Pointed, Entry, Shown
  <1>2. CASE Poll
    BY <1>1, <1>2 DEF Poll
  <1>3. CASE Execute
    BY <1>3, ShownByExecute
  <1>4. CASE Settle
    <2>1. pending = last /\ pending \in Nat
      BY <1>4 DEF Settle, ShownInv, StopInv, Inv, TypeOK
    <2>. QED BY <2>1, <1>4, ShownByResult DEF Settle, Inv, TypeOK
  <1>5. CASE AnswerQuiesce
    <2>1. \A g \in 1..last : issued[g] \in Programs => asked >= g
      <3>1. issued[asked] = Quiesce /\ asked \in DOMAIN issued /\ DOMAIN issued = 1..Len(issued)
            /\ last <= Len(issued)
        BY <1>5 DEF AnswerQuiesce, ShownInv, StopInv, Inv, TypeOK, AckInv, RunInv
      <3>2. \A j \in 1..last : j > asked => issued[j] \notin Programs
        <4>1. last \in Nat /\ Len(issued) \in Nat /\ 1..last \subseteq DOMAIN issued
          BY <3>1 DEF Inv, TypeOK
        <4>. QED BY <3>1, <4>1 DEF ShownInv, StopInv
      <3>. QED BY <3>2 DEF Inv, TypeOK
    <2>. QED BY <2>1, <1>5, ShownByResult DEF AnswerQuiesce, Inv, TypeOK
  <1>6. CASE StartupReports
    <2>1. starting' \in Nat
      BY <1>6 DEF StartupReports, Inv, TypeOK
    <2>. QED BY <2>1, <1>6, ShownByResult DEF StartupReports
  <1>7. CASE WriteStatus
    BY <1>7, ShownByWriteStatus
  <1>8. ASSUME NEW c \in Clients, AskGeneration(c) \/ RefuseStale(c) PROVE ShownInv'
    BY <1>1, <1>8 DEF AskGeneration, RefuseStale, bridge
  <1>9. ASSUME NEW c \in Clients, WriteCommands(c) PROVE ShownInv'
    BY <1>9, ShownByWriteCommands
  <1>10. CASE UNCHANGED vars
    BY <1>1, <1>10 DEF vars, bridge
  <1>. QED BY <1>2, <1>3, <1>4, <1>5, <1>6, <1>7, <1>8, <1>9, <1>10 DEF Next, Bridge

\* read_status_observation: what the bridge publishes of itself is accepted of it,
\* however often its target is moved and the log compacted and however late the
\* status is, where a startup reports less than the status keeps and a session that
\* was quiesced is written nothing that moves it.
THEOREM NeverTampering == ASSUME StopsAlone PROVE Spec => []StatusReadable
  <1>1. Init => ShownInv
    BY ShownStarts
  <1>2. Inv /\ ShownInv /\ [Next]_vars => ShownInv'
    BY ShownKeeps
  <1>3. ASSUME Inv, ShownInv PROVE StatusReadable
    <2>. SUFFICES ASSUME status # None
                  PROVE  Ack(status) <= Highest(control, 0) /\ status.target = Authorized(Ack(status))
      BY DEF StatusReadable, Valid
    <2>. USE <1>3
    <2>. DEFINE ack == Ack(status)
                answered == {c \in control : c.to \in Programs /\ c.gen <= ack}
                latest(c) == \A d \in answered : d.gen <= c.gen
    <2>1. ack \in Nat /\ ack <= last /\ last \in Nat /\ last <= Len(issued) /\ Len(issued) \in Nat
      BY AckBound DEF Inv, TypeOK, AckInv, RunInv
    <2>2. \A c \in control : c.gen \in 1..Len(issued) /\ c = Entry(c.gen)
      BY DEF Inv, LogInv, Logged
    <2>3. Highest(control, 0) = Len(issued)
      <3>1. (\E c \in control : c.gen = Len(issued)) \/ (control = {} /\ 0 = Len(issued))
        BY <2>2, <2>1, EmptySeq DEF Inv, LogInv, Entry
      <3>. QED BY <3>1, <2>1, <2>2, HighestIs
    <2>4. PICK g \in Nat : /\ LatestIs(ack, g) /\ status.target = Pointed(g)
                           /\ g > 0 => Entry(g) \in control
      BY DEF ShownInv, StatusInv
    <2>5. \A c \in answered : c.gen <= g /\ c.gen \in Nat /\ c.gen > 0
      BY <2>1, <2>2, <2>4 DEF LatestIs, Entry
    <2>6. CASE g = 0
      BY <2>1, <2>3, <2>4, <2>5, <2>6 DEF Authorized, Pointed
    <2>7. CASE g > 0
      <3>1. Entry(g) \in answered /\ latest(Entry(g))
        BY <2>4, <2>5, <2>7 DEF LatestIs, Entry
      <3>2. (CHOOSE c \in answered : latest(c)) \in answered
            /\ latest(CHOOSE c \in answered : latest(c))
        BY <3>1
      <3>3. (CHOOSE c \in answered : latest(c)).gen = g
        BY <3>1, <3>2, <2>5 DEF Entry
      <3>4. (CHOOSE c \in answered : latest(c)) = Entry(g)
        BY <3>2, <3>3, <2>2
      <3>5. Authorized(ack) = (CHOOSE c \in answered : latest(c)).to
        BY <3>1 DEF Authorized
      <3>6. Authorized(ack) = Entry(g).to
        <4>. HIDE DEF answered, latest
        <4>. QED BY <3>4, <3>5
      <3>7. Authorized(ack) = issued[g]
        BY <3>6 DEF Entry
      <3>. QED BY <3>7, <2>1, <2>3, <2>4, <2>7 DEF Pointed
    <2>. QED BY <2>6, <2>7
  <1>. QED BY <1>1, <1>2, <1>3, InvHolds, PTL DEF Spec

-----------------------------------------------------------------------------
(* The bridge.                                                             *)

\* The startup has snapshots up to the step it is at and waits for an activation
\* it has one of; a rollback runs only after a failure, and what it waits for is
\* the restore of such a step.
StartupInv ==
    /\ \A j \in Steps : snaps[j] # Nil => j <= index + 1
    /\ startupPending # Nil =>
         /\ ~failed /\ startupPending.at = index + 1
         /\ Plan[startupPending.at].kind = "active" /\ snaps[startupPending.at] # Nil
    /\ ~failed => rollback = Nil /\ waits <= MaxWait
    /\ rollback # Nil /\ rollback.settling =>
         /\ rollback.at < Len(Plan)
         /\ Plan[rollback.at + 1].kind = "active" /\ snaps[rollback.at + 1] # Nil

\* A walk walks a run.
WalkInv == phase = "walk" => run # Nil

BridgeShape == BridgeTypeOK /\ StartupInv /\ WalkInv

LEMMA Bounds ==
    /\ MaxWait \in Nat /\ MaxGrace \in Nat /\ MaxQuiesce \in Nat /\ MaxSettle \in Nat /\ MaxSweeps \in Nat
  BY BridgeAssumption

LEMMA PlanIs ==
    ASSUME session \in Sessions
    PROVE  /\ Plan \in Seq(Actions) /\ Len(Plan) \in Nat
           /\ \A i \in Steps : Plan[i] \in Actions /\ Plan[i].record \in Records /\ Plan[i].to \in BOOLEAN
           /\ session.commands \in Nat
           /\ Unreadable \in BOOLEAN /\ session.detaches \in BOOLEAN
           /\ Wakes \in SUBSET (Records \X Records)
  <1>1. session \in Session
    BY BridgeAssumption
  <1>2. Plan \in Seq(Actions)
    BY <1>1 DEF Session, Plan
  <1>3. /\ session.commands \in Nat
        /\ Unreadable \in BOOLEAN /\ session.detaches \in BOOLEAN
        /\ Wakes \in SUBSET (Records \X Records)
    BY <1>1 DEF Session, Unreadable, Wakes
  <1>4. Len(Plan) \in Nat /\ \A i \in Steps : Plan[i] \in Actions
    BY <1>2 DEF Steps
  <1>. QED BY <1>2, <1>3, <1>4 DEF Actions

LEMMA SessionStays == [BridgeNext]_bridgeVars => UNCHANGED session
  BY DEF BridgeNext, Timer, bridgeVars, engine, Attach, StartupRests, StartupSettles, StartupWaits, StartupActs,
         StartupEnds, RollbackSettles, RollbackActs, RollbackEnds, CommandSettles, QuiesceTicks,
         QuiesceDeadline, WalkSettles, WalkActs, WalkHolds, WalkLooksAgain, SetActive, SetValue,
         RetryAttach, QuiesceBegins, PollEnds, Finishes

\* What a write of a record's Active does to Cheat Engine, by what is read after it.
LEMMA WrittenIs ==
    ASSUME BridgeTypeOK, NEW r \in Records, NEW to \in BOOLEAN, NEW how \in Outcomes, Written(r, to, how)
    PROVE  /\ on' \in [Records -> BOOLEAN] /\ busy' \in [Records -> Goals]
           /\ \A x \in Records : x # r => busy'[x] = busy[x]
           /\ busy'[r] # busy[r] => busy'[r] = Goal(to)
           /\ \A x \in Records : on'[x] # on[x] => x = r \/ (~to /\ <<r, x>> \in Wakes)
           /\ how = "done" => on'[r] = to /\ busy[r] = "no" /\ busy' = busy
           /\ how # "done" => on' = on
           /\ how \in {"declined", "raised"} => busy' = busy
           /\ how = "declined" => busy[r] = "no"
           /\ how = "unread" => Unreadable
  <1>1. Goal(to) \in Goals
    BY DEF Goal, Goals
  <1>2. on \in [Records -> BOOLEAN] /\ busy \in [Records -> Goals]
    BY DEF BridgeTypeOK
  <1>3. ASSUME on' \in After(r, to)
        PROVE  /\ on' \in [Records -> BOOLEAN] /\ on'[r] = to
               /\ \A x \in Records : on'[x] # on[x] => x = r \/ (~to /\ <<r, x>> \in Wakes)
    <2>1. CASE on[r] = to
      BY <1>2, <1>3, <2>1 DEF After
    <2>2. CASE on[r] # to /\ to
      BY <1>2, <1>3, <2>2 DEF After
    <2>3. CASE on[r] # to /\ ~to
      <3>1. PICK woken \in SUBSET {x \in Records : <<r, x>> \in Wakes} :
              on' = [x \in Records |-> x # r /\ (on[x] \/ x \in woken)]
        BY <1>3, <2>3 DEF After
      <3>. QED BY <3>1, <1>2, <2>3
    <2>. QED BY <2>1, <2>2, <2>3
  <1>4. CASE how = "done"
    BY <1>2, <1>3, <1>4 DEF Written
  <1>5. CASE how # "done"
    <2>1. UNCHANGED on
      BY <1>5 DEF Written
    <2>2. busy' = busy \/ (how \in {"busy", "unread"} /\ busy' = [busy EXCEPT ![r] = Goal(to)])
      BY <1>5 DEF Written
    <2>3. busy' \in [Records -> Goals]
      BY <2>2, <1>1, <1>2
    <2>4. /\ \A x \in Records : x # r => busy'[x] = busy[x]
          /\ busy'[r] # busy[r] => busy'[r] = Goal(to)
      BY <2>2, <1>2
    <2>5. /\ how \in {"declined", "raised"} => busy' = busy
          /\ how = "declined" => busy[r] = "no"
          /\ how = "unread" => Unreadable
      BY <2>2, <1>5 DEF Written
    <2>. QED BY <1>2, <1>5, <2>1, <2>3, <2>4, <2>5
  <1>. QED BY <1>4, <1>5

LEMMA ReturnType ==
    ASSUME InStartup, Return
    PROVE  phase' \in {"startup", "settle", "poll"}
  BY DEF InStartup, Return

\* What a failed startup leaves.
LEMMA FailIs ==
    ASSUME BridgeShape, NEW i \in Steps, NEW shots, NEW values, InStartup, Fail(i, shots, values)
    PROVE  /\ failed' = TRUE /\ startupPending' = Nil
           /\ rollback' = [at |-> i, settling |-> FALSE, waits |-> 0, proven |-> TRUE]
           /\ rollback' \in Rollback /\ rollback' # Nil
           /\ rollback'.at = i /\ ~rollback'.settling /\ rollback'.waits = 0 /\ rollback'.proven
           /\ debt' = Debts(shots, values) /\ debt' \subseteq Records
           /\ phase' \in {"startup", "settle", "poll"}
  <1>1. rollback' = [at |-> i, settling |-> FALSE, waits |-> 0, proven |-> TRUE]
    BY DEF Fail
  <1>2. i \in Nat
    BY DEF Steps
  <1>3. rollback' \in Rollback
    BY <1>1, <1>2 DEF Rollback
  <1>4. debt' \subseteq Records
    BY PlanIs DEF Fail, Debts, BridgeShape, BridgeTypeOK
  <1>5. rollback'.at = i /\ ~rollback'.settling /\ rollback'.waits = 0 /\ rollback'.proven
    BY <1>1
  <1>6. rollback' # Nil
    BY <1>3, NilAssumption
  <1>7. phase' \in {"startup", "settle", "poll"}
    BY ReturnType DEF Fail
  <1>. QED BY <1>1, <1>3, <1>4, <1>5, <1>6, <1>7 DEF Fail

-----------------------------------------------------------------------------
(* Shape.                                                                  *)

LEMMA StartupStays ==
    ASSUME BridgeShape, UNCHANGED <<session, startup, rollback>>
    PROVE  StartupInv'
  BY DEF BridgeShape, StartupInv, startup, Plan, Steps

LEMMA AttachKeepsShape ==
    ASSUME BridgeShape, Attach
    PROVE  BridgeShape'
  BY PlanIs, Bounds, NilAssumption DEF Attach, BridgeShape, BridgeTypeOK, StartupInv, WalkInv,
     engine, startup, undo, known, quiesce, Plan, Steps, Unreadable, Wakes

LEMMA StartupRestsKeepsShape ==
    ASSUME BridgeShape, StartupRests
    PROVE  BridgeShape'
  BY PlanIs, Bounds, NilAssumption DEF StartupRests, InStartup, Return, BridgeShape, BridgeTypeOK, StartupInv, WalkInv,
     engine, startup, undo, known, quiesce, Plan, Steps, Unreadable, Wakes

LEMMA StartupEndsKeepsShape ==
    ASSUME BridgeShape, StartupEnds
    PROVE  BridgeShape'
  BY PlanIs, Bounds, NilAssumption DEF StartupEnds, InStartup, Return, BridgeShape, BridgeTypeOK, StartupInv, WalkInv,
     engine, startup, undo, known, quiesce, Plan, Steps, Unreadable, Wakes

LEMMA RollbackEndsKeepsShape ==
    ASSUME BridgeShape, RollbackEnds
    PROVE  BridgeShape'
  BY PlanIs, Bounds, NilAssumption DEF RollbackEnds, InRollback, InStartup, Return, Rollback, BridgeShape, BridgeTypeOK, StartupInv, WalkInv,
     engine, startup, undo, known, quiesce, Plan, Steps, Unreadable, Wakes

LEMMA WalkHoldsKeepsShape ==
    ASSUME BridgeShape, WalkHolds
    PROVE  BridgeShape'
  BY PlanIs, Bounds, NilAssumption DEF WalkHolds, Held, Moving, Unreads, BridgeShape, BridgeTypeOK, StartupInv, WalkInv,
     engine, startup, undo, known, quiesce, Plan, Steps, Unreadable, Wakes

LEMMA QuiesceBeginsKeepsShape ==
    ASSUME BridgeShape, QuiesceBegins
    PROVE  BridgeShape'
  BY PlanIs, Bounds, NilAssumption DEF QuiesceBegins, OneMoreCommand, Run, Names, BridgeShape, BridgeTypeOK, StartupInv, WalkInv,
     engine, startup, undo, known, quiesce, Plan, Steps, Unreadable, Wakes

LEMMA PollEndsKeepsShape ==
    ASSUME BridgeShape, PollEnds
    PROVE  BridgeShape'
  BY PlanIs, Bounds, NilAssumption DEF PollEnds, BridgeShape, BridgeTypeOK, StartupInv, WalkInv,
     engine, startup, undo, known, quiesce, Plan, Steps, Unreadable, Wakes

LEMMA SetValueKeepsShape ==
    ASSUME BridgeShape, NEW r \in Records, SetValue(r)
    PROVE  BridgeShape'
  BY PlanIs, Bounds, NilAssumption DEF SetValue, OneMoreCommand, BridgeShape, BridgeTypeOK, StartupInv, WalkInv,
     engine, startup, undo, known, quiesce, Plan, Steps, Unreadable, Wakes

LEMMA CommandSettlesKeepsShape ==
    ASSUME BridgeShape, CommandSettles
    PROVE  BridgeShape'
  <1>1. /\ UNCHANGED <<engine, attached, startup, undo, unrestored, quiesce, sent, debt>>
        /\ phase' = "quiesce"
    BY DEF CommandSettles
  <1>2. CASE UNCHANGED <<command, moving>>
    BY <1>1, <1>2, StartupStays DEF BridgeShape, BridgeTypeOK, WalkInv, engine, startup, undo, quiesce, Plan, Steps
  <1>3. CASE command # Nil /\ ~UNCHANGED <<command, moving>>
    <2>1. /\ command \in Command /\ command.waits \in Nat /\ command.record \in Records
          /\ command.waits <= MaxWait + MaxGrace
      BY <1>3 DEF BridgeShape, BridgeTypeOK, Command
    <2>2. moving' \subseteq Records
      BY <1>3, <2>1 DEF CommandSettles, BridgeShape, BridgeTypeOK
    <2>3. command' # Nil => command' \in Command /\ command'.waits <= MaxWait + MaxGrace
      <3>1. CASE command' = Nil
        BY <3>1
      <3>2. CASE /\ command' = [command EXCEPT !.waits = @ + 1]
                 /\ command.waits + 1 < MaxGrace \/ command.waits < MaxWait
        BY <3>2, <2>1, Bounds DEF Command
      <3>3. CASE command' = [command EXCEPT !.waits = 0, !.refused = TRUE]
        <4>1. command' = [record |-> command.record, to |-> command.to, waits |-> 0, refused |-> TRUE]
          BY <3>3, <2>1 DEF Command
        <4>. QED BY <4>1, <2>1, Bounds DEF Command
      <3>. QED BY <1>3, <3>1, <3>2, <3>3 DEF CommandSettles
    <2>. QED BY <1>1, <2>2, <2>3, StartupStays DEF BridgeShape, BridgeTypeOK, WalkInv, engine, startup, undo, quiesce, Plan, Steps
  <1>. QED BY <1>2, <1>3 DEF CommandSettles

\* An answer ends the run, and forgets the mutations a reading says are over.
LEMMA AnswerIs ==
    ASSUME BridgeShape, NEW named \in SUBSET Names, Answer(named)
    PROVE  /\ answer' \in SUBSET Names /\ named \cup unrestored \subseteq answer'
           /\ moving' \subseteq moving /\ run' = Nil /\ quiesced' = TRUE /\ phase' = "poll"
           /\ \A r \in moving \ moving' : busy[r] = "no"
           /\ ~Unreadable => answer' = named \cup unrestored
  <1>1. PICK unread \in Unreads :
          /\ answer' = named \cup unrestored \cup unread
          /\ moving' = Moving(unread) \cup unread
          /\ run' = Nil /\ quiesced' = TRUE /\ phase' = "poll"
    BY DEF Answer
  <1>2. /\ unread \subseteq moving
        /\ ~Unreadable => unread = {}
    BY DEF Unreads
  <1>3. moving \subseteq Names /\ unrestored \subseteq Names
    BY DEF BridgeShape, BridgeTypeOK, Names
  <1>. QED BY <1>1, <1>2, <1>3 DEF Moving

LEMMA QuiesceStays ==
    ASSUME BridgeShape, UNCHANGED <<engine, attached, startup, undo, unrestored, command, sent, debt>>,
           moving' \subseteq moving, phase' \in {"walk", "poll", "quiesce"},
           run' # Nil => run' \in Run /\ run'.ticks <= MaxQuiesce /\ run'.sweeps <= MaxSweeps,
           quiesced' \in BOOLEAN, answer' \in SUBSET Names, late' \in BOOLEAN,
           phase' = "walk" => run' # Nil
    PROVE  BridgeShape'
  BY StartupStays DEF BridgeShape, BridgeTypeOK, WalkInv, engine, startup, undo, Plan, Steps

LEMMA QuiesceTicksKeepsShape ==
    ASSUME BridgeShape, QuiesceTicks
    PROVE  BridgeShape'
  <1>1. UNCHANGED <<engine, attached, startup, undo, unrestored, command, sent, debt>>
    BY DEF QuiesceTicks
  <1>2. quiesced \in BOOLEAN /\ answer \in SUBSET Names /\ late \in BOOLEAN
    BY DEF BridgeShape, BridgeTypeOK
  <1>3. CASE run = Nil
    BY <1>1, <1>2, <1>3, QuiesceStays DEF QuiesceTicks, quiesce
  <1>4. CASE run # Nil /\ ~attached
    <2>1. run.named \cup {"detached"} \in SUBSET Names
      BY <1>4 DEF BridgeShape, BridgeTypeOK, Run, Names
    <2>2. Answer(run.named \cup {"detached"}) /\ late' = FALSE
      BY <1>4 DEF QuiesceTicks
    <2>. QED BY <1>1, <2>1, <2>2, AnswerIs, QuiesceStays
  <1>5. CASE run # Nil /\ attached
    <2>1. /\ run.ticks < MaxQuiesce /\ run' = [run EXCEPT !.ticks = @ + 1]
          /\ phase' = "walk" /\ UNCHANGED <<quiesced, answer, late, moving>>
      BY <1>5 DEF QuiesceTicks
    <2>2. run \in Run /\ run.ticks \in Nat /\ run.sweeps <= MaxSweeps
      BY <1>5 DEF BridgeShape, BridgeTypeOK, Run
    <2>3. run' \in Run /\ run'.ticks <= MaxQuiesce /\ run'.sweeps <= MaxSweeps
      BY <2>1, <2>2, Bounds DEF Run
    <2>. QED BY <1>1, <1>2, <2>1, <2>3, QuiesceStays, NilAssumption
  <1>. QED BY <1>3, <1>4, <1>5

LEMMA QuiesceDeadlineKeepsShape ==
    ASSUME BridgeShape, QuiesceDeadline
    PROVE  BridgeShape'
  <1>1. PICK unread \in Unreads :
          Answer(run.named \cup run.left
                 \cup {r \in Records : r = run.settling}
                 \cup (IF startupPending # Nil /\ ~startupPending.refused THEN {Plan[startupPending.at].record} ELSE {})
                 \cup (IF command # Nil /\ ~command.refused THEN {command.record} ELSE {})
                 \cup (IF rollback # Nil THEN {"rollback"} ELSE {})
                 \cup Moving(unread))
    BY DEF QuiesceDeadline
  <1>. DEFINE named == run.named \cup run.left
                 \cup {r \in Records : r = run.settling}
                 \cup (IF startupPending # Nil /\ ~startupPending.refused THEN {Plan[startupPending.at].record} ELSE {})
                 \cup (IF command # Nil /\ ~command.refused THEN {command.record} ELSE {})
                 \cup (IF rollback # Nil THEN {"rollback"} ELSE {})
                 \cup Moving(unread)
  <1>2. run.named \subseteq Names /\ run.left \subseteq Names
    BY DEF QuiesceDeadline, BridgeShape, BridgeTypeOK, Run, Names
  <1>3. startupPending # Nil => Plan[startupPending.at].record \in Records
    BY PlanIs DEF BridgeShape, BridgeTypeOK
  <1>4. command # Nil => command.record \in Records
    BY DEF BridgeShape, BridgeTypeOK, Command
  <1>5. Moving(unread) \subseteq Names
    BY DEF BridgeShape, BridgeTypeOK, Moving, Names
  <1>6. named \in SUBSET Names
    BY <1>2, <1>3, <1>4, <1>5 DEF Names
  <1>7. Answer(named)
    BY <1>1
  <1>8. UNCHANGED <<engine, attached, startup, undo, unrestored, command, sent, debt>> /\ late' = TRUE
    BY DEF QuiesceDeadline
  <1>. HIDE DEF named
  <1>. QED BY <1>6, <1>7, <1>8, AnswerIs, QuiesceStays

\* The run while a walk has the tick.
LEMMA RunIs ==
    ASSUME BridgeShape, run # Nil
    PROVE  /\ run \in Run /\ run.ticks <= MaxQuiesce /\ run.sweeps <= MaxSweeps
           /\ run.left \subseteq Records /\ run.settling \in Records \cup {Nil} /\ run.named \subseteq Names
           /\ run.waits \in Nat /\ run.ticks \in Nat /\ run.sweeps \in Nat
  BY DEF BridgeShape, BridgeTypeOK, Run

LEMMA WalkSettlesKeepsShape ==
    ASSUME BridgeShape, WalkSettles
    PROVE  BridgeShape' /\ Stopping'
  <1>1. UNCHANGED <<engine, attached, startup, undo, known, command, quiesced, answer, late, sent, debt>>
    BY DEF WalkSettles
  <1>2. run # Nil /\ phase = "walk" /\ run.settling \in Records
    BY RunIs DEF WalkSettles, BridgeShape, WalkInv
  <1>. PICK r \in Records : r = run.settling
    BY <1>2
  <1>3. r \in Names
    BY DEF Names
  <1>4. \/ run' = [run EXCEPT !.waits = @ + 1] /\ phase' = "poll"
        \/ \E names \in SUBSET Names :
             run' = [run EXCEPT !.settling = Nil, !.waits = 0, !.named = @ \cup names] /\ phase' = phase
    <2>1. {r} \in SUBSET Names /\ {} \in SUBSET Names
      BY <1>3
    <2>. QED BY <2>1 DEF WalkSettles
  <1>5. run' \in Run /\ run'.ticks <= MaxQuiesce /\ run'.sweeps <= MaxSweeps
    <2>1. CASE run' = [run EXCEPT !.waits = @ + 1]
      BY <1>2, <2>1, RunIs DEF Run
    <2>2. CASE \E names \in SUBSET Names :
                 run' = [run EXCEPT !.settling = Nil, !.waits = 0, !.named = @ \cup names]
      <3>1. PICK names \in SUBSET Names :
              run' = [run EXCEPT !.settling = Nil, !.waits = 0, !.named = @ \cup names]
        BY <2>2
      <3>2. run.named \cup names \in SUBSET Names
        BY <1>2, RunIs
      <3>3. run' = [left |-> run.left, settling |-> Nil, waits |-> 0, ticks |-> run.ticks,
                    sweeps |-> run.sweeps, named |-> run.named \cup names]
        BY <1>2, <3>1, RunIs DEF Run
      <3>. QED BY <1>2, <3>2, <3>3, RunIs DEF Run
    <2>. QED BY <1>4, <2>1, <2>2
  <1>6. run' # Nil
    BY <1>5, NilAssumption
  <1>7. quiesced \in BOOLEAN /\ answer \in SUBSET Names /\ late \in BOOLEAN /\ phase' \in {"walk", "poll"}
    BY <1>2, <1>4 DEF BridgeShape, BridgeTypeOK
  <1>. QED BY <1>1, <1>5, <1>6, <1>7, QuiesceStays DEF known, Stopping

LEMMA WalkLooksAgainKeepsShape ==
    ASSUME BridgeShape, WalkLooksAgain
    PROVE  BridgeShape' /\ Stopping'
  <1>1. UNCHANGED <<engine, attached, startup, undo, unrestored, command, sent, debt>>
    BY DEF WalkLooksAgain
  <1>2. run # Nil
    BY DEF WalkLooksAgain, BridgeShape, WalkInv
  <1>3. PICK hidden \in SUBSET Records :
          LET named == run.named \cup (IF hidden = {} THEN {} ELSE {"unread"})
              left == {r \in Records \ (hidden \cup run.named) : on[r]} IN
         \/ /\ left # {} /\ run.sweeps < MaxSweeps
            /\ run' = [run EXCEPT !.left = left, !.sweeps = @ + 1, !.named = named]
            /\ phase' = "poll"
            /\ UNCHANGED <<quiesced, answer, late, moving>>
         \/ /\ left = {} \/ run.sweeps = MaxSweeps
            /\ Answer(named \cup left)
            /\ late' = FALSE
    BY DEF WalkLooksAgain
  <1>. DEFINE named == run.named \cup (IF hidden = {} THEN {} ELSE {"unread"})
              left == {r \in Records \ (hidden \cup run.named) : on[r]}
  <1>4. left \subseteq Records /\ named \subseteq Names /\ named \cup left \in SUBSET Names
    BY <1>2, RunIs DEF Names
  <1>5. CASE /\ run.sweeps < MaxSweeps
             /\ run' = [run EXCEPT !.left = left, !.sweeps = @ + 1, !.named = named]
             /\ phase' = "poll"
             /\ UNCHANGED <<quiesced, answer, late, moving>>
    <2>1. quiesced \in BOOLEAN /\ answer \in SUBSET Names /\ late \in BOOLEAN
      BY DEF BridgeShape, BridgeTypeOK
    <2>2. run' \in Run /\ run'.ticks <= MaxQuiesce /\ run'.sweeps <= MaxSweeps
      <3>. HIDE DEF left, named
      <3>1. run' = [left |-> left, settling |-> run.settling, waits |-> run.waits, ticks |-> run.ticks,
                    sweeps |-> run.sweeps + 1, named |-> named]
        BY <1>2, <1>5, RunIs DEF Run
      <3>. QED BY <1>2, <1>4, <1>5, <3>1, RunIs, Bounds DEF Run
    <2>3. run' # Nil
      BY <2>2, NilAssumption
    <2>. QED BY <1>1, <1>5, <2>1, <2>2, <2>3, QuiesceStays DEF Stopping
  <1>6. CASE Answer(named \cup left) /\ late' = FALSE
    <2>. HIDE DEF left, named
    <2>. QED BY <1>1, <1>4, <1>6, AnswerIs, QuiesceStays DEF Stopping
  <1>. QED BY <1>3, <1>5, <1>6

LEMMA WalkActsKeepsShape ==
    ASSUME BridgeShape, WalkActs
    PROVE  BridgeShape' /\ Stopping'
  <1>1. UNCHANGED <<session, set, attached, startup, undo, known, command, quiesced, answer, late, sent, debt>>
    BY DEF WalkActs
  <1>2. run # Nil /\ phase = "walk" /\ run.settling = Nil
    BY DEF WalkActs, BridgeShape, WalkInv
  <1>3. PICK r \in run.left :
         LET rest == [run EXCEPT !.left = @ \ {r}]
             blamed == [rest EXCEPT !.named = @ \cup {r}] IN
         /\ \/ UNCHANGED <<on, busy>>
            \/ \E how \in Outcomes : Written(r, FALSE, how)
         /\ phase' \in {phase, "poll"}
         /\ run' \in {rest, blamed, [rest EXCEPT !.settling = r]}
    BY DEF WalkActs
  <1>4. r \in Records
    BY <1>2, RunIs
  <1>5. on' \in [Records -> BOOLEAN] /\ busy' \in [Records -> Goals]
    BY <1>3, <1>4, WrittenIs DEF BridgeShape, BridgeTypeOK
  <1>6. run' \in Run /\ run'.ticks <= MaxQuiesce /\ run'.sweeps <= MaxSweeps
    <2>1. PICK left \in SUBSET Records, settling \in Records \cup {Nil}, named \in SUBSET Names :
            run' = [run EXCEPT !.left = left, !.settling = settling, !.named = named]
      <3>1. run.left \ {r} \in SUBSET Records /\ run.named \in SUBSET Names /\ run.named \cup {r} \in SUBSET Names
        BY <1>2, <1>4, RunIs DEF Names
      <3>2. CASE run' = [run EXCEPT !.left = @ \ {r}]
        <4>1. run' = [run EXCEPT !.left = run.left \ {r}, !.settling = run.settling, !.named = run.named]
          BY <1>2, <3>2, RunIs DEF Run
        <4>. QED BY <1>2, <4>1, <3>1, RunIs
      <3>3. CASE run' = [[run EXCEPT !.left = @ \ {r}] EXCEPT !.named = @ \cup {r}]
        <4>1. run' = [run EXCEPT !.left = run.left \ {r}, !.settling = run.settling, !.named = run.named \cup {r}]
          BY <1>2, <3>3, RunIs DEF Run
        <4>. QED BY <1>2, <4>1, <3>1, RunIs
      <3>4. CASE run' = [[run EXCEPT !.left = @ \ {r}] EXCEPT !.settling = r]
        <4>1. run' = [run EXCEPT !.left = run.left \ {r}, !.settling = r, !.named = run.named]
          BY <1>2, <3>4, RunIs DEF Run
        <4>. QED BY <1>4, <4>1, <3>1
      <3>. QED BY <1>3, <3>2, <3>3, <3>4
    <2>. QED BY <1>2, <2>1, RunIs DEF Run
  <1>7. run' # Nil
    BY <1>6, NilAssumption
  <1>8. StartupInv'
    BY <1>1, StartupStays DEF undo
  <1>9. phase' \in {"walk", "poll"}
    BY <1>2, <1>3
  <1>. QED BY <1>1, <1>5, <1>6, <1>7, <1>8, <1>9
           DEF BridgeShape, BridgeTypeOK, WalkInv, startup, undo, known, Plan, Steps, Stopping

LEMMA RetryAttachKeepsShape ==
    ASSUME BridgeShape, RetryAttach
    PROVE  BridgeShape'
  <1>1. /\ index' = 0 /\ waits' = 0 /\ startupPending' = Nil
        /\ snaps' = [i \in Steps |-> Nil]
        /\ applied' = FALSE /\ failed' = FALSE
        /\ rollback' = Nil /\ rolledBack' = "nil"
        /\ attached' \in BOOLEAN
        /\ phase' \in {"again", "poll"}
        /\ sent < session.commands /\ sent' = sent + 1
        /\ UNCHANGED <<engine, known, command, quiesce, debt>>
    BY DEF RetryAttach, OneMoreCommand
  <1>2. StartupInv'
    BY <1>1, Bounds DEF StartupInv, Steps, engine, Plan
  <1>3. sent' \in 0..session.commands /\ index' \in 0..Len(Plan) /\ waits' \in 0..MaxWait + 1
    BY <1>1, PlanIs, Bounds DEF BridgeShape, BridgeTypeOK
  <1>4. snaps' \in [Steps -> {Nil} \cup Snapshots]
    BY <1>1
  <1>. QED BY <1>1, <1>2, <1>3, <1>4
           DEF BridgeShape, BridgeTypeOK, WalkInv, engine, known, quiesce, Plan, Steps

LEMMA FinishesKeepsShape ==
    ASSUME BridgeShape, NEW r \in Records, Finishes(r)
    PROVE  BridgeShape'
  <1>1. /\ on' \in After(r, busy[r] = "on") \cup {on}
        /\ busy' = [busy EXCEPT ![r] = "no"]
        /\ UNCHANGED <<session, set, attached, startup, undo, known, command, quiesce, phase, sent, debt>>
    BY DEF Finishes
  <1>2. on \in [Records -> BOOLEAN] /\ busy \in [Records -> Goals]
    BY DEF BridgeShape, BridgeTypeOK
  <1>3. on' \in [Records -> BOOLEAN]
    BY <1>1, <1>2 DEF After
  <1>4. busy' \in [Records -> Goals]
    BY <1>1, <1>2 DEF Goals
  <1>. QED BY <1>1, <1>3, <1>4, StartupStays
           DEF BridgeShape, BridgeTypeOK, WalkInv, startup, undo, known, quiesce, Plan, Steps

\* The forward path where it still has work.
LEMMA ForwardIs ==
    ASSUME BridgeShape, InStartup, ~NothingToStart, ~failed
    PROVE  /\ attached /\ ~quiesced /\ rollback = Nil /\ waits \in 0..MaxWait
           /\ index \in Nat /\ index <= Len(Plan) /\ Len(Plan) \in Nat
           /\ startupPending = Nil => run = Nil
           /\ phase \in {"first", "startup", "again"}
  BY PlanIs, Bounds DEF BridgeShape, BridgeTypeOK, StartupInv, NothingToStart, InStartup, Stopping

\* The parts a step of the startup or of its rollback may change.
LEMMA StartupPart ==
    ASSUME BridgeShape, UNCHANGED <<session, attached, command, quiesce, sent>>,
           on' \in [Records -> BOOLEAN], busy' \in [Records -> Goals], set' \in [Records -> BOOLEAN],
           index' \in 0..Len(Plan), waits' \in 0..MaxWait + 1,
           startupPending' # Nil =>
             startupPending' \in Wait /\ startupPending'.at \in Steps /\ startupPending'.waits <= MaxWait + MaxGrace,
           snaps' \in [Steps -> {Nil} \cup Snapshots], applied' \in BOOLEAN, failed' \in BOOLEAN,
           rollback' # Nil =>
             rollback' \in Rollback /\ rollback'.at \in 0..Len(Plan) /\ rollback'.waits <= MaxWait,
           rolledBack' \in {"nil", "proven", "unproven"},
           moving' \subseteq Records, unrestored' \subseteq Records, debt' \subseteq Records,
           phase' \in {"first", "startup", "again", "settle", "poll"},
           StartupInv'
    PROVE  BridgeShape'
  BY DEF BridgeShape, BridgeTypeOK, WalkInv, quiesce, Plan, Steps

LEMMA StartupWaitsKeepsShape ==
    ASSUME BridgeShape, StartupWaits
    PROVE  BridgeShape'
  <1>1. /\ InStartup /\ ~NothingToStart /\ ~failed /\ startupPending = Nil /\ index < Len(Plan)
        /\ waits' = waits + 1
        /\ UNCHANGED <<engine, attached, index, snaps, applied, rolledBack, known, command, quiesce, sent>>
    BY DEF StartupWaits
  <1>2. /\ rollback = Nil /\ waits \in 0..MaxWait /\ index \in Nat
        /\ waits' \in 0..MaxWait + 1 /\ index + 1 \in Steps
    BY <1>1, ForwardIs, Bounds DEF Steps
  <1>3. CASE waits < MaxWait
    <2>1. Return /\ UNCHANGED <<startupPending, failed, rollback, debt>>
      BY <1>3 DEF StartupWaits
    <2>2. phase' \in {"startup", "settle", "poll"}
      BY <1>1, <2>1, ReturnType
    <2>3. StartupInv'
      BY <1>1, <1>2, <1>3, <2>1, Bounds DEF BridgeShape, StartupInv, engine, Plan, Steps
    <2>. QED BY <1>1, <1>2, <2>1, <2>2, <2>3, StartupPart DEF BridgeShape, BridgeTypeOK, engine, known
  <1>4. CASE ~(waits < MaxWait)
    <2>1. Fail(index + 1, snaps, set)
      BY <1>4 DEF StartupWaits
    <2>2. /\ failed' = TRUE /\ startupPending' = Nil /\ debt' \subseteq Records
          /\ rollback' \in Rollback /\ rollback'.at = index + 1 /\ rollback'.waits = 0 /\ ~rollback'.settling
          /\ phase' \in {"startup", "settle", "poll"}
      BY <1>1, <1>2, <2>1, FailIs
    <2>3. StartupInv'
      BY <1>1, <2>2 DEF BridgeShape, StartupInv, engine, Plan, Steps
    <2>4. rollback'.at \in 0..Len(Plan) /\ rollback'.waits <= MaxWait
      BY <1>2, <2>2, Bounds DEF Steps
    <2>. QED BY <1>1, <1>2, <2>2, <2>3, <2>4, StartupPart DEF BridgeShape, BridgeTypeOK, engine, known
  <1>. QED BY <1>3, <1>4

\* The activation a startup waits for, and its step.
LEMMA PendingIs ==
    ASSUME BridgeShape, startupPending # Nil
    PROVE  /\ startupPending \in Wait /\ startupPending.at \in Steps /\ startupPending.at = index + 1
           /\ startupPending.waits \in Nat /\ startupPending.waits <= MaxWait + MaxGrace
           /\ startupPending.refused \in BOOLEAN
           /\ Plan[startupPending.at].record \in Records /\ Plan[startupPending.at].kind = "active"
           /\ snaps[startupPending.at] # Nil /\ ~failed /\ rollback = Nil
  BY PlanIs DEF BridgeShape, BridgeTypeOK, StartupInv, Wait

\* What waiting for it comes to.
LEMMA StartupSettlesTo ==
    ASSUME BridgeShape, StartupSettles
    PROVE  LET i == startupPending.at  r == Plan[i].record IN
           /\ InStartup /\ ~NothingToStart /\ ~failed /\ startupPending # Nil
           /\ UNCHANGED <<engine, attached, waits, snaps, applied, rolledBack, unrestored, command, quiesce, sent>>
           /\ \/ /\ startupPending' = [startupPending EXCEPT !.waits = @ + 1]
                 /\ startupPending.waits + 1 <= MaxWait + MaxGrace
                 /\ UNCHANGED <<index, failed, rollback, moving, debt>> /\ Return
              \/ Fail(i, snaps, set) /\ moving' \in {moving, moving \cup {r}} /\ UNCHANGED index
              \/ /\ startupPending' = Waiting(i, TRUE) /\ busy[r] = "no"
                 /\ UNCHANGED <<index, failed, rollback, moving, debt>> /\ Return
              \/ /\ index' = i /\ startupPending' = Nil /\ busy[r] = "no"
                 /\ UNCHANGED <<phase, failed, rollback, moving, debt>>
  <1>. PICK i, r : i = startupPending.at /\ r = Plan[i].record
    OBVIOUS
  <1>1. startupPending # Nil
    BY DEF StartupSettles
  <1>2. startupPending.waits \in Nat
    BY <1>1, PendingIs
  <1>3. \/ startupPending.waits + 1 < MaxGrace \/ startupPending.waits < MaxWait
        => startupPending.waits + 1 <= MaxWait + MaxGrace
    BY <1>2, Bounds
  <1>. QED BY <1>3 DEF StartupSettles

LEMMA StartupSettlesKeepsShape ==
    ASSUME BridgeShape, StartupSettles
    PROVE  BridgeShape'
  <1>. PICK i : i = startupPending.at
    OBVIOUS
  <1>. PICK r : r = Plan[i].record
    OBVIOUS
  <1>1. /\ InStartup /\ ~NothingToStart /\ ~failed /\ startupPending # Nil
        /\ UNCHANGED <<engine, attached, waits, snaps, applied, rolledBack, unrestored, command, quiesce, sent>>
    BY StartupSettlesTo
  <1>2. /\ rollback = Nil /\ waits \in 0..MaxWait /\ index \in Nat /\ waits' \in 0..MaxWait + 1
        /\ i \in Steps /\ i = index + 1 /\ r \in Records /\ snaps[i] # Nil /\ Plan[i].kind = "active"
        /\ phase \in {"first", "startup", "again"}
    BY <1>1, ForwardIs, PendingIs, Bounds DEF Steps
  <1>3. ASSUME startupPending' \in Wait, startupPending'.at = i, startupPending'.waits <= MaxWait + MaxGrace,
               UNCHANGED <<index, failed, rollback, moving, debt>>, Return
        PROVE  BridgeShape'
    <2>1. phase' \in {"startup", "settle", "poll"}
      BY <1>1, <1>3, ReturnType
    <2>2. StartupInv'
      BY <1>1, <1>2, <1>3 DEF BridgeShape, StartupInv, engine, Plan, Steps
    <2>. QED BY <1>1, <1>2, <1>3, <2>1, <2>2, StartupPart DEF BridgeShape, BridgeTypeOK, engine
  <1>4. CASE /\ startupPending' = [startupPending EXCEPT !.waits = @ + 1]
             /\ startupPending.waits + 1 <= MaxWait + MaxGrace
             /\ UNCHANGED <<index, failed, rollback, moving, debt>> /\ Return
    <2>1. startupPending' \in Wait /\ startupPending'.at = i /\ startupPending'.waits <= MaxWait + MaxGrace
      BY <1>1, <1>4, PendingIs DEF Wait
    <2>. QED BY <1>3, <1>4, <2>1
  <1>5. CASE Fail(i, snaps, set) /\ moving' \in {moving, moving \cup {r}} /\ UNCHANGED index
    <2>2. /\ failed' = TRUE /\ startupPending' = Nil /\ debt' \subseteq Records
          /\ rollback' \in Rollback /\ rollback'.at = i /\ rollback'.waits = 0 /\ ~rollback'.settling
          /\ phase' \in {"startup", "settle", "poll"}
      BY <1>1, <1>2, <1>5, FailIs
    <2>3. StartupInv'
      BY <1>1, <1>5, <2>2 DEF BridgeShape, StartupInv, engine, Plan, Steps
    <2>4. rollback'.at \in 0..Len(Plan) /\ rollback'.waits <= MaxWait
      BY <1>2, <2>2, Bounds DEF Steps
    <2>5. moving' \subseteq Records
      BY <1>2, <1>5 DEF BridgeShape, BridgeTypeOK
    <2>. QED BY <1>1, <1>2, <1>5, <2>2, <2>3, <2>4, <2>5, StartupPart DEF BridgeShape, BridgeTypeOK, engine
  <1>6. CASE startupPending' = Waiting(i, TRUE) /\ UNCHANGED <<index, failed, rollback, moving, debt>> /\ Return
    <2>1. startupPending' \in Wait /\ startupPending'.at = i /\ startupPending'.waits <= MaxWait + MaxGrace
      BY <1>2, <1>6, Bounds DEF Waiting, Wait, Steps
    <2>. QED BY <1>3, <1>6, <2>1
  <1>7. CASE index' = i /\ startupPending' = Nil /\ UNCHANGED <<phase, failed, rollback, moving, debt>>
    <2>1. StartupInv'
      BY <1>1, <1>2, <1>7 DEF BridgeShape, StartupInv, engine, Plan, Steps
    <2>. QED BY <1>1, <1>2, <1>7, <2>1, StartupPart DEF BridgeShape, BridgeTypeOK, engine, Steps
  <1>. QED BY <1>4, <1>5, <1>6, <1>7, StartupSettlesTo

\* What taking a step comes to.
LEMMA StartupActsTo ==
    ASSUME BridgeShape, StartupActs, NEW i, i = index + 1, NEW r, r = Plan[i].record
    PROVE  /\ InStartup /\ ~NothingToStart /\ ~failed /\ startupPending = Nil /\ i \in Steps /\ r \in Records
           /\ waits' = 0 /\ snaps' = [snaps EXCEPT ![i] = [on |-> on[r], set |-> set[r]]]
           /\ UNCHANGED <<session, attached, applied, rolledBack, known, command, quiesce, sent>>
           /\ on' \in [Records -> BOOLEAN] /\ busy' \in [Records -> Goals] /\ set' \in [Records -> BOOLEAN]
           /\ \A x \in Records : x # r => busy'[x] = busy[x] /\ set'[x] = set[x]
           /\ \/ index' = i /\ busy' = busy /\ UNCHANGED <<phase, startupPending, failed, rollback, debt>>
              \/ /\ Plan[i].kind = "active" /\ Return /\ UNCHANGED <<index, failed, rollback, debt>>
                 /\ \/ startupPending' = Waiting(i, TRUE) /\ busy' = busy
                    \/ startupPending' = Waiting(i, FALSE)
              \/ Fail(i, snaps', set') /\ UNCHANGED index /\ (Plan[i].kind = "value" => busy' = busy)
  <1>1. /\ InStartup /\ ~NothingToStart /\ ~failed /\ startupPending = Nil /\ index < Len(Plan)
        /\ waits' = 0 /\ snaps' = [snaps EXCEPT ![i] = [on |-> on[r], set |-> set[r]]]
        /\ UNCHANGED <<session, attached, applied, rolledBack, known, command, quiesce, sent>>
    BY DEF StartupActs
  <1>2. i \in Steps /\ r \in Records /\ Plan[i] \in Actions /\ Plan[i].to \in BOOLEAN
    BY <1>1, ForwardIs, PlanIs DEF Steps, BridgeShape, BridgeTypeOK
  <1>3. on \in [Records -> BOOLEAN] /\ busy \in [Records -> Goals] /\ set \in [Records -> BOOLEAN]
    BY DEF BridgeShape, BridgeTypeOK
  <1>4. CASE Plan[i].kind = "value"
    <2>1. /\ UNCHANGED <<on, busy>>
          /\ \/ set' = [set EXCEPT ![r] = TRUE] /\ index' = i /\ UNCHANGED <<phase, startupPending, failed, rollback, debt>>
             \/ set' \in {set, [set EXCEPT ![r] = TRUE]} /\ Fail(i, snaps', set') /\ UNCHANGED index
      BY <1>4 DEF StartupActs
    <2>. QED BY <1>1, <1>2, <1>3, <1>4, <2>1
  <1>5. CASE Plan[i].kind = "active"
    <2>1. PICK how \in Outcomes :
            /\ Written(r, Plan[i].to, how)
            /\ \/ /\ how = "done" /\ index' = i
                  /\ UNCHANGED <<phase, startupPending, failed, rollback, debt>>
               \/ /\ how \in {"busy", "declined"}
                  /\ startupPending' = Waiting(i, how = "declined")
                  /\ Return
                  /\ UNCHANGED <<index, failed, rollback, debt>>
               \/ /\ how \in {"declined", "raised", "unread"}
                  /\ Fail(i, snaps', set') /\ UNCHANGED index
      BY <1>5 DEF StartupActs
    <2>2. UNCHANGED set
      BY <1>5 DEF StartupActs
    <2>3. /\ on' \in [Records -> BOOLEAN] /\ busy' \in [Records -> Goals]
          /\ \A x \in Records : x # r => busy'[x] = busy[x]
          /\ how \in {"done", "declined"} => busy' = busy
      BY <2>1, <1>2, WrittenIs DEF BridgeShape
    <2>4. (how = "declined") = TRUE \/ (how = "declined") = FALSE
      OBVIOUS
    <2>. QED BY <1>1, <1>2, <1>3, <1>5, <2>1, <2>2, <2>3, <2>4
  <1>. QED BY <1>2, <1>4, <1>5 DEF Actions

LEMMA StartupActsKeepsShape ==
    ASSUME BridgeShape, StartupActs
    PROVE  BridgeShape'
  <1>. PICK i : i = index + 1
    OBVIOUS
  <1>. PICK r : r = Plan[i].record
    OBVIOUS
  <1>1. /\ InStartup /\ ~NothingToStart /\ ~failed /\ startupPending = Nil /\ i \in Steps /\ r \in Records
        /\ waits' = 0 /\ snaps' = [snaps EXCEPT ![i] = [on |-> on[r], set |-> set[r]]]
        /\ UNCHANGED <<session, attached, applied, rolledBack, known, command, quiesce, sent>>
        /\ on' \in [Records -> BOOLEAN] /\ busy' \in [Records -> Goals] /\ set' \in [Records -> BOOLEAN]
    BY StartupActsTo
  <1>2. /\ rollback = Nil /\ index \in Nat /\ waits' \in 0..MaxWait + 1 /\ waits' <= MaxWait
        /\ phase \in {"first", "startup", "again"}
    BY <1>1, ForwardIs, Bounds
  <1>3. /\ snaps' \in [Steps -> {Nil} \cup Snapshots]
        /\ snaps'[i] # Nil /\ \A j \in Steps : j # i => snaps'[j] = snaps[j]
    <2>1. [on |-> on[r], set |-> set[r]] \in Snapshots
      BY <1>1 DEF BridgeShape, BridgeTypeOK, Snapshots
    <2>2. snaps \in [Steps -> {Nil} \cup Snapshots]
      BY DEF BridgeShape, BridgeTypeOK
    <2>. QED BY <1>1, <2>1, <2>2, NilAssumption
  <1>4. \A j \in Steps : snaps'[j] # Nil => j <= i
    BY <1>1, <1>2, <1>3 DEF BridgeShape, StartupInv, Steps
  <1>5. CASE index' = i /\ UNCHANGED <<phase, startupPending, failed, rollback, debt>>
    <2>1. StartupInv'
      BY <1>1, <1>2, <1>4, <1>5 DEF StartupInv, Plan, Steps
    <2>. QED BY <1>1, <1>2, <1>3, <1>5, <2>1, StartupPart DEF BridgeShape, BridgeTypeOK, Steps, known
  <1>6. CASE /\ Plan[i].kind = "active" /\ Return /\ UNCHANGED <<index, failed, rollback, debt>>
             /\ startupPending' = Waiting(i, TRUE) \/ startupPending' = Waiting(i, FALSE)
    <2>1. phase' \in {"startup", "settle", "poll"}
      BY <1>1, <1>6, ReturnType
    <2>2. startupPending' \in Wait /\ startupPending'.at = i /\ startupPending'.waits <= MaxWait + MaxGrace
      <3>1. PICK b \in BOOLEAN : startupPending' = [at |-> i, waits |-> 0, refused |-> b]
        BY <1>6 DEF Waiting
      <3>2. i \in Nat
        BY <1>1 DEF Steps
      <3>. QED BY <3>1, <3>2, Bounds DEF Wait
    <2>3. StartupInv'
      BY <1>1, <1>2, <1>3, <1>4, <1>6, <2>2 DEF StartupInv, Plan, Steps
    <2>. QED BY <1>1, <1>2, <1>3, <1>6, <2>1, <2>2, <2>3, StartupPart DEF BridgeShape, BridgeTypeOK, known
  <1>7. CASE Fail(i, snaps', set') /\ UNCHANGED index
    <2>2. /\ failed' = TRUE /\ startupPending' = Nil /\ debt' \subseteq Records
          /\ rollback' \in Rollback /\ rollback'.at = i /\ rollback'.waits = 0 /\ ~rollback'.settling
          /\ phase' \in {"startup", "settle", "poll"}
      BY <1>1, <1>7, FailIs
    <2>3. StartupInv'
      BY <1>1, <1>4, <1>7, <2>2 DEF StartupInv, Plan, Steps
    <2>4. rollback'.at \in 0..Len(Plan) /\ rollback'.waits <= MaxWait
      BY <1>1, <2>2, Bounds DEF Steps
    <2>. QED BY <1>1, <1>2, <1>3, <1>7, <2>2, <2>3, <2>4, StartupPart DEF BridgeShape, BridgeTypeOK, known
  <1>. QED BY <1>5, <1>6, <1>7, StartupActsTo

\* A rollback under way.
LEMMA RollbackIs ==
    ASSUME BridgeShape, InRollback
    PROVE  /\ failed /\ ~quiesced /\ rollback # Nil /\ startupPending = Nil
           /\ rollback \in Rollback /\ rollback.at \in 0..Len(Plan) /\ rollback.waits <= MaxWait
           /\ rollback.at \in Nat /\ rollback.waits \in Nat /\ Len(Plan) \in Nat
           /\ rollback.settling \in BOOLEAN /\ rollback.proven \in BOOLEAN
           /\ rollback.settling => /\ rollback.at + 1 \in Steps /\ Plan[rollback.at + 1].record \in Records
                                   /\ Plan[rollback.at + 1].kind = "active" /\ snaps[rollback.at + 1] # Nil
           /\ phase \in {"first", "startup", "again"} /\ InStartup
  <1>1. /\ failed /\ ~quiesced /\ rollback # Nil /\ startupPending = Nil /\ InStartup
        /\ rollback \in Rollback /\ rollback.at \in 0..Len(Plan) /\ rollback.waits <= MaxWait
    BY DEF InRollback, NothingToStart, BridgeShape, BridgeTypeOK, StartupInv
  <1>2. Len(Plan) \in Nat
    BY PlanIs DEF BridgeShape, BridgeTypeOK
  <1>3. rollback.settling => rollback.at + 1 \in Steps
    BY <1>1, <1>2 DEF BridgeShape, StartupInv, Steps, Rollback
  <1>4. rollback.settling => Plan[rollback.at + 1].record \in Records
    BY <1>3, PlanIs DEF BridgeShape, BridgeTypeOK
  <1>. QED BY <1>1, <1>2, <1>3, <1>4 DEF BridgeShape, StartupInv, Rollback, InStartup

\* A step the rollback gives up on.
LEMMA UnprovenIs ==
    ASSUME BridgeShape, InRollback, NEW r \in Records, Unproven(r), rollback.settling \/ rollback.at >= 1
    PROVE  /\ rollback' \in Rollback /\ rollback' # Nil /\ ~rollback'.settling /\ ~rollback'.proven
           /\ rollback'.at = (IF rollback.settling THEN rollback.at ELSE rollback.at - 1)
           /\ rollback'.at \in 0..Len(Plan) /\ rollback'.waits <= MaxWait
           /\ unrestored' = unrestored \cup {r} /\ unrestored' \subseteq Records
  <1>. PICK n : n = (IF rollback.settling THEN rollback.at ELSE rollback.at - 1)
    OBVIOUS
  <1>1. n \in 0..Len(Plan) /\ n \in Nat
    BY RollbackIs
  <1>2. rollback' = [at |-> n, settling |-> FALSE, waits |-> 0, proven |-> FALSE]
    BY RollbackIs DEF Unproven, Rollback
  <1>3. rollback' \in Rollback
    BY <1>1, <1>2 DEF Rollback
  <1>4. unrestored' = unrestored \cup {r} /\ unrestored' \subseteq Records
    BY DEF Unproven, BridgeShape, BridgeTypeOK
  <1>5. /\ rollback'.at = n /\ ~rollback'.settling /\ ~rollback'.proven /\ rollback'.waits = 0
    BY <1>2
  <1>6. rollback' # Nil
    BY <1>3, NilAssumption
  <1>. QED BY <1>1, <1>3, <1>4, <1>5, <1>6, Bounds

\* What waiting for a restore comes to.
LEMMA RollbackSettlesTo ==
    ASSUME BridgeShape, RollbackSettles, NEW r, r = Plan[rollback.at + 1].record
    PROVE  /\ InRollback /\ rollback.settling /\ r \in Records
           /\ UNCHANGED <<engine, attached, startup, rolledBack, command, quiesce, sent, debt>>
           /\ \/ /\ rollback' = [rollback EXCEPT !.waits = @ + 1] /\ rollback.waits < MaxWait
                 /\ Return /\ UNCHANGED known
              \/ Unproven(r) /\ moving' \in {moving, moving \cup {r}} /\ UNCHANGED phase
              \/ /\ busy[r] = "no" /\ on[r] = snaps[rollback.at + 1].on
                 /\ rollback' = [rollback EXCEPT !.settling = FALSE, !.waits = 0]
                 /\ UNCHANGED <<phase, known>>
  <1>1. InRollback /\ rollback.settling
    BY DEF RollbackSettles
  <1>2. r \in Records
    BY <1>1, RollbackIs
  <1>. QED BY <1>1, <1>2 DEF RollbackSettles

\* A step of the rollback changes no more than this.
LEMMA RollbackPart ==
    ASSUME BridgeShape, InRollback, UNCHANGED <<session, attached, startup, command, quiesce, sent>>,
           on' \in [Records -> BOOLEAN], busy' \in [Records -> Goals], set' \in [Records -> BOOLEAN],
           rollback' \in Rollback, rollback'.at \in 0..Len(Plan), rollback'.waits <= MaxWait,
           rollback'.settling => /\ rollback'.at < Len(Plan)
                                 /\ Plan[rollback'.at + 1].kind = "active" /\ snaps[rollback'.at + 1] # Nil,
           UNCHANGED rolledBack,
           moving' \subseteq Records, unrestored' \subseteq Records, debt' \subseteq debt,
           phase' \in {"first", "startup", "again", "settle", "poll"}
    PROVE  BridgeShape'
  <1>1. StartupInv'
    BY RollbackIs DEF BridgeShape, StartupInv, startup, Plan, Steps
  <1>. QED BY <1>1, StartupPart DEF BridgeShape, BridgeTypeOK, startup

LEMMA RollbackSettlesKeepsShape ==
    ASSUME BridgeShape, RollbackSettles
    PROVE  BridgeShape'
  <1>. PICK r : r = Plan[rollback.at + 1].record
    OBVIOUS
  <1>1. /\ InRollback /\ rollback.settling /\ r \in Records
        /\ UNCHANGED <<engine, attached, startup, rolledBack, command, quiesce, sent, debt>>
    BY RollbackSettlesTo
  <1>2. /\ on' \in [Records -> BOOLEAN] /\ busy' \in [Records -> Goals] /\ set' \in [Records -> BOOLEAN]
        /\ moving \subseteq Records /\ unrestored \subseteq Records /\ debt' \subseteq debt
        /\ phase \in {"first", "startup", "again"} /\ InStartup
    BY <1>1, RollbackIs DEF BridgeShape, BridgeTypeOK, engine
  <1>3. CASE /\ rollback' = [rollback EXCEPT !.waits = @ + 1] /\ rollback.waits < MaxWait
             /\ Return /\ UNCHANGED known
    <2>1. /\ rollback' \in Rollback /\ rollback'.at = rollback.at
          /\ rollback'.waits <= MaxWait
      BY <1>1, <1>3, RollbackIs, Bounds DEF Rollback
    <2>2. phase' \in {"startup", "settle", "poll"}
      BY <1>2, <1>3, ReturnType
    <2>3. rollback.at < Len(Plan)
      BY <1>1, RollbackIs DEF Steps
    <2>. QED BY <1>1, <1>2, <1>3, <2>1, <2>2, <2>3, RollbackIs, RollbackPart DEF known, engine
  <1>4. CASE Unproven(r) /\ moving' \in {moving, moving \cup {r}} /\ UNCHANGED phase
    <2>1. moving' \subseteq Records
      BY <1>1, <1>2, <1>4
    <2>. QED BY <1>1, <1>2, <1>4, <2>1, UnprovenIs, RollbackPart DEF engine
  <1>5. CASE rollback' = [rollback EXCEPT !.settling = FALSE, !.waits = 0] /\ UNCHANGED <<phase, known>>
    <2>1. rollback' = [at |-> rollback.at, settling |-> FALSE, waits |-> 0, proven |-> rollback.proven]
      BY <1>1, <1>5, RollbackIs DEF Rollback
    <2>2. /\ rollback' \in Rollback /\ rollback'.at = rollback.at /\ ~rollback'.settling
          /\ rollback'.waits <= MaxWait
      BY <1>1, <2>1, RollbackIs, Bounds DEF Rollback
    <2>. QED BY <1>1, <1>2, <1>5, <2>2, RollbackIs, RollbackPart DEF known, engine
  <1>. QED BY <1>3, <1>4, <1>5, RollbackSettlesTo

\* What putting a step back comes to.
LEMMA RollbackActsTo ==
    ASSUME BridgeShape, RollbackActs, NEW i, i = rollback.at, NEW r, r = Plan[i].record
    PROVE  /\ InRollback /\ ~rollback.settling /\ i >= 1 /\ i \in Steps /\ r \in Records
           /\ UNCHANGED <<session, attached, startup, rolledBack, command, quiesce, sent>>
           /\ on' \in [Records -> BOOLEAN] /\ busy' \in [Records -> Goals] /\ set' \in [Records -> BOOLEAN]
           /\ \A x \in Records : x # r => busy'[x] = busy[x] /\ set'[x] = set[x]
           /\ \A x \in Records : on'[x] # on[x] => x = r \/ <<r, x>> \in Wakes
           /\ snaps[i] = Nil \/ Plan[i].kind = "value" => busy' = busy /\ on' = on
           /\ snaps[i] = Nil \/ Plan[i].kind = "active" => set' = set /\ debt' = debt
           /\ debt' \subseteq debt
           /\ \/ /\ rollback' = [rollback EXCEPT !.at = i - 1] /\ UNCHANGED <<phase, known>>
                 /\ snaps[i] # Nil /\ Plan[i].kind = "value" =>
                      /\ set'[r] = snaps[i].set
                      /\ debt' = IF snaps[i].set THEN debt ELSE debt \ {r}
                 /\ snaps[i] # Nil /\ Plan[i].kind = "active" =>
                      on'[r] = snaps[i].on /\ busy'[r] = "no" /\ busy' = busy
              \/ /\ rollback' = [rollback EXCEPT !.at = i - 1, !.settling = TRUE] /\ Return /\ UNCHANGED known
                 /\ snaps[i] # Nil /\ Plan[i].kind = "active" /\ on' = on
              \/ Unproven(r) /\ UNCHANGED <<phase, moving>> /\ debt' = debt /\ on' = on
  <1>1. /\ InRollback /\ ~rollback.settling /\ i >= 1
        /\ UNCHANGED <<session, attached, startup, rolledBack, command, quiesce, sent>>
    BY DEF RollbackActs
  <1>2. i \in Steps /\ r \in Records /\ Plan[i] \in Actions
    <2>1. i \in Steps
      BY <1>1, RollbackIs DEF Steps
    <2>. QED BY <2>1, PlanIs DEF BridgeShape, BridgeTypeOK
  <1>3. on \in [Records -> BOOLEAN] /\ busy \in [Records -> Goals] /\ set \in [Records -> BOOLEAN]
    BY DEF BridgeShape, BridgeTypeOK
  <1>4. CASE snaps[i] = Nil
    <2>1. rollback' = [rollback EXCEPT !.at = i - 1] /\ UNCHANGED <<engine, phase, known, debt>>
      BY <1>4 DEF RollbackActs
    <2>. QED BY <1>1, <1>2, <1>3, <1>4, <2>1 DEF engine
  <1>5. CASE snaps[i] # Nil /\ Plan[i].kind = "value"
    <2>1. /\ UNCHANGED <<on, busy, phase>>
          /\ \/ /\ set' = [set EXCEPT ![r] = snaps[i].set]
                /\ debt' = IF snaps[i].set THEN debt ELSE debt \ {r}
                /\ rollback' = [rollback EXCEPT !.at = i - 1] /\ UNCHANGED known
             \/ Unproven(r) /\ UNCHANGED <<set, moving, debt>>
      BY <1>5 DEF RollbackActs
    <2>2. snaps[i].set \in BOOLEAN
      BY <1>2, <1>5 DEF BridgeShape, BridgeTypeOK, Snapshots
    <2>. QED BY <1>1, <1>2, <1>3, <1>5, <2>1, <2>2
  <1>6. CASE snaps[i] # Nil /\ Plan[i].kind = "active"
    <2>1. PICK how \in Outcomes :
            /\ Written(r, snaps[i].on, how)
            /\ \/ /\ how = "done" /\ rollback' = [rollback EXCEPT !.at = i - 1]
                  /\ UNCHANGED <<phase, known>>
               \/ /\ how = "busy" /\ rollback' = [[rollback EXCEPT !.at = i - 1] EXCEPT !.settling = TRUE]
                  /\ Return /\ UNCHANGED known
               \/ how \in {"declined", "raised", "unread"} /\ Unproven(r) /\ UNCHANGED <<phase, moving>>
      BY <1>6 DEF RollbackActs
    <2>2. UNCHANGED <<set, debt>>
      BY <1>6 DEF RollbackActs
    <2>3. snaps[i].on \in BOOLEAN
      BY <1>2, <1>6 DEF BridgeShape, BridgeTypeOK, Snapshots
    <2>4. /\ on' \in [Records -> BOOLEAN] /\ busy' \in [Records -> Goals]
          /\ \A x \in Records : x # r => busy'[x] = busy[x]
          /\ \A x \in Records : on'[x] # on[x] => x = r \/ <<r, x>> \in Wakes
          /\ how = "done" => on'[r] = snaps[i].on /\ busy[r] = "no" /\ busy' = busy
          /\ how # "done" => on' = on
      BY <2>1, <2>3, <1>2, WrittenIs DEF BridgeShape
    <2>5. [[rollback EXCEPT !.at = i - 1] EXCEPT !.settling = TRUE] = [rollback EXCEPT !.at = i - 1, !.settling = TRUE]
      OBVIOUS
    <2>. QED BY <1>1, <1>2, <1>3, <1>6, <2>1, <2>2, <2>4, <2>5
  <1>. QED BY <1>2, <1>4, <1>5, <1>6 DEF Actions

LEMMA RollbackActsKeepsShape ==
    ASSUME BridgeShape, RollbackActs
    PROVE  BridgeShape'
  <1>. PICK i : i = rollback.at
    OBVIOUS
  <1>. PICK r : r = Plan[i].record
    OBVIOUS
  <1>1. /\ InRollback /\ ~rollback.settling /\ i >= 1 /\ i \in Steps /\ r \in Records
        /\ UNCHANGED <<session, attached, startup, rolledBack, command, quiesce, sent>>
        /\ on' \in [Records -> BOOLEAN] /\ busy' \in [Records -> Goals] /\ set' \in [Records -> BOOLEAN]
    BY RollbackActsTo
  <1>2. /\ rollback \in Rollback /\ rollback.waits <= MaxWait /\ rollback.waits \in Nat
        /\ moving \subseteq Records /\ unrestored \subseteq Records /\ debt \subseteq Records
        /\ phase \in {"first", "startup", "again"} /\ InStartup
    BY <1>1, RollbackIs DEF BridgeShape, BridgeTypeOK
  <1>3. i - 1 \in 0..Len(Plan) /\ i - 1 \in Nat /\ i - 1 < Len(Plan) /\ (i - 1) + 1 = i
    BY <1>1, RollbackIs DEF Steps
  <1>4. CASE rollback' = [rollback EXCEPT !.at = i - 1] /\ UNCHANGED <<phase, known>> /\ debt' \subseteq debt
    <2>1. /\ rollback' \in Rollback /\ rollback'.at = i - 1 /\ ~rollback'.settling
          /\ rollback'.waits <= MaxWait
      BY <1>1, <1>2, <1>3, <1>4 DEF Rollback
    <2>. QED BY <1>1, <1>2, <1>3, <1>4, <2>1, RollbackPart DEF known
  <1>5. CASE /\ rollback' = [rollback EXCEPT !.at = i - 1, !.settling = TRUE] /\ Return /\ UNCHANGED known
             /\ snaps[i] # Nil /\ Plan[i].kind = "active" /\ debt' = debt
    <2>1. rollback' = [at |-> i - 1, settling |-> TRUE, waits |-> rollback.waits, proven |-> rollback.proven]
      BY <1>2, <1>5 DEF Rollback
    <2>2. rollback' \in Rollback /\ rollback'.at = i - 1 /\ rollback'.waits <= MaxWait
      BY <1>2, <1>3, <2>1 DEF Rollback
    <2>3. phase' \in {"startup", "settle", "poll"}
      BY <1>2, <1>5, ReturnType
    <2>. QED BY <1>1, <1>2, <1>3, <1>5, <2>2, <2>3, RollbackPart DEF known
  <1>6. CASE Unproven(r) /\ UNCHANGED <<phase, moving>> /\ debt' = debt
    BY <1>1, <1>2, <1>6, UnprovenIs, RollbackPart
  <1>7. debt' \subseteq debt
    BY RollbackActsTo
  <1>. QED BY <1>4, <1>5, <1>6, <1>7, RollbackActsTo

LEMMA SetActiveKeepsShape ==
    ASSUME BridgeShape, NEW r \in Records, NEW to \in BOOLEAN, SetActive(r, to)
    PROVE  BridgeShape'
  <1>1. /\ command = Nil /\ ~Stopping /\ attached
        /\ sent < session.commands /\ sent' = sent + 1
        /\ UNCHANGED <<session, set, attached, startup, undo, known, quiesce, debt>>
    BY DEF SetActive, OneMoreCommand
  <1>2. PICK how \in Outcomes :
          /\ Written(r, to, how)
          /\ \/ /\ how \in {"busy", "declined"}
                /\ command' = [record |-> r, to |-> to, waits |-> 0, refused |-> how = "declined"]
                /\ phase' = "attach"
             \/ UNCHANGED <<command, phase>>
    BY DEF SetActive
  <1>3. phase = "poll"
    BY DEF SetActive
  <1>4. on' \in [Records -> BOOLEAN] /\ busy' \in [Records -> Goals]
    BY <1>2, WrittenIs DEF BridgeShape
  <1>5. command' # Nil => command' \in Command /\ command'.waits <= MaxWait + MaxGrace
    <2>1. CASE command' = [record |-> r, to |-> to, waits |-> 0, refused |-> how = "declined"]
      <3>1. PICK b \in BOOLEAN : command' = [record |-> r, to |-> to, waits |-> 0, refused |-> b]
        BY <2>1
      <3>. QED BY <3>1, Bounds DEF Command
    <2>2. CASE UNCHANGED command
      BY <1>1, <2>2
    <2>. QED BY <1>2, <2>1, <2>2
  <1>6. sent' \in 0..session.commands
    BY <1>1, PlanIs DEF BridgeShape, BridgeTypeOK
  <1>7. phase' \in {"attach", "poll"}
    BY <1>2, <1>3
  <1>. QED BY <1>1, <1>4, <1>5, <1>6, <1>7, StartupStays
           DEF BridgeShape, BridgeTypeOK, WalkInv, startup, undo, known, quiesce, Plan, Steps

LEMMA InitShape == BridgeInit => BridgeShape
  <1>. SUFFICES ASSUME BridgeInit PROVE BridgeShape
    OBVIOUS
  <1>1. Len(Plan) \in Nat /\ session.commands \in Nat
    BY PlanIs DEF BridgeInit
  <1>2. busy \in [Records -> Goals]
    BY DEF BridgeInit, Goals
  <1>3. snaps \in [Steps -> {Nil} \cup Snapshots] /\ \A j \in Steps : snaps[j] = Nil
    BY DEF BridgeInit
  <1>4. BridgeTypeOK
    <2>1. on \in [Records -> BOOLEAN] /\ set \in [Records -> BOOLEAN] /\ session \in Sessions
      BY DEF BridgeInit
    <2>2. index \in 0..Len(Plan) /\ waits \in 0..MaxWait + 1 /\ sent \in 0..session.commands
      BY <1>1, Bounds DEF BridgeInit
    <2>3. /\ startupPending = Nil /\ rollback = Nil /\ command = Nil /\ run = Nil /\ rolledBack = "nil"
          /\ attached = FALSE /\ applied = FALSE /\ failed = FALSE /\ quiesced = FALSE /\ late = FALSE
          /\ moving = {} /\ unrestored = {} /\ answer = {} /\ debt = {} /\ phase = "attach"
      BY DEF BridgeInit
    <2>. QED BY <1>2, <1>3, <2>1, <2>2, <2>3 DEF BridgeTypeOK
  <1>5. StartupInv /\ WalkInv
    BY <1>3, Bounds DEF BridgeInit, StartupInv, WalkInv
  <1>. QED BY <1>4, <1>5 DEF BridgeShape

LEMMA TimerKeepsShape ==
    ASSUME BridgeShape, Timer
    PROVE  BridgeShape'
  BY AttachKeepsShape, StartupRestsKeepsShape, StartupSettlesKeepsShape, StartupWaitsKeepsShape,
     StartupActsKeepsShape, StartupEndsKeepsShape, RollbackSettlesKeepsShape, RollbackActsKeepsShape,
     RollbackEndsKeepsShape, CommandSettlesKeepsShape, QuiesceTicksKeepsShape, QuiesceDeadlineKeepsShape,
     WalkSettlesKeepsShape, WalkActsKeepsShape, WalkHoldsKeepsShape, WalkLooksAgainKeepsShape,
     SetActiveKeepsShape, SetValueKeepsShape, RetryAttachKeepsShape, QuiesceBeginsKeepsShape, PollEndsKeepsShape
  DEF Timer

LEMMA ShapeStep == BridgeShape /\ [BridgeNext]_bridgeVars => BridgeShape'
  <1>. SUFFICES ASSUME BridgeShape, [BridgeNext]_bridgeVars PROVE BridgeShape'
    OBVIOUS
  <1>1. CASE Timer
    BY <1>1, TimerKeepsShape
  <1>2. CASE \E r \in Records : Finishes(r)
    BY <1>2, FinishesKeepsShape
  <1>3. CASE UNCHANGED bridgeVars
    BY <1>3, StartupStays DEF BridgeShape, BridgeTypeOK, WalkInv, bridgeVars, engine, startup, undo, known, quiesce, Plan, Steps
  <1>. QED BY <1>1, <1>2, <1>3 DEF BridgeNext

\* The bridge's state keeps its shape: a startup waits only for an activation of
\* its next step, which it has a snapshot of; a rollback runs only after a failure
\* and settles only on such a step; no count passes its limit (advanceStartup,
\* advanceRollback, advanceQuiesce).
THEOREM BridgeTypeCorrect == BridgeSpec => []BridgeTypeOK
  <1>1. BridgeSpec => []BridgeShape
    BY InitShape, ShapeStep, PTL DEF BridgeSpec
  <1>2. BridgeShape => BridgeTypeOK
    BY DEF BridgeShape
  <1>. QED BY <1>1, <1>2, PTL

-----------------------------------------------------------------------------
(* A clean answer.                                                         *)

\* The sessions a clean answer is proved for: where a command may leave an
\* activation to Cheat Engine, Cheat Engine answers every reading and its game stays
\* the same process.
Steady == "set_active" \in session.kinds => ~Unreadable /\ ~session.detaches

\* The attach is retried only while the startup waits for nothing and puts nothing
\* back.
RetriedAtRest == RetryAttach => startupPending = Nil /\ rollback = Nil

\* Step j is still to be put back.
Undoes(j) == rollback # Nil /\ j <= rollback.at /\ snaps[j] # Nil

ByStartup(r) == startupPending # Nil /\ ~startupPending.refused /\ Plan[startupPending.at].record = r
ByCommand(r) == command # Nil /\ ~command.refused /\ command.record = r
ByRollback(r) == rollback # Nil /\ rollback.settling /\ Plan[rollback.at + 1].record = r
ToPutBack(r) == \E j \in Steps : Undoes(j) /\ Plan[j].kind = "active" /\ Plan[j].record = r

\* Somebody answers for r coming on.
Answered(r) ==
    \/ r \in unrestored
    \/ r \in moving /\ ~Unreadable
    \/ ByStartup(r) \/ ByCommand(r) \/ ByRollback(r) \/ ToPutBack(r)

ComingInv == \A r \in Records : busy[r] = "on" => Answered(r)

\* A value a failed startup changed is in the list of what it could not restore,
\* or its step is still to be put back.
Owed(r) ==
    \/ r \in unrestored
    \/ \E j \in Steps : Undoes(j) /\ ~snaps[j].set /\ Plan[j].kind = "value" /\ Plan[j].record = r

DebtInv == \A r \in debt : Owed(r)

CommandInv == command # Nil => "set_active" \in session.kinds /\ attached

CleanInv == ComingInv /\ DebtInv /\ CommandInv /\ CleanInTime

\* Work that goes on as it was answers for what it answered for.
LEMMA AnsweredStays ==
    ASSUME NEW r \in Records, Answered(r), busy[r] = "on",
           UNCHANGED <<session, startupPending, command, rollback, snaps>>,
           unrestored \subseteq unrestored', \A x \in moving \ moving' : busy[x] # "on"
    PROVE  Answered(r)'
  BY DEF Answered, ByStartup, ByCommand, ByRollback, ToPutBack, Undoes, Plan, Steps, Unreadable

LEMMA ComingStays ==
    ASSUME ComingInv, UNCHANGED <<session, startupPending, command, rollback, snaps>>,
           \A x \in Records : busy'[x] = "on" => busy[x] = "on",
           unrestored \subseteq unrestored', \A x \in moving \ moving' : busy[x] # "on"
    PROVE  ComingInv'
  BY AnsweredStays DEF ComingInv

LEMMA OwedStays ==
    ASSUME DebtInv, UNCHANGED <<session, failed, rollback, snaps, debt>>, unrestored \subseteq unrestored'
    PROVE  DebtInv'
  BY DEF DebtInv, Owed, Undoes, Plan, Steps

\* While a startup runs forward nothing is being put back.
LEMMA ForwardAnswered ==
    ASSUME BridgeShape, ~failed, NEW r, Answered(r)
    PROVE  r \in unrestored \/ (r \in moving /\ ~Unreadable) \/ ByStartup(r) \/ ByCommand(r)
  BY DEF BridgeShape, StartupInv, Answered, ByRollback, ToPutBack, Undoes

\* A failure leaves every step it has a snapshot of to the rollback.
LEMMA FailLeaves ==
    ASSUME BridgeShape, NEW i \in Steps, NEW values, InStartup, Fail(i, snaps', values), UNCHANGED session,
           \A j \in Steps : snaps'[j] # Nil => j <= i
    PROVE  /\ DebtInv'
           /\ snaps'[i] # Nil /\ Plan[i].kind = "active" => ToPutBack(Plan[i].record)'
  <1>1. /\ failed' = TRUE /\ rollback' # Nil /\ rollback'.at = i /\ debt' = Debts(snaps', values)
    BY FailIs
  <1>2. \A j \in Steps : snaps'[j] # Nil => Undoes(j)'
    BY <1>1 DEF Undoes
  <1>3. DebtInv'
    BY <1>1, <1>2 DEF DebtInv, Debts, Owed, Plan, Steps
  <1>4. i \in Nat /\ i <= i
    BY DEF Steps
  <1>5. snaps'[i] # Nil /\ Plan[i].kind = "active" => ToPutBack(Plan[i].record)'
    BY <1>2 DEF ToPutBack, Plan, Steps
  <1>. QED BY <1>3, <1>5

-----------------------------------------------------------------------------
(* A clean answer, action by action: who answers for what is coming on.    *)

LEMMA StartupSettlesComing ==
    ASSUME BridgeShape, ComingInv, StartupSettles
    PROVE  ComingInv'
  <1>. PICK i : i = startupPending.at
    OBVIOUS
  <1>. PICK r : r = Plan[i].record
    OBVIOUS
  <1>1. /\ InStartup /\ ~failed /\ startupPending # Nil
        /\ UNCHANGED <<engine, attached, waits, snaps, applied, rolledBack, unrestored, command, quiesce, sent>>
    BY StartupSettlesTo
  <1>2. /\ i \in Steps /\ i = index + 1 /\ snaps[i] # Nil /\ Plan[i].kind = "active" /\ startupPending \in Wait
    BY <1>1, PendingIs
  <1>. SUFFICES ASSUME NEW x \in Records, busy'[x] = "on" PROVE Answered(x)'
    BY DEF ComingInv
  <1>3. busy[x] = "on" /\ Answered(x)
    BY <1>1 DEF ComingInv, engine
  <1>4. x \in unrestored \/ (x \in moving /\ ~Unreadable) \/ ByStartup(x) \/ ByCommand(x)
    BY <1>1, <1>3, ForwardAnswered
  <1>5. moving \subseteq moving'
    BY StartupSettlesTo
  <1>6. CASE ~ByStartup(x)
    BY <1>1, <1>4, <1>5, <1>6 DEF Answered, ByCommand, engine, Unreadable
  <1>7. CASE ByStartup(x)
    <2>1. r = x
      BY <1>7 DEF ByStartup
    <2>2. CASE Fail(i, snaps, set)
      <3>1. \A j \in Steps : snaps'[j] # Nil => j <= i
        BY <1>1, <1>2 DEF BridgeShape, StartupInv
      <3>2. Fail(i, snaps', set) /\ UNCHANGED session /\ snaps'[i] # Nil
        BY <1>1, <1>2, <2>2 DEF engine
      <3>3. ToPutBack(r)'
        BY <1>1, <1>2, <2>1, <3>1, <3>2, FailLeaves DEF Plan
      <3>. QED BY <2>1, <3>3 DEF Answered
    <2>3. CASE startupPending' = [startupPending EXCEPT !.waits = @ + 1]
      <3>1. startupPending' \in Wait /\ startupPending'.at = startupPending.at /\ startupPending'.refused = startupPending.refused
        BY <1>1, <2>3, PendingIs DEF Wait
      <3>2. startupPending' # Nil
        BY <3>1, NilAssumption
      <3>. QED BY <1>1, <1>7, <3>1, <3>2 DEF Answered, ByStartup, engine, Plan
    <2>4. CASE busy[r] = "no"
      BY <1>3, <2>1, <2>4
    <2>. QED BY <2>2, <2>3, <2>4, StartupSettlesTo
  <1>. QED BY <1>6, <1>7

LEMMA StartupWaitsComing ==
    ASSUME BridgeShape, ComingInv, StartupWaits
    PROVE  ComingInv'
  <1>1. /\ ~failed /\ startupPending = Nil /\ startupPending' = Nil
        /\ UNCHANGED <<engine, attached, snaps, known, command>>
    BY DEF StartupWaits, Fail
  <1>. SUFFICES ASSUME NEW x \in Records, busy'[x] = "on" PROVE Answered(x)'
    BY DEF ComingInv
  <1>2. Answered(x)
    BY <1>1 DEF ComingInv, engine
  <1>3. x \in unrestored \/ (x \in moving /\ ~Unreadable) \/ ByCommand(x)
    BY <1>1, <1>2, ForwardAnswered DEF ByStartup
  <1>. QED BY <1>1, <1>3 DEF Answered, ByCommand, engine, known, Unreadable

LEMMA StartupActsComing ==
    ASSUME BridgeShape, ComingInv, StartupActs
    PROVE  ComingInv'
  <1>. PICK i : i = index + 1
    OBVIOUS
  <1>. PICK r : r = Plan[i].record
    OBVIOUS
  <1>1. /\ InStartup /\ ~failed /\ startupPending = Nil /\ i \in Steps /\ r \in Records
        /\ UNCHANGED <<session, attached, known, command>>
        /\ snaps' = [snaps EXCEPT ![i] = [on |-> on[r], set |-> set[r]]]
    BY StartupActsTo DEF StartupActs
  <1>. SUFFICES ASSUME NEW x \in Records, busy'[x] = "on" PROVE Answered(x)'
    BY DEF ComingInv
  <1>2. CASE busy[x] = "on"
    <2>1. x \in unrestored \/ (x \in moving /\ ~Unreadable) \/ ByCommand(x)
      BY <1>1, <1>2, ForwardAnswered DEF ByStartup, ComingInv
    <2>. QED BY <1>1, <2>1 DEF Answered, ByCommand, known, Unreadable
  <1>3. CASE busy[x] # "on"
    <2>1. Plan[i].kind = "active"
      BY <1>3, PlanIs, <1>1 DEF StartupActs, Actions, BridgeShape, BridgeTypeOK
    <2>2. PICK how \in Outcomes :
               /\ Written(r, Plan[i].to, how)
               /\ \/ how = "done"
                  \/ /\ how \in {"busy", "declined"}
                     /\ startupPending' = Waiting(i, how = "declined")
                  \/ /\ how \in {"declined", "raised", "unread"}
                     /\ Fail(i, snaps', set')
      BY <2>1 DEF StartupActs
    <2>3. Plan[i].to \in BOOLEAN
      BY <1>1, PlanIs DEF BridgeShape, BridgeTypeOK
    <2>4. x = r /\ how \in {"busy", "unread"}
      BY <1>1, <1>3, <2>2, <2>3, WrittenIs DEF BridgeShape, Outcomes
    <2>5. CASE how = "busy"
      <3>0. startupPending' = Waiting(i, how = "declined") /\ (how = "declined") = FALSE
        BY <2>2, <2>5
      <3>1. startupPending' = [at |-> i, waits |-> 0, refused |-> FALSE]
        BY <3>0 DEF Waiting
      <3>4. i \in Nat
        BY <1>1 DEF Steps
      <3>2. startupPending' \in Wait
        BY <3>1, <3>4 DEF Wait
      <3>3. startupPending' # Nil
        BY <3>2, NilAssumption
      <3>. QED BY <1>1, <2>4, <3>1, <3>3 DEF Answered, ByStartup, Plan
    <2>6. CASE how = "unread"
      <3>1. snaps \in [Steps -> {Nil} \cup Snapshots]
        BY DEF BridgeShape, BridgeTypeOK
      <3>2. on[r] \in BOOLEAN /\ set[r] \in BOOLEAN
        BY <1>1 DEF BridgeShape, BridgeTypeOK
      <3>3. snaps'[i] \in Snapshots
        BY <1>1, <3>1, <3>2 DEF Snapshots
      <3>4. snaps'[i] # Nil
        BY <3>3, NilAssumption
      <3>5. \A j \in Steps : snaps'[j] # Nil => j <= i
        BY <1>1, <3>1 DEF BridgeShape, StartupInv, Steps
      <3>6. Fail(i, snaps', set')
        BY <2>2, <2>6
      <3>7. ToPutBack(r)'
        BY <1>1, <2>1, <3>4, <3>5, <3>6, FailLeaves DEF Plan
      <3>. QED BY <2>4, <3>7 DEF Answered
    <2>. QED BY <2>4, <2>5, <2>6
  <1>. QED BY <1>2, <1>3

\* A restore given up is in the list of what could not be restored.
LEMMA UnprovenAnswers ==
    ASSUME BridgeShape, InRollback, NEW r \in Records, Unproven(r), rollback.settling \/ rollback.at >= 1,
           UNCHANGED <<session, startupPending, command, snaps>>, moving \subseteq moving',
           NEW x \in Records, Answered(x), rollback.settling => Plan[rollback.at + 1].record = r,
           ~rollback.settling => Plan[rollback.at].record = r
    PROVE  Answered(x)'
  <1>1. /\ rollback' # Nil /\ ~rollback'.settling /\ unrestored' = unrestored \cup {r}
        /\ rollback'.at = IF rollback.settling THEN rollback.at ELSE rollback.at - 1
    BY UnprovenIs
  <1>2. CASE x = r
    BY <1>1, <1>2 DEF Answered
  <1>3. CASE x # r
    <2>1. CASE ToPutBack(x)
      <3>1. PICK j \in Steps : Undoes(j) /\ Plan[j].kind = "active" /\ Plan[j].record = x
        BY <2>1 DEF ToPutBack
      <3>2. j <= rollback'.at
        <4>1. rollback.settling \/ j # rollback.at
          BY <1>3, <3>1
        <4>. QED BY <1>1, <3>1, <4>1, RollbackIs DEF Undoes, Steps
      <3>. QED BY <1>1, <3>1, <3>2 DEF Answered, ToPutBack, Undoes, Plan, Steps
    <2>2. CASE ~ToPutBack(x)
      <3>1. ~ByRollback(x)
        BY <1>3 DEF ByRollback
      <3>. QED BY <1>1, <2>2, <3>1 DEF Answered, ByStartup, ByCommand, Plan, Unreadable
    <2>. QED BY <2>1, <2>2
  <1>. QED BY <1>2, <1>3

LEMMA RollbackSettlesComing ==
    ASSUME BridgeShape, ComingInv, RollbackSettles
    PROVE  ComingInv'
  <1>. PICK r : r = Plan[rollback.at + 1].record
    OBVIOUS
  <1>1. /\ InRollback /\ rollback.settling /\ r \in Records
        /\ UNCHANGED <<engine, attached, startup, rolledBack, command, quiesce, sent, debt>>
    BY RollbackSettlesTo
  <1>2. rollback \in Rollback /\ rollback # Nil
    BY <1>1, RollbackIs
  <1>. SUFFICES ASSUME NEW x \in Records, busy'[x] = "on" PROVE Answered(x)'
    BY DEF ComingInv
  <1>3. busy[x] = "on" /\ Answered(x)
    BY <1>1 DEF ComingInv, engine
  <1>4. CASE /\ rollback' = [rollback EXCEPT !.waits = @ + 1] /\ UNCHANGED known
    <2>0. rollback' = [at |-> rollback.at, settling |-> rollback.settling, waits |-> rollback.waits + 1,
                       proven |-> rollback.proven]
      BY <1>2, <1>4 DEF Rollback
    <2>1. rollback' \in Rollback /\ rollback'.at = rollback.at /\ rollback'.settling = rollback.settling
      BY <1>2, <2>0 DEF Rollback
    <2>2. rollback' # Nil
      BY <2>1, NilAssumption
    <2>. QED BY <1>1, <1>2, <1>3, <1>4, <2>1, <2>2
             DEF Answered, ByStartup, ByCommand, ByRollback, ToPutBack, Undoes, engine, startup, known, Plan, Steps, Unreadable
  <1>5. CASE Unproven(r) /\ moving' \in {moving, moving \cup {r}}
    <2>1. moving \subseteq moving'
      BY <1>5
    <2>. QED BY <1>1, <1>3, <1>5, <2>1, UnprovenAnswers DEF engine, startup
  <1>6. CASE /\ busy[r] = "no" /\ rollback' = [rollback EXCEPT !.settling = FALSE, !.waits = 0]
             /\ UNCHANGED known
    <2>1. rollback' = [at |-> rollback.at, settling |-> FALSE, waits |-> 0, proven |-> rollback.proven]
      BY <1>2, <1>6 DEF Rollback
    <2>2. rollback' \in Rollback /\ rollback'.at = rollback.at
      BY <1>2, <2>1 DEF Rollback
    <2>3. rollback' # Nil /\ x # r
      BY <1>3, <1>6, <2>2, NilAssumption
    <2>4. ~ByRollback(x)
      BY <2>3 DEF ByRollback
    <2>. QED BY <1>1, <1>2, <1>3, <1>6, <2>2, <2>3, <2>4
             DEF Answered, ByStartup, ByCommand, ToPutBack, Undoes, engine, startup, known, Plan, Steps, Unreadable
  <1>. QED BY <1>4, <1>5, <1>6, RollbackSettlesTo

LEMMA RollbackActsComing ==
    ASSUME BridgeShape, ComingInv, RollbackActs
    PROVE  ComingInv'
  <1>. PICK i : i = rollback.at
    OBVIOUS
  <1>. PICK r : r = Plan[i].record
    OBVIOUS
  <1>1. /\ InRollback /\ ~rollback.settling /\ i >= 1 /\ i \in Steps /\ r \in Records
        /\ UNCHANGED <<session, attached, startup, rolledBack, command, quiesce, sent>>
        /\ \A x \in Records : x # r => busy'[x] = busy[x]
        /\ snaps[i] = Nil \/ Plan[i].kind = "value" => busy' = busy
    BY RollbackActsTo
  <1>2. rollback \in Rollback /\ rollback # Nil /\ i \in Nat /\ startupPending = Nil
    BY <1>1, RollbackIs
  <1>. SUFFICES ASSUME NEW x \in Records, busy'[x] = "on" PROVE Answered(x)'
    BY DEF ComingInv
  <1>3. CASE rollback' = [rollback EXCEPT !.at = i - 1] /\ UNCHANGED known
             /\ (snaps[i] # Nil /\ Plan[i].kind = "active" => busy'[r] = "no" /\ busy' = busy)
    <2>2. rollback' \in Rollback /\ ~rollback'.settling /\ rollback'.at = i - 1
      BY <1>1, <1>2, <1>3 DEF Rollback
    <2>3. rollback' # Nil
      BY <2>2, NilAssumption
    <2>4. busy' = busy
      BY <1>1, <1>3, PlanIs DEF Actions, BridgeShape, BridgeTypeOK
    <2>5. busy[x] = "on" /\ Answered(x)
      BY <2>4 DEF ComingInv
    <2>6. CASE ToPutBack(x)
      <3>1. PICK j \in Steps : Undoes(j) /\ Plan[j].kind = "active" /\ Plan[j].record = x
        BY <2>6 DEF ToPutBack
      <3>2. j # i
        BY <1>3, <2>4, <2>5, <3>1 DEF Undoes
      <3>3. j <= i - 1
        BY <1>2, <3>1, <3>2 DEF Undoes, Steps
      <3>. QED BY <1>1, <2>2, <2>3, <3>1, <3>3 DEF Answered, ToPutBack, Undoes, startup, Plan, Steps
    <2>7. CASE ~ToPutBack(x)
      <3>1. ~ByRollback(x)
        BY <1>1 DEF ByRollback
      <3>. QED BY <1>1, <1>2, <1>3, <2>5, <2>7, <3>1 DEF Answered, ByStartup, ByCommand, startup, known, Plan, Unreadable
    <2>. QED BY <2>6, <2>7
  <1>4. CASE rollback' = [rollback EXCEPT !.at = i - 1, !.settling = TRUE] /\ UNCHANGED known
    <2>1. rollback' = [at |-> i - 1, settling |-> TRUE, waits |-> rollback.waits, proven |-> rollback.proven]
      BY <1>2, <1>4 DEF Rollback
    <2>2. rollback' \in Rollback /\ rollback'.at = i - 1 /\ rollback'.settling
      BY <1>1, <1>2, <2>1 DEF Rollback
    <2>3. rollback' # Nil /\ rollback'.at + 1 = i
      BY <1>2, <2>2, NilAssumption
    <2>4. CASE x = r
      BY <1>1, <2>2, <2>3, <2>4 DEF Answered, ByRollback, Plan
    <2>5. CASE x # r
      <3>1. busy[x] = "on" /\ Answered(x)
        BY <1>1, <2>5 DEF ComingInv
      <3>2. CASE ToPutBack(x)
        <4>1. PICK j \in Steps : Undoes(j) /\ Plan[j].kind = "active" /\ Plan[j].record = x
          BY <3>2 DEF ToPutBack
        <4>2. j # i
          BY <2>5, <4>1
        <4>3. j <= i - 1
          BY <1>2, <4>1, <4>2 DEF Undoes, Steps
        <4>. QED BY <1>1, <2>2, <2>3, <4>1, <4>3 DEF Answered, ToPutBack, Undoes, startup, Plan, Steps
      <3>3. CASE ~ToPutBack(x)
        <4>1. ~ByRollback(x)
          BY <1>1 DEF ByRollback
        <4>. QED BY <1>1, <1>2, <1>4, <3>1, <3>3, <4>1 DEF Answered, ByStartup, ByCommand, startup, known, Plan, Unreadable
      <3>. QED BY <3>2, <3>3
    <2>. QED BY <2>4, <2>5
  <1>5. CASE Unproven(r) /\ UNCHANGED moving
    <2>1. CASE x = r
      BY <1>1, <1>5, <2>1, UnprovenIs DEF Answered
    <2>2. CASE x # r
      <3>1. Answered(x)
        BY <1>1, <2>2 DEF ComingInv
      <3>. QED BY <1>1, <1>5, <3>1, UnprovenAnswers DEF startup
    <2>. QED BY <2>1, <2>2
  <1>. QED BY <1>3, <1>4, <1>5, RollbackActsTo DEF known

LEMMA RollbackEndsComing ==
    ASSUME BridgeShape, ComingInv, RollbackEnds
    PROVE  ComingInv'
  <1>1. /\ ~rollback.settling /\ rollback.at = 0
        /\ UNCHANGED <<engine, attached, startup, known, command>>
    BY DEF RollbackEnds
  <1>. SUFFICES ASSUME NEW x \in Records, busy'[x] = "on" PROVE Answered(x)'
    BY DEF ComingInv
  <1>2. Answered(x)
    BY <1>1 DEF ComingInv, engine
  <1>3. ~ByRollback(x) /\ ~ToPutBack(x)
    BY <1>1 DEF ByRollback, ToPutBack, Undoes, Steps
  <1>. QED BY <1>1, <1>2, <1>3 DEF Answered, ByStartup, ByCommand, engine, startup, known, Plan, Unreadable

LEMMA CommandSettlesComing ==
    ASSUME BridgeShape, ComingInv, CommandInv, Steady, CommandSettles
    PROVE  ComingInv'
  <1>1. UNCHANGED <<engine, attached, startup, undo, unrestored>>
    BY DEF CommandSettles
  <1>2. command # Nil => attached /\ ~Unreadable /\ command \in Command
    BY DEF CommandInv, Steady, BridgeShape, BridgeTypeOK
  <1>. SUFFICES ASSUME NEW x \in Records, busy'[x] = "on" PROVE Answered(x)'
    BY DEF ComingInv
  <1>3. busy[x] = "on" /\ Answered(x)
    BY <1>1 DEF ComingInv, engine
  <1>4. moving \subseteq moving'
    BY DEF CommandSettles
  <1>5. CASE ~ByCommand(x)
    BY <1>1, <1>3, <1>4, <1>5
    DEF Answered, ByStartup, ByRollback, ToPutBack, Undoes, engine, startup, undo, Plan, Steps, Unreadable
  <1>6. CASE ByCommand(x)
    <2>1. command # Nil /\ ~command.refused /\ command.record = x /\ command.waits \in Nat
      BY <1>2, <1>6 DEF ByCommand, Command
    <2>2. \/ command' = [command EXCEPT !.waits = @ + 1]
          \/ x \in moving'
      BY <1>2, <1>3, <2>1 DEF CommandSettles
    <2>3. CASE command' = [command EXCEPT !.waits = @ + 1]
      <3>1. command' \in Command /\ command'.record = command.record /\ command'.refused = command.refused
        BY <1>2, <2>1, <2>3 DEF Command
      <3>2. command' # Nil
        BY <3>1, NilAssumption
      <3>. QED BY <2>1, <3>1, <3>2 DEF Answered, ByCommand
    <2>4. CASE x \in moving'
      BY <1>1, <1>2, <2>1, <2>4 DEF Answered, engine, Unreadable
    <2>. QED BY <2>2, <2>3, <2>4
  <1>. QED BY <1>5, <1>6

LEMMA SetActiveComing ==
    ASSUME BridgeShape, ComingInv, Steady, NEW r \in Records, NEW to \in BOOLEAN, SetActive(r, to)
    PROVE  ComingInv'
  <1>1. /\ command = Nil /\ ~Unreadable
        /\ UNCHANGED <<session, set, attached, startup, undo, known, quiesce, debt>>
    BY DEF SetActive, Steady
  <1>2. PICK how \in Outcomes :
          /\ Written(r, to, how)
          /\ \/ /\ how \in {"busy", "declined"}
                /\ command' = [record |-> r, to |-> to, waits |-> 0, refused |-> how = "declined"]
             \/ how # "busy"
    BY DEF SetActive
  <1>. SUFFICES ASSUME NEW x \in Records, busy'[x] = "on" PROVE Answered(x)'
    BY DEF ComingInv
  <1>3. CASE busy[x] = "on"
    <2>1. Answered(x) /\ ~ByCommand(x)
      BY <1>1, <1>3 DEF ComingInv, ByCommand
    <2>. QED BY <1>1, <2>1
         DEF Answered, ByStartup, ByRollback, ToPutBack, Undoes, startup, undo, known, Plan, Steps, Unreadable
  <1>4. CASE busy[x] # "on"
    <2>1. x = r /\ how = "busy"
      BY <1>1, <1>2, <1>4, WrittenIs DEF BridgeShape, Outcomes
    <2>2. command' = [record |-> r, to |-> to, waits |-> 0, refused |-> FALSE]
      <3>1. (how = "declined") = FALSE
        BY <2>1
      <3>. QED BY <1>2, <2>1, <3>1
    <2>3. command' \in Command
      BY <2>2 DEF Command
    <2>4. command' # Nil
      BY <2>3, NilAssumption
    <2>. QED BY <2>1, <2>2, <2>4 DEF Answered, ByCommand
  <1>. QED BY <1>3, <1>4

\* The actions that leave the work in flight as it is.
LEMMA QuietComing ==
    ASSUME BridgeShape, ComingInv,
           \/ Attach \/ StartupRests \/ StartupEnds
           \/ QuiesceTicks \/ QuiesceDeadline
           \/ WalkSettles \/ WalkActs \/ WalkHolds \/ WalkLooksAgain
           \/ \E r \in Records : SetValue(r) \/ Finishes(r)
           \/ QuiesceBegins \/ PollEnds \/ UNCHANGED bridgeVars
    PROVE  ComingInv'
  <1>1. UNCHANGED <<session, startupPending, command, rollback, snaps, unrestored>>
    BY DEF Attach, StartupRests, StartupEnds, QuiesceTicks, QuiesceDeadline, WalkSettles, WalkActs, WalkHolds,
           WalkLooksAgain, SetValue, Finishes, QuiesceBegins, PollEnds, bridgeVars, engine, startup, undo, known
  <1>2. \A x \in Records : busy'[x] = "on" => busy[x] = "on"
    <2>1. CASE WalkActs
      <3>1. run # Nil
        BY <2>1 DEF WalkActs, BridgeShape, WalkInv
      <3>2. PICK r \in run.left : UNCHANGED <<on, busy>> \/ \E how \in Outcomes : Written(r, FALSE, how)
        BY <2>1 DEF WalkActs
      <3>3. r \in Records
        BY <3>1, <3>2, RunIs
      <3>. QED BY <3>2, <3>3, WrittenIs DEF BridgeShape, Goal
    <2>2. CASE \E r \in Records : Finishes(r)
      <3>1. busy \in [Records -> Goals]
        BY DEF BridgeShape, BridgeTypeOK
      <3>. QED BY <2>2, <3>1 DEF Finishes
    <2>3. CASE ~WalkActs /\ ~\E r \in Records : Finishes(r)
      <3>1. UNCHANGED busy
        BY <2>3 DEF Attach, StartupRests, StartupEnds, QuiesceTicks, QuiesceDeadline, WalkSettles, WalkHolds,
           WalkLooksAgain, SetValue, QuiesceBegins, PollEnds, bridgeVars, engine
      <3>. QED BY <3>1
    <2>. QED BY <2>1, <2>2, <2>3
  <1>3. \A x \in moving \ moving' : busy[x] # "on"
    <2>1. ASSUME NEW named, Answer(named) PROVE \A x \in moving \ moving' : busy[x] # "on"
      BY <2>1 DEF Answer, Moving
    <2>2. CASE QuiesceTicks \/ QuiesceDeadline \/ WalkLooksAgain
      BY <2>1, <2>2 DEF QuiesceTicks, QuiesceDeadline, WalkLooksAgain
    <2>3. CASE WalkHolds
      BY <2>3 DEF WalkHolds, Moving
    <2>4. CASE ~(QuiesceTicks \/ QuiesceDeadline \/ WalkLooksAgain \/ WalkHolds)
      BY <2>4 DEF Attach, StartupRests, StartupEnds, WalkSettles, WalkActs, SetValue, Finishes,
           QuiesceBegins, PollEnds, bridgeVars, known
    <2>. QED BY <2>2, <2>3, <2>4
  <1>. QED BY <1>1, <1>2, <1>3, ComingStays

LEMMA RetryComing ==
    ASSUME ComingInv, RetryAttach, RetriedAtRest
    PROVE  ComingInv'
  <1>1. /\ startupPending = Nil /\ rollback = Nil /\ UNCHANGED <<engine, known, command>>
    BY DEF RetryAttach, RetriedAtRest
  <1>. QED BY <1>1 DEF ComingInv, Answered, ByStartup, ByCommand, ByRollback, ToPutBack, Undoes, engine, known, Unreadable

LEMMA ComingStep ==
    ASSUME BridgeShape, ComingInv, CommandInv, Steady, [BridgeNext]_bridgeVars, [RetriedAtRest]_bridgeVars
    PROVE  ComingInv'
  <1>1. CASE RetryAttach
    BY <1>1, RetryComing, QuietComing
  <1>. QED BY <1>1, QuietComing, StartupSettlesComing, StartupWaitsComing, StartupActsComing,
       RollbackSettlesComing, RollbackActsComing, RollbackEndsComing, CommandSettlesComing, SetActiveComing
       DEF BridgeNext, Timer

-----------------------------------------------------------------------------
(* A clean answer: what a failed startup changed.                          *)

LEMMA StartupSettlesDebt ==
    ASSUME BridgeShape, DebtInv, StartupSettles
    PROVE  DebtInv'
  <1>. PICK i : i = startupPending.at
    OBVIOUS
  <1>1. /\ InStartup /\ startupPending # Nil
        /\ UNCHANGED <<engine, attached, waits, snaps, applied, rolledBack, unrestored, command, quiesce, sent>>
    BY StartupSettlesTo
  <1>2. CASE Fail(i, snaps, set)
    <2>1. i \in Steps /\ i = index + 1
      BY <1>1, PendingIs
    <2>2. \A j \in Steps : snaps'[j] # Nil => j <= i
      BY <1>1, <2>1 DEF BridgeShape, StartupInv
    <2>3. Fail(i, snaps', set) /\ UNCHANGED session
      BY <1>1, <1>2 DEF engine
    <2>. QED BY <1>1, <2>1, <2>2, <2>3, FailLeaves
  <1>3. CASE UNCHANGED <<failed, rollback, debt>>
    BY <1>1, <1>3, OwedStays DEF engine
  <1>. QED BY <1>2, <1>3, StartupSettlesTo

LEMMA StartupWaitsDebt ==
    ASSUME BridgeShape, DebtInv, StartupWaits
    PROVE  DebtInv'
  <1>1. /\ InStartup /\ ~NothingToStart /\ ~failed /\ index < Len(Plan) /\ UNCHANGED <<engine, snaps, known>>
    BY DEF StartupWaits
  <1>2. CASE Fail(index + 1, snaps, set)
    <2>1. index + 1 \in Steps
      BY <1>1, ForwardIs DEF Steps
    <2>2. \A j \in Steps : snaps'[j] # Nil => j <= index + 1
      BY <1>1 DEF BridgeShape, StartupInv
    <2>3. Fail(index + 1, snaps', set) /\ UNCHANGED session
      BY <1>1, <1>2 DEF engine
    <2>. QED BY <1>1, <2>1, <2>2, <2>3, FailLeaves
  <1>3. CASE UNCHANGED <<failed, rollback, debt>>
    BY <1>1, <1>3, OwedStays DEF engine, known
  <1>. QED BY <1>2, <1>3 DEF StartupWaits

LEMMA StartupActsDebt ==
    ASSUME BridgeShape, DebtInv, StartupActs
    PROVE  DebtInv'
  <1>. PICK i : i = index + 1
    OBVIOUS
  <1>. PICK r : r = Plan[i].record
    OBVIOUS
  <1>1. /\ InStartup /\ ~failed /\ i \in Steps
        /\ UNCHANGED <<session, known>>
        /\ snaps' = [snaps EXCEPT ![i] = [on |-> on[r], set |-> set[r]]]
    BY StartupActsTo
  <1>2. CASE Fail(i, snaps', set')
    <2>1. snaps \in [Steps -> {Nil} \cup Snapshots]
      BY DEF BridgeShape, BridgeTypeOK
    <2>2. \A j \in Steps : snaps'[j] # Nil => j <= i
      BY <1>1, <2>1 DEF BridgeShape, StartupInv, Steps
    <2>. QED BY <1>1, <1>2, <2>2, FailLeaves
  <1>3. CASE UNCHANGED <<rollback, debt>>
    <2>1. rollback = Nil
      BY <1>1 DEF BridgeShape, StartupInv
    <2>. QED BY <1>1, <1>3, <2>1 DEF DebtInv, Owed, Undoes, known
  <1>. QED BY <1>2, <1>3, StartupActsTo

LEMMA RollbackSettlesDebt ==
    ASSUME BridgeShape, DebtInv, RollbackSettles
    PROVE  DebtInv'
  <1>. PICK r : r = Plan[rollback.at + 1].record
    OBVIOUS
  <1>1. /\ InRollback /\ rollback.settling /\ r \in Records
        /\ UNCHANGED <<engine, attached, startup, rolledBack, command, quiesce, sent, debt>>
    BY RollbackSettlesTo
  <1>2. rollback \in Rollback /\ rollback # Nil /\ failed
    BY <1>1, RollbackIs
  <1>3. unrestored \subseteq unrestored'
    BY DEF RollbackSettles, Unproven, known
  <1>4. rollback' # Nil /\ rollback'.at = rollback.at
    <2>1. CASE rollback' = [rollback EXCEPT !.waits = @ + 1]
      <3>1. rollback' = [at |-> rollback.at, settling |-> rollback.settling, waits |-> rollback.waits + 1,
                         proven |-> rollback.proven]
        BY <1>2, <2>1 DEF Rollback
      <3>2. rollback' \in Rollback
        BY <1>2, <3>1 DEF Rollback
      <3>. QED BY <3>1, <3>2, NilAssumption
    <2>2. CASE Unproven(r)
      BY <1>1, <2>2, UnprovenIs
    <2>3. CASE rollback' = [rollback EXCEPT !.settling = FALSE, !.waits = 0]
      <3>1. rollback' = [at |-> rollback.at, settling |-> FALSE, waits |-> 0, proven |-> rollback.proven]
        BY <1>2, <2>3 DEF Rollback
      <3>2. rollback' \in Rollback
        BY <1>2, <3>1 DEF Rollback
      <3>. QED BY <3>1, <3>2, NilAssumption
    <2>. QED BY <2>1, <2>2, <2>3, RollbackSettlesTo
  <1>. QED BY <1>1, <1>2, <1>3, <1>4 DEF DebtInv, Owed, Undoes, engine, startup, Plan, Steps

LEMMA RollbackActsDebt ==
    ASSUME BridgeShape, DebtInv, RollbackActs
    PROVE  DebtInv'
  <1>. PICK i : i = rollback.at
    OBVIOUS
  <1>. PICK r : r = Plan[i].record
    OBVIOUS
  <1>1. /\ InRollback /\ ~rollback.settling /\ i >= 1 /\ i \in Steps /\ r \in Records /\ debt' \subseteq debt
        /\ UNCHANGED <<session, attached, startup, rolledBack, command, quiesce, sent>>
    BY RollbackActsTo
  <1>2. rollback \in Rollback /\ rollback # Nil /\ i \in Nat /\ failed
    BY <1>1, RollbackIs
  <1>3. unrestored \subseteq unrestored'
    BY DEF RollbackActs, Unproven, known
  <1>4. rollback' # Nil /\ rollback'.at = i - 1
    <2>1. CASE rollback' = [rollback EXCEPT !.at = i - 1]
      <3>1. rollback' \in Rollback /\ rollback'.at = i - 1
        BY <1>1, <1>2, <2>1 DEF Rollback
      <3>. QED BY <3>1, NilAssumption
    <2>2. CASE rollback' = [rollback EXCEPT !.at = i - 1, !.settling = TRUE]
      <3>1. rollback' = [at |-> i - 1, settling |-> TRUE, waits |-> rollback.waits, proven |-> rollback.proven]
        BY <1>2, <2>2 DEF Rollback
      <3>2. rollback' \in Rollback
        BY <1>1, <1>2, <3>1 DEF Rollback
      <3>. QED BY <3>1, <3>2, NilAssumption
    <2>3. CASE Unproven(r)
      BY <1>1, <2>3, UnprovenIs
    <2>. QED BY <2>1, <2>2, <2>3, RollbackActsTo
  <1>5. ASSUME NEW x \in debt' PROVE Owed(x)'
    <2>1. Owed(x)
      BY <1>1, <1>5 DEF DebtInv
    <2>2. CASE x \in unrestored
      BY <1>3, <2>2 DEF Owed
    <2>3. ASSUME NEW j \in Steps, Undoes(j), ~snaps[j].set, Plan[j].kind = "value", Plan[j].record = x, j # i
          PROVE  Owed(x)'
      <3>1. j <= i - 1
        BY <1>2, <2>3 DEF Undoes, Steps
      <3>. QED BY <1>1, <1>4, <2>3, <3>1 DEF Owed, Undoes, startup, Plan, Steps
    <2>4. CASE Undoes(i) /\ ~snaps[i].set /\ Plan[i].kind = "value" /\ Plan[i].record = x
      <3>1. snaps[i] # Nil /\ x = r
        BY <2>4 DEF Undoes
      <3>2. Unproven(r) \/ debt' = debt \ {r}
        BY <2>4, <3>1, RollbackActsTo
      <3>3. Unproven(r)
        BY <1>5, <3>1, <3>2
      <3>. QED BY <3>1, <3>3 DEF Unproven, Owed
    <2>. QED BY <2>1, <2>2, <2>3, <2>4 DEF Owed
  <1>. QED BY <1>1, <1>2, <1>5 DEF DebtInv, startup

LEMMA RollbackEndsDebt ==
    ASSUME BridgeShape, DebtInv, RollbackEnds
    PROVE  DebtInv'
  <1>1. rollback.at = 0 /\ failed /\ UNCHANGED <<engine, startup, known, debt>>
    BY DEF RollbackEnds, InRollback
  <1>. QED BY <1>1 DEF DebtInv, Owed, Undoes, engine, startup, known, Steps

LEMMA DebtStep ==
    ASSUME BridgeShape, DebtInv, [BridgeNext]_bridgeVars, [RetriedAtRest]_bridgeVars
    PROVE  DebtInv'
  <1>1. CASE RetryAttach /\ RetriedAtRest
    <2>1. rollback = Nil /\ UNCHANGED <<debt, unrestored>>
      BY <1>1 DEF RetryAttach, RetriedAtRest, known
    <2>. QED BY <2>1 DEF DebtInv, Owed, Undoes
  <1>2. CASE \/ Attach \/ StartupRests \/ StartupEnds \/ CommandSettles
             \/ QuiesceTicks \/ QuiesceDeadline
             \/ WalkSettles \/ WalkActs \/ WalkHolds \/ WalkLooksAgain
             \/ \E r \in Records, to \in BOOLEAN : SetActive(r, to)
             \/ \E r \in Records : SetValue(r) \/ Finishes(r)
             \/ QuiesceBegins \/ PollEnds \/ UNCHANGED bridgeVars
    <2>1. UNCHANGED <<session, failed, rollback, snaps, debt, unrestored>>
      BY <1>2 DEF Attach, StartupRests, StartupEnds, CommandSettles, QuiesceTicks, QuiesceDeadline, WalkSettles, WalkActs, WalkHolds,
           WalkLooksAgain, SetActive, SetValue, Finishes, QuiesceBegins, PollEnds, bridgeVars, engine, startup, undo, known
    <2>. QED BY <2>1, OwedStays
  <1>. QED BY <1>1, <1>2, StartupSettlesDebt, StartupWaitsDebt, StartupActsDebt,
       RollbackSettlesDebt, RollbackActsDebt, RollbackEndsDebt
       DEF BridgeNext, Timer

-----------------------------------------------------------------------------
(* A clean answer: the answer.                                             *)

LEMMA CommandStep ==
    ASSUME CommandInv, Steady, [BridgeNext]_bridgeVars
    PROVE  CommandInv'
  <1>1. CASE RetryAttach
    BY <1>1 DEF RetryAttach, CommandInv
  <1>2. UNCHANGED session
    BY SessionStays
  <1>3. CASE Attach
    BY <1>2, <1>3 DEF Attach, CommandInv, Steady
  <1>4. CASE CommandSettles
    BY <1>2, <1>4 DEF CommandSettles, CommandInv
  <1>5. CASE \E r \in Records, to \in BOOLEAN : SetActive(r, to)
    BY <1>2, <1>5 DEF SetActive, CommandInv
  <1>6. CASE ~Attach /\ ~CommandSettles /\ ~RetryAttach /\ ~\E r \in Records, to \in BOOLEAN : SetActive(r, to)
    <2>1. UNCHANGED <<attached, command>>
      BY <1>6 DEF BridgeNext, Timer, StartupRests, StartupSettles, StartupWaits, StartupActs,
         StartupEnds, RollbackSettles, RollbackActs, RollbackEnds, QuiesceTicks, QuiesceDeadline,
         WalkSettles, WalkActs, WalkHolds, WalkLooksAgain, SetValue, QuiesceBegins, PollEnds, Finishes, bridgeVars
    <2>. QED BY <1>2, <2>1 DEF CommandInv
  <1>. QED BY <1>1, <1>3, <1>4, <1>5, <1>6

\* After an answer nothing of the bridge's own changes the game again, and what
\* Cheat Engine was still putting down goes down.
LEMMA PutBackStays ==
    ASSUME BridgeShape, quiesced, PutBack, [BridgeNext]_bridgeVars
    PROVE  PutBack'
  <1>1. NothingToStart /\ Stopping
    BY DEF NothingToStart, Stopping
  <1>2. on \in [Records -> BOOLEAN] /\ busy \in [Records -> Goals]
    BY DEF BridgeShape, BridgeTypeOK
  <1>3. CASE WalkActs
    <2>1. run # Nil
      BY <1>3 DEF WalkActs, BridgeShape, WalkInv
    <2>2. run.left \subseteq Records
      BY <2>1, RunIs
    <2>3. UNCHANGED <<on, busy, debt>>
      BY <1>3, <2>2 DEF WalkActs, PutBack
    <2>. QED BY <2>3 DEF PutBack
  <1>4. ASSUME NEW r \in Records, Finishes(r)
        PROVE  PutBack'
    <2>1. on' = on
      <3>1. CASE busy[r] = "no"
        BY <1>4, <3>1 DEF Finishes
      <3>2. CASE busy[r] = "off"
        <4>1. (busy[r] = "on") = FALSE /\ on[r] = FALSE
          BY <1>2, <3>2 DEF PutBack
        <4>2. on' \in After(r, FALSE) \cup {on}
          BY <1>4, <4>1 DEF Finishes
        <4>. QED BY <4>1, <4>2 DEF After
      <3>. QED BY <1>2, <3>1, <3>2 DEF PutBack, Goals
    <2>. QED BY <1>2, <1>4, <2>1 DEF Finishes, PutBack
  <1>5. CASE ~WalkActs /\ ~\E r \in Records : Finishes(r)
    <2>1. UNCHANGED <<on, busy, debt>>
      BY <1>1, <1>5 DEF BridgeNext, Timer, Attach, StartupRests, StartupSettles, StartupWaits, StartupActs,
         StartupEnds, InRollback, RollbackSettles, RollbackActs, RollbackEnds, CommandSettles, QuiesceTicks,
         QuiesceDeadline, WalkSettles, WalkHolds, WalkLooksAgain, SetActive, SetValue, RetryAttach,
         QuiesceBegins, PollEnds, bridgeVars, engine
    <2>. QED BY <2>1 DEF PutBack
  <1>. QED BY <1>3, <1>4, <1>5

\* An answer the walk reaches and that names nothing.
LEMMA WalkAnswers ==
    ASSUME BridgeShape, ComingInv, DebtInv, WalkLooksAgain, answer' # answer \/ quiesced' # quiesced \/ late' # late,
           answer' = {}
    PROVE  PutBack'
  <1>1. UNCHANGED <<engine, unrestored, debt>> /\ run # Nil
    BY DEF WalkLooksAgain, BridgeShape, WalkInv
  <1>2. PICK unread \in Unreads : ~Held(unread)
    BY DEF WalkLooksAgain
  <1>3. PICK hidden \in (IF Unreadable THEN SUBSET Records ELSE {{}}) :
         LET named == run.named \cup (IF hidden = {} THEN {} ELSE {"unread"})
             left == {r \in Records \ (hidden \cup run.named) : on[r]} IN
         Answer(named \cup left)
    BY DEF WalkLooksAgain
  <1>4. /\ unrestored = {} /\ run.named = {} /\ hidden = {}
        /\ {r \in Records \ (hidden \cup run.named) : on[r]} = {}
    BY <1>3 DEF Answer
  <1>5. \A r \in Records : ~on[r]
    BY <1>4
  <1>6. startupPending = Nil /\ command = Nil /\ rollback = Nil /\ Moving(unread) = {}
    BY <1>2 DEF Held
  <1>7. debt = {}
    BY <1>4, <1>6 DEF DebtInv, Owed, Undoes
  <1>8. ASSUME NEW r \in Records, busy[r] = "on"
        PROVE  FALSE
    <2>1. r \in moving /\ ~Unreadable
      BY <1>4, <1>6, <1>8 DEF ComingInv, Answered, ByStartup, ByCommand, ByRollback, ToPutBack, Undoes
    <2>2. unread = {}
      BY <1>2, <2>1 DEF Unreads
    <2>. QED BY <1>6, <1>8, <2>1, <2>2 DEF Moving
  <1>. QED BY <1>1, <1>5, <1>7, <1>8 DEF PutBack, engine

LEMMA CleanStep ==
    ASSUME BridgeShape, CleanInv, [BridgeNext]_bridgeVars
    PROVE  CleanInTime'
  <1>. SUFFICES ASSUME quiesced', answer' = {}, ~late' PROVE PutBack'
    BY DEF CleanInTime
  <1>1. CASE UNCHANGED <<quiesced, answer, late>>
    BY <1>1, PutBackStays DEF CleanInv, CleanInTime
  <1>2. CASE ~UNCHANGED <<quiesced, answer, late>>
    <2>1. QuiesceTicks \/ QuiesceDeadline \/ WalkLooksAgain
      BY <1>2 DEF BridgeNext, Timer, Attach, StartupRests, StartupSettles, StartupWaits, StartupActs,
         StartupEnds, RollbackSettles, RollbackActs, RollbackEnds, CommandSettles, QuiesceTicks,
         QuiesceDeadline, WalkSettles, WalkActs, WalkHolds, WalkLooksAgain, SetActive, SetValue, RetryAttach,
         QuiesceBegins, PollEnds, Finishes, bridgeVars, quiesce
    <2>2. ~QuiesceDeadline
      BY DEF QuiesceDeadline
    <2>3. ~QuiesceTicks
      <3>1. ~Answer(run.named \cup {"detached"})
        BY DEF Answer
      <3>. QED BY <1>2, <3>1 DEF QuiesceTicks, quiesce
    <2>. QED BY <1>2, <2>1, <2>2, <2>3, WalkAnswers DEF CleanInv
  <1>. QED BY <1>1, <1>2

LEMMA CleanInit == BridgeInit => CleanInv
  BY DEF BridgeInit, CleanInv, ComingInv, DebtInv, CommandInv, CleanInTime

\* In every steady session whose attach is retried only at rest, an answer that
\* names nothing and was reached before the deadline is true: nothing is on in the
\* game, nothing is coming on, and no value a failed startup changed is still
\* changed (advanceQuiesce, advanceRollback).
THEOREM CleanAnswerIsTrue ==
    BridgeSpec /\ [][RetriedAtRest]_bridgeVars => [](Steady => CleanInTime)
  <1>. DEFINE CleanShape == BridgeShape /\ (Steady => CleanInv)
  <1>1. BridgeInit => CleanShape
    BY InitShape, CleanInit
  <1>2. CleanShape /\ [BridgeNext]_bridgeVars /\ [RetriedAtRest]_bridgeVars => CleanShape'
    <2>. SUFFICES ASSUME CleanShape, [BridgeNext]_bridgeVars, [RetriedAtRest]_bridgeVars PROVE CleanShape'
      OBVIOUS
    <2>1. BridgeShape'
      BY ShapeStep
    <2>2. ASSUME Steady' PROVE CleanInv'
      <3>1. Steady /\ CleanInv
        BY <2>2, SessionStays DEF Steady, Unreadable
      <3>. QED BY <3>1, ComingStep, DebtStep, CommandStep, CleanStep DEF CleanInv
    <2>. QED BY <2>1, <2>2
  <1>3. CleanShape => (Steady => CleanInTime)
    BY DEF CleanInv
  <1>. QED BY <1>1, <1>2, <1>3, PTL DEF BridgeSpec

-----------------------------------------------------------------------------
(* A proven rollback.                                                      *)

\* No two steps of a kind are of one record, and nothing that is put down switches
\* the record of an activation on.
Apart ==
    /\ \A i, j \in Steps : Plan[i].kind = Plan[j].kind /\ Plan[i].record = Plan[j].record => i = j
    /\ \A i \in Steps, r \in Records : Plan[i].kind = "active" => <<r, Plan[i].record>> \notin Wakes

\* No command is executed while a rollback is under way.
Undisturbed == rollback # Nil => sent' = sent

\* Step j is the way its snapshot has it.
Restored(j) ==
    LET r == Plan[j].record IN
    IF Plan[j].kind = "value" THEN set[r] = snaps[j].set
    ELSE on[r] = snaps[j].on /\ busy[r] = "no"

\* Step j is behind the rollback.
Behind(j) == snaps[j] # Nil /\ j > rollback.at /\ ~(rollback.settling /\ j = rollback.at + 1)

\* As long as a rollback can still call itself proven, what is behind it is
\* restored.
ProvenInv ==
    rollback # Nil /\ rollback.proven /\ ~Stopping => \A j \in Steps : Behind(j) => Restored(j)

\* A stop is not taken back.
LEMMA StoppingStays ==
    ASSUME BridgeShape, Stopping, [BridgeNext]_bridgeVars
    PROVE  Stopping'
  <1>1. CASE QuiesceTicks
    <2>1. CASE quiesced'
      BY <2>1 DEF Stopping
    <2>2. CASE ~quiesced'
      <3>1. BridgeShape'
        BY <1>1, QuiesceTicksKeepsShape
      <3>2. UNCHANGED quiesced
        BY <1>1, <2>2 DEF QuiesceTicks, Answer, quiesce
      <3>3. run # Nil
        BY <2>2, <3>2 DEF Stopping
      <3>4. phase' = "walk"
        BY <1>1, <2>2, <3>3 DEF QuiesceTicks, Answer
      <3>. QED BY <3>1, <3>4 DEF BridgeShape, WalkInv, Stopping
    <2>. QED BY <2>1, <2>2
  <1>2. CASE QuiesceDeadline
    BY <1>2 DEF QuiesceDeadline, Answer, Stopping
  <1>3. CASE WalkSettles \/ WalkActs \/ WalkLooksAgain
    BY <1>3, WalkSettlesKeepsShape, WalkActsKeepsShape, WalkLooksAgainKeepsShape
  <1>4. CASE QuiesceBegins
    BY <1>4 DEF QuiesceBegins, Stopping
  <1>5. CASE ~(QuiesceTicks \/ QuiesceDeadline \/ WalkSettles \/ WalkActs \/ WalkLooksAgain \/ QuiesceBegins)
    <2>1. UNCHANGED <<run, quiesced>>
      BY <1>5 DEF BridgeNext, Timer, Attach, StartupRests, StartupSettles, StartupWaits, StartupActs,
         StartupEnds, RollbackSettles, RollbackActs, RollbackEnds, CommandSettles, WalkHolds, SetActive,
         SetValue, RetryAttach, PollEnds, Finishes, bridgeVars, quiesce
    <2>. QED BY <2>1 DEF Stopping
  <1>. QED BY <1>1, <1>2, <1>3, <1>4, <1>5

\* A rollback begins with nothing behind it.
LEMMA FailProven ==
    ASSUME BridgeShape, NEW i \in Steps, NEW shots, NEW values, InStartup, Fail(i, shots, values), UNCHANGED session,
           \A j \in Steps : snaps'[j] # Nil => j <= i
    PROVE  ProvenInv'
  <1>1. rollback'.at = i
    BY FailIs
  <1>2. \A j \in Steps : ~Behind(j)'
    BY <1>1 DEF Behind, Steps
  <1>. QED BY <1>2 DEF ProvenInv, Steps, Plan

\* Where the rollback and what it has behind it stay as they were.
LEMMA ProvenStays ==
    ASSUME ProvenInv, UNCHANGED <<session, rollback, snaps>>, Stopping => Stopping',
           \A j \in Steps : rollback # Nil /\ Restored(j) => Restored(j)'
    PROVE  ProvenInv'
  BY DEF ProvenInv, Behind, Steps, Plan

LEMMA FinishesRestored ==
    ASSUME BridgeShape, Apart, NEW r \in Records, Finishes(r), NEW j \in Steps, Restored(j)
    PROVE  Restored(j)'
  <1>. PICK x : x = Plan[j].record
    OBVIOUS
  <1>1. /\ busy[r] # "no" /\ on' \in After(r, busy[r] = "on") \cup {on}
        /\ busy' = [busy EXCEPT ![r] = "no"] /\ UNCHANGED <<session, set, snaps>>
    BY DEF Finishes, startup
  <1>2. on \in [Records -> BOOLEAN] /\ busy \in [Records -> Goals] /\ x \in Records
    BY PlanIs DEF BridgeShape, BridgeTypeOK
  <1>3. CASE Plan[j].kind = "value"
    BY <1>1, <1>3 DEF Restored, Plan
  <1>4. CASE Plan[j].kind = "active"
    <2>1. on[x] = snaps[j].on /\ busy[x] = "no" /\ x # r
      BY <1>1, <1>4 DEF Restored
    <2>2. <<r, x>> \notin Wakes
      BY <1>4 DEF Apart
    <2>3. on'[x] = on[x]
      <3>1. PICK to \in BOOLEAN : on' \in After(r, to) \cup {on}
        BY <1>1
      <3>2. CASE on[r] # to /\ ~to
        <4>1. CASE on' = on
          BY <4>1
        <4>2. CASE on' # on
          <5>1. PICK woken \in SUBSET {y \in Records : <<r, y>> \in Wakes} :
                  on' = [y \in Records |-> y # r /\ (on[y] \/ y \in woken)]
            BY <3>1, <3>2, <4>2 DEF After
          <5>. QED BY <5>1, <1>2, <2>1, <2>2
        <4>. QED BY <4>1, <4>2
      <3>. QED BY <3>1, <3>2, <1>2, <2>1 DEF After
    <2>. QED BY <1>1, <1>2, <1>4, <2>1, <2>3 DEF Restored, Plan
  <1>. QED BY <1>3, <1>4, PlanIs DEF Actions, BridgeShape, BridgeTypeOK

\* Putting one step back leaves the other steps as they are.
LEMMA ActsRestored ==
    ASSUME BridgeShape, Apart, RollbackActs, NEW j \in Steps, j # rollback.at, Restored(j)
    PROVE  Restored(j)'
  <1>. PICK i : i = rollback.at
    OBVIOUS
  <1>. PICK r : r = Plan[i].record
    OBVIOUS
  <1>. PICK x : x = Plan[j].record
    OBVIOUS
  <1>1. /\ i \in Steps /\ r \in Records /\ UNCHANGED <<session, startup>>
        /\ \A y \in Records : y # r => busy'[y] = busy[y] /\ set'[y] = set[y]
        /\ \A y \in Records : on'[y] # on[y] => y = r \/ <<r, y>> \in Wakes
        /\ snaps[i] = Nil \/ Plan[i].kind = "value" => busy' = busy /\ on' = on
        /\ snaps[i] = Nil \/ Plan[i].kind = "active" => set' = set
    BY RollbackActsTo
  <1>2. x \in Records /\ Plan[i].kind \in {"active", "value"} /\ Plan[j].kind \in {"active", "value"}
    BY <1>1, PlanIs DEF Actions, BridgeShape, BridgeTypeOK
  <1>3. Plan[i].kind = Plan[j].kind => x # r
    BY <1>1 DEF Apart
  <1>4. CASE Plan[j].kind = "value"
    BY <1>1, <1>2, <1>3, <1>4 DEF Restored, startup, Plan
  <1>5. CASE Plan[j].kind = "active"
    <2>1. <<r, x>> \notin Wakes
      BY <1>1, <1>5 DEF Apart
    <2>2. on'[x] = on[x] /\ busy'[x] = busy[x]
      BY <1>1, <1>2, <1>3, <1>5, <2>1
    <2>. QED BY <1>1, <1>5, <2>2 DEF Restored, startup, Plan
  <1>. QED BY <1>2, <1>4, <1>5

LEMMA RollbackActsProven ==
    ASSUME BridgeShape, Apart, ProvenInv, RollbackActs
    PROVE  ProvenInv'
  <1>. PICK i : i = rollback.at
    OBVIOUS
  <1>. PICK r : r = Plan[i].record
    OBVIOUS
  <1>1. /\ InRollback /\ ~rollback.settling /\ i >= 1 /\ i \in Steps /\ r \in Records
        /\ UNCHANGED <<session, attached, startup, rolledBack, command, quiesce, sent>>
    BY RollbackActsTo
  <1>2. rollback \in Rollback /\ rollback # Nil /\ i \in Nat
    BY <1>1, RollbackIs
  <1>. SUFFICES ASSUME rollback' # Nil, rollback'.proven, ~Stopping', NEW j \in Steps', Behind(j)'
                PROVE  Restored(j)'
    BY DEF ProvenInv
  <1>3. ~Stopping /\ j \in Steps /\ j \in Nat
    BY <1>1 DEF Stopping, quiesce, Steps, Plan
  <1>4. snaps[j] # Nil
    BY <1>1 DEF Behind, startup
  <1>5. ASSUME rollback.proven, j > i PROVE Restored(j)'
    <2>1. Behind(j)
      BY <1>1, <1>4, <1>5 DEF Behind
    <2>2. Restored(j)
      BY <1>2, <1>3, <1>5, <2>1 DEF ProvenInv
    <2>3. j # rollback.at
      BY <1>2, <1>3, <1>5
    <2>. QED BY <1>3, <2>2, <2>3, ActsRestored
  <1>6. CASE /\ rollback' = [rollback EXCEPT !.at = i - 1]
             /\ snaps[i] # Nil /\ Plan[i].kind = "value" => set'[r] = snaps[i].set
             /\ snaps[i] # Nil /\ Plan[i].kind = "active" => on'[r] = snaps[i].on /\ busy'[r] = "no"
    <2>1. rollback'.at = i - 1 /\ rollback.proven
      BY <1>2, <1>6 DEF Rollback
    <2>2. j >= i
      BY <1>2, <1>3, <2>1 DEF Behind
    <2>3. CASE j = i
      <3>1. Plan[i].kind \in {"active", "value"}
        BY <1>1, PlanIs DEF Actions, BridgeShape, BridgeTypeOK
      <3>. QED BY <1>1, <1>4, <1>6, <2>3, <3>1 DEF Restored, startup, Plan
    <2>. QED BY <1>2, <1>3, <1>5, <2>1, <2>2, <2>3
  <1>7. CASE rollback' = [rollback EXCEPT !.at = i - 1, !.settling = TRUE]
    <2>1. rollback' = [at |-> i - 1, settling |-> TRUE, waits |-> rollback.waits, proven |-> rollback.proven]
      BY <1>2, <1>7 DEF Rollback
    <2>2. j > i
      BY <1>2, <1>3, <2>1 DEF Behind
    <2>. QED BY <1>5, <2>1, <2>2
  <1>8. CASE Unproven(r)
    BY <1>1, <1>8, UnprovenIs
  <1>. QED BY <1>6, <1>7, <1>8, RollbackActsTo

LEMMA RollbackSettlesProven ==
    ASSUME BridgeShape, ProvenInv, RollbackSettles
    PROVE  ProvenInv'
  <1>. PICK r : r = Plan[rollback.at + 1].record
    OBVIOUS
  <1>1. /\ InRollback /\ rollback.settling /\ r \in Records
        /\ UNCHANGED <<engine, attached, startup, rolledBack, command, quiesce, sent, debt>>
    BY RollbackSettlesTo
  <1>2. /\ rollback \in Rollback /\ rollback # Nil /\ rollback.at \in Nat
        /\ rollback.at + 1 \in Steps /\ Plan[rollback.at + 1].kind = "active"
    BY <1>1, RollbackIs
  <1>. SUFFICES ASSUME rollback' # Nil, rollback'.proven, ~Stopping', NEW j \in Steps', Behind(j)'
                PROVE  Restored(j)'
    BY DEF ProvenInv
  <1>3. ~Stopping /\ j \in Steps /\ snaps[j] # Nil
    BY <1>1 DEF Stopping, quiesce, engine, startup, Steps, Plan, Behind
  <1>4. ASSUME rollback.proven, Behind(j) PROVE Restored(j)'
    <2>1. Restored(j)
      BY <1>2, <1>3, <1>4 DEF ProvenInv
    <2>. QED BY <1>1, <2>1 DEF Restored, engine, startup, Plan
  <1>5. CASE rollback' = [rollback EXCEPT !.waits = @ + 1]
    <2>1. rollback' = [at |-> rollback.at, settling |-> rollback.settling, waits |-> rollback.waits + 1,
                       proven |-> rollback.proven]
      BY <1>2, <1>5 DEF Rollback
    <2>2. Behind(j) /\ rollback.proven
      BY <1>3, <2>1 DEF Behind
    <2>. QED BY <1>4, <2>2
  <1>6. CASE Unproven(r)
    BY <1>1, <1>6, UnprovenIs
  <1>7. CASE /\ busy[r] = "no" /\ on[r] = snaps[rollback.at + 1].on
             /\ rollback' = [rollback EXCEPT !.settling = FALSE, !.waits = 0]
    <2>1. rollback' = [at |-> rollback.at, settling |-> FALSE, waits |-> 0, proven |-> rollback.proven]
      BY <1>2, <1>7 DEF Rollback
    <2>2. rollback.proven /\ j > rollback.at
      BY <2>1 DEF Behind
    <2>3. CASE j = rollback.at + 1
      BY <1>1, <1>2, <1>7, <2>3 DEF Restored, engine, startup, Plan
    <2>4. CASE j # rollback.at + 1
      BY <1>3, <1>4, <2>2, <2>4 DEF Behind
    <2>. QED BY <2>3, <2>4
  <1>. QED BY <1>5, <1>6, <1>7, RollbackSettlesTo

LEMMA StartupProven ==
    ASSUME BridgeShape, StartupSettles \/ StartupWaits \/ StartupActs
    PROVE  ProvenInv'
  <1>1. UNCHANGED session
    BY DEF StartupSettles, StartupWaits, StartupActs, engine
  <1>2. rollback = Nil /\ InStartup
    BY DEF StartupSettles, StartupWaits, StartupActs, BridgeShape, StartupInv
  <1>3. CASE rollback' = rollback
    BY <1>2, <1>3 DEF ProvenInv
  <1>4. CASE rollback' # rollback
    <2>1. PICK i, shots, values : Fail(i, shots, values) /\ i \in Steps /\ i = index + 1
      <3>1. CASE StartupSettles
        BY <1>4, <3>1, StartupSettlesTo, PendingIs
      <3>2. CASE StartupWaits
        <4>1. index + 1 \in Steps
          BY <3>2, ForwardIs DEF StartupWaits, Steps
        <4>. QED BY <1>4, <3>2, <4>1 DEF StartupWaits
      <3>3. CASE StartupActs
        BY <1>4, <3>3, StartupActsTo
      <3>. QED BY <3>1, <3>2, <3>3
    <2>2. \A j \in Steps : snaps'[j] # Nil => j <= i
      <3>1. CASE StartupSettles \/ StartupWaits
        BY <2>1, <3>1 DEF StartupSettles, StartupWaits, BridgeShape, StartupInv
      <3>2. CASE StartupActs
        <4>1. snaps \in [Steps -> {Nil} \cup Snapshots]
          BY DEF BridgeShape, BridgeTypeOK
        <4>2. i \in Nat
          BY <2>1 DEF Steps
        <4>. QED BY <2>1, <3>2, <4>1, <4>2 DEF StartupActs, BridgeShape, StartupInv
      <3>. QED BY <3>1, <3>2
    <2>. QED BY <1>1, <1>2, <2>1, <2>2, FailProven
  <1>. QED BY <1>3, <1>4

LEMMA ProvenStep ==
    ASSUME BridgeShape, Apart, ProvenInv, [BridgeNext]_bridgeVars, [Undisturbed]_bridgeVars
    PROVE  ProvenInv'
  <1>1. Stopping => Stopping'
    BY StoppingStays
  <1>2. CASE StartupSettles \/ StartupWaits \/ StartupActs
    BY <1>2, StartupProven
  <1>3. CASE RollbackActs \/ RollbackSettles
    BY <1>3, RollbackActsProven, RollbackSettlesProven
  <1>4. CASE RollbackEnds \/ RetryAttach
    BY <1>4 DEF RollbackEnds, RetryAttach, ProvenInv
  <1>5. CASE \E r \in Records : SetValue(r) \/ \E to \in BOOLEAN : SetActive(r, to)
    <2>1. sent' = sent + 1 /\ sent \in Nat /\ UNCHANGED rollback
      BY <1>5, PlanIs DEF SetValue, SetActive, OneMoreCommand, undo, BridgeShape, BridgeTypeOK
    <2>2. sent' # sent
      BY <2>1
    <2>3. rollback = Nil
      BY <2>2 DEF Undisturbed, bridgeVars
    <2>. QED BY <2>1, <2>3 DEF ProvenInv
  <1>6. CASE WalkActs
    <2>1. Stopping
      BY <1>6 DEF WalkActs, Stopping, BridgeShape, WalkInv
    <2>. QED BY <1>1, <2>1 DEF ProvenInv
  <1>7. CASE \E r \in Records : Finishes(r)
    <2>1. UNCHANGED <<session, rollback, snaps>>
      BY <1>7 DEF Finishes, startup, undo
    <2>. QED BY <1>1, <1>7, <2>1, FinishesRestored, ProvenStays
  <1>8. CASE \/ Attach \/ StartupRests \/ StartupEnds \/ CommandSettles \/ QuiesceTicks \/ QuiesceDeadline
             \/ WalkSettles \/ WalkHolds \/ WalkLooksAgain \/ QuiesceBegins \/ PollEnds \/ UNCHANGED bridgeVars
    <2>1. UNCHANGED <<session, on, busy, set, rollback, snaps>>
      BY <1>8 DEF Attach, StartupRests, StartupEnds, CommandSettles, QuiesceTicks, QuiesceDeadline, WalkSettles,
         WalkHolds, WalkLooksAgain, QuiesceBegins, PollEnds, bridgeVars, engine, startup, undo
    <2>2. \A j \in Steps : Restored(j) => Restored(j)'
      BY <2>1 DEF Restored, Plan
    <2>. QED BY <1>1, <2>1, <2>2, ProvenStays
  <1>. QED BY <1>2, <1>3, <1>4, <1>5, <1>6, <1>7, <1>8 DEF BridgeNext, Timer

\* A rollback that calls itself proven, outside of a stop, has left every step it
\* has a snapshot of the way the snapshot has it, provided that the plan's steps
\* are apart and that no command comes in between (advanceRollback).
THEOREM ProvenIsRestored ==
    BridgeSpec /\ []Apart /\ [][Undisturbed]_bridgeVars => ProvenMeansRestored
  <1>1. BridgeInit => BridgeShape /\ ProvenInv
    BY InitShape DEF BridgeInit, ProvenInv
  <1>2. BridgeShape /\ ProvenInv /\ Apart /\ [BridgeNext]_bridgeVars /\ [Undisturbed]_bridgeVars
          => (BridgeShape /\ ProvenInv)'
    BY ShapeStep, ProvenStep
  <1>3. BridgeShape /\ ProvenInv /\ [BridgeNext]_bridgeVars
          => [rolledBack # "proven" /\ rolledBack' = "proven" /\ ~Stopping =>
               \A i \in Steps : snaps[i] # Nil =>
                 LET r == Plan[i].record IN
                 IF Plan[i].kind = "value" THEN set[r] = snaps[i].set
                 ELSE on[r] = snaps[i].on /\ busy[r] = "no"]_bridgeVars
    <2>. SUFFICES ASSUME BridgeShape, ProvenInv, [BridgeNext]_bridgeVars,
                         rolledBack # "proven", rolledBack' = "proven", ~Stopping,
                         NEW i \in Steps, snaps[i] # Nil
                  PROVE  Restored(i)
      BY DEF Restored
    <2>1. RollbackEnds
      BY DEF BridgeNext, Timer, Attach, StartupRests, StartupSettles, StartupWaits, StartupActs,
         StartupEnds, RollbackSettles, RollbackActs, CommandSettles, QuiesceTicks, QuiesceDeadline,
         WalkSettles, WalkActs, WalkHolds, WalkLooksAgain, SetActive, SetValue, RetryAttach, QuiesceBegins,
         PollEnds, Finishes, bridgeVars, undo
    <2>2. rollback # Nil /\ rollback.proven /\ ~rollback.settling /\ rollback.at = 0
      BY <2>1, RollbackIs DEF RollbackEnds
    <2>3. Behind(i)
      BY <2>2 DEF Behind, Steps
    <2>. QED BY <2>2, <2>3 DEF ProvenInv
  <1>. QED BY <1>1, <1>2, <1>3, PTL DEF BridgeSpec, ProvenMeansRestored

=============================================================================
