---------------------------- MODULE DiscoveryProofs ----------------------------
(***************************************************************************)
(* What is proved of searching and downloading together.  The downloads     *)
(* need nothing of the searches: DeliveryInv says what the state of each     *)
(* says of its task, its path and its file, and what a window that is gone   *)
(* has left under way.  What is cached needs the deletion: CachedInv is the  *)
(* types and that every listing can be loaded; the marker and the epoch of   *)
(* whatever is cached need besides how far the deletion is (PhaseInv), and   *)
(* that no reset of the records runs across it.                              *)
(***************************************************************************)
EXTENDS Discovery, TLAPS

-----------------------------------------------------------------------------
(* Downloads.                                                               *)

Held == {"ready_to_import", "needs_selection"}

\* What the state of a download says of its task, of its path and of its file; NoItem has none.
Fits(r, file) ==
    /\ r # NoItem =>
         /\ r.state \in Terminal \cup Held \cup {"browser_handoff"} => r.task = "none"
         /\ r.state \in Held => r.staged /\ file = 1
         /\ r.state \in {"imported", "cancelled"} => file = 0
         /\ r.task \in {"snapshot", "new", "queued"} => file = 0
         /\ r.task \in {"resolve", "download", "wait", "inspect"} => r.staged
         /\ r.task = "inspect" => file = 1
         /\ r.task = "clean" => r.why # "none"
         /\ r.task = "wait" => r.after \in {"resolve", "download"}
    /\ file = 1 => r # NoItem /\ (r.staged \/ r.task \notin {"none", "snapshot"})

\* A call is about a download that was answered for: one whose start is over, or that is forgotten.
Callable(r, left) == IF r = NoItem THEN left # NoItem ELSE r.task # "snapshot"

DownloadInv ==
    /\ DownloadsTypeOK
    /\ \A i \in Items : Fits(items[i], files[i])
    /\ \A c \in calls : Callable(items[c[2]], dropped[c[2]])

\* A download nothing is left of.
Done(r, file) == file = 0 /\ (r # NoItem => r.state \in Terminal)
Over(i) == Done(items[i], files[i])

\* A window shows what the download is, or was; one that is gone has sent for its end.
WindowInv ==
    /\ \A i \in shown : items[i] # NoItem \/ dropped[i] # NoItem
    /\ \A i \in shown : window.item = i \/ i \in orders \/ <<"cancel", i>> \in calls \/ Over(i)
    /\ window # NoWindow =>
         /\ window.item \in shown
         /\ window.seen \in {"imported", "cancelled"} /\ items[window.item] # NoItem =>
              items[window.item].state = window.seen
         /\ window.seen = "forgotten" => items[window.item] = NoItem

\* What a step may make of one download: what was over stays over, what is final stays
\* as it is, and a cancellation that was under way is, or has done what it was for.
Turns(i, r, file) ==
    /\ items' = [items EXCEPT ![i] = r] /\ files' = [files EXCEPT ![i] = file]
    /\ r \in {NoItem} \cup Acquisitions /\ file \in 0..1 /\ Fits(r, file)
    /\ items[i] = NoItem => r = NoItem
    /\ items[i] # NoItem /\ r = NoItem => dropped'[i] # NoItem
    /\ Callable(items[i], dropped[i]) => Callable(r, dropped'[i])
    /\ r # NoItem /\ items[i].state \in {"imported", "cancelled"} => r.state = items[i].state
    /\ Over(i) => Done(r, file)
    /\ \A j \in Items :
         <<"cancel", j>> \in calls => <<"cancel", j>> \in calls' \/ (j = i /\ Done(r, file))
Moves(i) ==
    /\ \E r, file : Turns(i, r, file)
    /\ calls' \subseteq {"complete", "cancel"} \X Items /\ suspended' \in BOOLEAN
    /\ dropped' \in [Items -> {NoItem} \cup States]
    /\ \A j \in Items : dropped[j] # NoItem => dropped'[j] # NoItem
    /\ \A c \in calls' : c \in calls \/ (c[2] = i /\ Callable(items[i], dropped[i]))

LEMMA MovesKeep ==
    ASSUME DownloadInv, NEW i \in Items, Moves(i)
    PROVE  DownloadInv'
<1>1. PICK r, file : Turns(i, r, file)
  BY DEF Moves
<1>2. items' \in [Items -> {NoItem} \cup Acquisitions] /\ files' \in [Items -> 0..1]
  BY <1>1 DEF Turns, DownloadInv, DownloadsTypeOK
<1>3. DownloadsTypeOK'
  BY <1>2 DEF Moves, DownloadsTypeOK
<1>4. ASSUME NEW j \in Items PROVE Fits(items'[j], files'[j])
  <2>1. CASE j = i
    BY <1>1, <2>1 DEF Turns, DownloadInv, DownloadsTypeOK
  <2>2. CASE j # i
    <3>1. items'[j] = items[j] /\ files'[j] = files[j]
      BY <1>1, <2>2 DEF Turns, DownloadInv, DownloadsTypeOK
    <3>2. Fits(items[j], files[j])
      BY DEF DownloadInv
    <3>3. QED BY <3>1, <3>2
  <2>3. QED BY <2>1, <2>2
<1>5. ASSUME NEW c \in calls' PROVE Callable(items'[c[2]], dropped'[c[2]])
  <2>1. PICK j \in Items : c[2] = j
    BY <1>3 DEF DownloadsTypeOK
  <2>2. Callable(items[j], dropped[j])
    BY <2>1 DEF Moves, DownloadInv
  <2>3. CASE j = i
    BY <1>1, <2>1, <2>2, <2>3 DEF Turns, DownloadInv, DownloadsTypeOK
  <2>4. CASE j # i
    <3>1. items'[j] = items[j] /\ (dropped[j] # NoItem => dropped'[j] # NoItem)
      BY <1>1, <2>4 DEF Turns, Moves, DownloadInv, DownloadsTypeOK
    <3>2. QED BY <2>1, <2>2, <3>1 DEF Callable
  <2>5. QED BY <2>3, <2>4
<1>6. QED BY <1>3, <1>4, <1>5 DEF DownloadInv

\* A step of its task.
LEMMA TaskMoves ==
    ASSUME DownloadInv, NEW i \in Items, Live(i), UNCHANGED <<calls, suspended, dropped>>,
           NEW r \in Acquisitions, NEW file \in 0..1, Fits(r, file), r.task # "snapshot",
           items' = [items EXCEPT ![i] = r], files' = [files EXCEPT ![i] = file]
    PROVE  Moves(i)
<1>1. /\ items[i] \in Acquisitions /\ items[i].task \notin {"none", "snapshot"}
      /\ Fits(items[i], files[i]) /\ items[i] # NoItem /\ r # NoItem
  BY NoItemAssumption DEF Live, Known, Item, DownloadInv, DownloadsTypeOK
<1>2. ~Over(i) /\ items[i].state \notin {"imported", "cancelled"}
  BY <1>1 DEF Fits, Over, Done, Terminal
<1>3. Turns(i, r, file)
  BY <1>1, <1>2 DEF Turns, Callable
<1>4. QED
  BY <1>3 DEF Moves, DownloadInv, DownloadsTypeOK

LEMMA FileStays ==
    ASSUME DownloadInv, NEW i \in Items
    PROVE  files[i] \in 0..1 /\ files = [files EXCEPT ![i] = files[i]]
BY DEF DownloadInv, DownloadsTypeOK

LEMMA WorkKeeps ==
    ASSUME DownloadInv, NEW i \in Items,
           TaskBegins(i) \/ Resolves(i) \/ ProviderWaits(i) \/ WaitEnds(i) \/ Downloads(i)
    PROVE  Moves(i)
<1>1. Live(i) /\ items[i] \in Acquisitions /\ Fits(items[i], files[i])
  BY DEF TaskBegins, Resolves, ProviderWaits, WaitEnds, Downloads, Runs, Live, Known, Item,
         DownloadInv, DownloadsTypeOK
<1>2. UNCHANGED <<calls, suspended, dropped>>
  BY DEF TaskBegins, Resolves, ProviderWaits, WaitEnds, Downloads
<1>3. CASE TaskBegins(i)
  <2>1. PICK r : /\ items' = [items EXCEPT ![i] = r]
                 /\ r \in {[items[i] EXCEPT !.state = "waiting_provider", !.task = "queued"],
                           [items[i] EXCEPT !.staged = TRUE, !.task = "resolve"]}
    BY <1>3 DEF TaskBegins, Sets, Item
  <2>2. items[i].task \in {"new", "queued"} /\ files' = files
    BY <1>3 DEF TaskBegins, Runs, Item
  <2>3. /\ r \in Acquisitions
        /\ r.state \in {"waiting_provider", items[i].state}
        /\ r.task = "queued" \/ (r.task = "resolve" /\ r.staged)
    BY <1>1, <2>1 DEF Acquisitions, States, Steps
  <2>4. Fits(r, files[i])
    BY <1>1, <2>2, <2>3, NoItemAssumption DEF Terminal, Held, Fits
  <2>5. QED BY <1>1, <1>2, <2>1, <2>2, <2>3, <2>4, FileStays, TaskMoves
<1>4. CASE Resolves(i)
  <2>1. PICK r : /\ items' = [items EXCEPT ![i] = r]
                 /\ r = [items[i] EXCEPT !.state = "downloading", !.task = "download", !.waits = 0]
    BY <1>4 DEF Resolves, Sets, Item
  <2>2. items[i].task = "resolve" /\ files' = files
    BY <1>4 DEF Resolves, Runs, Item
  <2>3. 0 \in 0..MaxWaits
    BY AcquisitionAssumption
  <2>4. r \in Acquisitions /\ r.state = "downloading" /\ r.task = "download" /\ r.staged = items[i].staged
    BY <1>1, <2>1, <2>3 DEF Acquisitions, States, Steps
  <2>5. Fits(r, files[i])
    BY <1>1, <2>2, <2>4, NoItemAssumption DEF Terminal, Held, Fits
  <2>6. QED BY <1>1, <1>2, <2>1, <2>2, <2>4, <2>5, FileStays, TaskMoves
<1>5. CASE ProviderWaits(i)
  <2>1. PICK r, waits : /\ items' = [items EXCEPT ![i] = r]
                        /\ waits = IF items[i].waits < MaxWaits THEN items[i].waits + 1 ELSE items[i].waits
                        /\ r = [items[i] EXCEPT !.state = "waiting_provider", !.after = items[i].task,
                                                !.task = "wait", !.waits = waits]
    BY <1>5 DEF ProviderWaits, Sets, Item
  <2>2. items[i].task \in {"resolve", "download"} /\ files' = files
    BY <1>5 DEF ProviderWaits, Runs, Item
  <2>3. waits \in 0..MaxWaits
    BY <1>1, <2>1, AcquisitionAssumption DEF Acquisitions
  <2>4. /\ r \in Acquisitions
        /\ r.state = "waiting_provider" /\ r.task = "wait" /\ r.after = items[i].task
        /\ r.staged = items[i].staged
    BY <1>1, <2>1, <2>3 DEF Acquisitions, States, Steps
  <2>5. Fits(r, files[i])
    BY <1>1, <2>2, <2>4, NoItemAssumption DEF Terminal, Held, Fits
  <2>6. QED BY <1>1, <1>2, <2>1, <2>2, <2>4, <2>5, FileStays, TaskMoves
<1>6. CASE WaitEnds(i)
  <2>1. PICK r : /\ items' = [items EXCEPT ![i] = r]
                 /\ r = [items[i] EXCEPT !.state = "downloading", !.task = items[i].after]
    BY <1>6 DEF WaitEnds, Sets, Item
  <2>2. items[i].task = "wait" /\ files' = files /\ items[i].after \in {"resolve", "download"}
    BY <1>1, <1>6, NoItemAssumption DEF WaitEnds, Runs, Item, Fits
  <2>3. r \in Acquisitions /\ r.task # "snapshot" /\ Fits(r, files[i])
    BY <1>1, <2>1, <2>2, NoItemAssumption DEF Acquisitions, States, Steps, Terminal, Held, Fits
  <2>4. QED BY <1>1, <1>2, <2>1, <2>2, <2>3, FileStays, TaskMoves
<1>7. CASE Downloads(i)
  <2>1. PICK r : /\ items' = [items EXCEPT ![i] = r]
                 /\ r = [items[i] EXCEPT !.task = "inspect"]
    BY <1>7 DEF Downloads, Sets, Item
  <2>2. items[i].task = "download" /\ files' = [files EXCEPT ![i] = 1]
    BY <1>7 DEF Downloads, Runs, Item
  <2>3. r \in Acquisitions /\ r.task # "snapshot" /\ Fits(r, 1)
    BY <1>1, <2>1, <2>2, NoItemAssumption DEF Acquisitions, States, Steps, Terminal, Held, Fits
  <2>4. 1 \in 0..1
    OBVIOUS
  <2>5. QED BY <1>1, <1>2, <2>1, <2>2, <2>3, <2>4, TaskMoves
<1>8. QED
  BY <1>3, <1>4, <1>5, <1>6, <1>7

\* The end of the work, whatever it came to, and the end of a clean-up.
LEMMA WorkEndsKeeps ==
    ASSUME DownloadInv, NEW i \in Items, Inspects(i) \/ Fails(i) \/ CleansUp(i)
    PROVE  Moves(i)
<1>1. Live(i) /\ items[i] \in Acquisitions /\ Fits(items[i], files[i]) /\ items[i] # NoItem
  BY NoItemAssumption DEF Inspects, Fails, CleansUp, Runs, Live, Known, Item, DownloadInv, DownloadsTypeOK
<1>2. UNCHANGED <<calls, suspended, dropped>> /\ 0 \in 0..1
  BY DEF Inspects, Fails, CleansUp
<1>3. ASSUME NEW why \in {"failed"}, items[i].task \in {"resolve", "download", "inspect"}, files' = files,
             items' = [items EXCEPT ![i] = [items[i] EXCEPT !.task = "clean", !.why = why]]
      PROVE  Moves(i)
  <2>1. PICK r : r = [items[i] EXCEPT !.task = "clean", !.why = why]
    OBVIOUS
  <2>2. r \in Acquisitions /\ r.task = "clean" /\ r.why = why /\ r.state = items[i].state
    BY <1>1, <2>1 DEF Acquisitions, Steps
  <2>3. Fits(r, files[i])
    BY <1>1, <1>3, <2>2, NoItemAssumption DEF Fits, Terminal, Held
  <2>4. QED BY <1>1, <1>2, <1>3, <2>1, <2>2, <2>3, FileStays, TaskMoves
<1>4. CASE Fails(i)
  BY <1>3, <1>4 DEF Fails, Sets, Runs, Item
<1>5. CASE Inspects(i)
  <2>1. CASE Sets(i, [Item(i) EXCEPT !.task = "clean", !.why = "failed"])
    BY <1>3, <1>5, <2>1 DEF Inspects, Sets, Runs, Item
  <2>2. ASSUME NEW state \in {"ready_to_import", "needs_selection", "failed"},
               Sets(i, [Item(i) EXCEPT !.state = state, !.task = "none"])
        PROVE  Moves(i)
    <3>1. PICK r : r = [items[i] EXCEPT !.state = state, !.task = "none"]
      OBVIOUS
    <3>2. r \in Acquisitions /\ r.task = "none" /\ r.state = state /\ r.staged = items[i].staged
      BY <1>1, <2>2, <3>1 DEF Acquisitions, Steps, States, Terminal
    <3>3. items[i].staged /\ files[i] = 1
      BY <1>1, <1>5 DEF Inspects, Runs, Item, Fits
    <3>4. Fits(r, files[i])
      BY <1>1, <2>2, <3>2, <3>3, NoItemAssumption DEF Fits, Terminal, Held
    <3>5. QED BY <1>1, <1>2, <1>5, <2>2, <3>1, <3>2, <3>4, FileStays, TaskMoves DEF Inspects, Sets, Item
  <2>3. QED BY <1>5, <2>1, <2>2 DEF Inspects
<1>6. CASE CleansUp(i)
  <2>1. PICK r : r = [items[i] EXCEPT !.task = "none", !.staged = FALSE, !.state = items[i].why]
    OBVIOUS
  <2>2. items[i].why \in {"failed", "cancelled"}
    BY <1>1, <1>6 DEF CleansUp, Runs, Item, Fits, Acquisitions
  <2>3. r \in Acquisitions /\ r.task = "none" /\ r.state \in {"failed", "cancelled"}
    BY <1>1, <2>1, <2>2 DEF Acquisitions, Steps, States, Terminal
  <2>4. Fits(r, 0)
    BY <2>3, NoItemAssumption DEF Fits, Terminal, Held
  <2>5. QED BY <1>1, <1>2, <1>6, <2>1, <2>3, <2>4, TaskMoves DEF CleansUp, Cleaned, Sets, Item
<1>7. QED
  BY <1>4, <1>5, <1>6

\* A cancellation, wherever it meets the task.
LEMMA StopsKeeps ==
    ASSUME DownloadInv, NEW i \in Items, Stops(i)
    PROVE  Moves(i)
<1>1. Live(i) /\ items[i] \in Acquisitions /\ Fits(items[i], files[i]) /\ items[i] # NoItem
  BY NoItemAssumption DEF Stops, Live, Known, Item, DownloadInv, DownloadsTypeOK
<1>2. UNCHANGED <<calls, suspended, dropped>> /\ 0 \in 0..1
  BY DEF Stops
<1>3. CASE items[i].task = "new"
  <2>1. PICK r : r = [items[i] EXCEPT !.task = "none", !.stopping = FALSE]
    OBVIOUS
  <2>2. r \in Acquisitions /\ r.task = "none" /\ r.state = items[i].state
    BY <1>1, <2>1 DEF Acquisitions, Steps
  <2>3. Fits(r, files[i])
    BY <1>1, <1>3, <2>2, NoItemAssumption DEF Fits, Terminal, Held
  <2>4. items' = [items EXCEPT ![i] = r] /\ files' = files
    BY <1>3, <2>1 DEF Stops, Sets, Item
  <2>5. QED BY <1>1, <1>2, <2>2, <2>3, <2>4, FileStays, TaskMoves
<1>4. CASE items[i].task = "queued"
  <2>1. PICK r : r = [items[i] EXCEPT !.task = "none", !.stopping = FALSE, !.state = "cancelled"]
    OBVIOUS
  <2>2. r \in Acquisitions /\ r.task = "none" /\ r.state = "cancelled"
    BY <1>1, <2>1 DEF Acquisitions, Steps, States, Terminal
  <2>3. Fits(r, files[i])
    BY <1>1, <1>4, <2>2, NoItemAssumption DEF Fits, Terminal, Held
  <2>4. items' = [items EXCEPT ![i] = r] /\ files' = files
    BY <1>4, <2>1 DEF Stops, Sets, Item
  <2>5. QED BY <1>1, <1>2, <2>2, <2>3, <2>4, FileStays, TaskMoves
<1>5. CASE items[i].task = "clean"
  <2>1. PICK r, state :
          /\ state = (IF items[i].provider \in Exclusive THEN "cancelled" ELSE "failed")
          /\ r = [items[i] EXCEPT !.task = "none", !.stopping = FALSE, !.state = state]
    OBVIOUS
  <2>2. r \in Acquisitions /\ r.task = "none" /\ r.state \in {"cancelled", "failed"}
    BY <1>1, <2>1 DEF Acquisitions, Steps, States, Terminal
  <2>3. Fits(r, 0)
    BY <2>2, NoItemAssumption DEF Fits, Terminal, Held
  <2>4. items' = [items EXCEPT ![i] = r] /\ files' = [files EXCEPT ![i] = 0]
    BY <1>5, <2>1 DEF Stops, Sets, Item
  <2>5. QED BY <1>1, <1>2, <2>2, <2>3, <2>4, TaskMoves
<1>6. CASE items[i].task \notin {"new", "queued", "clean"}
  <2>1. PICK r : r = [items[i] EXCEPT !.task = "clean", !.why = "cancelled", !.stopping = FALSE]
    OBVIOUS
  <2>2. r \in Acquisitions /\ r.task = "clean" /\ r.why = "cancelled" /\ r.state = items[i].state
    BY <1>1, <2>1 DEF Acquisitions, Steps
  <2>3. items[i].task # "none"
    BY <1>1 DEF Live, Item
  <2>4. Fits(r, files[i])
    BY <1>1, <2>2, <2>3, NoItemAssumption DEF Fits, Terminal, Held
  <2>5. items' = [items EXCEPT ![i] = r] /\ files' = files
    BY <1>6, <2>1 DEF Stops, Sets, Item
  <2>6. QED BY <1>1, <1>2, <2>2, <2>4, <2>5, FileStays, TaskMoves
<1>7. QED
  BY <1>3, <1>4, <1>5, <1>6

\* A call that leaves the download as it is, or that answers for one that is over.
LEMMA SameMoves ==
    ASSUME DownloadInv, NEW i \in Items, UNCHANGED <<items, files, suspended, dropped>>,
           calls' \subseteq {"complete", "cancel"} \X Items,
           \A j \in Items : <<"cancel", j>> \in calls => <<"cancel", j>> \in calls' \/ (j = i /\ Over(i)),
           \A c \in calls' : c \in calls \/ (c[2] = i /\ Callable(items[i], dropped[i]))
    PROVE  Moves(i)
<1>1. items = [items EXCEPT ![i] = items[i]] /\ files = [files EXCEPT ![i] = files[i]]
  BY DEF DownloadInv, DownloadsTypeOK
<1>2. Turns(i, items[i], files[i])
  BY <1>1 DEF Turns, Over, DownloadInv, DownloadsTypeOK
<1>3. QED
  BY <1>2 DEF Moves, DownloadInv, DownloadsTypeOK

\* The last lines of a call about a download whose task is over.
LEMMA CallMoves ==
    ASSUME DownloadInv, NEW i \in Known, UNCHANGED <<suspended, dropped>>,
           NEW r \in Acquisitions, NEW file \in 0..1, Fits(r, file), r # NoItem, r.task # "snapshot",
           items[i].state \in {"imported", "cancelled"} => r.state = items[i].state,
           Over(i) => Done(r, file),
           items' = [items EXCEPT ![i] = r], files' = [files EXCEPT ![i] = file],
           calls' \subseteq calls,
           \A j \in Items : <<"cancel", j>> \in calls => <<"cancel", j>> \in calls' \/ (j = i /\ Done(r, file))
    PROVE  Moves(i)
<1>1. i \in Items /\ items[i] # NoItem
  BY DEF Known
<1>2. Turns(i, r, file)
  BY <1>1 DEF Turns, Callable
<1>3. QED
  BY <1>1, <1>2 DEF Moves, DownloadInv, DownloadsTypeOK

LEMMA CompletesKeeps ==
    ASSUME DownloadInv, NEW i \in Items, Completes(i)
    PROVE  Moves(i)
<1>1. /\ ~Live(i) /\ UNCHANGED <<suspended, dropped>> /\ 0 \in 0..1 /\ 1 \in 0..1
      /\ calls' \subseteq calls /\ calls \subseteq {"complete", "cancel"} \X Items
      /\ \A j \in Items : <<"cancel", j>> \in calls => <<"cancel", j>> \in calls'
  BY DEF Completes, DownloadInv, DownloadsTypeOK
<1>2. CASE UNCHANGED <<items, files>>
  BY <1>1, <1>2, SameMoves
<1>3. CASE i \in Known /\ (Stages(i) \/ Imports(i))
  <2>1. items[i] \in Acquisitions /\ Fits(items[i], files[i]) /\ items[i] # NoItem
    BY <1>3 DEF Known, DownloadInv, DownloadsTypeOK
  <2>2. items[i].state \in Held \cup {"browser_handoff"} /\ items[i].task = "none" /\ ~Over(i)
    BY <1>3, <2>1, NoItemAssumption DEF Stages, Imports, Item, Held, Fits, Over, Done, Terminal
  <2>3. ASSUME NEW r \in Acquisitions, NEW file \in 0..1, Fits(r, file), r.task = "none",
               items' = [items EXCEPT ![i] = r], files' = [files EXCEPT ![i] = file]
        PROVE  Moves(i)
    <3>1. r # NoItem /\ items[i].state \notin {"imported", "cancelled"}
      BY <2>2, NoItemAssumption DEF Held
    <3>2. QED BY <1>1, <1>3, <2>2, <2>3, <3>1, CallMoves
  <2>4. ASSUME NEW state \in {"ready_to_import", "browser_handoff"},
               Sets(i, [Item(i) EXCEPT !.state = state, !.staged = TRUE]), files' = [files EXCEPT ![i] = 1]
        PROVE  Moves(i)
    <3>1. PICK r : r = [items[i] EXCEPT !.state = state, !.staged = TRUE]
      OBVIOUS
    <3>2. r \in Acquisitions /\ r.state = state /\ r.staged /\ r.task = "none"
      BY <2>1, <2>2, <3>1 DEF Acquisitions, States
    <3>3. Fits(r, 1)
      BY <3>2, NoItemAssumption DEF Fits, Terminal, Held
    <3>4. QED BY <1>1, <2>3, <2>4, <3>1, <3>2, <3>3 DEF Sets, Item
  <2>5. CASE Sets(i, [Item(i) EXCEPT !.state = "imported", !.staged = FALSE])
             /\ files' = [files EXCEPT ![i] = 0]
    <3>1. PICK r : r = [items[i] EXCEPT !.state = "imported", !.staged = FALSE]
      OBVIOUS
    <3>2. r \in Acquisitions /\ r.state = "imported" /\ r.task = "none"
      BY <2>1, <2>2, <3>1 DEF Acquisitions, States, Terminal
    <3>3. Fits(r, 0)
      BY <3>2, NoItemAssumption DEF Fits, Terminal, Held
    <3>4. QED BY <1>1, <2>3, <2>5, <3>1, <3>2, <3>3 DEF Sets, Item
  <2>6. ASSUME NEW state \in {"failed", "needs_selection"}, Sets(i, [Item(i) EXCEPT !.state = state]),
               files' = files, items[i].state \in Held
        PROVE  Moves(i)
    <3>1. PICK r : r = [items[i] EXCEPT !.state = state]
      OBVIOUS
    <3>2. /\ r \in Acquisitions /\ r.state = state /\ r.task = "none" /\ r.staged = items[i].staged
      BY <2>1, <2>2, <3>1 DEF Acquisitions, States, Terminal
    <3>3. Fits(r, files[i])
      BY <2>1, <2>6, <3>2, NoItemAssumption DEF Fits, Terminal, Held
    <3>4. QED BY <1>1, <2>3, <2>6, <3>1, <3>2, <3>3, FileStays DEF Sets, Item
  <2>7. QED
    BY <1>3, <2>4, <2>5, <2>6 DEF Stages, Imports, Item, Held
<1>4. QED
  BY <1>2, <1>3 DEF Completes

LEMMA CancelsKeeps ==
    ASSUME DownloadInv, NEW i \in Items, Cancels(i)
    PROVE  Moves(i)
<1>1. /\ ~Live(i) /\ UNCHANGED <<suspended, dropped>> /\ 0 \in 0..1 /\ Fits(items[i], files[i])
      /\ calls' \subseteq calls /\ calls \subseteq {"complete", "cancel"} \X Items
      /\ \A j \in Items : <<"cancel", j>> \in calls => <<"cancel", j>> \in calls' \/ j = i
  BY DEF Cancels, DownloadInv, DownloadsTypeOK
<1>2. CASE Retires(i)
  <2>1. /\ i \in Known /\ items[i] \in Acquisitions /\ items[i] # NoItem
        /\ items[i].state \notin {"imported", "cancelled"}
    BY <1>2 DEF Retires, Known, Item, DownloadInv, DownloadsTypeOK
  <2>2. PICK r, state :
          /\ state = (IF items[i].state = "failed" THEN "failed" ELSE "cancelled")
          /\ r = [items[i] EXCEPT !.staged = FALSE, !.state = state]
    OBVIOUS
  <2>3. /\ r \in Acquisitions /\ r.state = state /\ r.task = items[i].task /\ state \in {"failed", "cancelled"}
    BY <2>1, <2>2 DEF Acquisitions, States, Terminal
  <2>4. PICK file : file = (IF items[i].staged THEN 0 ELSE files[i])
    OBVIOUS
  <2>5. r.task # "snapshot"
    BY <1>1, <2>1, <2>3 DEF Cancels, DownloadInv, Callable
  <2>6. items[i].task = "none" /\ file = 0
    BY <1>1, <2>1, <2>3, <2>4, <2>5 DEF Live, Item, Fits, DownloadInv, DownloadsTypeOK
  <2>7. Fits(r, 0) /\ Done(r, 0)
    BY <2>3, <2>6, NoItemAssumption DEF Fits, Done, Terminal, Held
  <2>8. items' = [items EXCEPT ![i] = r] /\ files' = [files EXCEPT ![i] = 0]
    BY <1>2, <2>1, <2>2, <2>4, <2>6 DEF Cancels, Sets, Item
  <2>9. r # NoItem
    BY <2>3, NoItemAssumption
  <2>10. QED BY <1>1, <2>1, <2>3, <2>5, <2>7, <2>8, <2>9, CallMoves
<1>3. CASE ~Retires(i)
  <2>1. Over(i)
    BY <1>1, <1>3 DEF Retires, Known, Item, Over, Done, Fits, Live, Terminal, DownloadInv, DownloadsTypeOK
  <2>2. QED
    BY <1>1, <1>3, <2>1, SameMoves DEF Cancels
<1>4. QED
  BY <1>2, <1>3

\* The half of a start that is left, and half an hour that passed.
LEMMA HandoffKeeps ==
    ASSUME DownloadInv, NEW i \in Items, HandoffStarts(i)
    PROVE  Moves(i)
<1>1. /\ i \in Known /\ items[i] \in Acquisitions /\ items[i] # NoItem /\ Fits(items[i], files[i])
      /\ items[i].task = "snapshot" /\ UNCHANGED <<calls, suspended>> /\ files' = files
  BY DEF HandoffStarts, Known, Item, DownloadInv, DownloadsTypeOK
<1>2. /\ files[i] = 0 /\ items[i].state \notin {"imported", "cancelled"} /\ ~Over(i)
      /\ ~Callable(items[i], dropped[i])
  BY <1>1 DEF Fits, Terminal, Over, Done, Callable
<1>3. ASSUME NEW r \in {NoItem} \cup Acquisitions, Fits(r, files[i]), items' = [items EXCEPT ![i] = r],
             dropped' \in [Items -> {NoItem} \cup States], r = NoItem => dropped'[i] # NoItem,
             \A j \in Items : dropped[j] # NoItem => dropped'[j] # NoItem
      PROVE  Moves(i)
  <2>1. Turns(i, r, files[i])
    BY <1>1, <1>2, <1>3, FileStays DEF Turns
  <2>2. QED BY <1>1, <1>3, <2>1 DEF Moves, DownloadInv, DownloadsTypeOK
<1>4. CASE suspended
  <2>1. items' = [items EXCEPT ![i] = NoItem] /\ dropped' = [dropped EXCEPT ![i] = "cancelled"]
    BY <1>4 DEF HandoffStarts, HandedOff, Sets
  <2>2. "cancelled" \in States /\ "cancelled" # NoItem
    BY NoItemAssumption DEF States, Terminal
  <2>3. /\ dropped' \in [Items -> {NoItem} \cup States] /\ dropped'[i] # NoItem
        /\ \A j \in Items : dropped[j] # NoItem => dropped'[j] # NoItem
    BY <2>1, <2>2 DEF DownloadInv, DownloadsTypeOK
  <2>4. Fits(NoItem, files[i])
    BY <1>2 DEF Fits
  <2>5. QED BY <1>3, <2>1, <2>3, <2>4
<1>5. CASE ~suspended
  <2>1. PICK r : r = [items[i] EXCEPT !.state = "browser_handoff", !.task = "none"]
    OBVIOUS
  <2>2. r \in Acquisitions /\ r.state = "browser_handoff" /\ r.task = "none"
    BY <1>1, <2>1 DEF Acquisitions, States, Steps
  <2>3. items' = [items EXCEPT ![i] = r] /\ dropped' = dropped
    BY <1>5, <2>1 DEF HandoffStarts, HandedOff, Sets, Item
  <2>4. Fits(r, files[i])
    BY <1>2, <2>2 DEF Fits, Terminal, Held
  <2>5. r # NoItem
    BY <2>2, NoItemAssumption
  <2>6. QED BY <1>3, <2>2, <2>3, <2>4, <2>5 DEF DownloadInv, DownloadsTypeOK
<1>6. QED BY <1>4, <1>5

LEMMA ExpiresKeeps ==
    ASSUME DownloadInv, NEW i \in Items, Expires(i)
    PROVE  Moves(i)
<1>1. /\ i \in Known /\ items[i] \in Acquisitions /\ items[i] # NoItem /\ Fits(items[i], files[i])
      /\ items[i].task = "none" /\ UNCHANGED <<calls, suspended>> /\ files[i] \in 0..1 /\ 0 \in 0..1
  BY DEF Expires, Expirable, Known, Item, DownloadInv, DownloadsTypeOK
<1>2. items[i].staged \/ files[i] = 0
  BY <1>1 DEF Fits
<1>3. /\ items' = [items EXCEPT ![i] = NoItem] /\ files' = [files EXCEPT ![i] = 0]
      /\ dropped' = [dropped EXCEPT ![i] = items[i].state]
  BY <1>2 DEF Expires, Sets, Item
<1>4. items[i].state \in States /\ items[i].state # NoItem
  BY <1>1, NoItemAssumption DEF Acquisitions
<1>5. /\ dropped' \in [Items -> {NoItem} \cup States] /\ dropped'[i] # NoItem
      /\ \A j \in Items : dropped[j] # NoItem => dropped'[j] # NoItem
  BY <1>3, <1>4 DEF DownloadInv, DownloadsTypeOK
<1>6. Fits(NoItem, 0) /\ Done(NoItem, 0) /\ Callable(NoItem, dropped'[i])
  BY <1>5 DEF Fits, Done, Callable
<1>7. Turns(i, NoItem, 0)
  BY <1>1, <1>3, <1>5, <1>6 DEF Turns
<1>8. QED BY <1>1, <1>5, <1>7 DEF Moves, DownloadInv, DownloadsTypeOK

LEMMA CompletionAskedKeeps ==
    ASSUME DownloadInv, NEW i \in Items, CompletionAsked(i)
    PROVE  Moves(i)
<1>1. /\ items[i] # NoItem /\ items[i].task # "snapshot" /\ calls' = calls \cup {<<"complete", i>>}
      /\ UNCHANGED <<items, files, suspended, dropped>> /\ calls \subseteq {"complete", "cancel"} \X Items
  BY DEF CompletionAsked, Known, Item, DownloadInv, DownloadsTypeOK
<1>2. Callable(items[i], dropped[i])
  BY <1>1 DEF Callable
<1>3. QED BY <1>1, <1>2, SameMoves

LEMMA CancelAskedKeeps ==
    ASSUME DownloadInv, NEW i \in Items, CancelAsked(i)
    PROVE  Moves(i) /\ <<"cancel", i>> \in calls'
<1>1. /\ items[i] # NoItem /\ items[i].task # "snapshot" /\ calls' = calls \cup {<<"cancel", i>>}
      /\ UNCHANGED <<files, suspended, dropped>> /\ calls \subseteq {"complete", "cancel"} \X Items
      /\ items[i] \in Acquisitions /\ Fits(items[i], files[i])
  BY DEF CancelAsked, Known, Item, DownloadInv, DownloadsTypeOK
<1>2. PICK r, stopping :
        stopping \in BOOLEAN /\ stopping = Live(i) /\ r = [items[i] EXCEPT !.stopping = stopping]
  <2>1. Live(i) \in BOOLEAN
    BY DEF Live
  <2>2. QED BY <2>1
<1>3. /\ r \in Acquisitions /\ r.state = items[i].state /\ r.task = items[i].task /\ r.staged = items[i].staged
      /\ r.why = items[i].why /\ r.after = items[i].after
  BY <1>1, <1>2 DEF Acquisitions
<1>4. r # NoItem
  BY <1>3, NoItemAssumption
<1>5. Fits(r, files[i]) /\ Callable(r, dropped'[i]) /\ (Over(i) => Done(r, files[i]))
  BY <1>1, <1>3, <1>4 DEF Fits, Callable, Over, Done
<1>6. items' = [items EXCEPT ![i] = r] /\ Callable(items[i], dropped[i])
  BY <1>1, <1>2 DEF CancelAsked, Sets, Item, Callable
<1>7. Turns(i, r, files[i])
  BY <1>1, <1>3, <1>4, <1>5, <1>6, FileStays DEF Turns
<1>8. QED BY <1>1, <1>6, <1>7 DEF Moves, DownloadInv, DownloadsTypeOK

\* A start is of a download there never was.
LEMMA StartKeeps ==
    ASSUME DownloadInv, NEW i \in Items, NEW p \in Exclusive \cup Shared, NEW direct \in BOOLEAN,
           Start(i, p, direct)
    PROVE  DownloadInv' /\ items'[i] # NoItem /\ \A j \in Items \ {i} : items'[j] = items[j]
<1>1. /\ items[i] = NoItem /\ dropped[i] = NoItem /\ files[i] = 0
      /\ UNCHANGED <<files, calls, suspended, dropped>>
  BY DEF Start, Known, DownloadInv, Fits, DownloadsTypeOK
<1>2. PICK r : /\ r = [state |-> IF direct THEN "downloading" ELSE "starting", provider |-> p,
                       task |-> IF direct THEN "new" ELSE "snapshot", staged |-> FALSE, waits |-> 0,
                       after |-> "none", why |-> "none", stopping |-> FALSE]
               /\ items' = [items EXCEPT ![i] = r]
  BY DEF Start, Sets
<1>3. 0 \in 0..MaxWaits
  BY AcquisitionAssumption
<1>4. r \in Acquisitions /\ r.state \in {"downloading", "starting"} /\ r.task \in {"new", "snapshot"}
  BY <1>2, <1>3 DEF Acquisitions, States, Steps
<1>5. Fits(r, 0) /\ r # NoItem
  BY <1>4, NoItemAssumption DEF Fits, Terminal, Held
<1>6. \A j \in Items : items'[j] = IF j = i THEN r ELSE items[j]
  BY <1>2 DEF DownloadInv, DownloadsTypeOK
<1>7. DownloadsTypeOK'
  BY <1>1, <1>2, <1>4 DEF DownloadInv, DownloadsTypeOK
<1>8. \A j \in Items : Fits(items[j], files[j])
  BY DEF DownloadInv
<1>9. ASSUME NEW j \in Items PROVE Fits(items'[j], files'[j])
  BY <1>1, <1>5, <1>6, <1>8
<1>10. ASSUME NEW c \in calls' PROVE Callable(items'[c[2]], dropped'[c[2]])
  <2>1. c[2] \in Items /\ Callable(items[c[2]], dropped[c[2]])
    BY <1>1 DEF DownloadInv, DownloadsTypeOK
  <2>2. c[2] # i
    BY <1>1, <2>1 DEF Callable
  <2>3. QED BY <1>1, <1>6, <2>1, <2>2
<1>11. QED BY <1>5, <1>6, <1>7, <1>9, <1>10 DEF DownloadInv

\* A deletion that finds no download active removes the file of none.
LEMMA NoneActive ==
    ASSUME DownloadInv, ~HasActive, NEW i \in Items
    PROVE  files[i] = 0
<1>1. Fits(items[i], files[i]) /\ files[i] \in 0..1
  BY DEF DownloadInv, DownloadsTypeOK
<1>2. CASE items[i] = NoItem
  BY <1>1, <1>2 DEF Fits
<1>3. CASE items[i] # NoItem
  <2>1. i \in Known
    BY <1>3 DEF Known
  <2>2. items[i].task = "snapshot" \/ (items[i].task = "none" /\ ~items[i].staged)
    BY <2>1 DEF HasActive, Live, Item
  <2>3. QED BY <1>1, <1>3, <2>2 DEF Fits
<1>4. QED BY <1>2, <1>3

-----------------------------------------------------------------------------
(* The window.                                                              *)

LEMMA MovesMean ==
    ASSUME DownloadInv, NEW i \in Items, Moves(i), NEW j \in Items
    PROVE  /\ items[j] # NoItem \/ dropped[j] # NoItem => items'[j] # NoItem \/ dropped'[j] # NoItem
           /\ items[j] = NoItem => items'[j] = NoItem
           /\ items'[j] # NoItem /\ items[j].state \in {"imported", "cancelled"} =>
                items'[j].state = items[j].state
           /\ Over(j) => Over(j)'
           /\ <<"cancel", j>> \in calls => <<"cancel", j>> \in calls' \/ Over(j)'
<1>1. PICK r, file : Turns(i, r, file)
  BY DEF Moves
<1>2. dropped[j] # NoItem => dropped'[j] # NoItem
  BY DEF Moves
<1>3. CASE j = i
  <2>1. items'[j] = r /\ files'[j] = file
    BY <1>1, <1>3 DEF Turns, DownloadInv, DownloadsTypeOK
  <2>2. QED BY <1>1, <1>2, <1>3, <2>1 DEF Turns, Over
<1>4. CASE j # i
  <2>1. items'[j] = items[j] /\ files'[j] = files[j]
    BY <1>1, <1>4 DEF Turns, DownloadInv, DownloadsTypeOK
  <2>2. QED BY <1>1, <1>2, <1>4, <2>1 DEF Turns, Over
<1>5. QED BY <1>3, <1>4

DeliveryInv == UserTypeOK /\ DownloadInv /\ WindowInv

\* What an order was for is under way, or is done.
OrdersStand ==
    \A j \in shown : j \in orders => j \in orders' \/ <<"cancel", j>> \in calls' \/ Over(j)'

LEMMA WindowStands ==
    ASSUME DeliveryInv, NEW i \in Items, Moves(i), shown' = shown, OrdersStand,
           NEW busy, window' = window \/ (window # NoWindow /\ window' = [window EXCEPT !.busy = busy])
    PROVE  WindowInv'
<1>1. /\ window'.item = window.item /\ window'.seen = window.seen
      /\ window' # NoWindow => window # NoWindow
  BY DEF DeliveryInv, UserTypeOK
<1>2. shown \subseteq Items
  BY DEF DeliveryInv, UserTypeOK
<1>3. ASSUME NEW j \in shown' PROVE items'[j] # NoItem \/ dropped'[j] # NoItem
  BY <1>2, MovesMean DEF DeliveryInv, WindowInv
<1>4. ASSUME NEW j \in shown'
      PROVE  window'.item = j \/ j \in orders' \/ <<"cancel", j>> \in calls' \/ Over(j)'
  BY <1>1, <1>2, MovesMean DEF DeliveryInv, WindowInv, OrdersStand
<1>5. ASSUME window' # NoWindow
      PROVE  /\ window'.item \in shown'
             /\ window'.seen \in {"imported", "cancelled"} /\ items'[window'.item] # NoItem =>
                  items'[window'.item].state = window'.seen
             /\ window'.seen = "forgotten" => items'[window'.item] = NoItem
  <2>1. PICK j \in Items : j = window.item /\ j \in shown
    BY <1>1, <1>2, <1>5 DEF DeliveryInv, WindowInv
  <2>2. /\ window.seen \in {"imported", "cancelled"} /\ items[j] # NoItem => items[j].state = window.seen
        /\ window.seen = "forgotten" => items[j] = NoItem
    BY <1>1, <1>5, <2>1 DEF DeliveryInv, WindowInv
  <2>3. /\ items[j] = NoItem => items'[j] = NoItem
        /\ items'[j] # NoItem /\ items[j].state \in {"imported", "cancelled"} =>
             items'[j].state = items[j].state
    BY MovesMean DEF DeliveryInv
  <2>4. QED BY <1>1, <2>1, <2>2, <2>3
<1>6. QED BY <1>3, <1>4, <1>5 DEF WindowInv

LEMMA DownloadStands ==
    ASSUME DeliveryInv, NEW i \in Items, DownloadGoesOn(i) \/ DownloadExpires(i) \/ HandoffCalls(i)
    PROVE  DeliveryInv'
<1>1. UNCHANGED <<deletion, resetting, window, orders, shown>> /\ DownloadInv
  BY DEF DeliveryInv, DownloadGoesOn, DownloadExpires, HandoffCalls, user, gone
<1>2. Moves(i)
  BY <1>1, HandoffKeeps, WorkKeeps, WorkEndsKeeps, StopsKeeps, CompletesKeeps, CancelsKeeps, ExpiresKeeps,
     CompletionAskedKeeps, CancelAskedKeeps DEF DownloadGoesOn, DownloadExpires, HandoffCalls
<1>3. DownloadInv'
  BY <1>1, <1>2, MovesKeep
<1>4. OrdersStand
  BY <1>1 DEF OrdersStand
<1>5. WindowInv'
  BY <1>1, <1>2, <1>4, WindowStands
<1>6. QED BY <1>1, <1>3, <1>5 DEF DeliveryInv, UserTypeOK

LEMMA StartStands ==
    ASSUME DeliveryInv, NEW i \in Items, NEW p \in Sources, DownloadStarts(i, p) \/ HandoffAsked(i, p)
    PROVE  DeliveryInv'
<1>1. PICK direct \in BOOLEAN : Start(i, p, direct) /\ p \in Exclusive \cup Shared
  BY DEF DownloadStarts, HandoffAsked
<1>2. /\ DownloadInv' /\ items'[i] # NoItem /\ \A j \in Items \ {i} : items'[j] = items[j]
      /\ items[i] = NoItem /\ dropped[i] = NoItem /\ UNCHANGED <<files, calls, dropped>>
  BY <1>1, StartKeeps DEF DeliveryInv, Start, Known
<1>3. shown \subseteq Items /\ i \notin shown
  BY <1>2 DEF DeliveryInv, WindowInv, UserTypeOK
<1>4. ASSUME NEW j \in shown
      PROVE  items'[j] = items[j] /\ (Over(j) => Over(j)')
  BY <1>2, <1>3 DEF Over
<1>5. CASE DownloadStarts(i, p)
  <2>1. /\ window = NoWindow /\ window' = [item |-> i, seen |-> "downloading", busy |-> "none"]
        /\ shown' = shown \cup {i} /\ UNCHANGED <<deletion, resetting, orders>>
    BY <1>5 DEF DownloadStarts
  <2>2. UserTypeOK'
    BY <2>1 DEF DeliveryInv, UserTypeOK, States
  <2>3. \A j \in shown : j # 0 /\ (j \in orders \/ <<"cancel", j>> \in calls \/ Over(j))
    <3>1. window.item = 0
      BY <2>1 DEF NoWindow
    <3>2. \A j \in Items : j # 0
      BY DEF Items
    <3>3. QED BY <1>3, <3>1, <3>2 DEF DeliveryInv, WindowInv
  <2>4. WindowInv'
    BY <1>2, <1>3, <1>4, <2>1, <2>3 DEF DeliveryInv, WindowInv
  <2>5. QED BY <1>2, <2>2, <2>4 DEF DeliveryInv
<1>6. CASE HandoffAsked(i, p)
  <2>1. UNCHANGED <<deletion, resetting, window, orders, shown>>
    BY <1>6 DEF HandoffAsked, gone
  <2>2. UserTypeOK'
    BY <2>1 DEF DeliveryInv, UserTypeOK
  <2>3. WindowInv'
    BY <1>2, <1>3, <1>4, <2>1 DEF DeliveryInv, WindowInv
  <2>4. QED BY <1>2, <2>2, <2>3 DEF DeliveryInv
<1>7. QED BY <1>5, <1>6

\* What the window is told, and what it asks.
LEMMA WindowSees ==
    ASSUME DeliveryInv, WindowReads \/ WindowHears
    PROVE  DeliveryInv'
<1>1. window # NoWindow /\ UNCHANGED <<items, files, calls, suspended, dropped, deletion, resetting, orders, shown>>
  BY DEF WindowReads, WindowHears, acquisitionVars, gone
<1>2. PICK i \in Items : i = window.item
  BY <1>1 DEF DeliveryInv, WindowInv, UserTypeOK
<1>3. PICK seen, busy :
        /\ window' = [window EXCEPT !.seen = seen, !.busy = busy] /\ busy \in {window.busy, "none"}
        /\ seen \in {IF items[i] # NoItem THEN items[i].state ELSE "forgotten", "failed"}
  <2>1. PICK state : state = IF items[i] # NoItem THEN items[i].state ELSE "forgotten"
    OBVIOUS
  <2>2. CASE WindowReads
    <3>1. window' = [window EXCEPT !.seen = state]
      BY <1>2, <2>1, <2>2 DEF WindowReads, Known, Item
    <3>2. window' = [window EXCEPT !.seen = state, !.busy = window.busy]
      BY <3>1 DEF DeliveryInv, UserTypeOK
    <3>3. QED BY <2>1, <3>2
  <2>3. CASE WindowHears
    <3>1. PICK seen \in {state, "failed"} : window' = [window EXCEPT !.busy = "none", !.seen = seen]
      BY <1>2, <2>1, <2>3 DEF WindowHears, Known, Item
    <3>2. window' = [window EXCEPT !.seen = seen, !.busy = "none"]
      BY <3>1 DEF DeliveryInv, UserTypeOK
    <3>3. QED BY <2>1, <3>1, <3>2
  <2>4. QED BY <2>2, <2>3
<1>4. seen \in {"none", "forgotten"} \cup States
  BY <1>3, NoItemAssumption DEF DeliveryInv, DownloadInv, DownloadsTypeOK, Acquisitions, States, Terminal
<1>5. /\ window' \in [item : {0} \cup Items, seen : {"none", "forgotten"} \cup States,
                      busy : {"none", "complete", "cancel"}]
      /\ window'.item = i /\ window'.seen = seen
  BY <1>2, <1>3, <1>4 DEF DeliveryInv, UserTypeOK
<1>6. UserTypeOK' /\ DownloadInv'
  BY <1>1, <1>5 DEF DeliveryInv, UserTypeOK, DownloadInv, DownloadsTypeOK, Known
<1>7. /\ seen \in {"imported", "cancelled"} /\ items[i] # NoItem => items[i].state = seen
      /\ seen = "forgotten" => items[i] = NoItem
  BY <1>3, NoItemAssumption DEF DeliveryInv, DownloadInv, DownloadsTypeOK, Acquisitions, States, Terminal
<1>8. WindowInv'
  BY <1>1, <1>2, <1>5, <1>7 DEF DeliveryInv, WindowInv, Over
<1>9. QED BY <1>6, <1>8 DEF DeliveryInv

LEMMA WindowAsks ==
    ASSUME DeliveryInv, WindowCompletes \/ WindowCancels
    PROVE  DeliveryInv'
<1>1. /\ window # NoWindow /\ UNCHANGED <<deletion, resetting, orders, shown>>
  BY DEF WindowCompletes, WindowCancels, gone
<1>2. PICK i \in Items : i = window.item
  BY <1>1 DEF DeliveryInv, WindowInv, UserTypeOK
<1>3. PICK busy \in {"complete", "cancel"} : window' = [window EXCEPT !.busy = busy]
  BY DEF WindowCompletes, WindowCancels
<1>4. Moves(i)
  BY <1>2, CompletionAskedKeeps, CancelAskedKeeps DEF WindowCompletes, WindowCancels, DeliveryInv
<1>5. DownloadInv'
  BY <1>4, MovesKeep DEF DeliveryInv
<1>6. OrdersStand
  BY <1>1 DEF OrdersStand
<1>7. WindowInv'
  BY <1>1, <1>3, <1>4, <1>6, WindowStands
<1>8. UserTypeOK'
  BY <1>1, <1>3 DEF DeliveryInv, UserTypeOK
<1>9. QED BY <1>5, <1>7, <1>8 DEF DeliveryInv

\* A window that takes nothing with it has seen the end of its download.
LEMMA WindowLeaves ==
    ASSUME DeliveryInv, WindowGoes
    PROVE  DeliveryInv'
<1>1. /\ window # NoWindow /\ window' = NoWindow
      /\ orders' = IF Ordered THEN orders \cup {window.item} ELSE orders
      /\ UNCHANGED <<items, files, calls, suspended, dropped, deletion, resetting, shown>>
  BY DEF WindowGoes, acquisitionVars
<1>2. PICK i \in Items : i = window.item
  BY <1>1 DEF DeliveryInv, WindowInv, UserTypeOK
<1>3. i \in orders' \/ Over(i)
  <2>1. CASE Ordered
    BY <1>1, <1>2, <2>1
  <2>2. CASE ~Ordered
    <3>1. window.seen \in {"imported", "cancelled", "forgotten"}
      BY <2>2 DEF Ordered
    <3>2. items[i] = NoItem \/ items[i].state \in {"imported", "cancelled"}
      BY <1>1, <1>2, <3>1 DEF DeliveryInv, WindowInv
    <3>3. Fits(items[i], files[i]) /\ files[i] \in 0..1
      BY DEF DeliveryInv, DownloadInv, DownloadsTypeOK
    <3>4. QED BY <3>2, <3>3 DEF Over, Done, Fits, Terminal
  <2>3. QED BY <2>1, <2>2
<1>4. DownloadInv'
  BY <1>1 DEF DeliveryInv, DownloadInv, DownloadsTypeOK, Known
<1>5. UserTypeOK'
  BY <1>1, <1>2 DEF DeliveryInv, UserTypeOK, NoWindow
<1>6. WindowInv'
  BY <1>1, <1>2, <1>3 DEF DeliveryInv, WindowInv, Over
<1>7. QED BY <1>4, <1>5, <1>6 DEF DeliveryInv

LEMMA OrderStands ==
    ASSUME DeliveryInv, NEW i \in Items, OrderArrives(i)
    PROVE  DeliveryInv'
<1>1. orders' = orders \ {i} /\ UNCHANGED <<deletion, resetting, window, shown>> /\ DownloadInv
  BY DEF OrderArrives, DeliveryInv
<1>2. Moves(i) /\ (<<"cancel", i>> \in calls' \/ Over(i)')
  <2>1. CASE CancelAsked(i)
    BY <1>1, <2>1, CancelAskedKeeps
  <2>2. CASE i \notin Known /\ UNCHANGED acquisitionVars
    <3>1. items[i] = NoItem /\ UNCHANGED <<items, files, calls, suspended, dropped>>
      BY <2>2 DEF Known, acquisitionVars
    <3>2. Over(i)'
      BY <1>1, <3>1 DEF Over, Done, DownloadInv, Fits, DownloadsTypeOK
    <3>3. Moves(i)
      BY <1>1, <3>1, SameMoves DEF DownloadInv, DownloadsTypeOK
    <3>4. QED BY <3>2, <3>3
  <2>3. QED BY <2>1, <2>2 DEF OrderArrives
<1>3. DownloadInv'
  BY <1>1, <1>2, MovesKeep
<1>4. OrdersStand
  BY <1>1, <1>2 DEF OrdersStand
<1>5. WindowInv'
  BY <1>1, <1>2, <1>4, WindowStands
<1>6. UserTypeOK'
  BY <1>1 DEF DeliveryInv, UserTypeOK
<1>7. QED BY <1>3, <1>5, <1>6 DEF DeliveryInv

\* What happens to searches and to the switches reaches no download.
LEMMA OthersStand ==
    ASSUME DeliveryInv, UNCHANGED <<items, files, calls, dropped, window, orders, shown>>,
           suspended' \in BOOLEAN, resetting' \in BOOLEAN,
           deletion' \in {"none", "allowed", "refusing", "searches", "index", "locked"}
    PROVE  DeliveryInv'
<1>1. DownloadInv'
  BY DEF DeliveryInv, DownloadInv, DownloadsTypeOK, Known
<1>2. WindowInv'
  BY DEF DeliveryInv, WindowInv, Over
<1>3. QED BY <1>1, <1>2 DEF DeliveryInv, UserTypeOK

LEMMA ReloadStands ==
    ASSUME DeliveryInv, Reloads
    PROVE  DeliveryInv'
<1>1. /\ items' = [i \in Items |-> NoItem] /\ files' = [i \in Items |-> 0] /\ calls' = {}
      /\ suspended' = FALSE
      /\ dropped' = [i \in Items |-> IF items[i] # NoItem THEN items[i].state ELSE dropped[i]]
      /\ resetting' = FALSE /\ window' = NoWindow /\ orders' = {} /\ UNCHANGED <<deletion, shown>>
  BY DEF Reloads, Known, Item
<1>2. \A i \in Items : items[i] # NoItem => items[i].state \in States /\ items[i].state # NoItem
  BY NoItemAssumption DEF DeliveryInv, DownloadInv, DownloadsTypeOK, Acquisitions
<1>3. dropped' \in [Items -> {NoItem} \cup States]
  BY <1>1, <1>2 DEF DeliveryInv, DownloadInv, DownloadsTypeOK
<1>4. DownloadsTypeOK'
  <2>1. 0 \in 0..1
    OBVIOUS
  <2>2. QED BY <1>1, <1>3, <2>1 DEF DownloadsTypeOK
<1>5. \A i \in Items : Fits(items'[i], files'[i]) /\ Done(items'[i], files'[i])
  BY <1>1 DEF Fits, Done
<1>6. DownloadInv'
  BY <1>1, <1>4, <1>5 DEF DownloadInv
<1>7. \A i \in shown : i \in Items /\ dropped'[i] # NoItem
  BY <1>1, <1>2 DEF DeliveryInv, WindowInv, UserTypeOK
<1>8. WindowInv'
  BY <1>1, <1>5, <1>7 DEF WindowInv, Over
<1>9. UserTypeOK'
  BY <1>1 DEF DeliveryInv, UserTypeOK, NoWindow
<1>10. QED BY <1>6, <1>8, <1>9 DEF DeliveryInv

LEMMA DeliveryStarts == Init => DeliveryInv
<1> SUFFICES ASSUME Init PROVE DeliveryInv
  OBVIOUS
<1>1. DownloadsTypeOK
  <2>1. 0 \in 0..1
    OBVIOUS
  <2>2. QED BY <2>1 DEF Init, AcquisitionInit, DownloadsTypeOK
<1>2. DownloadInv
  BY <1>1 DEF Init, AcquisitionInit, DownloadInv, Fits
<1>3. WindowInv /\ UserTypeOK
  BY DEF Init, WindowInv, UserTypeOK, NoWindow
<1>4. QED BY <1>2, <1>3 DEF DeliveryInv

LEMMA DeliveryKeeps == DeliveryInv /\ [Next]_vars => DeliveryInv'
<1> SUFFICES ASSUME DeliveryInv, [Next]_vars PROVE DeliveryInv'
  OBVIOUS
<1>1. /\ deletion \in {"none", "allowed", "refusing", "searches", "index", "locked"}
      /\ resetting \in BOOLEAN /\ suspended \in BOOLEAN
  BY DEF DeliveryInv, UserTypeOK, DownloadInv, DownloadsTypeOK
<1>2. ASSUME Catalog \/ SearchAsked \/ SearchCancelled \/ (\E p \in Sources : Switches(p)) \/ ResetAsked
               \/ UNCHANGED vars
      PROVE  DeliveryInv'
  BY <1>1, <1>2, OthersStand
     DEF Catalog, SearchAsked, SearchCancelled, Switches, ResetAsked, vars, user, gone, acquisitionVars
<1>3. ASSUME DeletionAsked \/ DeletionSuspends \/ DeletionStopsSearches \/ DeletionStopsIndex
               \/ DeletionDiscards \/ ResetEnds
      PROVE  DeliveryInv'
  BY <1>1, <1>3, OthersStand
     DEF DeletionAsked, DeletionSuspends, DeletionStopsSearches, DeletionStopsIndex, DeletionDiscards,
         ResetEnds, gone, acquisitionVars
<1>4. CASE DeletionEnds
  <2>1. UNCHANGED <<items, calls, dropped, window, orders, shown, resetting>> /\ suspended' = FALSE
        /\ deletion' = "none"
    BY <1>4 DEF DeletionEnds, gone
  <2>2. files' = files
    <3>1. CASE HasActive
      BY <1>4, <3>1 DEF DeletionEnds
    <3>2. CASE ~HasActive
      <4>1. files \in [Items -> 0..1] /\ \A i \in Items : files[i] = 0
        BY <3>2, NoneActive DEF DeliveryInv, DownloadInv, DownloadsTypeOK
      <4>2. files' = [i \in Items |-> 0]
        BY <1>4, <3>2 DEF DeletionEnds
      <4>3. QED BY <4>1, <4>2
    <3>3. QED BY <3>1, <3>2
  <2>3. QED BY <1>1, <2>1, <2>2, OthersStand
<1>5. QED
  BY <1>2, <1>3, <1>4, ReloadStands, WindowSees, WindowAsks, WindowLeaves, StartStands, DownloadStands,
     OrderStands DEF Next, Deletes, Shows

LEMMA DeliveryHolds == Spec => []DeliveryInv
BY DeliveryStarts, DeliveryKeeps, PTL DEF Spec

\* What is not a step of a download leaves the strays, or removes them with the folder they are in.
LEMMA StraysElsewhere ==
    ASSUME [Next]_vars
    PROVE  (\E i \in Items : DownloadGoesOn(i)) \/ stray' = stray \/ stray' = {}
<1>1. ASSUME Catalog \/ SearchAsked \/ SearchCancelled \/ (\E p \in Sources : Switches(p)) \/ ResetAsked
               \/ DeletionAsked \/ UNCHANGED vars
      PROVE  stray' = stray
  BY <1>1 DEF Catalog, SearchAsked, SearchCancelled, Switches, ResetAsked, DeletionAsked, vars, acquisitionVars
<1>2. ASSUME Deletes \/ Reloads PROVE stray' = stray \/ stray' = {}
  BY <1>2 DEF Deletes, DeletionSuspends, DeletionStopsSearches, DeletionStopsIndex, DeletionDiscards,
              DeletionEnds, ResetEnds, Reloads, acquisitionVars
<1>3. ASSUME Shows PROVE stray' = stray
  BY <1>3 DEF Shows, WindowReads, WindowCompletes, WindowCancels, WindowHears, WindowGoes, CompletionAsked,
              CancelAsked, acquisitionVars
<1>4. ASSUME NEW i \in Items,
             \/ \E p \in Sources : DownloadStarts(i, p) \/ HandoffAsked(i, p)
             \/ DownloadExpires(i) \/ OrderArrives(i) \/ HandoffCalls(i)
      PROVE  stray' = stray
  BY <1>4 DEF DownloadStarts, HandoffAsked, Start, DownloadExpires, Expires, OrderArrives, HandoffCalls,
              CompletionAsked, CancelAsked, acquisitionVars
<1>5. QED BY <1>1, <1>2, <1>3, <1>4 DEF Next

\* Only a handoff that is staged again leaves a file beside the one its path names.
LEMMA StraysType == Spec => [](stray \subseteq Items)
<1>1. Init => stray \subseteq Items
  BY DEF Init, AcquisitionInit
<1>2. stray \subseteq Items /\ [Next]_vars => (stray \subseteq Items)'
  <2> SUFFICES ASSUME stray \subseteq Items, [Next]_vars PROVE stray' \subseteq Items
    OBVIOUS
  <2>1. \A i \in Items : DownloadGoesOn(i) => stray' \subseteq Items
    BY DEF DownloadGoesOn, HandoffStarts, TaskBegins, Resolves, ProviderWaits, WaitEnds, Downloads, Inspects,
           Fails, CleansUp, Stops, Completes, Cancels, Stages, Imports
  <2>2. QED BY <2>1, StraysElsewhere
<1>3. QED BY <1>1, <1>2, PTL DEF Spec

LEMMA StraysNone == ~Restages => (Spec => [](stray = {}))
<1> SUFFICES ASSUME ~Restages PROVE Spec => [](stray = {})
  OBVIOUS
<1>1. Init => stray = {}
  BY DEF Init, AcquisitionInit
<1>2. stray = {} /\ [Next]_vars => (stray = {})'
  <2> SUFFICES ASSUME stray = {}, [Next]_vars PROVE stray' = {}
    OBVIOUS
  <2>1. \A i \in Items : DownloadGoesOn(i) => stray' = {}
    BY DEF DownloadGoesOn, HandoffStarts, TaskBegins, Resolves, ProviderWaits, WaitEnds, Downloads, Inspects,
           Fails, CleansUp, Stops, Completes, Cancels, Stages, Imports
  <2>2. QED BY <2>1, StraysElsewhere
<1>3. QED BY <1>1, <1>2, PTL DEF Spec

\* A staged file is on disk exactly as long as an acquisition answers for it, whatever its task, its
\* cancellation, its import, its expiry, a deletion or a reload did, and whether what a handoff staged
\* could be read, as long as no handoff is staged twice (_download_once, _complete_locked,
\* _cancel_locked, _expire).
THEOREM StagedIsOwned == ~Restages => (Spec => []StagingIsOwned)
<1> SUFFICES ASSUME ~Restages PROVE Spec => []StagingIsOwned
  OBVIOUS
<1>1. DeliveryInv /\ stray = {} => StagingIsOwned
  <2> SUFFICES ASSUME DeliveryInv, stray = {} PROVE StagingIsOwned
    OBVIOUS
  <2>1. \A i \in Items : Fits(items[i], files[i])
    BY DEF DeliveryInv, DownloadInv
  <2>2. QED BY <2>1 DEF StagingIsOwned, Fits, Known, Live, Item, Held
<1>2. QED BY <1>1, DeliveryHolds, StraysNone, PTL

\* A window of the panel that went took its download with it: what it showed is over once its last call
\* and its cancellation are answered (TableAcquisitionModal's unmount, cancel, _cancel_locked).
THEOREM ClosedEnds == Spec => []ClosedIsOver
<1>1. DeliveryInv => ClosedIsOver
  <2> SUFFICES ASSUME DeliveryInv, NEW i \in shown, window.item # i, i \notin orders, \A c \in calls : c[2] # i
               PROVE  ~Live(i) /\ files[i] = 0 /\ (i \in Known => Item(i).state \in Terminal)
    BY DEF ClosedIsOver
  <2>1. Over(i) /\ Fits(items[i], files[i])
    BY DEF DeliveryInv, WindowInv, DownloadInv, UserTypeOK
  <2>2. QED BY <2>1 DEF Over, Done, Fits, Live, Known, Item
<1>2. QED BY <1>1, DeliveryHolds, PTL

-----------------------------------------------------------------------------
(* The catalog.                                                             *)

\* Whatever lists pages lists them at offsets of its own shape.
LoadInv ==
    /\ index.total = None => index.pages = {}
    /\ index.total # None => Loadable(index)
    /\ \A w \in writes : Loadable(w.payload)
    /\ disk.index # None => Loadable(disk.index)

CachedInv == CatalogTypeOK /\ LoadInv

LEMMA MaxOfTwo ==
    ASSUME NEW a \in Nat, NEW b \in Nat
    PROVE  Max({a, b}) \in {a, b} /\ Max({a, b}) >= a /\ Max({a, b}) >= b
<1>1. \E x \in {a, b} : \A y \in {a, b} : x >= y
  <2>1. CASE a >= b
    BY <2>1
  <2>2. CASE b >= a
    BY <2>2
  <2>3. QED BY <2>1, <2>2
<1>2. Max({a, b}) \in {a, b} /\ \A y \in {a, b} : Max({a, b}) >= y
  BY <1>1 DEF Max
<1>3. QED BY <1>2

LEMMA MinOfTwo ==
    ASSUME NEW a \in Nat, NEW b \in Nat
    PROVE  Min({a, b}) \in {a, b}
<1>1. \E x \in {a, b} : \A y \in {a, b} : x =< y
  <2>1. CASE a <= b
    BY <2>1
  <2>2. CASE b <= a
    BY <2>2
  <2>3. QED BY <2>1, <2>2
<1>2. QED BY <1>1 DEF Min

LEMMA OffsetsAre ==
    ASSUME NEW shape, shape.step \in {None, 1, 2}, shape.total \in Nat
    PROVE  Offsets(shape) \subseteq Nat
<1>1. CASE shape.step = None
  BY <1>1 DEF Offsets
<1>2. CASE shape.step = 1
  BY <1>2, NoneAssumption DEF Offsets
<1>3. CASE shape.step = 2
  BY <1>3, NoneAssumption DEF Offsets
<1>4. QED BY <1>1, <1>2, <1>3

\* A page read again leaves a listing that can be loaded.
LEMMA RefreshedLoads ==
    ASSUME CachedInv, NEW start \in Nat, NEW from \in Nat, Readable(start)
    PROVE  /\ Refreshed(start, from) \in Listings /\ Loadable(Refreshed(start, from))
           /\ Refreshed(start, from).total = forum.total
           /\ start = 0 => Refreshed(start, from).step = forum.step
           /\ Refreshed(start, from).from \in {from, index.from}
           /\ index.pages = {} => Refreshed(start, from).from = from
<1>1. /\ forum \in Shapes /\ index \in Listings /\ index.from \in Nat
  BY DEF CachedInv, CatalogTypeOK, Listings
<1>2. PICK resized, kept, shape :
        /\ resized = (start = 0 /\ forum.step # index.step)
        /\ kept = IF resized THEN {} ELSE index.pages
        /\ shape = [total |-> forum.total, step |-> IF start = 0 THEN forum.step ELSE index.step]
  OBVIOUS
<1>3. PICK pages, r :
        /\ pages = {s \in kept \cup {start} : s \in Offsets(shape)}
        /\ r = [pages |-> pages, total |-> shape.total, step |-> shape.step,
                from |-> IF kept = {} THEN from ELSE Min({from, index.from})]
  OBVIOUS
<1>4. r = Refreshed(start, from)
  BY <1>2, <1>3 DEF Refreshed
<1>5. /\ shape.total = forum.total /\ (start = 0 => shape.step = forum.step)
      /\ start # 0 => forum.total > 1 /\ shape.step = index.step /\ index.step # None
  BY <1>2 DEF Readable
<1>6. /\ shape.total \in {1, 2} /\ shape.step \in {None, 1, 2}
      /\ shape.total = 1 <=> shape.step = None
  BY <1>1, <1>5, NoneAssumption DEF Shapes, Listings
<1>7. Offsets(shape) \subseteq Nat
  BY <1>6, OffsetsAre
<1>8. r.from \in {from, index.from} /\ r.from \in Nat
  BY <1>1, <1>3, MinOfTwo
<1>9. r \in Listings
  BY <1>3, <1>6, <1>7, <1>8 DEF Listings
<1>10. r.pages \subseteq Offsets(r)
  BY <1>3 DEF Offsets
<1>11. Loadable(r)
  BY <1>3, <1>6, <1>9, <1>10, NoneAssumption DEF Loadable
<1>12. index.pages = {} => r.from = from
  BY <1>2, <1>3
<1>13. r.total = forum.total /\ (start = 0 => r.step = forum.step)
  BY <1>3, <1>5
<1>14. QED BY <1>4, <1>8, <1>9, <1>11, <1>12, <1>13

\* What is written says of the listing what memory does.
LEMMA PayloadLoads ==
    ASSUME CatalogTypeOK, NEW held \in Listings, Loadable(held)
    PROVE  /\ Payload(held) \in Payloads /\ Loadable(Payload(held))
           /\ Payload(held).from = held.from /\ Payload(held).searched = searched
<1>1. searched \in Nat
  BY DEF CatalogTypeOK
<1>2. Payload(held) \in Payloads
  BY <1>1 DEF Payload, Payloads, Listings
<1>3. /\ Payload(held).total = held.total /\ Payload(held).step = held.step
      /\ Payload(held).pages = held.pages
  BY DEF Payload
<1>4. Loadable(Payload(held))
  BY <1>2, <1>3, NoneAssumption DEF Loadable, Offsets
<1>5. QED BY <1>2, <1>4 DEF Payload

LEMMA SnapshotTyped ==
    ASSUME CachedInv, NEW by \in {"crawl", "search"}, NEW held \in Listings, Loadable(held),
           Snapshot(by, held)
    PROVE  /\ generation' \in Nat
           /\ writes' \subseteq [generation : 1..generation', payload : Payloads, by : {"crawl", "search"}]
           /\ \A w \in writes' : Loadable(w.payload)
<1>1. /\ generation' = generation + 1 /\ generation \in Nat
      /\ writes' = writes \cup {[generation |-> generation + 1, payload |-> Payload(held), by |-> by]}
      /\ writes \subseteq [generation : 1..generation, payload : Payloads, by : {"crawl", "search"}]
      /\ \A w \in writes : Loadable(w.payload)
  BY DEF Snapshot, CachedInv, CatalogTypeOK, LoadInv
<1>2. Payload(held) \in Payloads /\ Loadable(Payload(held))
  BY PayloadLoads DEF CachedInv
<1>3. PICK w : w = [generation |-> generation + 1, payload |-> Payload(held), by |-> by]
  OBVIOUS
<1>4. w \in [generation : 1..generation', payload : Payloads, by : {"crawl", "search"}]
  BY <1>1, <1>2, <1>3
<1>5. ASSUME NEW v \in writes
      PROVE  v \in [generation : 1..generation', payload : Payloads, by : {"crawl", "search"}]
  BY <1>1
<1>6. QED BY <1>1, <1>2, <1>3, <1>4, <1>5

LEMMA CancelledIs ==
    ASSUME NEW task \in {None} \cup Crawls
    PROVE  /\ Cancelled(task) \in {None} \cup Crawls
           /\ Cancelled(task) = None <=> task = None
           /\ task # None => Cancelled(task).from = task.from
<1>1. CASE task = None
  BY <1>1 DEF Cancelled
<1>2. CASE task \in Crawls
  <2>1. [task EXCEPT !.phase = "end"] \in Crawls /\ [task EXCEPT !.phase = "end"].from = task.from
    BY <1>2 DEF Crawls
  <2>2. QED BY <1>2, <2>1, NoneAssumption DEF Cancelled
<1>3. QED BY <1>1, <1>2

LEMMA StoppedIs ==
    ASSUME NEW s \in Searches
    PROVE  /\ [s EXCEPT !.stopped = TRUE] \in Searches
           /\ [s EXCEPT !.stopped = TRUE].from = s.from /\ [s EXCEPT !.stopped = TRUE].rows = s.rows
           /\ [s EXCEPT !.stopped = TRUE] # None
BY NoneAssumption DEF Searches

LEMMA AnsweredIs ==
    ASSUME CatalogTypeOK, search # None, NEW p, NEW rows \in SUBSET Rows, Answered(p, rows)
    PROVE  /\ search' \in Searches /\ search' # None
           /\ search'.from = search.from /\ search'.rows = search.rows \cup rows
<1>1. search \in Searches
  BY DEF CatalogTypeOK
<1>2. PICK left, all : left = search.left \ {p} /\ all = search.rows \cup rows
  OBVIOUS
<1>3. search' = [search EXCEPT !.left = left, !.rows = all]
  BY <1>2 DEF Answered
<1>4. left \subseteq Sources /\ all \subseteq Rows
  BY <1>1, <1>2 DEF Searches
<1>5. search' \in Searches /\ search'.from = search.from /\ search'.rows = all
  BY <1>1, <1>3, <1>4 DEF Searches
<1>6. QED BY <1>2, <1>5, NoneAssumption

LEMMA BeginsIs ==
    ASSUME CatalogTypeOK, NEW kind \in Kinds, Begins(kind)
    PROVE  budget' \in [Kinds -> Nat]
<1>1. budget \in [Kinds -> Nat] /\ budget[kind] \in Nat /\ budget[kind] > 0
  BY DEF CatalogTypeOK, Begins
<1>2. budget[kind] - 1 \in Nat
  BY <1>1
<1>3. QED BY <1>1, <1>2 DEF Begins

\* A step of a task that reaches nothing cached: what it is about stays what it was about.
TasksMove ==
    /\ UNCHANGED <<forum, index, writes, generation, landed, searched, persisted, disk, snapshots,
                   epoch, searches>>
    /\ off' \subseteq Sources /\ budget' \in [Kinds -> Nat]
    /\ paused' \in [searches : BOOLEAN, index : BOOLEAN]
    /\ crawl' \in {None} \cup Crawls /\ refresh' \in {None} \cup Rows
    /\ search' \in {None} \cup Searches
    /\ crawl' # None => crawl'.from = epoch \/ (crawl # None /\ crawl'.from = crawl.from)
    /\ refresh' # None => refresh'.from = epoch \/ refresh' = refresh
    /\ search' # None => search # None /\ search'.from = search.from /\ search'.rows = search.rows

LEMMA CachedStands ==
    ASSUME CachedInv, TasksMove
    PROVE  CachedInv'
<1>1. CatalogTypeOK'
  BY DEF CachedInv, CatalogTypeOK, TasksMove
<1>2. LoadInv'
  BY DEF CachedInv, LoadInv, TasksMove, Loadable, Offsets
<1>3. QED BY <1>1, <1>2 DEF CachedInv

\* Everything there is to know of the tasks where a step leaves them alone.
LEMMA TasksTyped ==
    ASSUME CachedInv
    PROVE  /\ off \subseteq Sources /\ budget \in [Kinds -> Nat]
           /\ paused \in [searches : BOOLEAN, index : BOOLEAN]
           /\ crawl \in {None} \cup Crawls /\ refresh \in {None} \cup Rows
           /\ search \in {None} \cup Searches /\ epoch \in Nat
BY DEF CachedInv, CatalogTypeOK

LEMMA PendingAre ==
    ASSUME CachedInv
    PROVE  Pending \subseteq Nat
<1>1. index.step \in {None, 1, 2} /\ index.total \in {None, 1, 2}
  BY DEF CachedInv, CatalogTypeOK, Listings
<1>2. QED BY <1>1, OffsetsAre DEF Pending

LEMMA CrawlMoves ==
    ASSUME CachedInv, CrawlStarts \/ CrawlPicks \/ CrawlAsks \/ CrawlOver
    PROVE  TasksMove
<1>1. /\ UNCHANGED <<off, forum, index, writes, generation, landed, searched, persisted, disk, search,
                     snapshots, refresh, paused, epoch, searches>>
  BY DEF CrawlStarts, CrawlPicks, CrawlAsks, CrawlOver, marker
<1>2. "crawl" \in Kinds /\ 0 \in Nat
  BY DEF Kinds
<1>3. budget' \in [Kinds -> Nat]
  BY <1>2, TasksTyped, BeginsIs DEF CrawlStarts, CrawlPicks, CrawlAsks, CrawlOver, CachedInv
<1>4. ASSUME crawl' \in {None} \cup Crawls,
             crawl' # None => crawl'.from = epoch \/ (crawl # None /\ crawl'.from = crawl.from)
      PROVE  TasksMove
  BY <1>1, <1>3, <1>4, TasksTyped DEF TasksMove
<1>5. CASE CrawlStarts
  <2>1. crawl' = [phase |-> "pick", start |-> 0, from |-> epoch]
    BY <1>5 DEF CrawlStarts
  <2>2. crawl' \in Crawls /\ crawl'.from = epoch
    BY <1>2, <2>1, TasksTyped DEF Crawls
  <2>3. QED BY <1>4, <2>2
<1>6. CASE CrawlPicks \/ CrawlAsks
  <2>1. crawl # None /\ crawl \in Crawls
    BY <1>6, TasksTyped DEF CrawlPicks, CrawlAsks
  <2>2. PICK phase \in {"pick", "wait", "out", "end"}, start \in Nat :
          crawl' = [crawl EXCEPT !.phase = phase, !.start = start]
    <3>1. CASE CrawlPicks
      <4>1. CASE crawl' = [crawl EXCEPT !.phase = "end"]
        <5>1. crawl.start \in Nat /\ crawl' = [crawl EXCEPT !.phase = "end", !.start = crawl.start]
          BY <2>1, <4>1 DEF Crawls
        <5>2. QED BY <5>1
      <4>2. CASE \E start \in Pending : crawl' = [crawl EXCEPT !.phase = "wait", !.start = start]
        BY <4>2, PendingAre
      <4>3. QED BY <3>1, <4>1, <4>2 DEF CrawlPicks
    <3>2. CASE CrawlAsks
      <4>1. PICK phase \in {"pick", "out"} : crawl' = [crawl EXCEPT !.phase = phase]
        BY <3>2 DEF CrawlAsks
      <4>2. crawl.start \in Nat /\ crawl' = [crawl EXCEPT !.phase = phase, !.start = crawl.start]
        BY <2>1, <4>1 DEF Crawls
      <4>3. QED BY <4>1, <4>2
    <3>3. QED BY <1>6, <3>1, <3>2
  <2>3. crawl' \in Crawls /\ crawl'.from = crawl.from
    BY <2>1, <2>2 DEF Crawls
  <2>4. QED BY <1>4, <2>1, <2>3
<1>7. CASE CrawlOver
  BY <1>4, <1>7 DEF CrawlOver
<1>8. QED BY <1>5, <1>6, <1>7

LEMMA SearchMoves ==
    ASSUME CachedInv, (\E p \in Sources : Refuses(p) \/ RefreshStarts(p)) \/ SearchStops
    PROVE  TasksMove
<1>1. /\ UNCHANGED <<off, forum, index, crawl, writes, generation, landed, searched, persisted, disk,
                     snapshots, paused, epoch, searches, budget>>
  BY DEF Refuses, RefreshStarts, SearchStops, marker, listing
<1>2. ASSUME NEW p \in Sources, Refuses(p)
      PROVE  TasksMove
  <2>1. search # None /\ Answered(p, {}) /\ refresh' = refresh /\ {} \in SUBSET Rows
    BY <1>2 DEF Refuses, Asking
  <2>2. search' \in Searches /\ search'.from = search.from /\ search'.rows = search.rows \cup {}
    BY <2>1, AnsweredIs DEF CachedInv
  <2>3. QED BY <1>1, <2>1, <2>2, TasksTyped DEF TasksMove
<1>3. ASSUME NEW p \in Sources, RefreshStarts(p)
      PROVE  TasksMove
  <2>1. search' = search /\ refresh' = [of |-> p, from |-> epoch]
    BY <1>3 DEF RefreshStarts
  <2>2. refresh' \in Rows /\ refresh'.from = epoch
    BY <2>1, TasksTyped DEF Rows
  <2>3. QED BY <1>1, <2>1, <2>2, TasksTyped DEF TasksMove
<1>4. CASE SearchStops
  <2>1. search' = None /\ refresh' = refresh
    BY <1>4 DEF SearchStops
  <2>2. QED BY <1>1, <2>1, TasksTyped DEF TasksMove
<1>5. QED BY <1>2, <1>3, <1>4

\* A search that runs is told to stop, or there is none.
SearchStopped == search' = IF search = None THEN None ELSE [search EXCEPT !.stopped = TRUE]

LEMMA StoppedMoves ==
    ASSUME CachedInv, SearchStopped
    PROVE  /\ search' \in {None} \cup Searches
           /\ search' = None <=> search = None
           /\ search' # None => search # None /\ search'.from = search.from /\ search'.rows = search.rows
<1>1. CASE search = None
  BY <1>1 DEF SearchStopped
<1>2. CASE search # None
  BY <1>2, TasksTyped, StoppedIs DEF SearchStopped
<1>3. QED BY <1>1, <1>2

LEMMA CallsMove ==
    ASSUME CachedInv, SearchCancelled \/ (\E p \in Sources : Switches(p)) \/ ResetAsked \/ ResetEnds
    PROVE  TasksMove
<1>1. /\ UNCHANGED <<forum, index, writes, generation, landed, searched, persisted, disk, snapshots, epoch,
                     searches>>
  BY DEF SearchCancelled, Switches, ResetAsked, ResetEnds, marker, listing
<1>2. budget' \in [Kinds -> Nat]
  <2>1. {"call", "switch", "reset"} \subseteq Kinds
    BY DEF Kinds
  <2>2. QED BY <2>1, TasksTyped, BeginsIs DEF SearchCancelled, Switches, ResetAsked, ResetEnds, CachedInv
<1>3. CASE SearchCancelled
  <2>1. SearchStopped /\ UNCHANGED <<off, crawl, refresh, paused>>
    BY <1>3 DEF SearchCancelled, SearchStopped, listing
  <2>2. QED BY <1>1, <1>2, <2>1, StoppedMoves, TasksTyped DEF TasksMove
<1>4. ASSUME NEW p \in Sources, Switches(p)
      PROVE  TasksMove
  <2>1. /\ off' \subseteq Sources /\ crawl' \in {crawl, Cancelled(crawl)} /\ refresh' \in {refresh, None}
        /\ UNCHANGED <<search, paused>>
    BY <1>4, TasksTyped DEF Switches
  <2>2. /\ crawl' \in {None} \cup Crawls
        /\ crawl' # None => crawl # None /\ crawl'.from = crawl.from
    BY <2>1, TasksTyped, CancelledIs
  <2>3. QED BY <1>1, <1>2, <2>1, <2>2, TasksTyped DEF TasksMove
<1>5. CASE ResetAsked
  <2>1. SearchStopped /\ UNCHANGED <<off, crawl, refresh>> /\ paused' = [paused EXCEPT !.searches = TRUE]
    BY <1>5 DEF ResetAsked, SearchStopped, listing
  <2>2. paused' \in [searches : BOOLEAN, index : BOOLEAN]
    BY <2>1, TasksTyped
  <2>3. QED BY <1>1, <1>2, <2>1, <2>2, StoppedMoves, TasksTyped DEF TasksMove
<1>6. CASE ResetEnds
  <2>1. UNCHANGED <<off, crawl, refresh, search>> /\ paused' = [paused EXCEPT !.searches = FALSE]
    BY <1>6 DEF ResetEnds, listing
  <2>2. paused' \in [searches : BOOLEAN, index : BOOLEAN]
    BY <2>1, TasksTyped
  <2>3. QED BY <1>1, <1>2, <2>1, <2>2, TasksTyped DEF TasksMove
<1>7. QED BY <1>3, <1>4, <1>5, <1>6

\* A deletion, up to where it begins to remove.
LEMMA DeletionMoves ==
    ASSUME CachedInv, DeletionAsked \/ DeletionSuspends \/ DeletionStopsSearches \/ DeletionStopsIndex
    PROVE  TasksMove
<1>1. /\ UNCHANGED <<off, forum, index, writes, generation, landed, searched, persisted, disk, snapshots,
                     epoch, searches>>
  BY DEF DeletionAsked, DeletionSuspends, DeletionStopsSearches, DeletionStopsIndex, marker, listing,
         catalogRest, catalogVars
<1>2. budget' \in [Kinds -> Nat]
  <2>1. "delete" \in Kinds
    BY DEF Kinds
  <2>2. QED
    BY <2>1, TasksTyped, BeginsIs
       DEF DeletionAsked, DeletionSuspends, DeletionStopsSearches, DeletionStopsIndex, catalogVars, CachedInv
<1>3. CASE DeletionAsked \/ DeletionSuspends
  <2>1. UNCHANGED <<crawl, refresh, search, paused>>
    BY <1>3 DEF DeletionAsked, DeletionSuspends, catalogRest, catalogVars, listing
  <2>2. QED BY <1>1, <1>2, <2>1, TasksTyped DEF TasksMove
<1>4. CASE DeletionStopsSearches
  <2>1. SearchStopped /\ UNCHANGED <<crawl, refresh>> /\ paused' = [paused EXCEPT !.searches = TRUE]
    BY <1>4 DEF DeletionStopsSearches, SearchStopped, listing
  <2>2. paused' \in [searches : BOOLEAN, index : BOOLEAN]
    BY <2>1, TasksTyped
  <2>3. QED BY <1>1, <1>2, <2>1, <2>2, StoppedMoves, TasksTyped DEF TasksMove
<1>5. CASE DeletionStopsIndex
  <2>1. crawl' = Cancelled(crawl) /\ refresh' = None /\ search' = search
        /\ paused' = [paused EXCEPT !.index = TRUE]
    BY <1>5 DEF DeletionStopsIndex
  <2>2. /\ paused' \in [searches : BOOLEAN, index : BOOLEAN] /\ crawl' \in {None} \cup Crawls
        /\ crawl' # None => crawl # None /\ crawl'.from = crawl.from
    BY <2>1, TasksTyped, CancelledIs
  <2>3. QED BY <1>1, <1>2, <2>1, <2>2, TasksTyped DEF TasksMove
<1>6. QED BY <1>3, <1>4, <1>5

\* What a download begins, does or ends, a window shows, or an order asks.
LEMMA DownloadsApart ==
    ASSUME CachedInv, NEW i \in Items,
           (\E p \in Sources : DownloadStarts(i, p) \/ HandoffAsked(i, p)) \/ DownloadGoesOn(i)
             \/ DownloadExpires(i) \/ OrderArrives(i) \/ HandoffCalls(i) \/ Shows
    PROVE  /\ TasksMove
           /\ UNCHANGED <<crawl, search, refresh, paused, deletion, resetting>>
<1>1. UNCHANGED <<catalogRest, deletion, resetting>>
  BY DEF DownloadStarts, HandoffAsked, DownloadGoesOn, DownloadExpires, OrderArrives, HandoffCalls, Shows,
         WindowReads, WindowCompletes, WindowCancels, WindowHears, WindowGoes, catalogVars, user
<1>2. budget' \in [Kinds -> Nat]
  <2>1. {"download", "call"} \subseteq Kinds
    BY DEF Kinds
  <2>2. budget' = budget \/ \E kind \in Kinds : Begins(kind)
    BY <2>1
       DEF DownloadStarts, HandoffAsked, DownloadGoesOn, DownloadExpires, OrderArrives, HandoffCalls, Shows,
           WindowReads, WindowCompletes, WindowCancels, WindowHears, WindowGoes, catalogVars
  <2>3. QED BY <2>2, TasksTyped, BeginsIs DEF CachedInv
<1>3. QED BY <1>1, <1>2, TasksTyped DEF TasksMove, catalogRest, listing, marker

\* The marker noted as written is covered by what is on disk, and will be by whatever
\* replaces it: later snapshots carry later markers.
MarkerInv ==
    /\ persisted <= searched /\ searched <= searches /\ disk.marker <= searches
    /\ disk.index # None => disk.index.searched <= searches
    /\ persisted <= disk.marker \/ (disk.index # None /\ persisted <= disk.index.searched)
    /\ \A w \in writes :
         /\ w.payload.searched <= searched
         /\ w.generation > landed => persisted <= disk.marker \/ persisted <= w.payload.searched
    /\ \A v, w \in writes : v.generation < w.generation => v.payload.searched <= w.payload.searched

\* Everything cached, and whatever may yet be, was asked for since the last deletion.
EpochInv ==
    /\ \A r \in disk.rows : r.from = epoch
    /\ \A p \in Sources : disk.lists[p] \in {None, epoch}
    /\ disk.index # None => disk.index.from = epoch
    /\ index.pages # {} => index.from = epoch
    /\ \A w \in writes : w.payload.from = epoch
    /\ search # None => search.from = epoch /\ \A r \in search.rows : r.from = epoch
    /\ crawl # None => crawl.from = epoch
    /\ refresh # None => refresh.from = epoch

\* How far a deletion is, and what can no longer begin or be under way.
PhaseInv ==
    /\ resetting => deletion = "none"
    /\ deletion \in {"searches", "index", "locked"} => paused.searches
    /\ deletion \in {"index", "locked"} => paused.index /\ search = None /\ refresh = None
    /\ deletion = "locked" =>
         /\ crawl = None /\ writes = {} /\ persisted = 0 /\ searched = 0
         /\ index.total = None

\* What the steps below keep of a marker and of an epoch.
Kept ==
    /\ CachedInv'
    /\ MarkerInv => MarkerInv'
    /\ EpochInv => EpochInv'

LEMMA TasksKeep ==
    ASSUME CachedInv, TasksMove
    PROVE  Kept
<1>1. MarkerInv => MarkerInv'
  BY DEF MarkerInv, TasksMove
<1>2. EpochInv => EpochInv'
  BY DEF EpochInv, TasksMove
<1>3. QED BY <1>1, <1>2, CachedStands DEF Kept

\* A snapshot of the listing asked for now carries the last marker.
LEMMA SnapshotMarks ==
    ASSUME CachedInv, NEW by \in {"crawl", "search"}, NEW held \in Listings, Loadable(held),
           Snapshot(by, held), UNCHANGED <<landed, searched, persisted, disk, searches>>
    PROVE  MarkerInv => MarkerInv'
<1> SUFFICES ASSUME MarkerInv PROVE MarkerInv'
  OBVIOUS
<1>1. /\ generation \in Nat /\ {searched, persisted} \subseteq Nat
      /\ writes \subseteq [generation : 1..generation, payload : Payloads, by : {"crawl", "search"}]
  BY DEF CachedInv, CatalogTypeOK
<1>2. PICK w : /\ w = [generation |-> generation + 1, payload |-> Payload(held), by |-> by]
               /\ writes' = writes \cup {w}
  BY DEF Snapshot
<1>3. w.payload.searched = searched /\ w.generation = generation + 1
  BY <1>2, PayloadLoads DEF CachedInv
<1>4. \A v \in writes : v.generation <= generation /\ v.generation \in Nat /\ v.payload.searched <= searched
  BY <1>1 DEF MarkerInv
<1>5. \A v \in writes' :
        /\ v.payload.searched <= searched
        /\ v.generation > landed => persisted <= disk.marker \/ persisted <= v.payload.searched
  BY <1>1, <1>2, <1>3 DEF MarkerInv
<1>6. ASSUME NEW v \in writes', NEW u \in writes', v.generation < u.generation
      PROVE  v.payload.searched <= u.payload.searched
  <2>1. CASE u = w
    BY <1>1, <1>2, <1>3, <1>5, <2>1
  <2>2. CASE u \in writes
    <3>1. v \in writes
      BY <1>1, <1>2, <1>3, <1>4, <1>6, <2>2
    <3>2. QED BY <1>6, <2>2, <3>1 DEF MarkerInv
  <2>3. QED BY <1>2, <2>1, <2>2
<1>7. QED BY <1>5, <1>6 DEF MarkerInv

\* A step of the listing that may ask for a snapshot of it, and leaves what is on disk.
ListingMoves(by) ==
    /\ UNCHANGED <<off, forum, landed, searched, persisted, disk, snapshots, refresh, paused, epoch,
                   searches, budget>>
    /\ index' \in Listings
    /\ index'.total # None => Loadable(index')
    /\ index'.total = None => index'.pages = {}
    /\ \/ UNCHANGED <<writes, generation>>
       \/ Snapshot(by, index') /\ index'.total # None /\ (EpochInv => index'.from = epoch)
    /\ crawl' \in {None} \cup Crawls /\ search' \in {None} \cup Searches
    /\ crawl' # None => crawl # None /\ crawl'.from = crawl.from
    /\ search' # None => search # None /\ search'.from = search.from
    /\ EpochInv => index' = index \/ index'.from = epoch
    /\ EpochInv /\ search' # None => \A r \in search'.rows : r.from = epoch

LEMMA ListingKeeps ==
    ASSUME CachedInv, NEW by \in {"crawl", "search"}, ListingMoves(by)
    PROVE  Kept
<1>1. CASE UNCHANGED <<writes, generation>>
  <2>1. CachedInv'
    BY <1>1 DEF ListingMoves, CachedInv, CatalogTypeOK, LoadInv, Loadable, Offsets
  <2>2. MarkerInv => MarkerInv'
    BY <1>1 DEF ListingMoves, MarkerInv
  <2>3. EpochInv => EpochInv'
    BY <1>1 DEF ListingMoves, EpochInv
  <2>4. QED BY <2>1, <2>2, <2>3 DEF Kept
<1>2. CASE Snapshot(by, index') /\ index'.total # None /\ (EpochInv => index'.from = epoch)
  <2>1. PICK held \in Listings : held = index' /\ Loadable(held)
    BY <1>2 DEF ListingMoves
  <2>2. Snapshot(by, held)
    BY <1>2, <2>1
  <2>3. /\ generation' \in Nat
        /\ writes' \subseteq [generation : 1..generation', payload : Payloads, by : {"crawl", "search"}]
        /\ \A w \in writes' : Loadable(w.payload)
    BY <2>1, <2>2, SnapshotTyped
  <2>4. CachedInv'
    BY <2>3 DEF ListingMoves, CachedInv, CatalogTypeOK, LoadInv, Loadable, Offsets
  <2>5. MarkerInv => MarkerInv'
    BY <2>1, <2>2, SnapshotMarks DEF ListingMoves
  <2>6. ASSUME EpochInv PROVE EpochInv'
    <3>1. index'.from = epoch
      BY <1>2, <2>6
    <3>2. Payload(held).from = epoch
      BY <2>1, <3>1, PayloadLoads DEF CachedInv
    <3>3. \A w \in writes' : w.payload.from = epoch
      BY <2>2, <2>6, <3>2 DEF Snapshot, EpochInv
    <3>4. QED BY <2>6, <3>1, <3>3 DEF ListingMoves, EpochInv
  <2>7. QED BY <2>4, <2>5, <2>6 DEF Kept
<1>3. QED BY <1>1, <1>2 DEF ListingMoves

LEMMA CrawlReadsKeeps ==
    ASSUME CachedInv, CrawlReads
    PROVE  Kept
<1>1. /\ crawl # None /\ crawl \in Crawls /\ crawl.start \in Nat /\ crawl.from \in Nat
      /\ index \in Listings
      /\ index.total # None => Loadable(index)
      /\ index.total = None => index.pages = {}
  BY TasksTyped DEF CrawlReads, Crawls, CachedInv, CatalogTypeOK, LoadInv
<1>2. /\ UNCHANGED <<off, forum, landed, searched, persisted, disk, search, snapshots, refresh, paused,
                     epoch, searches, budget>>
  BY DEF CrawlReads, marker
<1>3. ASSUME NEW phase \in {"pick", "wait", "end"}, crawl' = [crawl EXCEPT !.phase = phase]
      PROVE  crawl' \in Crawls /\ crawl'.from = crawl.from
  BY <1>1, <1>3 DEF Crawls
<1>4. EpochInv /\ search' # None => \A r \in search'.rows : r.from = epoch
  BY <1>2 DEF EpochInv
<1>5. ASSUME Readable(crawl.start), index' = Refreshed(crawl.start, crawl.from),
             Snapshot("crawl", index') \/ UNCHANGED <<writes, generation>>,
             crawl' = [crawl EXCEPT !.phase = "pick"]
      PROVE  ListingMoves("crawl")
  <2>1. /\ index' \in Listings /\ Loadable(index') /\ index'.from \in {crawl.from, index.from}
        /\ index.pages = {} => index'.from = crawl.from
    BY <1>1, <1>5, RefreshedLoads
  <2>2. index'.total # None
    BY <2>1 DEF Loadable
  <2>3. EpochInv => index'.from = epoch
    BY <1>1, <2>1 DEF EpochInv
  <2>4. QED BY <1>1, <1>2, <1>3, <1>4, <1>5, <2>1, <2>2, <2>3, TasksTyped DEF ListingMoves
<1>6. ASSUME UNCHANGED <<index, writes, generation>>,
             \E next \in {"wait", "end"} : crawl' = [crawl EXCEPT !.phase = next]
      PROVE  ListingMoves("crawl")
  BY <1>1, <1>2, <1>3, <1>4, <1>6, TasksTyped DEF ListingMoves, Loadable, Offsets
<1>7. QED BY <1>5, <1>6, ListingKeeps DEF CrawlReads

LEMMA CrawlEndsKeeps ==
    ASSUME CachedInv, CrawlEnds
    PROVE  Kept
<1>1. /\ crawl # None /\ crawl \in Crawls /\ index \in Listings
      /\ index.total # None => Loadable(index)
      /\ index.total = None => index.pages = {}
  BY TasksTyped DEF CrawlEnds, CachedInv, CatalogTypeOK, LoadInv
<1>2. /\ UNCHANGED <<off, forum, index, landed, searched, persisted, disk, search, snapshots, refresh, paused,
                     epoch, searches, budget>>
      /\ crawl' = [crawl EXCEPT !.phase = "last"]
  BY DEF CrawlEnds, marker
<1>3. crawl' \in Crawls /\ crawl'.from = crawl.from
  BY <1>1, <1>2 DEF Crawls
<1>4. EpochInv /\ search' # None => \A r \in search'.rows : r.from = epoch
  BY <1>2 DEF EpochInv
<1>5. \/ UNCHANGED <<writes, generation>>
      \/ index.pages # {} /\ Snapshot("crawl", index)
  BY DEF CrawlEnds
<1>6. CASE UNCHANGED <<writes, generation>>
  <2>1. ListingMoves("crawl")
    BY <1>1, <1>2, <1>3, <1>4, <1>6, TasksTyped DEF ListingMoves, Loadable, Offsets
  <2>2. QED BY <2>1, ListingKeeps
<1>7. CASE index.pages # {} /\ Snapshot("crawl", index)
  <2>1. index.total # None /\ (EpochInv => index.from = epoch)
    BY <1>1, <1>7 DEF EpochInv
  <2>2. Snapshot("crawl", index')
    BY <1>2, <1>7 DEF Snapshot, Payload
  <2>3. ListingMoves("crawl")
    BY <1>1, <1>2, <1>3, <1>4, <2>1, <2>2, TasksTyped DEF ListingMoves, Loadable, Offsets
  <2>4. QED BY <2>3, ListingKeeps
<1>8. QED BY <1>5, <1>6, <1>7

\* The first page and, of the same listing, a later one.
LEMMA ForumAnswersKeeps ==
    ASSUME CachedInv, ForumAnswers
    PROVE  Kept
<1>1. /\ search # None /\ search \in Searches /\ search.from \in Nat /\ forum \in Shapes
  BY TasksTyped DEF ForumAnswers, Asking, Searches, CachedInv, CatalogTypeOK
<1>2. /\ UNCHANGED <<off, forum, crawl, landed, searched, persisted, disk, snapshots, refresh, paused, epoch,
                     searches, budget>>
  BY DEF ForumAnswers, marker
<1>3. PICK rows, later, r, pages :
        /\ rows \in Own(Forum) /\ Answered(Forum, rows)
        /\ r = Refreshed(0, search.from)
        /\ pages = (IF forum.step = index.step /\ later \in Offsets(forum) THEN r.pages \cup {later}
                    ELSE r.pages)
        /\ index' = [r EXCEPT !.pages = pages]
        /\ UNCHANGED <<writes, generation>> \/ Snapshot("search", index')
  BY DEF ForumAnswers
<1>4. /\ r \in Listings /\ Loadable(r) /\ r.total = forum.total /\ r.step = forum.step
      /\ r.from \in {search.from, index.from}
      /\ index.pages = {} => r.from = search.from
  <2>1. Readable(0) /\ 0 \in Nat
    BY DEF Readable
  <2>2. QED BY <1>1, <1>3, <2>1, RefreshedLoads
<1>5. Offsets(r) = Offsets(forum) /\ Offsets(r) \subseteq Nat
  <2>1. forum.step \in {None, 1, 2} /\ forum.total \in Nat
    BY <1>1 DEF Shapes
  <2>2. QED BY <1>4, <2>1, OffsetsAre DEF Offsets
<1>6. pages \subseteq Offsets(r)
  BY <1>3, <1>4, <1>5 DEF Loadable
<1>7. /\ index' \in Listings /\ index'.pages = pages /\ index'.total = r.total /\ index'.step = r.step
      /\ index'.from = r.from
  BY <1>3, <1>4, <1>5, <1>6 DEF Listings
<1>8. Loadable(index') /\ index'.total # None
  BY <1>4, <1>6, <1>7, NoneAssumption DEF Loadable, Offsets
<1>9. EpochInv => search.from = epoch /\ index'.from = epoch
  BY <1>1, <1>4, <1>7 DEF EpochInv
<1>10. rows \subseteq Rows /\ \A row \in rows : row.from = search.from
  BY <1>1, <1>3 DEF Own, Fresh, Rows, Sources
<1>11. search' \in Searches /\ search'.from = search.from /\ search'.rows = search.rows \cup rows
  BY <1>1, <1>3, <1>10, AnsweredIs DEF CachedInv
<1>12. EpochInv /\ search' # None => \A row \in search'.rows : row.from = epoch
  BY <1>1, <1>9, <1>10, <1>11 DEF EpochInv
<1>13. ListingMoves("search")
  BY <1>1, <1>2, <1>3, <1>7, <1>8, <1>9, <1>11, <1>12, TasksTyped DEF ListingMoves
<1>14. QED BY <1>13, ListingKeeps

LEMMA ForumChangesKeeps ==
    ASSUME CachedInv, ForumChanges
    PROVE  Kept
<1>1. /\ UNCHANGED <<off, index, crawl, writes, generation, landed, searched, persisted, disk, search, snapshots,
                     refresh, paused, epoch, searches>>
      /\ forum' \in Shapes
  BY DEF ForumChanges, listing, marker
<1>2. budget' \in [Kinds -> Nat]
  <2>1. "change" \in Kinds
    BY DEF Kinds
  <2>2. QED BY <2>1, BeginsIs DEF ForumChanges, CachedInv
<1>3. CachedInv'
  BY <1>1, <1>2 DEF CachedInv, CatalogTypeOK, LoadInv, Loadable, Offsets
<1>4. QED BY <1>1, <1>3 DEF Kept, MarkerInv, EpochInv

LEMMA WriteKeeps ==
    ASSUME CachedInv, NEW w \in writes, WriteLands(w)
    PROVE  Kept
<1>1. /\ UNCHANGED <<off, forum, index, crawl, generation, searched, search, snapshots, refresh, paused, epoch,
                     searches, budget>>
      /\ writes' = writes \ {w}
  BY DEF WriteLands
<1>2. /\ writes \subseteq [generation : 1..generation, payload : Payloads, by : {"crawl", "search"}]
      /\ w.payload \in Payloads /\ w.payload.searched \in Nat /\ w.generation \in Nat
      /\ generation \in Nat /\ landed \in Nat /\ persisted \in Nat /\ searched \in Nat
      /\ Loadable(w.payload)
  BY DEF CachedInv, CatalogTypeOK, LoadInv, Payloads
<1>3. CASE UNCHANGED <<landed, disk, persisted>>
  <2>1. CachedInv'
    BY <1>1, <1>3 DEF CachedInv, CatalogTypeOK, LoadInv, Loadable, Offsets
  <2>2. MarkerInv => MarkerInv'
    BY <1>1, <1>3 DEF MarkerInv
  <2>3. EpochInv => EpochInv'
    BY <1>1, <1>3 DEF EpochInv
  <2>4. QED BY <2>1, <2>2, <2>3 DEF Kept
<1>4. CASE /\ w.generation > landed /\ landed' = w.generation
           /\ disk' = [disk EXCEPT !.index = w.payload] /\ NotePersisted(w.payload)
  <2>1. disk \in [index : {None} \cup Payloads, marker : Nat, rows : SUBSET Rows,
                  lists : [Sources -> {None} \cup Nat]]
    BY DEF CachedInv, CatalogTypeOK
  <2>2. /\ disk' \in [index : {None} \cup Payloads, marker : Nat, rows : SUBSET Rows,
                      lists : [Sources -> {None} \cup Nat]]
        /\ disk'.index = w.payload /\ disk'.marker = disk.marker /\ disk'.rows = disk.rows
        /\ disk'.lists = disk.lists
    BY <1>2, <1>4, <2>1
  <2>3. /\ persisted' \in {persisted, w.payload.searched} /\ persisted' \in Nat
    BY <1>2, <1>4, MaxOfTwo DEF NotePersisted
  <2>4. CatalogTypeOK'
    BY <1>1, <1>2, <1>4, <2>2, <2>3 DEF CachedInv, CatalogTypeOK
  <2>5. LoadInv'
    BY <1>1, <1>2, <2>2 DEF CachedInv, LoadInv, Loadable, Offsets
  <2>6. ASSUME MarkerInv PROVE MarkerInv'
    <3>1. /\ w.payload.searched <= searched /\ persisted <= searched /\ searched <= searches
          /\ w.generation > landed
      BY <1>4, <2>6 DEF MarkerInv
    <3>2. searches \in Nat /\ disk.marker \in Nat
      BY <2>1 DEF CachedInv, CatalogTypeOK
    <3>3. persisted' <= searched' /\ w.payload.searched <= searches
      BY <1>1, <1>2, <2>3, <3>1, <3>2
    <3>4. persisted' <= disk.marker \/ persisted' <= w.payload.searched
      BY <1>2, <2>3, <2>6, <3>1, <3>2 DEF MarkerInv
    <3>5. ASSUME NEW v \in writes', v.generation > landed'
          PROVE  persisted' <= disk.marker \/ persisted' <= v.payload.searched
      <4>1. /\ v \in writes /\ v.generation \in Nat /\ v.payload.searched \in Nat
            /\ v.generation > w.generation
        BY <1>1, <1>2, <1>4, <3>5 DEF Payloads
      <4>2. w.payload.searched <= v.payload.searched /\ v.generation > landed
        BY <1>2, <2>6, <3>1, <4>1 DEF MarkerInv
      <4>3. persisted <= disk.marker \/ persisted <= v.payload.searched
        BY <2>6, <4>1, <4>2 DEF MarkerInv
      <4>4. QED BY <2>3, <4>2, <4>3
    <3>6. QED
      BY <1>1, <1>2, <2>2, <2>6, <3>3, <3>4, <3>5, NoneAssumption DEF MarkerInv
  <2>7. EpochInv => EpochInv'
    BY <1>1, <2>2 DEF EpochInv
  <2>8. QED BY <2>4, <2>5, <2>6, <2>7 DEF CachedInv, Kept
<1>5. QED BY <1>3, <1>4 DEF WriteLands

LEMMA SearchBeginsKeeps ==
    ASSUME CachedInv, SearchBegins
    PROVE  Kept
<1>1. /\ UNCHANGED <<off, forum, index, crawl, writes, generation, landed, snapshots, refresh, paused, epoch>>
      /\ searches' = searches + 1
      /\ searched' = IF Forum \in off THEN searched ELSE searches + 1
      /\ search' = [off |-> off, from |-> epoch, left |-> Sources \ off, rows |-> {}, stopped |-> FALSE]
  BY DEF SearchBegins, listing
<1>2. budget' \in [Kinds -> Nat]
  <2>1. "search" \in Kinds
    BY DEF Kinds
  <2>2. QED BY <2>1, BeginsIs DEF SearchBegins, CachedInv
<1>3. /\ disk \in [index : {None} \cup Payloads, marker : Nat, rows : SUBSET Rows,
                   lists : [Sources -> {None} \cup Nat]]
      /\ {searched, persisted, searches, disk.marker} \subseteq Nat
      /\ \A w \in writes : w.payload.searched \in Nat
      /\ disk.index # None => disk.index.searched \in Nat
  BY DEF CachedInv, CatalogTypeOK, Payloads
<1>4. search' \in Searches /\ search'.from = epoch /\ search'.rows = {}
  BY <1>1, TasksTyped DEF Searches
<1>5. \/ UNCHANGED <<persisted, disk>>
      \/ /\ persisted' = searches + 1 /\ disk' = [disk EXCEPT !.marker = searches + 1]
         /\ searched' = searches + 1
  BY <1>1 DEF SearchBegins
<1>6. /\ disk' \in [index : {None} \cup Payloads, marker : Nat, rows : SUBSET Rows,
                    lists : [Sources -> {None} \cup Nat]]
      /\ disk'.index = disk.index /\ disk'.rows = disk.rows /\ disk'.lists = disk.lists
      /\ disk'.marker = (IF persisted' = persisted /\ disk' = disk THEN disk.marker ELSE searches + 1)
  BY <1>3, <1>5
<1>7. CatalogTypeOK'
  BY <1>1, <1>2, <1>3, <1>4, <1>5, <1>6 DEF CachedInv, CatalogTypeOK
<1>8. LoadInv'
  BY <1>1, <1>6 DEF CachedInv, LoadInv, Loadable, Offsets
<1>9. ASSUME MarkerInv PROVE MarkerInv'
  <2>1. searched <= searched' /\ searched' <= searches'
    BY <1>1, <1>3, <1>9 DEF MarkerInv
  <2>2. CASE UNCHANGED <<persisted, disk>>
    BY <1>1, <1>3, <1>9, <2>1, <2>2 DEF MarkerInv
  <2>3. CASE /\ persisted' = searches + 1 /\ searched' = searches + 1
             /\ disk' = [disk EXCEPT !.marker = searches + 1]
    <3>1. disk'.marker = searches + 1
      BY <1>3, <2>3
    <3>2. QED BY <1>1, <1>3, <1>6, <1>9, <2>1, <2>3, <3>1 DEF MarkerInv
  <2>4. QED BY <1>5, <2>2, <2>3
<1>10. EpochInv => EpochInv'
  BY <1>1, <1>4, <1>6 DEF EpochInv
<1>11. QED BY <1>7, <1>8, <1>9, <1>10 DEF CachedInv, Kept

\* What a source answered, and what a refresh did, of the source's own index.
ListMoves(p, from) ==
    /\ UNCHANGED <<off, forum, index, crawl, writes, generation, landed, searched, persisted, snapshots,
                   paused, epoch, searches, budget>>
    /\ \E list \in {disk.lists[p], from} : disk' = [disk EXCEPT !.lists[p] = list]
    /\ search' \in {None} \cup Searches /\ refresh' \in {None, refresh}
    /\ EpochInv /\ search' # None => search'.from = epoch /\ \A r \in search'.rows : r.from = epoch

LEMMA ListKeeps ==
    ASSUME CachedInv, NEW p \in Sources, NEW from \in Nat, ListMoves(p, from), EpochInv => from = epoch
    PROVE  Kept
<1>1. disk \in [index : {None} \cup Payloads, marker : Nat, rows : SUBSET Rows,
                lists : [Sources -> {None} \cup Nat]]
  BY DEF CachedInv, CatalogTypeOK
<1>2. PICK list, lists :
        /\ list \in {None} \cup Nat
        /\ list \in {disk.lists[p], from} /\ lists = [disk.lists EXCEPT ![p] = list]
        /\ disk' = [disk EXCEPT !.lists = lists]
  <2>1. PICK list \in {disk.lists[p], from} : disk' = [disk EXCEPT !.lists[p] = list]
    BY DEF ListMoves
  <2>2. list \in {None} \cup Nat
    BY <1>1, <2>1
  <2>3. QED BY <2>1, <2>2
<1>3. lists \in [Sources -> {None} \cup Nat]
  BY <1>1, <1>2
<1>4. /\ disk' \in [index : {None} \cup Payloads, marker : Nat, rows : SUBSET Rows,
                    lists : [Sources -> {None} \cup Nat]]
      /\ disk'.index = disk.index /\ disk'.rows = disk.rows /\ disk'.marker = disk.marker
      /\ disk'.lists = lists
  BY <1>1, <1>2, <1>3
<1>5. CatalogTypeOK'
  BY <1>4, TasksTyped DEF ListMoves, CachedInv, CatalogTypeOK
<1>6. LoadInv'
  BY <1>4 DEF ListMoves, CachedInv, LoadInv, Loadable, Offsets
<1>7. MarkerInv => MarkerInv'
  BY <1>4 DEF ListMoves, MarkerInv
<1>8. ASSUME EpochInv PROVE EpochInv'
  <2>1. \A q \in Sources : lists[q] \in {None, epoch}
    BY <1>1, <1>2, <1>8 DEF EpochInv
  <2>2. QED BY <1>4, <1>8, <2>1 DEF ListMoves, EpochInv
<1>9. QED BY <1>5, <1>6, <1>7, <1>8 DEF CachedInv, Kept

LEMMA ListingAnswersKeeps ==
    ASSUME CachedInv, NEW p \in Sources, ListingAnswers(p)
    PROVE  Kept
<1>1. search # None /\ search \in Searches /\ search.from \in Nat
  BY TasksTyped DEF ListingAnswers, Asking, Searches
<1>2. PICK rows \in Own(p), linked \in SUBSET Follows :
        Answered(p, rows \cup {Fresh(q) : q \in linked})
  BY DEF ListingAnswers
<1>3. PICK all : all = rows \cup {Fresh(q) : q \in linked}
  OBVIOUS
<1>4. all \in SUBSET Rows /\ \A r \in all : r.from = search.from
  BY <1>1, <1>2, <1>3 DEF Own, Fresh, Rows, Follows, Sources
<1>5. search' \in Searches /\ search'.from = search.from /\ search'.rows = search.rows \cup all
  BY <1>1, <1>2, <1>3, <1>4, AnsweredIs DEF CachedInv
<1>6. EpochInv => search.from = epoch
  BY <1>1 DEF EpochInv
<1>7. EpochInv => search'.from = epoch /\ \A r \in search'.rows : r.from = epoch
  BY <1>1, <1>4, <1>5 DEF EpochInv
<1>8. ListMoves(p, search.from)
  BY <1>5, <1>7 DEF ListingAnswers, ListMoves, listing, marker
<1>9. QED BY <1>1, <1>6, <1>8, ListKeeps

LEMMA RefreshAnswersKeeps ==
    ASSUME CachedInv, RefreshAnswers
    PROVE  Kept
<1>1. refresh # None /\ refresh.of \in Sources /\ refresh.from \in Nat
  BY TasksTyped DEF RefreshAnswers, Rows
<1>2. EpochInv => refresh.from = epoch
  BY <1>1 DEF EpochInv
<1>3. ListMoves(refresh.of, refresh.from)
  BY TasksTyped DEF RefreshAnswers, ListMoves, listing, marker, EpochInv
<1>4. QED BY <1>1, <1>2, <1>3, ListKeeps

LEMMA SearchEndsKeeps ==
    ASSUME CachedInv, SearchEnds
    PROVE  Kept
<1>1. /\ search # None /\ search \in Searches /\ search.rows \subseteq Rows /\ search' = None
      /\ UNCHANGED <<off, forum, index, crawl, writes, generation, landed, searched, persisted, refresh,
                     paused, epoch, searches, budget>>
  BY TasksTyped DEF SearchEnds, Searches, listing, marker
<1>2. disk \in [index : {None} \cup Payloads, marker : Nat, rows : SUBSET Rows,
                lists : [Sources -> {None} \cup Nat]]
  BY DEF CachedInv, CatalogTypeOK
<1>3. PICK failed \in SUBSET Sources : Finished(Records(failed))
  BY DEF SearchEnds
<1>4. PICK records, served, all, rows :
        /\ records = Records(failed)
        /\ served = IF records = {} THEN CachedRows(search.off) ELSE records
        /\ all = Append(snapshots, {r.of : r \in served}) /\ rows = SavedRows(records)
  OBVIOUS
<1>5. /\ snapshots' = IF Len(all) > MaxKept THEN Tail(all) ELSE all
      /\ disk' = [disk EXCEPT !.rows = rows]
  BY <1>3, <1>4 DEF Finished
<1>6. CachedRows(search.off) \subseteq disk.rows /\ records \subseteq search.rows \cup disk.rows
  BY <1>4 DEF Records, CachedRows
<1>7. rows \subseteq search.rows \cup disk.rows /\ rows \in SUBSET Rows /\ served \in SUBSET Rows
  BY <1>1, <1>2, <1>4, <1>6 DEF SavedRows
<1>8. snapshots' \in Seq(SUBSET Sources) /\ Len(snapshots') <= MaxKept
  <2>1. PICK one \in SUBSET Sources : one = {r.of : r \in served}
    BY <1>7 DEF Rows
  <2>2. /\ snapshots \in Seq(SUBSET Sources) /\ Len(snapshots) <= MaxKept /\ all = Append(snapshots, one)
        /\ MaxKept \in Nat /\ Len(snapshots) \in Nat
    BY <1>4, <2>1, CatalogAssumption DEF CachedInv, CatalogTypeOK
  <2>3. all \in Seq(SUBSET Sources) /\ Len(all) = Len(snapshots) + 1 /\ all # << >>
    BY <2>2
  <2>4. Tail(all) \in Seq(SUBSET Sources) /\ Len(Tail(all)) = Len(snapshots)
    BY <2>2, <2>3
  <2>5. QED BY <1>5, <2>2, <2>3, <2>4
<1>9. /\ disk' \in [index : {None} \cup Payloads, marker : Nat, rows : SUBSET Rows,
                    lists : [Sources -> {None} \cup Nat]]
      /\ disk'.index = disk.index /\ disk'.rows = rows /\ disk'.marker = disk.marker
      /\ disk'.lists = disk.lists
  BY <1>2, <1>5, <1>7
<1>10. CatalogTypeOK'
  BY <1>1, <1>8, <1>9 DEF CachedInv, CatalogTypeOK
<1>11. LoadInv'
  BY <1>1, <1>9 DEF CachedInv, LoadInv, Loadable, Offsets
<1>12. MarkerInv => MarkerInv'
  BY <1>1, <1>9 DEF MarkerInv
<1>13. EpochInv => EpochInv'
  BY <1>1, <1>7, <1>9 DEF EpochInv
<1>14. QED BY <1>10, <1>11, <1>12, <1>13 DEF CachedInv, Kept

-----------------------------------------------------------------------------
(* What takes the data away.                                                *)

LEMMA DiscardKeeps ==
    ASSUME CachedInv, DeletionDiscards
    PROVE  Kept
<1>1. /\ UNCHANGED <<off, forum, crawl, writes, generation, landed, disk, search, snapshots, refresh, paused,
                     epoch, searches, budget>>
      /\ crawl = None /\ writes = {} /\ index' = NoIndex /\ searched' = 0 /\ persisted' = 0
  BY DEF DeletionDiscards, Quiet
<1>2. index' = [pages |-> {}, total |-> None, step |-> None, from |-> epoch]
  BY <1>1 DEF NoIndex
<1>3. index' \in Listings /\ index'.pages = {} /\ index'.total = None
  BY <1>2, TasksTyped DEF Listings
<1>4. 0 \in Nat /\ disk.marker \in Nat /\ searches \in Nat
  BY DEF CachedInv, CatalogTypeOK
<1>5. CatalogTypeOK'
  BY <1>1, <1>3, <1>4 DEF CachedInv, CatalogTypeOK
<1>6. LoadInv'
  BY <1>1, <1>3 DEF CachedInv, LoadInv, Loadable, Offsets
<1>7. MarkerInv => MarkerInv'
  BY <1>1, <1>4 DEF MarkerInv
<1>8. EpochInv => EpochInv'
  BY <1>1, <1>3 DEF EpochInv
<1>9. QED BY <1>5, <1>6, <1>7, <1>8 DEF CachedInv, Kept

LEMMA EmptyIs == /\ Empty \in [index : {None} \cup Payloads, marker : Nat, rows : SUBSET Rows,
                               lists : [Sources -> {None} \cup Nat]]
                 /\ Empty.index = None /\ Empty.marker = 0 /\ Empty.rows = {}
                 /\ \A p \in Sources : Empty.lists[p] = None
<1>1. [p \in Sources |-> None] \in [Sources -> {None} \cup Nat] /\ 0 \in Nat
  OBVIOUS
<1>2. QED BY <1>1 DEF Empty

LEMMA DeletionEndsKeeps ==
    ASSUME CachedInv, DeletionEnds
    PROVE  CachedInv' /\ (PhaseInv => Kept)
<1>1. /\ UNCHANGED <<off, forum, index, crawl, writes, generation, landed, searched, persisted, search, refresh,
                     searches, budget>>
      /\ paused' = [searches |-> FALSE, index |-> FALSE] /\ deletion = "locked"
      /\ \/ UNCHANGED <<disk, snapshots, epoch>>
         \/ disk' = Empty /\ snapshots' = << >> /\ epoch' = epoch + 1
  BY DEF DeletionEnds, listing, marker
<1>2. CASE UNCHANGED <<disk, snapshots, epoch>>
  <2>1. TasksMove
    BY <1>1, <1>2, TasksTyped DEF TasksMove
  <2>2. QED BY <2>1, TasksKeep DEF Kept
<1>3. CASE disk' = Empty /\ snapshots' = << >> /\ epoch' = epoch + 1
  <2>1. epoch' \in Nat /\ 0 <= MaxKept
    BY <1>3, TasksTyped, CatalogAssumption
  <2>2. CatalogTypeOK'
    BY <1>1, <1>3, <2>1, EmptyIs DEF CachedInv, CatalogTypeOK
  <2>3. LoadInv'
    BY <1>1, <1>3, EmptyIs DEF CachedInv, LoadInv, Loadable, Offsets
  <2>4. ASSUME PhaseInv PROVE crawl = None /\ writes = {} /\ persisted = 0 /\ search = None /\ refresh = None
                              /\ index.pages = {}
    BY <1>1, <2>4 DEF PhaseInv, CachedInv, LoadInv
  <2>5. ASSUME PhaseInv, MarkerInv PROVE MarkerInv'
    <3>1. searches \in Nat
      BY DEF CachedInv, CatalogTypeOK
    <3>2. QED BY <1>1, <1>3, <2>4, <2>5, <3>1, EmptyIs DEF MarkerInv
  <2>6. ASSUME PhaseInv PROVE EpochInv'
    BY <1>1, <1>3, <2>4, <2>6, EmptyIs DEF EpochInv
  <2>7. QED BY <2>2, <2>3, <2>5, <2>6 DEF CachedInv, Kept
<1>4. QED BY <1>1, <1>2, <1>3

LEMMA RestartKeeps ==
    ASSUME CachedInv, CatalogRestarts, Begins("reload")
    PROVE  Kept
<1>1. /\ UNCHANGED <<off, forum, disk, epoch, searches, generation, landed>>
      /\ crawl' = None /\ writes' = {} /\ search' = None /\ snapshots' = << >> /\ refresh' = None
      /\ paused' = [searches |-> FALSE, index |-> FALSE] /\ persisted' = searched'
  BY DEF CatalogRestarts
<1>2. PICK file, marked :
        /\ file = disk.index /\ marked = IF Loadable(file) THEN file.searched ELSE 0
        /\ searched' = Max({disk.marker, marked})
        /\ index' = IF Loadable(file)
                    THEN [pages |-> file.pages, total |-> file.total, step |-> file.step, from |-> file.from]
                    ELSE NoIndex
  BY DEF CatalogRestarts
<1>3. budget' \in [Kinds -> Nat]
  <2>1. "reload" \in Kinds
    BY DEF Kinds
  <2>2. QED BY <2>1, BeginsIs DEF CachedInv
<1>4. /\ file \in {None} \cup Payloads /\ disk.marker \in Nat /\ 0 \in Nat /\ epoch \in Nat
  BY <1>2 DEF CachedInv, CatalogTypeOK
<1>5. Loadable(file) => file # None /\ file \in Payloads
  BY <1>4 DEF Loadable
<1>6. marked \in Nat
  BY <1>2, <1>4, <1>5 DEF Payloads
<1>7. searched' \in {disk.marker, marked} /\ searched' \in Nat
  BY <1>2, <1>4, <1>6, MaxOfTwo
<1>8. /\ index' \in Listings
      /\ Loadable(file) => /\ index'.pages = file.pages /\ index'.total = file.total
                           /\ index'.step = file.step /\ index'.from = file.from
      /\ ~Loadable(file) => index'.pages = {} /\ index'.total = None
  <2>1. CASE Loadable(file)
    BY <1>2, <1>5, <2>1 DEF Listings, Payloads
  <2>2. CASE ~Loadable(file)
    BY <1>2, <1>4, <2>2 DEF NoIndex, Listings
  <2>3. QED BY <2>1, <2>2
<1>9. CatalogTypeOK'
  <2>1. 0 <= MaxKept
    BY CatalogAssumption
  <2>2. QED BY <1>1, <1>3, <1>7, <1>8, <2>1 DEF CachedInv, CatalogTypeOK
<1>10. Loadable(file) => Loadable(index')
  BY <1>8, NoneAssumption DEF Loadable, Offsets
<1>11. LoadInv'
  <2>1. index'.total # None => Loadable(index')
    BY <1>8, <1>10
  <2>2. index'.total = None => index'.pages = {}
    BY <1>8 DEF Loadable
  <2>3. QED BY <1>1, <2>1, <2>2 DEF CachedInv, LoadInv, Loadable, Offsets
<1>12. ASSUME MarkerInv PROVE MarkerInv'
  <2>1. searches \in Nat
    BY DEF CachedInv, CatalogTypeOK
  <2>2. marked = 0 \/ (file # None /\ marked = disk.index.searched)
    BY <1>2, <1>5
  <2>3. marked <= searches /\ disk.marker <= searches
    BY <1>2, <1>12, <2>1, <2>2 DEF MarkerInv
  <2>4. searched' <= disk.marker \/ (disk.index # None /\ searched' <= disk.index.searched)
    BY <1>2, <1>4, <1>6, <1>7, <2>2
  <2>5. searched' <= searches
    BY <1>7, <2>3
  <2>6. QED BY <1>1, <1>7, <1>12, <2>3, <2>4, <2>5 DEF MarkerInv
<1>13. EpochInv => EpochInv'
  BY <1>1, <1>2, <1>5, <1>8 DEF EpochInv
<1>14. QED BY <1>9, <1>11, <1>12, <1>13 DEF CachedInv, Kept

\* While searches and the index are held, no search, crawl or refresh begins of itself.
LEMMA PhaseCatalog ==
    ASSUME PhaseInv, CatalogNext \/ SearchBegins \/ SearchCancelled \/ (\E p \in Sources : Switches(p)),
           UNCHANGED <<deletion, resetting, paused>>
    PROVE  PhaseInv'
<1>1. ASSUME deletion \in {"index", "locked"}
      PROVE  search' = None /\ refresh' = None
  <2>1. paused.searches /\ paused.index /\ search = None /\ refresh = None
    BY <1>1 DEF PhaseInv
  <2>2. CASE CatalogNext
    BY <2>1, <2>2
       DEF CatalogNext, ForumChanges, WriteLands, CrawlStarts, CrawlPicks, CrawlAsks, CrawlReads, CrawlEnds,
           CrawlOver, ForumAnswers, Refuses, ListingAnswers, RefreshStarts, RefreshAnswers, SearchEnds,
           SearchStops, Asking
  <2>3. CASE SearchBegins \/ SearchCancelled
    BY <2>1, <2>3 DEF SearchBegins, SearchCancelled
  <2>4. CASE \E p \in Sources : Switches(p)
    BY <2>1, <2>4 DEF Switches
  <2>5. QED BY <2>2, <2>3, <2>4
<1>2. ASSUME deletion = "locked"
      PROVE  crawl' = None /\ writes' = {} /\ persisted' = 0 /\ searched' = 0 /\ index'.total = None
  <2>1. /\ paused.searches /\ paused.index /\ search = None /\ refresh = None /\ crawl = None /\ writes = {}
        /\ persisted = 0 /\ searched = 0 /\ index.total = None
    BY <1>2 DEF PhaseInv
  <2>2. CASE CatalogNext
    BY <2>1, <2>2
       DEF CatalogNext, ForumChanges, WriteLands, CrawlStarts, CrawlPicks, CrawlAsks, CrawlReads, CrawlEnds,
           CrawlOver, ForumAnswers, Refuses, ListingAnswers, RefreshStarts, RefreshAnswers, SearchEnds,
           SearchStops, Asking, MayCrawl, listing, marker
  <2>3. CASE SearchBegins \/ SearchCancelled
    BY <2>1, <2>3 DEF SearchBegins, SearchCancelled
  <2>4. CASE \E p \in Sources : Switches(p)
    BY <2>1, <2>4 DEF Switches, Cancelled, marker
  <2>5. QED BY <2>2, <2>3, <2>4
<1>3. QED BY <1>1, <1>2 DEF PhaseInv

LEMMA PhaseDeletion ==
    ASSUME CachedInv, PhaseInv, ~Overlap,
           DeletionAsked \/ DeletionSuspends \/ DeletionStopsSearches \/ DeletionStopsIndex
             \/ DeletionDiscards \/ DeletionEnds
    PROVE  PhaseInv'
<1>1. paused \in [searches : BOOLEAN, index : BOOLEAN] /\ crawl \in {None} \cup Crawls
  BY TasksTyped
<1>2. CASE DeletionAsked \/ DeletionSuspends
  BY <1>2 DEF DeletionAsked, DeletionSuspends, PhaseInv
<1>3. CASE DeletionStopsSearches
  BY <1>1, <1>3 DEF DeletionStopsSearches, PhaseInv
<1>4. CASE DeletionStopsIndex
  BY <1>1, <1>4 DEF DeletionStopsIndex, PhaseInv
<1>5. CASE DeletionDiscards
  <2>1. /\ deletion = "index" /\ deletion' = "locked" /\ UNCHANGED <<resetting, paused, search, refresh>>
        /\ crawl' = None /\ writes' = {} /\ persisted' = 0 /\ searched' = 0 /\ index' = NoIndex
    BY <1>5 DEF DeletionDiscards, Quiet
  <2>2. index'.total = None
    BY <2>1 DEF NoIndex
  <2>3. QED BY <2>1, <2>2 DEF PhaseInv
<1>6. CASE DeletionEnds
  BY <1>6 DEF DeletionEnds, PhaseInv
<1>7. QED BY <1>2, <1>3, <1>4, <1>5, <1>6

\* The flags are booleans: only since a reset and a deletion do not overlap does the reset that ends let
\* nothing resume that the deletion holds.
LEMMA PhaseReset ==
    ASSUME CachedInv, PhaseInv, ~Overlap, ResetAsked \/ ResetEnds \/ Reloads
    PROVE  PhaseInv'
<1>1. CASE ResetAsked
  BY <1>1 DEF ResetAsked, PhaseInv
<1>2. CASE ResetEnds
  BY <1>2 DEF ResetEnds, PhaseInv
<1>3. CASE Reloads
  BY <1>3 DEF Reloads, PhaseInv
<1>4. QED BY <1>1, <1>2, <1>3

LEMMA PhaseApart ==
    ASSUME CachedInv, PhaseInv, TasksMove,
           UNCHANGED <<crawl, search, refresh, paused, deletion, resetting>>
    PROVE  PhaseInv'
BY DEF PhaseInv, TasksMove

LEMMA PhaseKeeps ==
    ASSUME CachedInv, PhaseInv, ~Overlap, [Next]_vars
    PROVE  PhaseInv'
<1>1. CASE Catalog \/ SearchAsked \/ SearchCancelled \/ (\E p \in Sources : Switches(p))
  <2>1. UNCHANGED <<deletion, resetting>>
    BY <1>1 DEF Catalog, SearchAsked, SearchCancelled, Switches, user
  <2>2. UNCHANGED paused
    BY <1>1
       DEF Catalog, SearchAsked, SearchCancelled, Switches, CatalogNext, ForumChanges, WriteLands, CrawlStarts,
           CrawlPicks, CrawlAsks, CrawlReads, CrawlEnds, CrawlOver, ForumAnswers, Refuses, ListingAnswers,
           RefreshStarts, RefreshAnswers, SearchEnds, SearchStops, SearchBegins
  <2>3. QED BY <1>1, <2>1, <2>2, PhaseCatalog DEF Catalog, SearchAsked
<1>2. CASE DeletionAsked \/ Deletes \/ ResetAsked \/ Reloads
  BY <1>2, PhaseDeletion, PhaseReset DEF Deletes
<1>3. CASE Shows
  <2>1. 1 \in Items
    BY AcquisitionAssumption DEF Items
  <2>2. QED BY <1>3, <2>1, DownloadsApart, PhaseApart
<1>4. ASSUME NEW i \in Items,
             (\E p \in Sources : DownloadStarts(i, p) \/ HandoffAsked(i, p)) \/ DownloadGoesOn(i)
               \/ DownloadExpires(i) \/ OrderArrives(i) \/ HandoffCalls(i)
      PROVE  PhaseInv'
  BY <1>4, DownloadsApart, PhaseApart
<1>5. CASE UNCHANGED vars
  BY <1>5 DEF vars, catalogVars, catalogRest, listing, marker, PhaseInv
<1>6. QED BY <1>1, <1>2, <1>3, <1>4, <1>5 DEF Next

\* Every step but the end of a deletion keeps what is cached, its marker and its epoch by itself.
LEMMA CatalogKeeps ==
    ASSUME CachedInv, [Next]_vars
    PROVE  CachedInv' /\ (PhaseInv => Kept)
<1>1. CASE CatalogNext
  BY <1>1, TasksKeep, CrawlMoves, SearchMoves, ForumChangesKeeps, WriteKeeps, CrawlReadsKeeps, CrawlEndsKeeps,
     ForumAnswersKeeps, ListingAnswersKeeps, RefreshAnswersKeeps, SearchEndsKeeps DEF CatalogNext, Kept
<1>2. CASE SearchBegins \/ Reloads
  BY <1>2, SearchBeginsKeeps, RestartKeeps DEF Kept, Reloads
<1>3. CASE SearchCancelled \/ (\E p \in Sources : Switches(p)) \/ ResetAsked \/ ResetEnds
  BY <1>3, CallsMove, TasksKeep DEF Kept
<1>4. CASE DeletionAsked \/ DeletionSuspends \/ DeletionStopsSearches \/ DeletionStopsIndex
             \/ DeletionDiscards \/ DeletionEnds
  BY <1>4, DeletionMoves, TasksKeep, DiscardKeeps, DeletionEndsKeeps DEF Kept
<1>5. CASE Shows
  <2>1. 1 \in Items
    BY AcquisitionAssumption DEF Items
  <2>2. QED BY <1>5, <2>1, DownloadsApart, TasksKeep DEF Kept
<1>6. ASSUME NEW i \in Items,
             (\E p \in Sources : DownloadStarts(i, p) \/ HandoffAsked(i, p)) \/ DownloadGoesOn(i)
               \/ DownloadExpires(i) \/ OrderArrives(i) \/ HandoffCalls(i)
      PROVE  CachedInv' /\ Kept
  BY <1>6, DownloadsApart, TasksKeep DEF Kept
<1>7. CASE UNCHANGED vars
  <2>1. TasksMove
    BY <1>7, TasksTyped DEF vars, catalogVars, catalogRest, listing, marker, TasksMove
  <2>2. QED BY <2>1, TasksKeep DEF Kept
<1>8. QED
  BY <1>1, <1>2, <1>3, <1>4, <1>5, <1>6, <1>7 DEF Next, Catalog, SearchAsked, Deletes

LEMMA CatalogStarts ==
    ASSUME Init
    PROVE  CachedInv /\ MarkerInv /\ EpochInv /\ PhaseInv
<1>1. /\ off = {} /\ forum \in Shapes /\ budget \in Budgets
      /\ epoch = 0 /\ crawl = None /\ writes = {} /\ generation = 0 /\ landed = 0 /\ search = None
      /\ refresh = None /\ paused = [searches |-> FALSE, index |-> FALSE]
      /\ deletion = "none" /\ resetting = FALSE
  BY DEF Init, CatalogInit
<1>2. budget \in [Kinds -> Nat] /\ 0 \in Nat /\ 1 \in Nat /\ 1 <= MaxKept /\ 0 <= MaxKept
  BY <1>1, CatalogAssumption
<1>3. PhaseInv
  BY <1>1 DEF PhaseInv
<1>4. CASE /\ disk = Empty /\ index = NoIndex /\ snapshots = << >>
           /\ searched = 0 /\ persisted = 0 /\ searches = 0
  <2>1. index = [pages |-> {}, total |-> None, step |-> None, from |-> 0]
    BY <1>1, <1>4 DEF NoIndex
  <2>2. index \in Listings /\ index.pages = {} /\ index.total = None
    BY <1>2, <2>1 DEF Listings
  <2>3. CatalogTypeOK
    BY <1>1, <1>2, <1>4, <2>2, EmptyIs DEF CatalogTypeOK
  <2>4. LoadInv
    BY <1>1, <1>4, <2>2, EmptyIs DEF LoadInv
  <2>5. MarkerInv /\ EpochInv
    BY <1>1, <1>4, <2>2, EmptyIs DEF MarkerInv, EpochInv
  <2>6. QED BY <1>3, <2>3, <2>4, <2>5 DEF CachedInv
<1>5. CASE /\ disk = Searched /\ snapshots = <<Sources>>
           /\ index = [pages |-> Offsets(forum), total |-> forum.total, step |-> forum.step, from |-> 0]
           /\ searched = 1 /\ persisted = 1 /\ searches = 1
  <2>1. /\ forum.total \in {1, 2} /\ forum.step \in {None, 1, 2}
        /\ forum.total = 1 <=> forum.step = None
    BY <1>1, NoneAssumption DEF Shapes
  <2>2. Offsets(forum) \subseteq Nat
    BY <2>1, OffsetsAre
  <2>3. PICK file : file = [pages |-> Offsets(forum), total |-> forum.total, step |-> forum.step, from |-> 0,
                            searched |-> 1]
    OBVIOUS
  <2>4. file \in Payloads /\ Loadable(file)
    <3>1. file \in Payloads
      BY <1>2, <2>1, <2>2, <2>3 DEF Payloads
    <3>2. /\ file.total = forum.total /\ file.step = forum.step /\ file.pages = Offsets(forum)
          /\ file # None
      BY <2>3, <3>1, NoneAssumption
    <3>3. Offsets(file) = Offsets(forum)
      BY <3>2 DEF Offsets
    <3>4. QED BY <2>1, <3>1, <3>2, <3>3, NoneAssumption DEF Loadable
  <2>5. index \in Listings /\ Loadable(index)
    <3>1. index \in Listings
      BY <1>2, <1>5, <2>1, <2>2 DEF Listings
    <3>2. /\ index.total = forum.total /\ index.step = forum.step /\ index.pages = Offsets(forum)
          /\ index # None
      BY <1>5, <3>1, NoneAssumption
    <3>3. Offsets(index) = Offsets(forum)
      BY <3>2 DEF Offsets
    <3>4. QED BY <2>1, <3>1, <3>2, <3>3, NoneAssumption DEF Loadable
  <2>6. disk = [index |-> file, marker |-> 1, rows |-> [of : Sources, from : {0}],
                lists |-> [p \in Sources |-> 0]]
    BY <1>5, <2>3 DEF Searched
  <2>7. /\ [of : Sources, from : {0}] \in SUBSET Rows /\ \A r \in [of : Sources, from : {0}] : r.from = 0
        /\ [p \in Sources |-> 0] \in [Sources -> {None} \cup Nat]
    BY <1>2 DEF Rows
  <2>8. /\ disk \in [index : {None} \cup Payloads, marker : Nat, rows : SUBSET Rows,
                     lists : [Sources -> {None} \cup Nat]]
        /\ disk.index = file /\ disk.marker = 1 /\ \A r \in disk.rows : r.from = 0
        /\ \A p \in Sources : disk.lists[p] = 0
    BY <1>2, <2>4, <2>6, <2>7
  <2>9. snapshots \in Seq(SUBSET Sources) /\ Len(snapshots) = 1
    BY <1>5
  <2>10. CatalogTypeOK
    BY <1>1, <1>2, <1>5, <2>5, <2>8, <2>9 DEF CatalogTypeOK
  <2>11. LoadInv
    BY <1>1, <2>4, <2>5, <2>8, NoneAssumption DEF LoadInv, Loadable
  <2>12. file.searched = 1 /\ file.from = 0 /\ index.from = 0
    BY <1>5, <2>3
  <2>13. MarkerInv /\ EpochInv
    BY <1>1, <1>5, <2>8, <2>12 DEF MarkerInv, EpochInv
  <2>14. QED BY <1>3, <2>10, <2>11, <2>13 DEF CachedInv
<1>6. QED BY <1>4, <1>5 DEF Init, CatalogInit

LEMMA CachedHolds == Spec => []CachedInv
<1>1. CachedInv /\ [Next]_vars => CachedInv'
  BY CatalogKeeps
<1>2. QED BY <1>1, CatalogStarts, PTL DEF Spec

FreshInv == CachedInv /\ MarkerInv /\ EpochInv /\ PhaseInv

LEMMA FreshHolds ==
    ASSUME ~Overlap
    PROVE  Spec => []FreshInv
<1>1. Init => FreshInv
  BY CatalogStarts DEF FreshInv
<1>2. FreshInv /\ [Next]_vars => FreshInv'
  BY CatalogKeeps, PhaseKeeps DEF FreshInv, Kept
<1>3. QED BY <1>1, <1>2, PTL DEF Spec

\* The values every variable keeps to, of both halves and of the panel.
THEOREM TypeCorrect == Spec => []TypeOK
<1>1. CachedInv /\ DeliveryInv /\ stray \subseteq Items => TypeOK
  BY DEF CachedInv, DeliveryInv, DownloadInv, AcquisitionTypeOK, TypeOK
<1>2. QED BY <1>1, CachedHolds, DeliveryHolds, StraysType, PTL

\* Whatever is on disk of the forum's listing can be read back, each of its pages at an offset that still
\* means that page, however the forum changed under a crawl (_refresh_fearless_page,
\* _load_fearless_index).
THEOREM WhatIsWrittenLoads == Spec => []WrittenLoads
<1>1. CachedInv => WrittenLoads
  BY DEF CachedInv, LoadInv, WrittenLoads
<1>2. QED BY <1>1, CachedHolds, PTL

\* The marker said to be on disk is there, in its own file or in a snapshot that landed, whatever writes
\* were under way in which order, while a reset and a deletion do not overlap (_note_marker_persisted).
THEOREM MarkerStays ==
    ASSUME ~Overlap
    PROVE  Spec => []MarkerIsOnDisk
<1>1. FreshInv => MarkerIsOnDisk
  <2> SUFFICES ASSUME FreshInv PROVE MarkerIsOnDisk
    OBVIOUS
  <2>1. /\ disk.marker \in Nat /\ persisted \in Nat
        /\ disk.index # None => disk.index.searched \in Nat
    BY DEF FreshInv, CachedInv, CatalogTypeOK, Payloads
  <2>2. PICK other : other = IF disk.index = None THEN 0 ELSE disk.index.searched
    OBVIOUS
  <2>3. Max({disk.marker, other}) >= disk.marker /\ Max({disk.marker, other}) >= other
        /\ Max({disk.marker, other}) \in Nat
    BY <2>1, <2>2, MaxOfTwo
  <2>4. persisted <= disk.marker \/ persisted <= other
    BY <2>2 DEF FreshInv, MarkerInv
  <2>5. persisted <= Max({disk.marker, other})
    BY <2>1, <2>2, <2>3, <2>4
  <2>6. QED BY <2>2, <2>5 DEF MarkerIsOnDisk
<1>2. QED BY <1>1, FreshHolds, PTL

\* When a deletion of the cache is over, nothing asked for before it is on disk, on its way there or in
\* memory, while a reset and a deletion do not overlap (_delete_managed_data, suspend_searches,
\* suspend_index).
THEOREM DeletedIsGone ==
    ASSUME ~Overlap
    PROVE  Spec => []DeletedStaysDeleted
<1>1. FreshInv => DeletedStaysDeleted
  <2> SUFFICES ASSUME FreshInv PROVE DeletedStaysDeleted
    OBVIOUS
  <2>1. Linking \cup Plain \subseteq Sources
    BY DEF Sources
  <2>2. QED BY <2>1 DEF FreshInv, EpochInv, DeletedStaysDeleted
<1>2. QED BY <1>1, FreshHolds, PTL

=============================================================================
