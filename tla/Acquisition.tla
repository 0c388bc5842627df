------------------------------ MODULE Acquisition ------------------------------
(***************************************************************************)
(* `acquisition.py`: the download of one row, in a task of its own, into a  *)
(* staged file; the completion that imports the file, in a worker thread;   *)
(* the cancellation and the expiry that give it up.                         *)
(*                                                                         *)
(* A task is cancelled at whatever it awaits, and the clean-up of its file  *)
(* is itself an await.  What a download or an import comes to is chosen.    *)
(***************************************************************************)
EXTENDS Naturals, FiniteSets

CONSTANTS
    NoItem,
    Exclusive,   \* providers that serve one download at a time
    Shared,      \* the others
    MaxItems,    \* bound: acquisitions started
    MaxWaits,    \* rate limits one phase waits out, 2
    Restages     \* whether a handoff is completed again after what it staged could not be read

ASSUME AcquisitionAssumption ==
    /\ MaxItems \in Nat \ {0} /\ MaxWaits \in Nat /\ Restages \in BOOLEAN /\ Exclusive \cap Shared = {}

VARIABLES
    items,      \* the acquisitions known, by the order they were started in
    files,      \* whether the file at each one's path is on disk, 0 or 1
    stray,      \* the handoffs that staged a file no path names any more
    calls,      \* the completions and cancellations under way
    suspended,  \* _suspended
    dropped     \* ghost: acquisitions that are forgotten, with the state each was left in

acquisitionVars == <<items, files, stray, calls, suspended, dropped>>

Items == 1..MaxItems
Known == {i \in Items : items[i] # NoItem}
Terminal == {"imported", "failed", "cancelled"}
States == Terminal \cup {"starting", "downloading", "waiting_provider", "browser_handoff",
                         "ready_to_import", "needs_selection"}
Steps == {"none", "snapshot", "new", "queued", "resolve", "download", "wait", "inspect", "clean"}

Acquisitions == [state : States, provider : Exclusive \cup Shared, task : Steps, staged : BOOLEAN,
                 waits : 0..MaxWaits, after : Steps, why : {"none", "failed", "cancelled"},
                 stopping : BOOLEAN]

ASSUME NoItemAssumption == NoItem \notin States \cup Acquisitions

DownloadsTypeOK ==
    /\ items \in [Items -> {NoItem} \cup Acquisitions] /\ files \in [Items -> 0..1]
    /\ calls \subseteq {"complete", "cancel"} \X Items
    /\ suspended \in BOOLEAN /\ dropped \in [Items -> {NoItem} \cup States]
AcquisitionTypeOK == DownloadsTypeOK /\ stray \subseteq Items

Live(i) == i \in Known /\ items[i].task \notin {"none", "snapshot"}
\* has_active: a task, a staged file, or a handoff nobody resolved; never the state's name.
HasActive == \E i \in Known : /\ items[i].task # "snapshot"
                              /\ Live(i) \/ items[i].staged \/ items[i].state = "browser_handoff"

Sets(i, changes) == items' = [items EXCEPT ![i] = changes]
Item(i) == items[i]

\* start: a row that can be fetched gets a task; one that cannot waits for what the player's browser
\* downloads, once the folder's present contents have been read.
Start(i, provider, direct) ==
    /\ i \notin Known /\ \A j \in Items : j < i => (j \in Known \/ dropped[j] # NoItem)
    /\ dropped[i] = NoItem /\ ~suspended
    /\ Sets(i, [state |-> IF direct THEN "downloading" ELSE "starting", provider |-> provider,
                task |-> IF direct THEN "new" ELSE "snapshot", staged |-> FALSE, waits |-> 0,
                after |-> "none", why |-> "none", stopping |-> FALSE])
    /\ UNCHANGED <<files, stray, calls, suspended, dropped>>
\* The second half of a handoff's start, after its await: the plugin's data may be going by now.
HandedOff(i) ==
    IF suspended
    THEN Sets(i, NoItem) /\ dropped' = [dropped EXCEPT ![i] = "cancelled"]
    ELSE Sets(i, [Item(i) EXCEPT !.state = "browser_handoff", !.task = "none"]) /\ UNCHANGED dropped
HandoffStarts(i) ==
    /\ i \in Known /\ Item(i).task = "snapshot" /\ HandedOff(i)
    /\ UNCHANGED <<files, stray, calls, suspended>>

-----------------------------------------------------------------------------
(* The task.                                                                *)

Runs(i, step) == Live(i) /\ ~Item(i).stopping /\ Item(i).task = step

Serving(provider) ==
    \E i \in Known : /\ Item(i).provider = provider /\ provider \in Exclusive
                     /\ Item(i).task \in {"resolve", "download", "wait", "inspect", "clean"}
\* _download, and _download_once up to its first await: the path is the item's before there is a file.
\* A provider that serves one at a time makes the next one wait.
TaskBegins(i) ==
    /\ Runs(i, "new") \/ Runs(i, "queued")
    /\ IF Serving(Item(i).provider)
       THEN /\ Item(i).task = "new"
            /\ Sets(i, [Item(i) EXCEPT !.state = "waiting_provider", !.task = "queued"])
       ELSE Sets(i, [Item(i) EXCEPT !.staged = TRUE, !.task = "resolve"])
    /\ UNCHANGED <<files, stray, calls, suspended, dropped>>
\* resolve_download: the provider's chain, with the countdown it may show.
Resolves(i) ==
    /\ Runs(i, "resolve")
    /\ Sets(i, [Item(i) EXCEPT !.state = "downloading", !.task = "download", !.waits = 0])
    /\ UNCHANGED <<files, stray, calls, suspended, dropped>>
MayWait(i) == Item(i).waits < MaxWaits
\* _with_rate_limit_waits: a rate limit is waited out so many times and the step tried again.
ProviderWaits(i) ==
    /\ Runs(i, "resolve") \/ Runs(i, "download")
    /\ MayWait(i)
    /\ Sets(i, [Item(i) EXCEPT !.state = "waiting_provider", !.after = Item(i).task, !.task = "wait",
                               !.waits = IF @ < MaxWaits THEN @ + 1 ELSE @])
    /\ UNCHANGED <<files, stray, calls, suspended, dropped>>
WaitEnds(i) ==
    /\ Runs(i, "wait")
    /\ Sets(i, [Item(i) EXCEPT !.state = "downloading", !.task = Item(i).after])
    /\ UNCHANGED <<files, stray, calls, suspended, dropped>>
Downloads(i) ==
    /\ Runs(i, "download") /\ files' = [files EXCEPT ![i] = 1]
    /\ Sets(i, [Item(i) EXCEPT !.task = "inspect"])
    /\ UNCHANGED <<stray, calls, suspended, dropped>>
\* What a provider sent is read: a table, an archive to choose from or one nothing can open, which is
\* kept; a page instead of a file, bytes that are not what was advertised, or no table, which are not.
Inspects(i) ==
    /\ Runs(i, "inspect")
    /\ \/ \E state \in {"ready_to_import", "needs_selection", "failed"} :
            Sets(i, [Item(i) EXCEPT !.state = state, !.task = "none"])
       \/ Sets(i, [Item(i) EXCEPT !.task = "clean", !.why = "failed"])
    /\ UNCHANGED <<files, stray, calls, suspended, dropped>>
\* Any step may fail: the file is removed first, and that is waited for.
Fails(i) ==
    /\ Runs(i, "resolve") \/ Runs(i, "download")
    /\ Sets(i, [Item(i) EXCEPT !.task = "clean", !.why = "failed"])
    /\ UNCHANGED <<files, stray, calls, suspended, dropped>>
\* Mutant of Cleaned: the path is kept when the file is gone, and the file when the path is.
CleanedPath(i) ==
    /\ UNCHANGED files
    /\ Sets(i, [Item(i) EXCEPT !.task = "none", !.staged = FALSE, !.state = Item(i).why])
Cleaned(i) ==
    /\ files' = [files EXCEPT ![i] = 0]
    /\ Sets(i, [Item(i) EXCEPT !.task = "none", !.staged = FALSE, !.state = Item(i).why])
CleansUp(i) == Runs(i, "clean") /\ Cleaned(i) /\ UNCHANGED <<stray, calls, suspended, dropped>>

\* The cancellation arrives: at a task that never ran, in the queue, in the middle of the work, or in
\* the middle of a clean-up, which then ends without its last lines.
Stops(i) ==
    /\ Live(i) /\ Item(i).stopping
    /\ CASE Item(i).task = "new" ->
              Sets(i, [Item(i) EXCEPT !.task = "none", !.stopping = FALSE]) /\ UNCHANGED files
         [] Item(i).task = "queued" ->
              /\ Sets(i, [Item(i) EXCEPT !.task = "none", !.stopping = FALSE, !.state = "cancelled"])
              /\ UNCHANGED files
         [] Item(i).task = "clean" ->
              /\ files' = [files EXCEPT ![i] = 0]
              /\ Sets(i, [Item(i) EXCEPT !.task = "none", !.stopping = FALSE,
                                         !.state = IF Item(i).provider \in Exclusive THEN "cancelled"
                                                   ELSE "failed"])
         [] OTHER ->
              /\ Sets(i, [Item(i) EXCEPT !.task = "clean", !.why = "cancelled", !.stopping = FALSE])
              /\ UNCHANGED files
    /\ UNCHANGED <<stray, calls, suspended, dropped>>

-----------------------------------------------------------------------------
(* The calls.                                                               *)

\* wait_table_acquisition: the completion waits for the task, and then for a worker.
CompletionAsked(i) ==
    /\ i \in Known /\ Item(i).task # "snapshot" /\ calls' = calls \cup {<<"complete", i>>}
    /\ UNCHANGED <<items, files, stray, suspended, dropped>>
\* _complete_locked of a handoff: what the player downloaded is staged under a new name, which the item's
\* path becomes, and read; another call imports it.  What cannot be read leaves the handoff and its path
\* as they are, and the next staging forgets that path with its file.
Stages(i) ==
    /\ Item(i).state = "browser_handoff" /\ (Restages \/ ~Item(i).staged)
    /\ \E state \in {"ready_to_import", "browser_handoff"} :
         Sets(i, [Item(i) EXCEPT !.state = state, !.staged = TRUE])
    /\ files' = [files EXCEPT ![i] = 1]
    /\ stray' = IF Item(i).staged THEN stray \cup {i} ELSE stray
\* _complete_locked of what is staged and read: the outcomes of the import.
Imports(i) ==
    /\ Item(i).state \in {"ready_to_import", "needs_selection"} /\ Item(i).staged
    /\ \/ /\ Sets(i, [Item(i) EXCEPT !.state = "imported", !.staged = FALSE])
          /\ files' = [files EXCEPT ![i] = 0]
       \/ /\ \E state \in {"failed", "needs_selection"} : Sets(i, [Item(i) EXCEPT !.state = state])
          /\ UNCHANGED files
    /\ UNCHANGED stray
\* complete_blocking, under the item's lock; the item may be gone by now, and then it is refused.
Completes(i) ==
    /\ <<"complete", i>> \in calls /\ ~Live(i) /\ calls' = calls \ {<<"complete", i>>}
    /\ \/ i \in Known /\ (Stages(i) \/ Imports(i))
       \/ UNCHANGED <<items, files, stray>>
    /\ UNCHANGED <<suspended, dropped>>

\* cancel: the task first, and then what it leaves.
CancelAsked(i) ==
    /\ i \in Known /\ Item(i).task # "snapshot"
    /\ Sets(i, [Item(i) EXCEPT !.stopping = Live(i)])
    /\ calls' = calls \cup {<<"cancel", i>>} /\ UNCHANGED <<files, stray, suspended, dropped>>
Retires(i) == i \in Known /\ Item(i).state \notin {"imported", "cancelled"}
\* _cancel_locked: an import that was quicker stands, and a failure stays what it was.
Cancels(i) ==
    /\ <<"cancel", i>> \in calls /\ ~Live(i) /\ calls' = calls \ {<<"cancel", i>>}
    /\ IF Retires(i)
       THEN /\ Sets(i, [Item(i) EXCEPT !.staged = FALSE,
                                       !.state = IF @ = "failed" THEN @ ELSE "cancelled"])
            /\ files' = [files EXCEPT ![i] = IF Item(i).staged THEN 0 ELSE @]
       ELSE UNCHANGED <<items, files>>
    /\ UNCHANGED <<stray, suspended, dropped>>

\* What _expire asks before it forgets an acquisition nobody touched for half an hour.
Expirable(i) == i \in Known /\ Item(i).task = "none"
Expires(i) ==
    /\ Expirable(i)
    /\ files' = [files EXCEPT ![i] = IF Item(i).staged THEN 0 ELSE @]
    /\ dropped' = [dropped EXCEPT ![i] = Item(i).state] /\ Sets(i, NoItem)
    /\ UNCHANGED <<stray, calls, suspended>>

AcquisitionInit ==
    /\ items = [i \in Items |-> NoItem] /\ files = [i \in Items |-> 0] /\ stray = {} /\ calls = {}
    /\ suspended = FALSE /\ dropped = [i \in Items |-> NoItem]

Task(i) ==
    \/ TaskBegins(i) \/ Resolves(i) \/ ProviderWaits(i) \/ WaitEnds(i) \/ Downloads(i) \/ Inspects(i)
    \/ Fails(i) \/ CleansUp(i) \/ Stops(i)
AcquisitionNext ==
    \E i \in Items : HandoffStarts(i) \/ Task(i) \/ Completes(i) \/ Cancels(i) \/ Expires(i)

-----------------------------------------------------------------------------
\* A staged file is on disk exactly as long as something answers for it: one that waits for its import
\* is there, and none is left that no acquisition names (_download_once's handlers, _complete_locked,
\* _cancel_locked, _expire).
StagingIsOwned ==
    /\ \A i \in Known : Item(i).state \in {"ready_to_import", "needs_selection"} => files[i] = 1
    /\ \A i \in Items : files[i] = 1 => i \in Known /\ (Item(i).staged \/ Live(i))
    /\ stray = {}

================================================================================
