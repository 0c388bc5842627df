------------------------------- MODULE Discovery -------------------------------
(***************************************************************************)
(* Searching and downloading together, with what reaches across both: the   *)
(* player's switches, the deletion of the cache (`service.py`), the reset of *)
(* the sources' records, the window a download is shown in                  *)
(* (`TableAcquisitionModal.tsx`), and an unload.                            *)
(***************************************************************************)
EXTENDS Catalog, Acquisition

CONSTANTS
    Overlap   \* whether a reset of the records may be asked for while a deletion runs

ASSUME DiscoveryAssumption == Overlap \in BOOLEAN

VARIABLES
    deletion,  \* how far the deletion of the cache is
    resetting, \* whether the sources' records are being reset
    window,    \* the download window: what it shows, what it last read
    orders,    \* cancellations sent by windows that are gone
    shown      \* ghost: the downloads a window was opened for

gone == <<orders, shown>>
vars == <<catalogVars, acquisitionVars, deletion, resetting, window, gone>>
user == <<deletion, resetting, window, gone>>

NoWindow == [item |-> 0, seen |-> "none", busy |-> "none"]

-----------------------------------------------------------------------------
(* Downloads.                                                               *)

Offered == UNION {snapshots[n] : n \in DOMAIN snapshots}
\* start, from a row of an answer that is still kept; the source's switch is read again.  The panel opens
\* the window of what was started, one at a time.
DownloadStarts(i, p) ==
    /\ Begins("download") /\ window = NoWindow /\ p \in Offered \ off /\ p \in Exclusive \cup Shared
    /\ Start(i, p, TRUE) /\ window' = [item |-> i, seen |-> "downloading", busy |-> "none"]
    /\ shown' = shown \cup {i} /\ UNCHANGED <<catalogRest, deletion, resetting, orders>>
\* The same for a row only the player's browser can fetch, which no window of the panel asks for.
HandoffAsked(i, p) ==
    /\ Begins("download") /\ p \in Offered \ off /\ p \in Exclusive \cup Shared
    /\ Start(i, p, FALSE) /\ UNCHANGED <<catalogRest, deletion, resetting, window, gone>>
HandoffCalls(i) ==
    /\ Begins("call") /\ i \notin shown
    /\ CompletionAsked(i) \/ CancelAsked(i)
    /\ UNCHANGED <<catalogRest, deletion, resetting, window, gone>>
\* A task goes on, and so does what waits for it.
DownloadGoesOn(i) ==
    /\ \/ HandoffStarts(i) \/ TaskBegins(i) \/ Resolves(i) \/ ProviderWaits(i) \/ WaitEnds(i)
       \/ Downloads(i) \/ Inspects(i) \/ Fails(i) \/ CleansUp(i) \/ Stops(i) \/ Completes(i) \/ Cancels(i)
    /\ UNCHANGED <<catalogVars, user>>
\* Half an hour later, at the next call.
DownloadExpires(i) == Begins("call") /\ Expires(i) /\ UNCHANGED <<catalogRest, deletion, resetting, window, gone>>

\* The window's poll: the state, or that there is no such download, which is terminal.
WindowReads ==
    LET i == window.item
    IN /\ window # NoWindow /\ window.busy = "none" /\ window.seen # "forgotten"
       /\ window' = [window EXCEPT !.seen = IF i \in Known THEN Item(i).state ELSE "forgotten"]
       /\ window' # window
    /\ UNCHANGED <<catalogVars, acquisitionVars, deletion, resetting, gone>>
\* complete: of itself once the download is there, and by the player's choice of a member.
WindowCompletes ==
    /\ window # NoWindow /\ window.busy = "none" /\ window.seen \in {"ready_to_import", "needs_selection"}
    /\ CompletionAsked(window.item) /\ window' = [window EXCEPT !.busy = "complete"]
    /\ UNCHANGED <<catalogVars, deletion, resetting, gone>>
\* cancel: what is not over is cancelled first, and the window waits for the answer.
WindowCancels ==
    /\ window # NoWindow /\ window.busy = "none"
    /\ window.seen \notin {"imported", "cancelled", "forgotten"}
    /\ CancelAsked(window.item) /\ window' = [window EXCEPT !.busy = "cancel"]
    /\ UNCHANGED <<catalogVars, deletion, resetting, gone>>
\* The answer, or an error and the next read; a lost one is asked after.  A cancelled download closes the
\* window, and so does an imported one.
WindowHears ==
    LET i == window.item
        state == IF i \in Known THEN Item(i).state ELSE "forgotten"
    IN /\ window # NoWindow /\ window.busy # "none" /\ <<window.busy, i>> \notin calls
       /\ \E seen \in {state, "failed"} : window' = [window EXCEPT !.busy = "none", !.seen = seen]
    /\ UNCHANGED <<catalogVars, acquisitionVars, deletion, resetting, gone>>
\* Mutant of Ordered: a window that showed a failure leaves what failed where it is.
OrderedIfActive == window.seen \notin Terminal \cup {"forgotten"}
\* What the window still owns when it goes is cancelled without waiting.
Ordered == window.seen \notin {"imported", "cancelled", "forgotten"}
\* Unmount: by the player, by the game the panel is on, or by the panel itself, at any moment.
WindowGoes ==
    /\ window # NoWindow /\ window' = NoWindow
    /\ orders' = IF Ordered THEN orders \cup {window.item} ELSE orders
    /\ UNCHANGED <<catalogVars, acquisitionVars, deletion, resetting, shown>>
OrderArrives(i) ==
    /\ i \in orders /\ orders' = orders \ {i}
    /\ CancelAsked(i) \/ (i \notin Known /\ UNCHANGED acquisitionVars)
    /\ UNCHANGED <<catalogVars, deletion, resetting, window, shown>>

-----------------------------------------------------------------------------
(* Searches, switches, and what takes the data away.                        *)

Catalog == CatalogNext /\ UNCHANGED <<acquisitionVars, user>>

SearchAsked ==
    /\ SearchBegins /\ UNCHANGED <<acquisitionVars, deletion, resetting, window, gone>>
\* Leaving the screen, or searching again, cancels the search that runs.
SearchCancelled ==
    /\ Begins("call") /\ search # None /\ search' = [search EXCEPT !.stopped = TRUE]
    /\ UNCHANGED <<off, forum, listing, marker, disk, snapshots, refresh, paused, epoch,
                   searches, acquisitionVars, deletion, resetting, window, gone>>

\* set_provider_enabled: the switch, and the background work of a source switched off.
Switches(p) ==
    /\ Begins("switch") /\ p # None
    /\ off' = IF p \in off THEN off \ {p} ELSE off \cup {p}
    /\ crawl' = IF p = Forum /\ p \notin off THEN Cancelled(crawl) ELSE crawl
    /\ refresh' = IF refresh # None /\ refresh.of = p THEN None ELSE refresh
    /\ UNCHANGED <<forum, index, writes, generation, landed, marker, disk, search,
                   snapshots, paused, epoch, searches, acquisitionVars, deletion, resetting, window, gone>>

\* _delete_managed_data: refused while a download owns anything.
DeletionAsked ==
    /\ Begins("delete") /\ deletion = "none" /\ (resetting => Overlap) /\ ~HasActive /\ deletion' = "allowed"
    /\ UNCHANGED <<catalogRest, acquisitionVars, resetting, window, gone>>
\* What was allowed in a worker goes on in the loop: no download may start from here.
DeletionSuspends ==
    /\ deletion = "allowed" /\ deletion' = "refusing" /\ suspended' = TRUE
    /\ UNCHANGED <<catalogVars, items, files, stray, calls, dropped, resetting, window, gone>>
\* suspend_searches: what runs is cancelled, and waited for.
DeletionStopsSearches ==
    /\ deletion = "refusing" /\ deletion' = "searches" /\ paused' = [paused EXCEPT !.searches = TRUE]
    /\ search' = IF search = None THEN None ELSE [search EXCEPT !.stopped = TRUE]
    /\ UNCHANGED <<off, forum, listing, marker, disk, snapshots, refresh, epoch, searches, budget,
                   acquisitionVars, resetting, window, gone>>
\* suspend_index: the background tasks are cancelled, and waited for with what they still write.
DeletionStopsIndex ==
    /\ deletion = "searches" /\ search = None
    /\ deletion' = "index" /\ paused' = [paused EXCEPT !.index = TRUE]
    /\ crawl' = Cancelled(crawl) /\ refresh' = None
    /\ UNCHANGED <<off, forum, index, writes, generation, landed, marker, disk, search,
                   snapshots, epoch, searches, budget, acquisitionVars, resetting, window, gone>>
\* Mutant of Quiet: the tasks are cancelled and not waited for.
QuietAtOnce == TRUE
Quiet == crawl = None /\ writes = {}
\* discard_cached_index: memory forgets the listing.
DeletionDiscards ==
    /\ deletion = "index" /\ Quiet /\ deletion' = "locked"
    /\ index' = NoIndex /\ searched' = 0 /\ persisted' = 0
    /\ UNCHANGED <<off, forum, crawl, writes, generation, landed, disk, search, snapshots,
                   refresh, paused, epoch, searches, budget, acquisitionVars, resetting, window, gone>>
\* _delete_managed_data_locked, and the resumption whatever came of it: a download that slipped in before
\* the suspension refuses it, and a file that cannot be removed stays.
DeletionEnds ==
    /\ deletion = "locked" /\ deletion' = "none"
    /\ suspended' = FALSE /\ paused' = [searches |-> FALSE, index |-> FALSE]
    /\ IF HasActive
       THEN UNCHANGED <<disk, snapshots, epoch, files, stray>>
       ELSE /\ disk' = Empty
            /\ snapshots' = << >> /\ epoch' = epoch + 1 /\ files' = [i \in Items |-> 0] /\ stray' = {}
    /\ UNCHANGED <<off, forum, listing, marker, search, refresh, searches, budget, items, calls, dropped,
                   resetting, window, gone>>

\* reset_provider_diagnostics: the searches are stopped while the records are replaced, and resumed.
ResetAsked ==
    /\ Begins("reset") /\ ~resetting /\ (deletion # "none" => Overlap) /\ resetting' = TRUE
    /\ paused' = [paused EXCEPT !.searches = TRUE]
    /\ search' = IF search = None THEN None ELSE [search EXCEPT !.stopped = TRUE]
    /\ UNCHANGED <<off, forum, listing, marker, disk, snapshots, refresh, epoch, searches,
                   acquisitionVars, deletion, window, gone>>
ResetEnds ==
    /\ resetting /\ search = None /\ resetting' = FALSE
    /\ paused' = [paused EXCEPT !.searches = FALSE]
    /\ UNCHANGED <<off, forum, listing, marker, disk, search, snapshots, refresh, epoch,
                   searches, budget, acquisitionVars, deletion, window, gone>>

\* The plugin is unloaded and loaded again: close cancels the downloads and removes what they staged; a
\* search or a write that was under way is drained or lost; the panel is gone with its windows.
Reloads ==
    /\ Begins("reload") /\ deletion = "none" /\ CatalogRestarts
    /\ items' = [i \in Items |-> NoItem] /\ files' = [i \in Items |-> 0] /\ calls' = {} /\ suspended' = FALSE
    /\ dropped' = [i \in Items |-> IF i \in Known THEN Item(i).state ELSE dropped[i]]
    /\ resetting' = FALSE /\ window' = NoWindow /\ orders' = {} /\ UNCHANGED <<stray, deletion, shown>>

Init ==
    /\ CatalogInit /\ AcquisitionInit
    /\ deletion = "none" /\ resetting = FALSE /\ window = NoWindow /\ orders = {} /\ shown = {}

Deletes ==
    \/ DeletionSuspends \/ DeletionStopsSearches \/ DeletionStopsIndex \/ DeletionDiscards \/ DeletionEnds
    \/ ResetEnds
Shows == WindowReads \/ WindowCompletes \/ WindowCancels \/ WindowHears \/ WindowGoes
Next ==
    \/ Catalog \/ SearchAsked \/ SearchCancelled \/ (\E p \in Sources : Switches(p))
    \/ DeletionAsked \/ Deletes \/ ResetAsked \/ Reloads \/ Shows
    \/ \E i \in Items :
         \/ \E p \in Sources : DownloadStarts(i, p) \/ HandoffAsked(i, p)
         \/ DownloadGoesOn(i) \/ DownloadExpires(i) \/ OrderArrives(i)
         \/ HandoffCalls(i)
Spec == Init /\ [][Next]_vars

-----------------------------------------------------------------------------
UserTypeOK ==
    /\ deletion \in {"none", "allowed", "refusing", "searches", "index", "locked"}
    /\ resetting \in BOOLEAN /\ orders \subseteq Items /\ shown \subseteq Items
    /\ window \in [item : {0} \cup Items, seen : {"none", "forgotten"} \cup States,
                   busy : {"none", "complete", "cancel"}]
TypeOK == CatalogTypeOK /\ AcquisitionTypeOK /\ UserTypeOK

\* When a deletion of the cache is over, nothing of what was asked for before it is on disk, on its way
\* there, in memory or offered for download, whatever search, crawl or refresh it met
\* (_delete_managed_data, suspend_searches, suspend_index).
DeletedStaysDeleted ==
    deletion = "none" =>
        /\ \A r \in disk.rows : r.from = epoch
        /\ \A p \in Linking \cup Plain : disk.lists[p] \in {None, epoch}
        /\ \A held \in {index} \cup {w.payload : w \in writes} :
             held.pages # {} => held.from = epoch
        /\ disk.index # None => disk.index.from = epoch

\* A window that went took its download with it: once its last call and its cancellation are answered the
\* download is over and leaves no file (TableAcquisitionModal's unmount, cancel, _cancel_locked).
ClosedIsOver ==
    \A i \in shown :
        window.item # i /\ i \notin orders /\ (\A c \in calls : c[2] # i) =>
            ~Live(i) /\ files[i] = 0 /\ (i \in Known => Item(i).state \in Terminal)
================================================================================
