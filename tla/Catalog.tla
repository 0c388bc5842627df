-------------------------------- MODULE Catalog --------------------------------
(***************************************************************************)
(* `catalog.py`: a search asks every source that is switched on, at once,   *)
(* and publishes what they answered; around it live what outlasts a search: *)
(* the rows kept on disk for a source that fails the next time, the listing *)
(* of one forum, crawled in the background, each source's own site index,   *)
(* and the switches (`provider_sources.py`).  The deadlines sources ask for  *)
(* are left out: that one is respected shows as a source that does not      *)
(* answer.                                                                  *)
(*                                                                         *)
(* A source is its name, a row is the source it is of: one game, one query, *)
(* one file per source.  Every piece of cached data carries the epoch it was *)
(* asked for in, a ghost the deletion of the cache advances.                *)
(***************************************************************************)
EXTENDS Naturals, Sequences, FiniteSets, FiniteSetsExt

CONSTANTS
    None,
    Forum,       \* the source with a crawled listing, FearLess
    Linking,     \* sources whose pages name the forum's topics, Playground
    Plain,       \* sources that only list their own, The Cheat Script, VGTimes and GitHub
    MaxKept,     \* search snapshots kept, 8
    MaxWrites,   \* bound: index snapshots written
    Budgets      \* bound: how often each thing is begun, one of these from the start

Kinds == {"change", "crawl", "search", "switch", "delete", "reset", "reload", "download", "call"}

ASSUME CatalogAssumption ==
    /\ {MaxKept, MaxWrites} \subseteq Nat /\ MaxKept > 0 /\ Budgets \subseteq [Kinds -> Nat]
    /\ Forum \notin Linking \cup Plain /\ Linking \cap Plain = {}

Sources == {Forum} \cup Linking \cup Plain

VARIABLES
    off,        \* the sources switched off, on disk
    forum,      \* the forum's listing now: how many pages, how far apart
    index,      \* its listing in memory
    crawl,      \* the task that completes it
    writes,     \* snapshots of it on their way to the disk
    generation, \* _index_generation
    landed,     \* _index_written_generation
    searched,   \* _searched_at: which search was the last
    persisted,  \* _searched_persisted_at
    disk,       \* the files in cache/
    search,     \* the running search
    snapshots,  \* _searches: the rows of each answer, oldest first
    refresh,    \* the background refresh of a linking source's site index
    paused,     \* _searches_suspended, _index_suspended
    epoch,      \* ghost: how often the cache was deleted
    searches,   \* ghost: how many searches began
    budget      \* what may still be begun

listing == <<index, crawl, writes, generation, landed>>
marker == <<searched, persisted>>
catalogRest == <<off, forum, listing, marker, disk, search, snapshots, refresh, paused, epoch, searches>>
catalogVars == <<catalogRest, budget>>

Begins(kind) == budget[kind] > 0 /\ budget' = [budget EXCEPT ![kind] = @ - 1]

Shapes == {[total |-> 1, step |-> None], [total |-> 2, step |-> 1], [total |-> 2, step |-> 2]}
NoIndex == [pages |-> {}, total |-> None, step |-> None, from |-> epoch]
Empty == [index |-> None, marker |-> 0, rows |-> {}, lists |-> [p \in Sources |-> None]]
Rows == [of : Sources, from : Nat]
Listings == [pages : SUBSET Nat, total : {None, 1, 2}, step : {None, 1, 2}, from : Nat]
Payloads == [pages : SUBSET Nat, total : {None, 1, 2}, step : {None, 1, 2}, from : Nat, searched : Nat]
Crawls == [phase : {"pick", "wait", "out", "end", "last"}, start : Nat, from : Nat]
Searches == [off : SUBSET Sources, from : Nat, left : SUBSET Sources, rows : SUBSET Rows, stopped : BOOLEAN]

ASSUME NoneAssumption == None \notin Nat \cup Listings \cup Payloads \cup Crawls \cup Searches \cup Rows

CatalogTypeOK ==
    /\ off \subseteq Sources /\ forum \in Shapes
    /\ index \in Listings /\ crawl \in {None} \cup Crawls
    /\ writes \subseteq [generation : 1..generation, payload : Payloads, by : {"crawl", "search"}]
    /\ {generation, landed, searched, persisted, epoch, searches} \subseteq Nat
    /\ disk \in [index : {None} \cup Payloads, marker : Nat, rows : SUBSET Rows,
                 lists : [Sources -> {None} \cup Nat]]
    /\ search \in {None} \cup Searches /\ refresh \in {None} \cup Rows
    /\ snapshots \in Seq(SUBSET Sources) /\ Len(snapshots) <= MaxKept
    /\ paused \in [searches : BOOLEAN, index : BOOLEAN] /\ budget \in [Kinds -> Nat]

-----------------------------------------------------------------------------
(* The forum's listing.                                                     *)

Offsets(shape) == IF shape.step = None THEN {0} ELSE {n * shape.step : n \in 0..(shape.total - 1)}
\* _pending_fearless_page_starts: pages never read, or read too long ago, which any page may be by now.
Pending == IF index.total = None THEN {} ELSE Offsets(index)

\* Mutant of Refreshed: another page size keeps the pages read under the last one.
RefreshedInPlace(start, from) ==
    LET kept == index.pages
    IN [pages |-> kept \cup {start}, total |-> forum.total,
        step |-> IF start = 0 THEN forum.step ELSE index.step, from |-> from]
\* _refresh_fearless_page: the listing with the page at `start` read again.  Another page size seen on
\* the first page forgets every page, since an offset means something else; a shorter listing forgets
\* the pages beyond its end.
Refreshed(start, from) ==
    LET resized == start = 0 /\ forum.step # index.step
        kept == IF resized THEN {} ELSE index.pages
        shape == [total |-> forum.total, step |-> IF start = 0 THEN forum.step ELSE index.step]
        pages == {s \in kept \cup {start} : s \in Offsets(shape)}
    IN [pages |-> pages, total |-> shape.total, step |-> shape.step,
        from |-> IF kept = {} THEN from ELSE Min({from, index.from})]
\* What the page's own checks let through: the first page; and a later one at an offset of the size that
\* is known, which holds against a page that shows none, and within the listing.
Readable(start) ==
    \/ start = 0
    \/ /\ forum.total > 1 /\ index.step # None
       /\ start \in Offsets([total |-> forum.total, step |-> index.step])

\* The forum grows, shrinks or changes its page size.
ForumChanges ==
    /\ Begins("change") /\ \E s \in Shapes : forum' = s
    /\ UNCHANGED <<off, listing, marker, disk, search, snapshots, refresh, paused, epoch, searches>>

\* _fearless_index_snapshot: what is written is what memory held when the write was asked for.
Payload(held) == [total |-> held.total, step |-> held.step, pages |-> held.pages, searched |-> searched,
                  from |-> held.from]
Snapshot(by, held) ==
    /\ generation < MaxWrites /\ generation' = generation + 1
    /\ writes' = writes \cup {[generation |-> generation + 1, payload |-> Payload(held), by |-> by]}

Written(by) == \A w \in writes : w.by # by

\* Mutant of NotePersisted: the marker noted is the one memory has now.
NotePersistedNow(payload) == persisted' = searched
\* _note_marker_persisted: the marker that is in the bytes which landed.
NotePersisted(payload) == persisted' = Max({persisted, payload.searched})
\* _write_index_snapshot, and the step of _persist_fearless_index that follows it: an older snapshot
\* than the one on disk is not written, and a write may fail.
WriteLands(w) ==
    /\ w \in writes /\ writes' = writes \ {w}
    /\ \/ /\ w.generation > landed /\ landed' = w.generation
          /\ disk' = [disk EXCEPT !.index = w.payload] /\ NotePersisted(w.payload)
       \/ UNCHANGED <<landed, disk, persisted>>
    /\ UNCHANGED <<off, forum, index, crawl, generation, searched, search, snapshots,
                   refresh, paused, epoch, searches, budget>>

\* _start_fearless_index, from a search that ends and from the schedule.
MayCrawl == ~paused.index /\ searched > 0 /\ Forum \notin off /\ index.total # None /\ Pending # {}
CrawlStarts ==
    /\ Begins("crawl") /\ crawl = None /\ MayCrawl
    /\ crawl' = [phase |-> "pick", start |-> 0, from |-> epoch]
    /\ UNCHANGED <<off, forum, index, writes, generation, landed, marker, disk, search, snapshots, refresh,
                   paused, epoch, searches>>

Crawlable == Pending # {} /\ Forum \notin off
\* _build_fearless_index: the next page due, while no search runs; or the pass ends.
CrawlPicks ==
    /\ crawl # None /\ crawl.phase = "pick" /\ Written("crawl")
    /\ \/ /\ Crawlable /\ search = None
          /\ \E start \in Pending : crawl' = [crawl EXCEPT !.phase = "wait", !.start = start]
       \/ crawl' = [crawl EXCEPT !.phase = "end"]
    /\ UNCHANGED <<off, forum, index, writes, generation, landed, marker, disk, search,
                   snapshots, refresh, paused, epoch, searches, budget>>
\* The wait before the request: the forum's deadline, and searches that have come to run.
CrawlAsks ==
    /\ crawl # None /\ crawl.phase = "wait" /\ search = None
    /\ crawl' = [crawl EXCEPT !.phase = IF Forum \in off THEN "pick" ELSE "out"]
    /\ UNCHANGED <<off, forum, index, writes, generation, landed, marker, disk, search, snapshots, refresh,
                   paused, epoch, searches, budget>>
\* The answer: a page, which is written now or with a later one; a refusal that is waited out; or a
\* refusal too many or a failure, which ends the pass.
CrawlReads ==
    /\ crawl # None /\ crawl.phase = "out"
    /\ \/ /\ Readable(crawl.start) /\ index' = Refreshed(crawl.start, crawl.from)
          /\ Snapshot("crawl", index') \/ UNCHANGED <<writes, generation>>
          /\ crawl' = [crawl EXCEPT !.phase = "pick"]
       \/ /\ \E next \in {"wait", "end"} : crawl' = [crawl EXCEPT !.phase = next]
          /\ UNCHANGED <<index, writes, generation>>
    /\ UNCHANGED <<off, forum, landed, marker, disk, search, snapshots, refresh, paused, epoch, searches, budget>>
\* The pass ends, and what was read is written whatever ended it.
CrawlEnds ==
    /\ crawl # None /\ crawl.phase = "end"
    /\ IF index.pages # {} /\ generation < MaxWrites THEN Snapshot("crawl", index)
       ELSE UNCHANGED <<writes, generation>>
    /\ crawl' = [crawl EXCEPT !.phase = "last"]
    /\ UNCHANGED <<off, forum, index, landed, marker, disk, search, snapshots, refresh,
                   paused, epoch, searches, budget>>
CrawlOver ==
    /\ crawl # None /\ crawl.phase = "last" /\ Written("crawl")
    /\ crawl' = None
    /\ UNCHANGED <<off, forum, index, writes, generation, landed, marker, disk, search,
                   snapshots, refresh, paused, epoch, searches, budget>>
\* A task that is cancelled still writes what it read.
Cancelled(task) == IF task = None \/ task.phase \in {"end", "last"} THEN task
                   ELSE [task EXCEPT !.phase = "end"]

-----------------------------------------------------------------------------
(* A search.                                                                *)

Fresh(p) == [of |-> p, from |-> search.from]
Own(p) == {{}, {Fresh(p)}}
Has(rows, p) == \E r \in rows : r.of = p

\* search: refused while the plugin's data is deleted.  One selection of sources holds for all of it.
SearchBegins ==
    /\ Begins("search") /\ search = None /\ ~paused.searches
    /\ searches' = searches + 1
    /\ searched' = IF Forum \in off THEN searched ELSE searches + 1
    /\ \E noted \in BOOLEAN :   \* _note_search_activity: the marker file may refuse
         IF noted /\ Forum \notin off
         THEN persisted' = searches + 1 /\ disk' = [disk EXCEPT !.marker = searches + 1]
         ELSE UNCHANGED <<persisted, disk>>
    /\ search' = [off |-> off, from |-> epoch, left |-> Sources \ off, rows |-> {}, stopped |-> FALSE]
    /\ UNCHANGED <<off, forum, listing, snapshots, refresh, paused, epoch>>

Asking(p) == search # None /\ ~search.stopped /\ p \in search.left
Answered(p, rows) == search' = [search EXCEPT !.left = @ \ {p}, !.rows = @ \cup rows]

\* A source that is not asked because it said when to come back, that refuses or that fails: no row.
Refuses(p) ==
    /\ Asking(p) /\ Answered(p, {})
    /\ UNCHANGED <<off, forum, listing, marker, disk, snapshots, refresh, paused, epoch, searches, budget>>

\* _fearless: the first page of the listing, perhaps a later one; then the topics it names.  A listing of
\* one page is written here, since no crawl will.
ForumAnswers ==
    /\ Asking(Forum) /\ Written("search")
    /\ \E rows \in Own(Forum), later \in {s \in Pending : Readable(s)} \cup {0} :
            /\ index' = [Refreshed(0, search.from) EXCEPT
                            !.pages = IF forum.step = index.step /\ later \in Offsets(forum)
                                      THEN @ \cup {later} ELSE @]
            /\ IF forum.total = 1 /\ generation < MaxWrites THEN Snapshot("search", index')
               ELSE UNCHANGED <<writes, generation>>
            /\ Answered(Forum, rows)
    /\ UNCHANGED <<off, forum, crawl, landed, marker, disk, snapshots, refresh, paused, epoch, searches, budget>>

\* _linked_source: the pages of a source may name the forum's topics, which are read unless this search
\* began with the forum switched off.
Follows == {Forum} \ search.off
\* _playground and the others with a site index of their own: the index, from disk or read again, the
\* pages it names, and what they link.
ListingAnswers(p) ==
    /\ p \in Linking \cup Plain /\ Asking(p)
    /\ \E rows \in Own(p), linked \in SUBSET IF p \in Linking THEN Follows ELSE {} :
         Answered(p, rows \cup {Fresh(q) : q \in linked})
    /\ \E list \in {disk.lists[p], search.from} : disk' = [disk EXCEPT !.lists[p] = list]
    /\ UNCHANGED <<off, forum, listing, marker, snapshots, refresh, paused, epoch, searches, budget>>

\* The background refresh of a linking source's index, left by a search that would not wait for it.
RefreshStarts(p) ==
    /\ p \in Linking /\ Asking(p) /\ disk.lists[p] # None
    /\ refresh = None /\ ~paused.index /\ p \notin off /\ refresh' = [of |-> p, from |-> epoch]
    /\ UNCHANGED <<off, forum, listing, marker, disk, search, snapshots, paused, epoch, searches, budget>>
RefreshAnswers ==
    /\ refresh # None /\ refresh' = None
    /\ \E list \in {disk.lists[refresh.of], refresh.from} :
         disk' = [disk EXCEPT !.lists[refresh.of] = list]
    /\ UNCHANGED <<off, forum, listing, marker, search, snapshots, paused, epoch, searches, budget>>

\* _load_cache: what the last answer left, but for the sources switched off.
CachedRows(switched) == {r \in disk.rows : r.of \notin switched}
\* What answered, with the stale rows of the last answer for the sources that failed.
Records(failed) ==
    search.rows \cup {r \in CachedRows(search.off) : r.of \in failed /\ ~Has(search.rows, r.of)}
\* _save_cache: what is served wholly from the cache is not written again.
SavedRows(records) == IF records = {} THEN disk.rows ELSE records
\* _finish_search: the answer, which is kept for the downloads it offers.
Finished(records) ==
    LET served == IF records = {} THEN CachedRows(search.off) ELSE records
        all == Append(snapshots, {r.of : r \in served})
    IN /\ snapshots' = IF Len(all) > MaxKept THEN Tail(all) ELSE all
       /\ disk' = [disk EXCEPT !.rows = SavedRows(records)]
\* _collect's end: every source answered or failed.
SearchEnds ==
    /\ search # None /\ ~search.stopped /\ search.left = {} /\ Written("search") /\ search' = None
    /\ \E failed \in SUBSET Sources : Finished(Records(failed))
    /\ UNCHANGED <<off, forum, listing, marker, refresh, paused, epoch, searches, budget>>
\* A cancelled search answers nothing and writes nothing, but for a listing already on its way.
SearchStops ==
    /\ search # None /\ search.stopped /\ Written("search") /\ search' = None
    /\ UNCHANGED <<off, forum, listing, marker, disk, snapshots, refresh, paused, epoch, searches, budget>>

-----------------------------------------------------------------------------
\* _load_fearless_index: what a file must be to be read at all.
Loadable(payload) ==
    /\ payload # None /\ payload.total # None /\ (payload.total = 1 <=> payload.step = None)
    /\ payload.pages \subseteq Offsets(payload)
\* The catalog is built again: what was not on disk is gone.
CatalogRestarts ==
    LET file == disk.index
    IN /\ index' = IF Loadable(file)
                   THEN [pages |-> file.pages, total |-> file.total, step |-> file.step,
                         from |-> file.from]
                   ELSE NoIndex
       /\ searched' = Max({disk.marker, IF Loadable(file) THEN file.searched ELSE 0})
       /\ persisted' = searched' /\ crawl' = None /\ writes' = {} /\ generation' = generation
       /\ landed' = landed /\ search' = None /\ snapshots' = << >> /\ refresh' = None
       /\ paused' = [searches |-> FALSE, index |-> FALSE]
       /\ UNCHANGED <<off, forum, disk, epoch, searches>>

\* A new device, or one on which a search of every source is over and its listing is written.
Searched == [index |-> [pages |-> Offsets(forum), total |-> forum.total, step |-> forum.step, from |-> 0,
                        searched |-> 1],
             marker |-> 1, rows |-> [of : Sources, from : {0}], lists |-> [p \in Sources |-> 0]]
CatalogInit ==
    /\ off = {} /\ forum \in Shapes /\ budget \in Budgets
    /\ epoch = 0 /\ crawl = None /\ writes = {} /\ generation = 0 /\ landed = 0 /\ search = None
    /\ refresh = None /\ paused = [searches |-> FALSE, index |-> FALSE]
    /\ \/ /\ disk = Empty /\ index = NoIndex /\ snapshots = << >>
          /\ searched = 0 /\ persisted = 0 /\ searches = 0
       \/ /\ disk = Searched /\ snapshots = <<Sources>>
          /\ index = [pages |-> Offsets(forum), total |-> forum.total, step |-> forum.step, from |-> 0]
          /\ searched = 1 /\ persisted = 1 /\ searches = 1

\* What happens of itself.
CatalogNext ==
    \/ ForumChanges \/ (\E w \in writes : WriteLands(w))
    \/ CrawlStarts \/ CrawlPicks \/ CrawlAsks \/ CrawlReads \/ CrawlEnds \/ CrawlOver
    \/ ForumAnswers \/ (\E p \in Sources : Refuses(p) \/ ListingAnswers(p))
    \/ (\E p \in Sources : RefreshStarts(p)) \/ RefreshAnswers
    \/ SearchEnds \/ SearchStops

-----------------------------------------------------------------------------
\* The listing that is written can be read back, every page of it at an offset that still means that
\* page (_refresh_fearless_page, _load_fearless_index).
WrittenLoads == disk.index # None => Loadable(disk.index)

\* The marker that is said to be on disk is there: the next process knows of the last search that was
\* recorded (_note_marker_persisted).
MarkerIsOnDisk ==
    persisted <= Max({disk.marker, IF disk.index = None THEN 0 ELSE disk.index.searched})
================================================================================
