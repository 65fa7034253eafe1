---------------------------- MODULE PageListing ----------------------------
(***************************************************************************)
(* The listings of the service and two of their clients, next to writers   *)
(* of the listed table.  A listing orders its rows by a time stamp of      *)
(* whole seconds, the newest first, and by id within one second, and is    *)
(* read by page number, so it moves under a client that walks it.          *)
(* Workspace bootstrap reads the root pages and sums them up in a token.   *)
(*                                                                         *)
(* list_pages and search_pages list canvas_page, whose stamp is set by     *)
(* every UPDATE; what search finds also depends on its projection, which   *)
(* is written apart from the page.  list_workspaces, list_ai_jobs,         *)
(* list_page_ai_suggestions, list_ai_suggestion_feedback and the facade's  *)
(* list_page_content_versions list what is only ever added to: a "log"     *)
(* here.                                                                   *)
(***************************************************************************)
EXTENDS Integers, FiniteSets

CONSTANTS
    Ids,          \* the ids a row may have; they are ordered as numbers
    MaxPageSize,  \* the greatest page size that is served
    RootLimit,    \* how many root pages a bootstrap reads
    Sizes,        \* the page sizes clients ask for
    MaxSecond,    \* bound: the last second
    None

ASSUME ListingAssumption ==
    /\ Ids \subseteq Nat
    /\ IsFiniteSet(Ids)
    /\ MaxPageSize \in Nat \ {0}
    /\ RootLimit \in Nat \ {0}
    /\ Sizes \subseteq Int
    /\ MaxSecond \in Nat \ {0}

(***************************************************************************)
(* status is lifecycle_status; stamp is updated_at, created_at in a log;   *)
(* hit tells whether the query's own condition holds of the row: q for a   *)
(* listing, no parent and no folder for a bootstrap.                       *)
(***************************************************************************)
Row == [status : {"absent", "active", "deleted"}, stamp : Nat, hit : BOOLEAN]

Absent == [status |-> "absent", stamp |-> 0, hit |-> FALSE]

\* What a behaviour is about.  The two clients only read, so nothing that one
\* does is seen by the other.
Scenes == {"walk pages", "walk log", "bootstrap"}

VARIABLES
    scene,
    rows,      \* the table
    second,    \* the database's clock
    writing,   \* the statement or transaction that is not committed yet, or None
    walk,      \* the walk of a listing: where it is, its page size and number
    steady,    \* history: the rows it was to list that no one has changed
    listed,    \* history: those of them it was given
    again,     \* history: those of them it was given more than once
    left,      \* history: how often a row left its listing
    entered,   \* history: how often a row came into its listing or to its front
    sync,      \* the last bootstrap: its token and the second it was read in
    changed,   \* history: the rows changed since the bootstrap
    late       \* history: those whose change had its stamp before it

table == <<rows, writing>>
walkHistory == <<steady, listed, again, left, entered>>
syncVars == <<sync, changed, late>>
listingVars == <<scene, second, table, walk, walkHistory, syncVars>>

Walk == [at : {"idle", "walking", "done", "refused"}, size : Int, page : Nat]
Sync == [token : Nat, second : Nat]
Write == [id : Ids, row : Row]

ASSUME NoneAssumption == None \notin Write \union Sync

ListingTypeOK ==
    /\ scene \in Scenes
    /\ rows \in [Ids -> Row]
    /\ second \in Nat
    /\ writing \in Write \union {None}
    /\ walk \in Walk
    /\ steady \in SUBSET Ids /\ listed \in SUBSET steady /\ again \in SUBSET listed
    /\ left \in Nat /\ entered \in Nat
    /\ sync \in Sync \union {None}
    /\ changed \in SUBSET Ids /\ late \in SUBSET Ids

ListingInit ==
    /\ scene \in Scenes
    /\ rows = [i \in Ids |-> Absent]
    /\ second = 1
    /\ writing = None
    /\ walk = [at |-> "idle", size |-> 0, page |-> 0]
    /\ steady = {} /\ listed = {} /\ again = {}
    /\ left = 0 /\ entered = 0
    /\ sync = None
    /\ changed = {} /\ late = {}

-----------------------------------------------------------------------------
\* The queries.

Matches(w) == w.status = "active" /\ w.hit

Listing(t) == {i \in Ids : Matches(t[i])}

\* ORDER BY updated_at DESC, id DESC.
Ahead(t, i, j) ==
    \/ t[i].stamp > t[j].stamp
    \/ t[i].stamp = t[j].stamp /\ i > j

Before(t, i) == {j \in Listing(t) : Ahead(t, j, i)}

Rank(t, i) == Cardinality(Before(t, i))

\* Mutant: pages are counted from zero.
OffsetFromZero(page, size) == page * size

Offset(page, size) == (page - 1) * size

\* Mutant: the extra row is not cut off.
SliceWithExtra(t, page, size) ==
    {i \in Listing(t) : Rank(t, i) \in Offset(page, size) .. Offset(page, size) + size}

\* LIMIT size + 1 OFFSET, and the extra row cut off.
Slice(t, page, size) ==
    {i \in Listing(t) : Rank(t, i) \in Offset(page, size) .. Offset(page, size) + size - 1}

\* has_more: the extra row came.
HasMore(t, page, size) == Cardinality(Listing(t)) > Offset(page, size) + size

\* The root pages of a bootstrap.
Roots(t) == {i \in Listing(t) : Rank(t, i) < RootLimit}

\* The latest updated_at of the root pages; the workspace's own, which never
\* changes, when there is none.
IsToken(t, s) ==
    IF Roots(t) = {} THEN s = 0
    ELSE (\E i \in Roots(t) : t[i].stamp = s) /\ \A i \in Roots(t) : t[i].stamp <= s

-----------------------------------------------------------------------------
(***************************************************************************)
(* The writers.  A statement takes its stamp when it runs and is seen when *)
(* it commits, an apply or the insert of a job when its transaction does,  *)
(* and SQLite lets in one writer at a time.                                *)
(***************************************************************************)
Begin(i, w) ==
    /\ writing = None
    /\ writing' = [id |-> i, row |-> w]
    /\ UNCHANGED <<scene, second, rows, walk, walkHistory, syncVars>>

\* Mutant: a page is inserted as a draft.
FreshDraft(hit) == [status |-> "draft", stamp |-> second, hit |-> hit]

\* The columns an insert fills.
Fresh(hit) == [status |-> "active", stamp |-> second, hit |-> hit]

\* insert_page, insert_workspace, insert_ai_job and the other inserts.
Insert(i) ==
    /\ rows[i].status = "absent"
    /\ \E hit \in BOOLEAN : Begin(i, Fresh(hit))

\* The search projection, which search looks at too, is another table (as a
\* mutant of Touched: the statement does not set updated_at).
Reindexed(i, hit) == [rows[i] EXCEPT !.hit = hit]

\* What an UPDATE of canvas_page makes of the row.
Touched(i, hit) == [rows[i] EXCEPT !.hit = hit, !.stamp = second]

\* update_page_metadata, update_page_drive_snapshot, apply_ai_suggestion.
Update(i) ==
    /\ scene # "walk log"
    /\ rows[i].status = "active"
    /\ \E hit \in BOOLEAN : Begin(i, Touched(i, hit))

\* delete_page.
Delete(i) ==
    /\ scene # "walk log"
    /\ rows[i].status = "active"
    /\ Begin(i, [rows[i] EXCEPT !.status = "deleted", !.stamp = second])

\* upsert_page_search_projection: search finds a page, or does no longer.
Reindex(i) ==
    /\ scene = "walk pages"
    /\ rows[i].status = "active"
    /\ Begin(i, Reindexed(i, ~rows[i].hit))

\* What happens during a walk is counted, up to the number of ids, which is
\* all that is asked of a count.
Counted(n, happens) ==
    IF happens /\ walk.at = "walking" /\ n < Cardinality(Ids) THEN n + 1 ELSE n

Commit ==
    /\ writing # None
    /\ rows' = [rows EXCEPT ![writing.id] = writing.row]
    /\ writing' = None
    /\ steady' = steady \ {writing.id}
    /\ listed' = listed \ {writing.id}
    /\ again' = again \ {writing.id}
    /\ left' = Counted(left, Matches(rows[writing.id]) /\ ~Matches(writing.row))
    /\ entered' = Counted(entered, Matches(writing.row))
    /\ changed' = IF sync = None THEN changed ELSE changed \union {writing.id}
    /\ late' = late \ (changed \intersect {writing.id})
    /\ UNCHANGED <<scene, second, walk, sync>>

\* A statement fails, or a transaction is rolled back.
Rollback ==
    /\ writing # None
    /\ writing' = None
    /\ late' = late \ ({writing.id} \ changed)
    /\ UNCHANGED <<scene, second, rows, walk, walkHistory, sync, changed>>

Tick ==
    /\ second < MaxSecond
    /\ second' = second + 1
    /\ UNCHANGED <<scene, table, walk, walkHistory, syncVars>>

-----------------------------------------------------------------------------
\* Mutant: a page size of zero is let through.
AnySizeUpTo(size) == size \in 0..MaxPageSize

\* normalize_page_size.
SizeIsServed(size) == size \in 1..MaxPageSize

\* A client asks for the first page of a listing.
StartWalk(size) ==
    /\ scene # "bootstrap"
    /\ walk.at = "idle"
    /\ walk' = [at |-> IF SizeIsServed(size) THEN "walking" ELSE "refused",
                size |-> size, page |-> 1]
    /\ steady' = Listing(rows)
    /\ left' = 0 /\ entered' = 0
    /\ UNCHANGED <<scene, second, table, listed, again, syncVars>>

\* Bound: no walk by pages of one row or more gets past as many pages as ids.
PageAfter(page) == IF page <= Cardinality(Ids) THEN page + 1 ELSE page

\* One request, and on to the next page while hasMore says so.
FetchPage ==
    /\ walk.at = "walking"
    /\ LET slice == steady \intersect Slice(rows, walk.page, walk.size)
       IN  /\ listed' = listed \union slice
           /\ again' = again \union (listed \intersect slice)
    /\ walk' = IF HasMore(rows, walk.page, walk.size)
               THEN [walk EXCEPT !.page = PageAfter(@)]
               ELSE [walk EXCEPT !.at = "done"]
    /\ UNCHANGED <<scene, second, table, steady, left, entered, syncVars>>

\* get_workspace_bootstrap, asked again whenever the client likes.
Bootstrap ==
    /\ scene = "bootstrap"
    /\ \E s \in 0..second :
         /\ IsToken(rows, s)
         /\ sync' = [token |-> s, second |-> second]
    /\ changed' = {}
    /\ late' = IF writing = None THEN {} ELSE {writing.id}
    /\ UNCHANGED <<scene, second, table, walk, walkHistory>>

WriterStep ==
    \/ \E i \in Ids : Insert(i) \/ Update(i) \/ Delete(i) \/ Reindex(i)
    \/ Commit \/ Rollback

\* Bound: what comes after a walk no longer concerns it.
WalkIsOver == walk.at \in {"done", "refused"}

ListingNext ==
    \/ ~WalkIsOver /\ (Tick \/ WriterStep)
    \/ \E size \in Sizes : StartWalk(size)
    \/ FetchPage
    \/ Bootstrap

ListingSpec == ListingInit /\ [][ListingNext]_listingVars

\* A client that walks goes on until it is told that there is no more.
FairListingSpec == ListingSpec /\ WF_listingVars(FetchPage)
-----------------------------------------------------------------------------
(***************************************************************************)
(* A walk that has ended missed no row that was there from its beginning   *)
(* and that no one has changed, but one for each row that left the listing *)
(* meanwhile: a delete, or a change after which q no longer matches, pulls *)
(* the rows behind it forward by one, past the walk.  Nothing else skips a *)
(* row, and in a log nothing does.                                         *)
(***************************************************************************)
Missed == steady \ listed

OnlyLeavingSkips ==
    walk.at = "done" => Cardinality(Missed) <= left

(***************************************************************************)
(* A walk lists an unchanged row twice only for a row that came into the   *)
(* listing meanwhile, or to its front by an edit: one for each.            *)
(***************************************************************************)
OnlyEnteringRepeats == Cardinality(again) <= entered

(***************************************************************************)
(* If a bootstrap was read after the second its token names and the token  *)
(* is the same now, no root page there is now has been created, edited,    *)
(* moved in or given content since, unless by the one writer that had its  *)
(* stamp already but had not committed.  (A page that left, by a delete or *)
(* a move, need not change the token; nor does a second change within the  *)
(* token's second.)                                                        *)
(***************************************************************************)
SameTokenSamePages ==
    sync # None /\ IsToken(rows, sync.token) /\ sync.second > sync.token =>
        Listing(rows) \intersect changed \subseteq late

(***************************************************************************)
(* Every walk ends, however often the rows are edited during it: each      *)
(* request is size rows further, and there are only so many.               *)
(***************************************************************************)
WalksEnd == walk.at = "walking" ~> walk.at = "done"
=============================================================================
