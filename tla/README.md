# sdkwork-canvas in TLA+

A verification project for sdkwork-canvas: TLA+ modules of the page content
protocol, of the two Drive adapters behind it, of the AI jobs and suggestions, of
page metadata and listings, and of the notes of the PC client; TLC configurations
that check them on small instances; and theorems, checked by TLAPS, that hold for
every value of the constants.

Paths below are relative to `src/crates/`, those of the PC client (`.tsx`, `.ts`) to
`src/apps/sdkwork-canvas-pc/packages/`. *service.rs* is
`sdkwork-canvas-pages-service/src/service.rs` and *canvas_store.rs* is
`sdkwork-canvas-pages-repository-sqlx/src/canvas_store.rs`. `PROJECT.json` maps
every definition to the lines it models.

## 1. Inventory

sdkwork-canvas is a Rust service for workspaces of pages ("notes"). Metadata of
a page is a row in an SQL database (SQLite or PostgreSQL through sqlx); its
content is a file in another service, Drive, and the row names the current Drive
version. HTTP routes call `CanvasService`, which talks to two ports: the
repository (`CanvasRepository`, SQL) and Drive (`DrivePageContentPort`, with an
in-memory adapter and one over the Drive App SDK). Every service method is
`async`: it awaits between database statements and Drive calls, requests run
concurrently on a multi-threaded runtime, the service takes no lock and no
transaction spans both stores. Consistency rests on `WHERE` clauses (compare and
swap on `current_drive_version_id` or on a `status`), on primary keys and unique
indices, and on validating what Drive answers.

| component | state | operations | talks to | what is hard |
|---|---|---|---|---|
| page content (service.rs 90-195, 510-815; canvas_store.rs 118-206, 464-572) | `canvas_page`: lifecycle status, Drive node, version id and number, content metadata | create, update, restore, read, permanent delete, list versions | Drive port, `canvas_page`, search projection | concurrent writers; a row read before the Drive call and used after it; failure or restart between Drive write, UPDATE, read back and projection |
| in-memory Drive (`memory_page_content.rs`) | two maps behind two mutexes | create, read, update, restore, list | called by the service | several critical sections per call; contents die with the process, rows do not |
| Drive App SDK adapter (`drive_app_sdk_facade.rs`) | none; Drive has the files | the same five | Drive's HTTP API, several unconditional calls per operation | other requests between those calls |
| AI jobs (service.rs 844-1092; canvas_store.rs 574-1122) | `canvas_ai_job`, `canvas_ai_job_source` | create (idempotency key), claim, complete, fail, cancel, list, get | reads pages, writes suggestions | racing workers, retries, dead workers |
| AI suggestions (service.rs 1093-1472; canvas_store.rs 1124-1414) | `canvas_ai_suggestion`, `canvas_ai_feedback` | accept, reject, apply, leave feedback, lists | apply writes Drive and the page | decisions racing applies; two tables in one transaction after a Drive write |
| page metadata, remote apply (service.rs 275-556; canvas_store.rs 383-508) | title, parent, favourite, archive and trash status | update, move, trash, restore, remote upsert/delete | page content | check then act without a version; several commits per call |
| search projection | `canvas_page_search_projection` | upsert, delete, search | read back from the row | order of separate statements; an apply of a suggestion writes none |
| listings, change token (service.rs 207-273, 816-842, 2002-2062; the list queries of canvas_store.rs) | none; a client keeps a page number or a token | list pages, workspaces, jobs, suggestions, feedback, versions; search; workspace bootstrap | every table | rows move under a client that walks by page number; stamps of whole seconds tie; a writer takes its stamp before it commits |
| workspaces | `canvas_workspace` | create, list, bootstrap | - | one INSERT behind a unique index |
| routes, auth, assembly, gateway, database host | none that changes after start-up | mapping, wiring | service | dropped connections |
| PC client (`sdkwork-canvas-pc-core/src/store.tsx`, `api.ts`; `-shell/src/canvasListSidebar.tsx`, `TemplateCategoryModal.tsx`; `-editor/src/EditorMain.tsx`) | list of notes in memory, a copy in local storage | load, create (answered later), change, move, delete, save by an effect | local storage and timers; it does not call the routes yet | answers that come after the list has changed; closing the tab between a change and the effect that saves it |

What makes each correct:

* *page content*: no committed version is overwritten by a writer that had not
  read it; of the writers that start from one version one wins; answers say what
  happened; what a client was told is not taken back; a row only goes forward.
* *Drive adapters*: the version a row names exists in Drive; the content under
  it is the content that was committed; reads and restores return what was
  asked; numbers stay ahead of the row.
* *AI jobs*: one claim and one end; suggestions exactly with success; a retried
  create is one job; answers are true of the job.
* *AI suggestions*: decided once; applied once, together with the page, over
  the version it was made from; acknowledged decisions stand.
* *metadata*: an update that expects a version undoes nobody's change; a
  conflict changed nothing and "applied" everything named; what was checked was
  so since the request came. *Projection*: it settles on
  the row's version, unless an apply of a suggestion was last to change the page.
* *listings*: a walk skips or repeats an unchanged row only for a row that left or
  came in; it ends; an unchanged token means that the root pages are as they were.
* *PC client*: what was saved stays until a user deletes it; what is listed is
  saved; a collection's chapters keep their order; nothing is left behind by a
  deleted collection but what its delete cannot know of.

`PROJECT.json` "hazards" lists each hard place with its line and the properties
that watch it, or why none does.

## 2. The modules

    PageRegister                 what the content of a page promises
        ^ implemented by
    PageContent                  handlers, rows, an open Drive port
        ^ EXTENDS       ^ EXTENDS
    MemoryDrive     FacadeDrive  the port closed by each adapter
    JobBoard, SuggestionBoard    what jobs and suggestions promise who sends requests
        ^ implemented by
    AiJob                        jobs of a workspace; the page reduced to its pointer
    AiSuggestion                 suggestions of a page; the page reduced to its pointer
    PageMetadata                 the other columns of pages, remote apply, projection
    PageListing                  one listed table, its writers, a client that reads it
    NotesClient                  the PC client's notes, its storage and its user

Of the server, one page, a few pages' metadata, one job table or one set of
suggestions is modelled at a time, with any number of requests on it: no statement or Drive call of one page reads another's content.
Each request is handled once (a client that retries is another request with the
same command), and every `.await` at which another handler can run is a step.
A request carries `pc`, the place of its handler; `call`, its command; what it
has read (`base`, `pinned`), what Drive answered (`snap`), and `outcome`, the
class of its answer. A name, payload or body is a model value. Variables
commented "history" (`applied`, `won`, `moves`, `floor`, `up`, `wrote`,
`lost`, `writes`, `start`) are read by no guard.

In every module `Lose`/`DbFailure`/`Abandon` lets a statement fail or a handler
be dropped with its client at any await. `Restart` loses all handlers at once and,
in `MemoryDrive`, the maps; `PageMetadata` loses them one by one, which amounts to
the same where nothing but handlers is lost. Where `map_insert_error`
does not recognise a duplicate (on PostgreSQL) the insert is answered as a failed
statement, which is one of these steps. `Refuse` stands for checks on state a
module does not have (malformed input, missing workspace or parent).

### PageContent and PageRegister

`ReserveId`/`LookupPage` (create), `FindPage` (others; compares
`expectedDriveVersionId`), `DriveAnswer`/`DriveError` (the port call and all of
the `validate_drive_snapshot*` checks: `Acceptable`), then `InsertPage`,
`UpdateDriveSnapshot` (its WHERE clause is `PointerUnmoved`) or `DeletePage`,
`ReloadPage` (the find_page inside the repository) and `WriteProjection`. The
port may answer with any snapshot whatever, so what is shown of this module
depends on the adapters in nothing but "one id, one number".

`PageRegister` is a register that is installed once, swapped by a client only
from the version that client saw, and removed once; a request takes effect at
most once and inside its interval. `Register` in `PageContent` is the refinement
mapping: a request is "applied" from its statement on, though it may still fail.

### MemoryDrive and FacadeDrive

Both EXTEND `PageContent`, add the adapter's variables, and replace the open
port by the adapter's steps. In `MemoryDrive` a step is one critical section of
one mutex: `update_page_content` takes `versions` for the number, `records` for
the latest, then `versions` again. A dropped handler leaves done what it did.
In `FacadeDrive` a step is one call of the Drive API that others' calls can
change the meaning of: check the latest version, complete an upload, list again,
restore, download. Drive itself is external, modelled as the adapter uses it: an
append-only list of versions per node; any call may fail (`FacadeError`).

### AiJob and AiSuggestion

`AiJob`: `FindKey`, `FindTarget`, `InsertJob`, `FindKeyAgain` are create_ai_job
with its unique index and the source row's primary key; `FindJob`, `ChangeStatus`,
`Recheck`, `Reload` the claim, failure and cancel with their status guards;
`FindPages`, `ConfirmRunning`, `Settle` the completion. A transaction is one step.
`AiSuggestion`: `FindToDecide`, `Decide`, `Confirm`; `FindToApply`, `FindPage`,
`DriveUpdate`, `Commit` (the transaction over page and suggestion), `Reload`;
`Reread`, `Fetch` for a repeated apply; and the three statements of feedback. In
both, `PageAdvances` and `PageDeleted` are what `PageContent` shows its writers
do: the pointer goes forward while active, deletion is final.

`JobBoard` and `SuggestionBoard` have no handlers: a request takes effect in one
step, at most once, between its arrival and its answer; it is turned down only in a
state that gives the reason; one that fails may have taken effect or not. So all that
lies between a status or a version that was compared and the statement that relies on
it (find, Drive call, UPDATE, read back, a repeated find after a Conflict) has to
come to one step. An apply on the board compares the page in the step that moves it.
In the refinement mapping (`Board`, `BoardPhase`, `VersionSeen`) a request is
"applied" from the statement that changed a row on. Two reasons to turn a create down are on `JobBoard`
because the code has them: a key used for something else, and another job for the page
that may have taken the source row (finding 3).

### PageMetadata

`FindPage`, `FindParent`, `WriteMetadata` (its WHERE clause is `VersionUnmoved`;
`Patched` is the row it leaves: what the command does not name is written back as
it was read), `FindUnwritten`, `FindWritten`, `Index` are update_page_metadata.
`FindToApply` begins a remote_apply_page, which goes on with those, with
`FindVersion`, `FindToSave`, `DriveFails`, `SaveText` for the text of an upsert and
`FindApplied` at its end, or with `Delete` and `DeleteIndex`, the two statements of
delete_page. `FindSource`, `DriveFails` and `ApplySuggestion` are apply_ai_suggestion
as far as the page goes, of a suggestion that is accepted (one already applied is only
read): the second writer of a page's version. `SaveText` and `Index` stand for
update_page_content, restore_page_version and the text of an upsert, which go through
update_page_drive_snapshot and index what they find after it; the apply has an UPDATE
of its own and indexes nothing. A Drive version is known by its number: the compare and swap lets one
successor of a version into the row. `index` is the projection, of which the pages
and versions are kept. `writes` (history) has each UPDATE with the row before and
after it, `start` the versions of the rows when a request arrived.

### PageListing

A listing is its rows in the order of its query (`Ahead`: stamp, then id, both
descending), cut by `LIMIT size + 1 OFFSET` (`Slice`, `HasMore`). `scene` says what
is listed: "walk pages" (list_pages, search_pages: every UPDATE stamps the row anew,
and a projection that is written apart, `Reindex`, decides whether search finds it),
"walk log" (workspaces, AI jobs, suggestions, feedback, Drive versions: ordered by
what is set once, and only added to) or "bootstrap" (the root pages and the token,
`IsToken`). `hit` stands for everything else the query asks of a row. A statement
takes its stamp when it begins and is seen when it commits (`Begin`, `Commit`,
`Rollback`), and one writer is let in at a time: that is SQLite, where
`CURRENT_TIMESTAMP` is the statement's and in whole seconds. On PostgreSQL writers
overlap and the stamp is the transaction's start, so more than one change can be in
`late`. The properties say what such a listing promises: `FetchPage` reads the
table as it is, so a row edited before the walk reached it moves to the front and is
missed by that walk (it is then not "steady"). The in-memory adapter's
`list_page_content_versions`, which answers every request with the same two
versions, is left out; it is made for tests.

### NotesClient

`Open`, `Load`, `Save`, `Close` are the life of a tab: the effect that loads, its
answer, the effect that saves after a render with `isLoading` false, and the end of
the tab (or of its React tree: `setItem` may throw in the effect). `Ask...` are the
calls of createNote, `Answer` what it does once the service's timer fires: answers
come in the order of the calls, all timers being of one length; `Answer` of a
template's note asks for the next chapter (`NextChapter`), as `handleCreate` awaits
each. The rest are the changes a user makes through what is on screen: `InPlace`
notes have a menu, orphans have none. `updateNote` and `deleteNote` change the list
at once; the calls they then make to the service change nothing. A comment
(store.tsx:38) calls local storage a development mock; it is what the code has.
One tab is modelled: two that are open at once overwrite each other's storage. An
operation of the sidebar reads the list of the last render (`canvasListSidebar.tsx`
271 takes a collection's children from it) and the model's reads the list as it is: a
chapter that was answered but not rendered yet, which such a delete leaves behind like
one still being made, is not modelled.

## 3. The runs

All specifications but those of `PageListing` and `NotesClient` are safety
specifications. All have `CHECK_DEADLOCK FALSE`: each request is handled once, a
client walks a listing once and a user acts a bounded number of times, so every
behaviour comes to an end when all are done. `Permutations` of the requests (and of the nodes, where the calls name
none or all of them) are the symmetries; no property distinguishes two requests.

| run | module | shows |
|---|---|---|
| page_content | MCPageContent | over any port: no lost update, true and fresh answers, refinement of the register |
| page_reconcile | MCPageContent | **violation**: see finding 1 |
| memory_drive | MCMemoryDrive | when the in-memory Drive and the row agree, what reads and restores then return, when a write is rejected over its own port's answer |
| facade_drive | MCFacadeDrive | the row names a version that exists, reads are of no older content, only racing writers can mislabel a version |
| facade_reads | MCFacadeDrive | **violation**: finding 2 |
| ai_job | MCAiJob | one claim and one end, suggestions exactly with success, idempotent creation; refinement of `JobBoard`, which has the truth of the answers |
| ai_job_conflict | MCAiJob | **violation**: finding 3 |
| ai_suggestion | MCAiSuggestion | suggestion and page move together, over the version the suggestion was made from; truthful decisions; refinement of `SuggestionBoard`, which has the feedback |
| page_metadata | MCPageMetadata | updates that expect a version undo nothing, true answers also of upserts that fail half way, checks held since arrival, every settled page is indexed by its current version unless an apply of a suggestion was last to change it |
| page_cursor | MCPageMetadata | **violation**: finding 4 |
| page_listing | MCPageListing | a walk skips or repeats unchanged rows only for rows that left or came in, an unchanged token vouches for the root pages, and every walk ends |
| notes_client | MCNotesClient | closing at any moment loses nothing saved, chapters keep their order, what deletes leave behind, and every listed note is saved in the end |

`AnswerMatchesJob` and `FeedbackIsLeftOnce` are what the boards say of answers, put as
invariants; they have their theorems and no run of their own.

Each property of a passing run has a mutant in `PROJECT.json`: a plausible bug
in one definition, kept beside it under a comment "Mutant:", with which TLC finds
the property violated.

### Bounds

* **Three requests** (`r1..r3`). Every conflict in this code is decided by one
  guarded statement, so two requests conflict and a third follows, precedes or
  observes them: a reader after two racing writers, a restore after two writers
  of one number, a cancel between two workers, an apply between two decisions.
  What is proved holds for any number.
* **Versions**: three in `MCPageContent` (before, after, and one that skips), four
  in the adapters (each of three requests may make one, over the first), two in
  `MCAiJob` (pinned, and moved on), three in `MCAiSuggestion` (source, moved on,
  applied). `MaxVersion` appears in guards only where Drive appends.
* **Two nodes** where two creators race, one where the id of a page fixes it; **two
  kinds of metadata** so that a mismatch exists; **three bodies** so that what was
  there, and what each of two writers wrote, differ; **two keys** so that two jobs
  meet in the source table; **two payloads**, one for the page and one not; **two
  suggestions**, one with a source version and one without.
* **A page and a folder** in `MCPageMetadata`: one to change, one to be its parent
  and to be deleted. The page starts in the trash, so that a permanent delete and a
  restore from the trash race from the first step.
* `MCMemoryDrive` leaves the permanent delete out of its commands: it touches no map,
  and `MCPageContent` has it.
* The commands are those that meet: an update with and without an expected version,
  a create with each of two contents, and so on (`MCCalls` of each module).
* **Three rows, two seconds, page sizes 0 to 3** in `MCPageListing`: a walk by ones or
  twos has rows before and behind it when another moves; stamps tie and differ; sizes
  0 and 3 are beyond the limits (here 1 to 2). Two root pages are read, so that a
  third falls out of the bootstrap. A walk counts the rows that left or came up to the
  number of rows, which is all a bound by them can need.
* **Four acts of the user, two openings** in `MCNotesClient`, over a list that begins as
  a collection with a chapter: a template with its two chapters and one more act, a
  collection in a collection that is deleted, a move between two chapters, a close
  while any of it is under way.
* Initial states include pages and jobs that earlier requests or an earlier process
  left. `MCPageContent` lets an existing page be at its first version.

### Fairness

Two runs state fairness, both of clients. `FairListingSpec` is weakly fair in
`FetchPage`: a client that walks asks for the next page while it is told that there
is more. `WalksEnd` then holds whatever the writers do, since no page is empty unless
the listing is at its end; page size 0 would break it. `FairNotesSpec` is weakly fair
in `Load`, `Save` and `Answer`: as long as the tab lives, timers fire and React runs
the effects of a render. Weak fairness suffices: nothing but its own step, or the
close of the tab, disables any of them.

Of the server no liveness is claimed, as its code gives none to rely on: a client
that leaves drops its handler at any await, every statement may fail, no claimed job
has a lease, nothing re-queues it, and nothing reconciles a Drive version that no row
names. No handler loops, so each ends after a bounded number of its own steps or is
lost; that is the whole of its progress. Two hazards of that kind (a dead worker's
job; a page that every later facade write refuses) are in the list with that note.

### Findings

1. *page_reconcile*: "Notes page pointer was not advanced" is answered to requests
   whose UPDATE took effect, when the read back or the projection after it fails
   (canvas_store.rs 569-570, service.rs 636).
2. *facade_reads*: a page created with the API's default content type is rejected
   when read back over the facade, which labels what it reads `application/json`.
3. *ai_job_conflict*: a second job for a page at the same version collides in
   `canvas_ai_job_source`, whose key leaves the job out, and is answered as if its
   idempotency key had been used.
4. *page_cursor*: remote apply compares an upsert's base cursor with a row it reads
   first and then expects whatever version is current when it saves the text, so two
   upserts made over one version are both "applied", one over the other.

Behaviour worth knowing that the models show and no property forbids:

* An expected version is compared before the Drive call only, so a stale caller's
  snapshot does reach Drive; the row's UPDATE turns it down.
* The facade answers an update with the latest version of a listing made after its own
  upload, so one of two racing writers can commit the other's version as its own
  content. `CommittedUnlessRaced` says that only such a race can.
* After an upload whose UPDATE failed the facade refuses every later update of the page.
* `apply_ai_suggestion` (canvas_store.rs 1229-1362, service.rs 1260-1291) moves a page
  to a new version and is the only writer that does not go on to
  `upsert_page_search_projection`. The page then has no projection row that the join of
  `search_pages` (309-316) accepts, until someone updates its metadata or its content.
  What search loses is small today: without the row it goes by the page's own title and
  snippet, which are all that an upsert copies. `SettledPagesAreIndexed` exempts the
  pages an apply was last to change, and no others; without that exemption it is
  violated in three steps (a request arrives, `FindSource`, `ApplySuggestion`). No doc,
  comment or test of the repository speaks of the projection after an apply, so it is
  no finding.
* What a request checked may have changed by the time it writes: a page restored from
  the trash is still deleted for good by a delete that saw it there, a parent may be
  gone, and two moves can make each page the other's parent. `ChecksHeldSinceArrival`
  is the weaker fact that it was so at some time since the request arrived.
* The change token stays the same when a root page is deleted or moved away, and when
  a page is changed again in the second the token names.
* In the client, deleting a collection leaves the chapters of a collection inside it,
  and those still being made, in the list and in the storage with no place on screen,
  though its confirmation speaks of all chapters; a card's delete in the overview of
  the outer collection leaves those of the inner one; a note made while the list loads
  is dropped when the answer replaces the list.

## 4. The proofs

`tlapm` checks the modules `*Proofs`. The assumptions are the named `ASSUME`s of
the modules, which TLC evaluates in each run: ids stand for
numbers (`VersionNoAssumption`), commands are well-formed, `None` is none of the
values, for the memory adapter that version ids are the numbers on one node, and for
the facade that an id is a node and a place in its file (`FacadeAssumption`).
Nothing is assumed of how many requests there are.

* **PageContentProofs**. `IInv == TypeOK /\ HandlerInv /\ ReadsInv /\ WritesInv`.
  `NoLostUpdate` alone is not inductive: that a swap from `base[r]` replaces what the
  last writer left needs that a row read earlier under the id the row has now *is*
  the row (`ReadsInv`), since the statement compares ids only; this in turn needs
  that the row's numbers only grow, hence that a snapshot to be persisted is
  validated against the row read (`HandlerInv`). From it: `TypeCorrect`,
  `NoUpdateIsLost`, `WinnerIsUnique` (of the requests that started from one version one
  wins), `AnswersAreTrue`, `AnswersAreFresh`, `RowOnlyGoesForward`. Also `Refinement`:
  `Spec => Register!Spec`. Each action maps to one register step or a stutter under
  `IInv`, the restart to `Fail` of many.
* **MemoryDriveProofs**. `MemoryImplementsPort`: `MemorySpec => Spec`, so all theorems
  of `PageContent` hold over the in-memory adapter. `NumbersStayAhead` needs
  `AheadInv`: until the process is lost some version in the map reaches every pointer
  of the row and every snapshot about to be persisted. `MemoryTypes` is its types.
  The contents of the maps are in no invariant that holds always: a write whose row
  lost the race leaves its snapshot in `records`. They are in one under `Hopeful`:
  nothing was lost, at most one call has written `records` without the row having
  taken it, and that call may still commit. Once false it stays false (`HopeStays`),
  since a row never comes back to one that was read before (`ReadRowIsBehind`). While
  it holds, `records` is that call's snapshot or the row's version (`RecordsInv`), each
  entry of `versions` is a commit, the pending one or what an earlier process stored
  (`EntriesInv`), and a restore's source was an entry from the moment it was found
  (`SourcesInv`). The three properties follow: with no such call `Hopeful` holds.
* **FacadeDriveProofs**. `FacadeImplementsPort`: `FacadeSpec => Spec`, so the theorems
  of `PageContent` hold over the adapter that production uses. The properties of the
  run need where a call has come to against the length of its node's file (`CallsInv`);
  who made each later version (`MakersInv`: an update or a restore, so the listing after
  an upload that shows another's version has a writer to name); that a creator's node is
  its own until its row is there (`OwnInv`); and where in Drive a snapshot lies
  (`SnapsInv`). That this mislabelling is always a race (`CommitsAreOwn`) takes the
  handlers' invariant too: a row moved by a swap was still the one read, so nobody had
  read a later one (`CommitIsRaced`).
* **AiJobProofs**. The invariant says where a handler can be (`ControlInv`), what the
  job still shows of every request that changed it (`JobsInv`), what the two tables
  beside it hold (`SourcesInv`, `ResultsInv`) and that answers stay true
  (`AnswersInv`). From it the four invariants of the run, `CreationIsAtomic` (a page's
  job has its source row), `JobAnswersAreTrue` and `JobsMoveForward`. `JobsAreABoard` is the refinement of
  `JobBoard`, one lemma per kind of step. It needs `ReasonsInv`, which none of the
  properties did: a handler whose statement changed nothing goes on to find out why,
  and what it then answers must still be so (a status that did not allow the change
  never does again; what took the key, or the source row, stays).
* **AiSuggestionProofs**. Where a handler is and what it holds (`ControlInv`), what it
  saw that is so still (`SeenInv`), the moves of the page against the suggestions
  (`MovesInv`), what is left of each winner (`WonInv`) and the answers (`AnswersInv`).
  From it the five invariants of the run, `FeedbackIsIdempotent` and `DecisionsStand`. `SuggestionsAreABoard`
  is the refinement of `SuggestionBoard`: what was compared with the row before the
  Drive call holds in the transaction because the pointer is the one that was read
  (`ApplyOnBoard`), and a decision that changed nothing met one that was made
  (`ReasonsInv`).
* **PageMetadataProofs**. Where a handler is and what it has written by then
  (`ControlInv`), how what it read relates to the row as it is now and was since the
  request arrived (`SeenInv`), the two properties of each write (`WritesInv`), and why
  a version is not indexed (`IndexInv`): some handler will index it, a handler was
  lost, or an apply was last to change the page. From it the five properties of
  the run and `RowsAdvance`.
* **PageListingProofs**. A row's rank is the number of rows ahead of it. One rewritten
  row changes every other row's rank by at most one, and only if it crosses it
  (`RankAfterWrite`, and `BehindAfterWrite`, `ToComeAfterWrite` for sets of rows). So
  `WalkInv` can count: the unchanged rows behind the walk that it did not get
  (`Skipped`) are at most `left`, those it got that are still to come (`Repeated`) at
  most `entered`; a page takes exactly the ranks between two offsets, which are those
  of one row each (`RankInjective`, `RankBelowCount`). For the token, `StampInv` has
  stamps only grow and `TokenInv` ties what changed since a bootstrap to stamps from
  its second on, but for the write that was under way. From it the four safety
  properties of the run.

* **NotesClientProofs**. None of the properties is inductive of the list alone: the
  next load replaces it. So each part of `NotesInv` is of two lists, the one in memory
  and the one a load will find (`Disk`), which differ while a change waits for the
  effect; `MadeInv` has every id that is in either, asked for or remembered made
  already, and `KindsInv` that what is a parent anywhere is a collection wherever it is
  listed (the child of a chapter would be left behind by a delete that takes no
  children along). The list operations have lemmas of their own, by position: where
  `Inserted` puts a note (`InsertedIs`), that `Without` keeps the others in their order
  (`NthCounts`, `WithoutIs`), what a swap changes. `Without` is a filter by positions
  and not the library's recursive one for that reason. The default notes are taken to
  have distinct ids up to their number, parents that are collections among them, and
  collections in no other, as those of `api.ts` do (`ClientAssumption`). From it the four invariants of the run, for any
  number of notes, acts and openings, and `SettledIsSaved`: whenever the effect has
  nothing to save the storage is the list as shown, the safety half of
  `ListedNotesAreSaved`.

Only model-checked: the liveness properties `WalksEnd` and `ListedNotesAreSaved`;
liveness under fairness and ENABLED are out of this prover's reach, as are induction
over data and RECURSIVE operators, of which no module proved about has any. The four
properties of the violated runs are refuted, not proved.

## 5. Not modelled, and the plan

Not modelled because nothing in it can go wrong that a test would not show, or it
is I/O: routes, authentication, assembly, gateway, configuration, the database host,
the checks of a workspace's fields, and in the client titles, texts, the active note,
the editor and presentation. A Drive node, URI and space are one node; content hash,
snippet and counts follow the content and decide nothing. Titles and texts of the
search projection, LIKE patterns and ranking are not modelled: whether search finds a
row is `hit`. An offset beyond the range of an i64 (a page number near its end) is not:
the model's integers have no end. SQL isolation: every transaction modelled as one
step changes each row under a guard in its own WHERE clause or under a key, so a
serial order of the committed ones exists; `complete_ai_job` and
`apply_ai_suggestion` roll back when a guard fails.

The plan: every invariant and action property the runs check has its theorem, and
the page's content, the jobs and the suggestions have their refinements. What is left
is an abstract specification of what `PageMetadata` promises an update that expects
a version, with its refinement; and that the page as `AiJob` and `AiSuggestion`
have it (`PageAdvances`, `PageDeleted`) is what `PageContent` does to its row.
