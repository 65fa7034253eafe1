---------------------------- MODULE PageMetadata ----------------------------
(***************************************************************************)
(* What a page has beside its content: title, archive status, parent, and  *)
(* its rows in the search projection.  update_page_metadata reads the row  *)
(* and writes all of these columns back; remote_apply_page, through which  *)
(* a client replays what it did offline, is a sequence of such calls and   *)
(* of content updates, each with its own reads and commits.  Any number of *)
(* both run at once.  Favourite and publish status go the way of the title *)
(* and are not told from it.  PageContent has the content updates and the  *)
(* restores of other callers; here the text of an upsert stands for them,  *)
(* which are all written by update_page_drive_snapshot and indexed by it.  *)
(* apply_ai_suggestion writes a text too, but with an UPDATE of its own    *)
(* that no projection follows: it is a request here (AiSuggestion has what *)
(* becomes of the suggestion).                                             *)
(***************************************************************************)
EXTENDS Naturals

CONSTANTS
    Requests,   \* the requests, each handled once
    Calls,      \* the commands a request may carry
    Pages,      \* the pages of a workspace
    Folders,    \* those of them whose page_kind is folder
    Titles,
    Initial,    \* the rows when the requests begin to arrive
    Keep,       \* stands for what a command does not name
    None

\* "remote" is the move, delete and restore of remote_apply_page, "suggestion"
\* an apply of an accepted suggestion.
Ops == {"update", "upsert", "remote", "purge", "suggestion"}

ArchiveStatuses == {"active", "archived"}

Patch == [title : Titles \union {Keep}, archive : ArchiveStatuses \union {Keep},
          parent : Pages \union {None, Keep}]

Call == [op : Ops, page : Pages, patch : Patch, expect : Nat \union {None},
         cursor : Nat \union {None}, text : BOOLEAN]

\* A version in Drive is known here by its number.
Row == [version : Nat, title : Titles, archive : ArchiveStatuses,
        parent : Pages \union {None}, pointer : Nat, active : BOOLEAN]

ASSUME MetadataAssumption ==
    /\ Calls \subseteq Call
    /\ \A c \in Calls :
         /\ c.text => c.op \in {"upsert", "suggestion"}
         /\ c.expect # None => c.op = "update"
         /\ c.op = "remote" => \E f \in DOMAIN c.patch : c.patch[f] # Keep
         /\ c.op = "suggestion" => c.text
         /\ c.op \in {"purge", "suggestion"} => \A f \in DOMAIN c.patch : c.patch[f] = Keep
    /\ Folders \subseteq Pages
    /\ Initial \in [Pages -> Row]
    /\ None \notin Calls \union Pages \union Nat \union Row
    /\ Keep \notin Titles \union ArchiveStatuses \union Pages \union {None}

VARIABLES
    row,      \* canvas_page: the row of each page
    index,    \* canvas_page_search_projection: the page and version of each row
    pc,       \* where the handler of a request is
    call,     \* the command a request carries
    seen,     \* the row the handler's last find_page returned
    want,     \* the version an upsert expects to replace with its text
    outcome,  \* what the request was answered
    start,    \* history: the versions of the rows when the request arrived
    writes    \* history: each UPDATE of a row

tables == <<row, index>>
history == <<start, writes>>
vars == <<tables, pc, call, seen, want, outcome, history>>

Phases == {"idle", "apply", "find", "parent", "write", "missed", "show", "index",
           "text", "save", "commit", "last", "purge", "unindex", "source", "replace",
           "done"}

\* What each request begins with.
FirstPhase ==
    [update |-> "find", upsert |-> "apply", remote |-> "apply", purge |-> "apply",
     suggestion |-> "source"]

(***************************************************************************)
(* "ok"         the page, or an outcome of "applied"                       *)
(* "conflict"   an outcome of "conflict", with its code                    *)
(* "stale"      the version expected is not the one found                  *)
(* "missing"    the page or the parent is not there                        *)
(* "refused"    malformed                                                  *)
(* "port"       the Drive port failed or its snapshot was rejected         *)
(* "reconcile"  Canvas failed after the Drive write, as the answer says    *)
(* "lost"       a statement failed, the handler was dropped with its       *)
(*              connection, or the process went down                       *)
(***************************************************************************)
Outcomes == {"none", "ok", "conflict", "stale", "missing", "refused", "port",
             "reconcile", "lost"}

Write == [by : Requests, part : {"meta", "text", "gone"}, from : Row, to : Row]

MetaTypeOK ==
    /\ row \in [Pages -> Row]
    /\ index \in SUBSET [page : Pages, pointer : Nat]
    /\ pc \in [Requests -> Phases]
    /\ call \in [Requests -> Calls \union {None}]
    /\ seen \in [Requests -> Row \union {None}]
    /\ want \in [Requests -> Nat \union {None}]
    /\ outcome \in [Requests -> Outcomes]
    /\ start \in [Requests -> [Pages -> Nat]]
    /\ writes \in SUBSET Write

Entry(p, pointer) == [page |-> p, pointer |-> pointer]

\* insert_page and earlier requests have left these, each found by search.
Init ==
    /\ row = Initial
    /\ index = {Entry(p, Initial[p].pointer) : p \in Pages}
    /\ pc = [r \in Requests |-> "idle"]
    /\ call = [r \in Requests |-> None]
    /\ seen = [r \in Requests |-> None]
    /\ want = [r \in Requests |-> None]
    /\ outcome = [r \in Requests |-> "none"]
    /\ start = [r \in Requests |-> [p \in Pages |-> 0]]
    /\ writes = {}

InFlight(r) == pc[r] \notin {"idle", "done"}

Target(r) == call[r].page

Found(r) == row[Target(r)]

Goto(r, phase) ==
    /\ pc' = [pc EXCEPT ![r] = phase]
    /\ UNCHANGED <<seen, want, outcome>>

\* What the handler held goes with it.
Finish(r, answer) ==
    /\ pc' = [pc EXCEPT ![r] = "done"]
    /\ seen' = [seen EXCEPT ![r] = None]
    /\ want' = [want EXCEPT ![r] = None]
    /\ outcome' = [outcome EXCEPT ![r] = answer]

\* One UPDATE of the row of the request's page.
Update(r, part, new) ==
    /\ row' = [row EXCEPT ![Target(r)] = new]
    /\ writes' = writes \union {[by |-> r, part |-> part, from |-> Found(r), to |-> new]}

\* find_page: only an active page is found.
See(r, phase) ==
    /\ Found(r).active
    /\ seen' = [seen EXCEPT ![r] = Found(r)]
    /\ pc' = [pc EXCEPT ![r] = phase]
    /\ UNCHANGED <<want, outcome>>

Missing(r, answer) == ~Found(r).active /\ Finish(r, answer)

Arrive(r) ==
    /\ pc[r] = "idle"
    /\ \E c \in Calls :
         /\ call' = [call EXCEPT ![r] = c]
         /\ Goto(r, FirstPhase[c.op])
    /\ start' = [start EXCEPT ![r] = [p \in Pages |-> row[p].version]]
    /\ UNCHANGED <<tables, writes>>

\* Malformed input, a page as its own parent, a parent in another workspace, or
\* a suggestion that is not to be applied.
Refuse(r) ==
    /\ pc[r] \in {"apply", "find", "parent", "write", "source"}
    /\ Finish(r, "refused")
    /\ UNCHANGED <<tables, call, history>>

-----------------------------------------------------------------------------
\* remote_apply_page.
CursorIsCurrent(r) == call[r].cursor \in {None, Found(r).pointer}

\* Mutant: any page may be deleted for good.
AnyPage(r) == TRUE

InTrash(r) == Found(r).archive = "archived" \/ Target(r) \in Folders

Names(r) == \E f \in DOMAIN call[r].patch : call[r].patch[f] # Keep

FirstPart(r) ==
    IF Names(r) THEN "find" ELSE IF call[r].text THEN "text" ELSE "last"

FindToApply(r) ==
    /\ pc[r] = "apply"
    /\ \/ Missing(r, "conflict")
       \/ Found(r).active /\ ~CursorIsCurrent(r) /\ Finish(r, "conflict")
       \/ CursorIsCurrent(r) /\ call[r].op # "purge" /\ See(r, FirstPart(r))
       \/ CursorIsCurrent(r) /\ call[r].op = "purge" /\ InTrash(r) /\ See(r, "purge")
       \/ /\ Found(r).active /\ CursorIsCurrent(r)
          /\ call[r].op = "purge" /\ ~InTrash(r)
          /\ Finish(r, "conflict")
    /\ UNCHANGED <<tables, call, history>>

-----------------------------------------------------------------------------
\* update_page_metadata.
IsExpected(r) == call[r].expect \in {None, Found(r).version}

FindPage(r) ==
    /\ pc[r] = "find"
    /\ \/ Missing(r, "missing")
       \/ Found(r).active /\ ~IsExpected(r) /\ Finish(r, "stale")
       \/ Found(r).active /\ IsExpected(r) /\ ~Names(r) /\ Finish(r, "ok")
       \/ /\ IsExpected(r) /\ Names(r)
          /\ See(r, IF call[r].patch.parent \in Pages THEN "parent" ELSE "write")
    /\ UNCHANGED <<tables, call, history>>

FindParent(r) ==
    /\ pc[r] = "parent"
    /\ \/ ~row[call[r].patch.parent].active /\ Finish(r, "missing")
       \/ row[call[r].patch.parent].active /\ call[r].patch.parent # Target(r) /\ Goto(r, "write")
    /\ UNCHANGED <<tables, call, history>>

Named(r, f) == IF call[r].patch[f] = Keep THEN seen[r][f] ELSE call[r].patch[f]

\* Mutant: a parent that is not named is written like one that is.
PatchedFlat(r) ==
    [Found(r) EXCEPT
        !.title = Named(r, "title"),
        !.archive = Named(r, "archive"),
        !.parent = call[r].patch.parent,
        !.version = @ + 1]

\* What is not named is written back as it was read, save the parent.
Patched(r) ==
    [Found(r) EXCEPT
        !.title = Named(r, "title"),
        !.archive = Named(r, "archive"),
        !.parent = IF call[r].patch.parent = Keep THEN @ ELSE call[r].patch.parent,
        !.version = @ + 1]

\* Mutant: the version is compared by the service only.
VersionUnchecked(r) == Found(r).active

\* The WHERE clause of update_page_metadata.
VersionUnmoved(r) == Found(r).active /\ IsExpected(r)

\* Mutant: the rows affected are not looked at.
WriteUncounted(r) ==
    /\ pc[r] = "write"
    /\ IF VersionUnmoved(r) THEN Update(r, "meta", Patched(r)) ELSE UNCHANGED <<row, writes>>
    /\ Goto(r, "show")
    /\ UNCHANGED <<index, call, start>>

WriteMetadata(r) ==
    /\ pc[r] = "write"
    /\ \/ /\ VersionUnmoved(r)
          /\ Update(r, "meta", Patched(r))
          /\ Goto(r, "show")
       \/ /\ ~VersionUnmoved(r)
          /\ IF call[r].expect = None THEN Finish(r, "missing") ELSE Goto(r, "missed")
          /\ UNCHANGED <<row, writes>>
    /\ UNCHANGED <<index, call, start>>

\* No row was changed; whether the page is there is read once more.
FindUnwritten(r) ==
    /\ pc[r] = "missed"
    /\ Finish(r, IF Found(r).active THEN "stale" ELSE "missing")
    /\ UNCHANGED <<tables, call, history>>

\* The row is found again after either UPDATE, to be answered and indexed.
FindWritten(r) ==
    /\ pc[r] = "show"
    /\ \/ See(r, "index")
       \/ Missing(r, IF want[r] = None THEN "missing" ELSE "reconcile")
    /\ UNCHANGED <<tables, call, history>>

\* Mutant: the projection is made for the version the request started from.
IndexWhatWasAsked(r) ==
    /\ pc[r] = "index"
    /\ index' = index \union {Entry(Target(r), IF want[r] = None THEN seen[r].pointer ELSE want[r])}
    /\ IF want[r] # None THEN Goto(r, "last")
       ELSE IF call[r].op # "upsert" THEN Finish(r, "ok")
       ELSE Goto(r, IF call[r].text THEN "text" ELSE "last")
    /\ UNCHANGED <<row, call, history>>

\* upsert_page_search_projection, the last of either update.
Index(r) ==
    /\ pc[r] = "index"
    /\ index' = index \union {Entry(Target(r), seen[r].pointer)}
    /\ IF want[r] # None THEN Goto(r, "last")
       ELSE IF call[r].op # "upsert" THEN Finish(r, "ok")
       ELSE Goto(r, IF call[r].text THEN "text" ELSE "last")
    /\ UNCHANGED <<row, call, history>>

-----------------------------------------------------------------------------
\* The rest of an upsert: its text replaces whatever version is there now.
FindVersion(r) ==
    /\ pc[r] = "text"
    /\ \/ Missing(r, "missing")
       \/ /\ Found(r).active
          /\ want' = [want EXCEPT ![r] = Found(r).pointer]
          /\ pc' = [pc EXCEPT ![r] = "save"]
          /\ UNCHANGED <<seen, outcome>>
    /\ UNCHANGED <<tables, call, history>>

\* update_page_content, up to its Drive call.
FindToSave(r) ==
    /\ pc[r] = "save"
    /\ \/ Missing(r, "missing")
       \/ Found(r).active /\ Found(r).pointer # want[r] /\ Finish(r, "stale")
       \/ Found(r).pointer = want[r] /\ See(r, "commit")
    /\ UNCHANGED <<tables, call, history>>

DriveFails(r) ==
    /\ pc[r] \in {"commit", "replace"}
    /\ Finish(r, "port")
    /\ UNCHANGED <<tables, call, history>>

\* The WHERE clause and the SET of either UPDATE that moves the page's version.
PointerUnmoved(r) == Found(r).active /\ Found(r).pointer = seen[r].pointer

NextText(r) == [Found(r) EXCEPT !.pointer = @ + 1, !.version = @ + 1]

\* update_page_drive_snapshot.
SaveText(r) ==
    /\ pc[r] = "commit"
    /\ \/ /\ PointerUnmoved(r)
          /\ Update(r, "text", NextText(r))
          /\ Goto(r, "show")
       \/ /\ ~PointerUnmoved(r)
          /\ Finish(r, "reconcile")
          /\ UNCHANGED <<row, writes>>
    /\ UNCHANGED <<index, call, start>>

FindApplied(r) ==
    /\ pc[r] = "last"
    /\ \/ Missing(r, "missing")
       \/ Found(r).active /\ Finish(r, "ok")
    /\ UNCHANGED <<tables, call, history>>

-----------------------------------------------------------------------------
\* apply_ai_suggestion, up to its Drive call: the page has to be at the version
\* the suggestion was made from.
FindSource(r) ==
    /\ pc[r] = "source"
    /\ \/ Missing(r, "missing")
       \/ Found(r).active /\ ~CursorIsCurrent(r) /\ Finish(r, "stale")
       \/ CursorIsCurrent(r) /\ See(r, "replace")
    /\ UNCHANGED <<tables, call, history>>

\* Its transaction, which is rolled back if the page or the suggestion is not
\* as it was read.  Nothing is indexed: only the suggestion is found again, and
\* that may fail, before or after the answer is on its way.
ApplySuggestion(r) ==
    /\ pc[r] = "replace"
    /\ \/ /\ PointerUnmoved(r)
          /\ Update(r, "text", NextText(r))
          /\ \E answer \in {"ok", "reconcile", "lost"} : Finish(r, answer)
       \/ /\ Finish(r, "reconcile")
          /\ UNCHANGED <<row, writes>>
    /\ UNCHANGED <<index, call, start>>

-----------------------------------------------------------------------------
\* delete_page: two statements, each with a commit of its own.
Delete(r) ==
    /\ pc[r] = "purge"
    /\ \/ /\ Found(r).active
          /\ Update(r, "gone", [Found(r) EXCEPT !.active = FALSE, !.version = @ + 1])
          /\ Goto(r, "unindex")
       \/ /\ ~Found(r).active
          /\ Finish(r, "missing")
          /\ UNCHANGED <<row, writes>>
    /\ UNCHANGED <<index, call, start>>

DeleteIndex(r) ==
    /\ pc[r] = "unindex"
    /\ index' = {e \in index : e.page # Target(r)}
    /\ Finish(r, "ok")
    /\ UNCHANGED <<row, call, history>>

-----------------------------------------------------------------------------
\* A statement fails, or the connection or the process is gone.
Lose(r) ==
    /\ InFlight(r)
    /\ Finish(r, "lost")
    /\ UNCHANGED <<tables, call, history>>

Step(r) ==
    \/ Arrive(r) \/ Refuse(r) \/ FindToApply(r) \/ FindPage(r) \/ FindParent(r)
    \/ WriteMetadata(r) \/ FindUnwritten(r) \/ FindWritten(r) \/ Index(r) \/ FindVersion(r)
    \/ FindToSave(r) \/ DriveFails(r) \/ SaveText(r) \/ FindApplied(r)
    \/ FindSource(r) \/ ApplySuggestion(r) \/ Delete(r) \/ DeleteIndex(r) \/ Lose(r)

Next == \E r \in Requests : Step(r)

Spec == Init /\ [][Next]_vars

-----------------------------------------------------------------------------
\* What a request is to change, and what it has changed.
Parts(r) ==
    {part \in {"meta", "text", "gone"} :
        \/ part = "meta" /\ Names(r)
        \/ part = "text" /\ call[r].text
        \/ part = "gone" /\ call[r].op = "purge"}

WritesOf(r) == {w \in writes : w.by = r}

PartsWritten(r) == {w.part : w \in WritesOf(r)}

\* The rows page p has had since request r arrived.
RowsSince(r, p) ==
    {x \in {row[p]} \union {w.from : w \in {u \in writes : call[u.by].page = p}} :
        x.version >= start[r][p]}

(***************************************************************************)
(* An update that expects a version replaces that version, and of its      *)
(* columns only those it names: what it read and writes back was not       *)
(* changed by anyone in between, be it a title or a text.  This is what    *)
(* expectedVersion is for; an update without it may undo another's.        *)
(***************************************************************************)
ExpectedWritesKeepTheRest ==
    \A w \in writes : w.part = "meta" /\ call[w.by].expect # None =>
        /\ w.from.version = call[w.by].expect
        /\ \A f \in DOMAIN call[w.by].patch :
              call[w.by].patch[f] = Keep => w.to[f] = w.from[f]

(***************************************************************************)
(* A request answered "applied", or with the page, has made every change   *)
(* it names, and one answered with a conflict none.  An upsert that fails  *)
(* half way keeps its title and has not saved its text, which is what the  *)
(* error is about.                                                         *)
(***************************************************************************)
AnswersMatchWrites ==
    \A r \in Requests :
        /\ outcome[r] = "ok" => PartsWritten(r) = Parts(r)
        /\ outcome[r] \in {"conflict", "refused"} => PartsWritten(r) = {}
        /\ outcome[r] \in {"stale", "port"} => PartsWritten(r) = Parts(r) \ {
              IF call[r].text THEN "text" ELSE "meta"}

(***************************************************************************)
(* What a request checked before it wrote has been so since it arrived: a  *)
(* page deleted for good was found in the trash, a parent was there.  It   *)
(* need not be so any more when the row is written.                        *)
(***************************************************************************)
ChecksHeldSinceArrival ==
    \A w \in writes : LET c == call[w.by] IN
        /\ w.part = "gone" /\ c.page \notin Folders =>
              \E x \in RowsSince(w.by, c.page) : x.active /\ x.archive = "archived"
        /\ w.part = "meta" /\ c.patch.parent \in Pages =>
              /\ c.patch.parent # c.page
              /\ \E x \in RowsSince(w.by, c.patch.parent) : x.active

\* The row of page p is as an apply of a suggestion left it.
LeftByApply(p) ==
    \E w \in writes : /\ call[w.by].op = "suggestion"
                      /\ call[w.by].page = p
                      /\ w.to = row[p]

(***************************************************************************)
(* When nothing is under way and no handler was lost, a page that was not  *)
(* last changed by an apply of a suggestion has the row of the projection  *)
(* that search joins, the one for its current version.  Each update reads  *)
(* the page again after its UPDATE and indexes what it finds, so however   *)
(* they interleave the last of them indexes the version that stays, also   *)
(* one an apply has made before.  An apply indexes nothing: its page is    *)
(* without that row until somebody updates it.                             *)
(***************************************************************************)
SettledPagesAreIndexed ==
    (\A r \in Requests : ~InFlight(r) /\ outcome[r] # "lost") =>
        \A p \in Pages : row[p].active /\ ~LeftByApply(p) =>
            Entry(p, row[p].pointer) \in index

(***************************************************************************)
(* An upsert that names the version it was made over replaces that one     *)
(* with its text: any other is answered with "Remote cursor does not match *)
(* the current page version." (service.rs 408-417).                        *)
(***************************************************************************)
UpsertsReplaceTheirCursor ==
    \A w \in writes : w.part = "text" /\ call[w.by].op = "upsert" =>
        call[w.by].cursor \in {None, w.from.pointer}

=============================================================================
