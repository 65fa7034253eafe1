---------------------------- MODULE PageContent ----------------------------
(***************************************************************************)
(* The content of one page: its row in canvas_page, which names the        *)
(* current Drive version, and the requests that create, update, restore,   *)
(* read and permanently delete it.  A handler awaits between its database  *)
(* statements and its call to the Drive port, no transaction spans the     *)
(* two stores, and any number of handlers run at once, so every await is a *)
(* step of its own here.                                                   *)
(*                                                                         *)
(* The Drive port is left open: it may answer a call with any snapshot at  *)
(* all.  What is stated here is what the service and the repository        *)
(* guarantee of themselves, whatever adapter is behind the port.           *)
(* MemoryDrive and FacadeDrive close it with the two adapters.             *)
(***************************************************************************)
EXTENDS Naturals

CONSTANTS
    Requests,    \* the requests, each handled once
    Calls,       \* the commands a request may carry
    VersionIds,  \* the Drive version ids
    VersionNo,   \* the number a version id stands for
    Nodes,       \* the Drive nodes
    Metas,       \* the pairs of content type and content schema version
    Bodies,      \* the page contents
    None

Ops == {"create", "update", "restore", "read", "delete"}

Call == [op : Ops, expect : VersionIds \union {None},
         source : VersionIds \union {None},
         meta : Metas \union {None}, body : Bodies \union {None}]

\* The columns of canvas_page that bind a page to Drive.
Row == [node : Nodes, id : VersionIds, meta : Metas]

\* DrivePageContentSnapshot: a version and the content found in it.
Snapshot == [node : Nodes, id : VersionIds, meta : Metas, body : Bodies]

\* Mutant: the statement leaves the content metadata columns out.
RowOfWithoutMeta(s) == [node |-> s.node, id |-> s.id, meta |-> None]

RowOf(s) == [node |-> s.node, id |-> s.id, meta |-> s.meta]

(***************************************************************************)
(* The one thing asked of Drive is that an id stands for one number, which *)
(* both adapters give: drive-version-<page>-v<no> in memory, the file      *)
(* version's own id and version_no in the facade.                          *)
(***************************************************************************)
ASSUME VersionNoAssumption == VersionNo \in [VersionIds -> Nat]

ASSUME CallsAssumption ==
    /\ Calls \subseteq Call
    /\ \A c \in Calls : c.op = "create" => c.meta # None

ASSUME NoneAssumption ==
    None \notin Row \union Snapshot \union Call \union VersionIds \union Metas

VARIABLES
    status,   \* lifecycle_status, "absent" while there is no row
    row,      \* the row's Drive columns, or None
    pc,       \* where the handler of a request is
    call,     \* the command a request carries
    base,     \* the row the handler's find_page returned
    snap,     \* the snapshot the port answered with
    outcome,  \* what the request was answered
    applied,  \* history: the requests whose statement changed the row
    floor     \* history: the number of the current version on arrival

pageVars == <<status, row>>
handlerVars == <<pc, call, base, snap, outcome>>
historyVars == <<applied, floor>>
vars == <<pageVars, handlerVars, historyVars>>

DbPhases == {"reserve", "lookup", "find", "persist", "reload", "project"}
Phases == DbPhases \union {"idle", "drive", "done"}

(***************************************************************************)
(* "refused"   turned down before anything was written                     *)
(* "port"      the Drive port returned an error                            *)
(* "rejected"  the snapshot failed the service's validation                *)
(* "database"  a statement failed and Drive was not written                *)
(* "reconcile" the row was not persisted after a Drive write, as the       *)
(*             answer puts it ("reconciliation is required")               *)
(* "gone"      the handler was dropped: a client that left, or a restart   *)
(***************************************************************************)
Outcomes == {"none", "ok", "refused", "port", "rejected", "database",
             "reconcile", "gone"}

TypeOK ==
    /\ status \in {"absent", "active", "deleted"}
    /\ row \in Row \union {None}
    /\ pc \in [Requests -> Phases]
    /\ call \in [Requests -> Calls \union {None}]
    /\ base \in [Requests -> Row \union {None}]
    /\ snap \in [Requests -> Snapshot \union {None}]
    /\ outcome \in [Requests -> Outcomes]
    /\ applied \in SUBSET Requests
    /\ floor \in [Requests -> Nat]

PointerNo == IF row = None THEN 0 ELSE VersionNo[row.id]

InFlight(r) == pc[r] \notin {"idle", "done"}
IsAdvance(r) == call[r].op \in {"update", "restore"}

\* A page an earlier request created is at its first version.
Init ==
    /\ \/ status = "absent" /\ row = None
       \/ status = "active" /\ row \in {w \in Row : VersionNo[w.id] = 1}
    /\ pc = [r \in Requests |-> "idle"]
    /\ call = [r \in Requests |-> None]
    /\ base = [r \in Requests |-> None]
    /\ snap = [r \in Requests |-> None]
    /\ outcome = [r \in Requests |-> "none"]
    /\ applied = {}
    /\ floor = [r \in Requests |-> 0]

-----------------------------------------------------------------------------
Goto(r, phase) ==
    /\ pc' = [pc EXCEPT ![r] = phase]
    /\ UNCHANGED outcome

Finish(r, answer) ==
    /\ pc' = [pc EXCEPT ![r] = "done"]
    /\ outcome' = [outcome EXCEPT ![r] = answer]

Arrive(r) ==
    /\ pc[r] = "idle"
    /\ \E c \in Calls :
         /\ call' = [call EXCEPT ![r] = c]
         /\ Goto(r, IF c.op = "create" THEN "reserve" ELSE "find")
    /\ floor' = [floor EXCEPT ![r] = PointerNo]
    /\ UNCHANGED <<pageVars, base, snap, applied>>

\* Malformed input, a workspace or parent that is not there, a page that is
\* not in the trash: turned down on grounds this module keeps no state for.
Refuse(r) ==
    /\ pc[r] \in {"reserve", "lookup", "find"}
    /\ Finish(r, "refused")
    /\ UNCHANGED <<pageVars, call, base, snap, historyVars>>

\* create_page, page_id_is_reserved: a deleted page keeps its id.
ReserveId(r) ==
    /\ pc[r] = "reserve"
    /\ IF status = "absent" THEN Goto(r, "lookup") ELSE Finish(r, "refused")
    /\ UNCHANGED <<pageVars, call, base, snap, historyVars>>

\* create_page, the find_page that follows.
LookupPage(r) ==
    /\ pc[r] = "lookup"
    /\ IF status = "active" THEN Finish(r, "refused") ELSE Goto(r, "drive")
    /\ UNCHANGED <<pageVars, call, base, snap, historyVars>>

ExpectationHolds(r) ==
    IsAdvance(r) => call[r].expect \in {None, row.id}

\* find_page and the caller's expected version, compared with what it read.
FindPage(r) ==
    /\ pc[r] = "find"
    /\ IF status = "active" /\ ExpectationHolds(r)
       THEN /\ base' = [base EXCEPT ![r] = row]
            /\ Goto(r, IF call[r].op = "delete" THEN "persist" ELSE "drive")
       ELSE /\ Finish(r, "refused")
            /\ UNCHANGED base
    /\ UNCHANGED <<pageVars, call, snap, historyVars>>

-----------------------------------------------------------------------------
\* What the service lets through of what the port answers.

RefsMatch(r, s) == call[r].op # "create" => s.node = base[r].node

Advances(r, s) ==
    /\ s.id # base[r].id
    /\ VersionNo[s.id] > VersionNo[base[r].id]

\* Mutant: any version of the node will do for a read.
IsCurrentByMeta(r, s) == s.meta = base[r].meta

IsCurrent(r, s) == s.id = base[r].id /\ s.meta = base[r].meta

WantedMeta(r) == IF call[r].meta = None THEN base[r].meta ELSE call[r].meta

Acceptable(r, s) ==
    /\ VersionNo[s.id] >= 1
    /\ RefsMatch(r, s)
    /\ CASE call[r].op = "create" -> s.meta = call[r].meta
         [] call[r].op = "update" -> Advances(r, s) /\ s.meta = WantedMeta(r)
         [] call[r].op = "restore" -> Advances(r, s)
         [] OTHER -> IsCurrent(r, s)

\* The port's call returns snapshot s to the handler of r.
DriveAnswer(r, s) ==
    /\ pc[r] = "drive"
    /\ \/ /\ Acceptable(r, s)
          /\ snap' = [snap EXCEPT ![r] = s]
          /\ IF call[r].op = "read" THEN Finish(r, "ok") ELSE Goto(r, "persist")
       \/ /\ ~Acceptable(r, s)
          /\ Finish(r, "rejected")
          /\ UNCHANGED snap
    /\ UNCHANGED <<pageVars, call, base, historyVars>>

DriveError(r) ==
    /\ pc[r] = "drive"
    /\ Finish(r, "port")
    /\ UNCHANGED <<pageVars, call, base, snap, historyVars>>

-----------------------------------------------------------------------------
\* insert_page: the primary key turns the second of two creators away.
InsertPage(r) ==
    /\ pc[r] = "persist"
    /\ call[r].op = "create"
    /\ IF status = "absent"
       THEN /\ status' = "active"
            /\ row' = RowOf(snap[r])
            /\ applied' = applied \union {r}
            /\ Goto(r, "reload")
       ELSE /\ Finish(r, "reconcile")
            /\ UNCHANGED <<pageVars, applied>>
    /\ UNCHANGED <<call, base, snap, floor>>

\* Mutant: the WHERE clause forgets current_drive_version_id.
PointerUnchecked(r) == status = "active"

\* The WHERE clause of update_page_drive_snapshot.
PointerUnmoved(r) == status = "active" /\ row.id = base[r].id

\* update_page_drive_snapshot: compare and swap on current_drive_version_id.
UpdateDriveSnapshot(r) ==
    /\ pc[r] = "persist"
    /\ IsAdvance(r)
    /\ IF PointerUnmoved(r)
       THEN /\ row' = RowOf(snap[r])
            /\ applied' = applied \union {r}
            /\ Goto(r, "reload")
       ELSE /\ Finish(r, "reconcile")
            /\ UNCHANGED <<row, applied>>
    /\ UNCHANGED <<status, call, base, snap, floor>>

\* delete_page: guarded by the lifecycle alone.
DeletePage(r) ==
    /\ pc[r] = "persist"
    /\ call[r].op = "delete"
    /\ IF status = "active"
       THEN /\ status' = "deleted"
            /\ applied' = applied \union {r}
            /\ Goto(r, "project")
       ELSE /\ Finish(r, "refused")
            /\ UNCHANGED <<status, applied>>
    /\ UNCHANGED <<row, call, base, snap, floor>>

\* Mutant: the NotFound of the second find_page is returned as it is.
ReloadPageUnmapped(r) ==
    /\ pc[r] = "reload"
    /\ IF status = "active" THEN Goto(r, "project") ELSE Finish(r, "refused")
    /\ UNCHANGED <<pageVars, call, base, snap, historyVars>>

\* The find_page after the statement: the page may be gone again by then.
ReloadPage(r) ==
    /\ pc[r] = "reload"
    /\ IF status = "active" THEN Goto(r, "project") ELSE Finish(r, "reconcile")
    /\ UNCHANGED <<pageVars, call, base, snap, historyVars>>

\* The search projection is written, or deleted, last.
WriteProjection(r) ==
    /\ pc[r] = "project"
    /\ Finish(r, "ok")
    /\ UNCHANGED <<pageVars, call, base, snap, historyVars>>

-----------------------------------------------------------------------------
\* A statement fails and changes nothing.
DbFailure(r) ==
    /\ pc[r] \in DbPhases
    /\ Finish(r, IF \/ pc[r] \in {"reserve", "lookup", "find"}
                    \/ call[r].op = "delete"
                 THEN "database" ELSE "reconcile")
    /\ UNCHANGED <<pageVars, call, base, snap, historyVars>>

\* The connection closes and the server drops the handler at an await.
Abandon(r) ==
    /\ InFlight(r)
    /\ Finish(r, "gone")
    /\ UNCHANGED <<pageVars, call, base, snap, historyVars>>

DropHandlers ==
    /\ pc' = [r \in Requests |-> IF InFlight(r) THEN "done" ELSE pc[r]]
    /\ outcome' = [r \in Requests |-> IF InFlight(r) THEN "gone" ELSE outcome[r]]
    /\ UNCHANGED <<pageVars, call, base, snap, historyVars>>

\* The process restarts: every handler is lost, the database is not.
Restart == (\E r \in Requests : InFlight(r)) /\ DropHandlers

\* Every step of a request outside the Drive port.
ServiceStep(r) ==
    \/ Arrive(r) \/ Refuse(r) \/ ReserveId(r) \/ LookupPage(r) \/ FindPage(r)
    \/ InsertPage(r) \/ UpdateDriveSnapshot(r) \/ DeletePage(r)
    \/ ReloadPage(r) \/ WriteProjection(r)
    \/ DbFailure(r) \/ Abandon(r)

PortStep(r) == DriveError(r) \/ \E s \in Snapshot : DriveAnswer(r, s)

Next == Restart \/ \E r \in Requests : ServiceStep(r) \/ PortStep(r)

Spec == Init /\ [][Next]_vars
-----------------------------------------------------------------------------
(***************************************************************************)
(* A version that a request made current is current still, or was replaced *)
(* by a request whose find_page had returned exactly that row: no          *)
(* committed content is overwritten by a writer that never saw it,         *)
(* whatever the Drive port answers and however requests interleave         *)
(* (update_page_content, restore_page_version, insert_page).               *)
(***************************************************************************)
NoLostUpdate ==
    \A r \in applied :
        call[r].op # "delete" =>
            \/ row = RowOf(snap[r])
            \/ \E q \in applied : IsAdvance(q) /\ base[q] = RowOf(snap[r])

(***************************************************************************)
(* The answer tells the client what happened to the row: a write is        *)
(* acknowledged only if its statement took effect, and a request that was  *)
(* refused, whose port call failed or whose snapshot was rejected changed  *)
(* nothing.                                                                *)
(***************************************************************************)
AnswerMatchesEffect ==
    \A r \in Requests :
        /\ outcome[r] = "ok" /\ call[r].op # "read" => r \in applied
        /\ outcome[r] \in {"refused", "port", "rejected"} => r \notin applied

(***************************************************************************)
(* Real time: a read returns no version older than the one that was        *)
(* current when it arrived, and an acknowledged update or restore left a   *)
(* strictly newer one, so what a client was told is never taken back by a  *)
(* request that began later.                                               *)
(***************************************************************************)
AnswersRespectRealTime ==
    \A r \in Requests : outcome[r] = "ok" =>
        /\ call[r].op = "read" => VersionNo[snap[r].id] >= floor[r]
        /\ IsAdvance(r) => VersionNo[snap[r].id] > floor[r]

\* How far a request is, as a client of the register sees it.
RegisterPhase(r) ==
    CASE pc[r] = "idle" -> "idle"
      [] pc[r] = "done" /\ outcome[r] = "ok" ->
             IF call[r].op = "read" THEN "returned" ELSE "acknowledged"
      [] pc[r] = "done" /\ outcome[r] # "ok" -> "failed"
      [] InFlight(r) /\ r \in applied -> "applied"
      [] InFlight(r) /\ r \notin applied ->
             IF base[r] = None THEN "open" ELSE "sampled"

VersionOf(w) == IF w = None THEN None ELSE w.id

VersionSeen(r) ==
    IF outcome[r] = "ok" /\ call[r].op = "read"
    THEN VersionOf(snap[r]) ELSE VersionOf(base[r])

Register == INSTANCE PageRegister WITH
    Clients <- Requests, Versions <- VersionIds, Number <- VersionNo,
    state <- IF status = "deleted" THEN "removed" ELSE status,
    current <- VersionOf(row),
    phase <- [r \in Requests |-> RegisterPhase(r)],
    seen <- [r \in Requests |-> VersionSeen(r)]

(***************************************************************************)
(* The handlers, with the row's compare and swap, implement the register:  *)
(* each request takes effect at most once and between its arrival and its  *)
(* answer, and reads are of a version current during the read.             *)
(***************************************************************************)
ImplementsRegister == Register!Spec

(***************************************************************************)
(* What the answer says of a failed write: "Notes page pointer was not     *)
(* advanced; reconciliation is required" (service.rs), so no request       *)
(* answered like that has moved the row.                                   *)
(***************************************************************************)
ReconcileMeansNotAdvanced ==
    \A r \in Requests : outcome[r] = "reconcile" => r \notin applied
=============================================================================
