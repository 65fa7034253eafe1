---------------------------- MODULE MemoryDrive ----------------------------
(***************************************************************************)
(* The requests of PageContent over MemoryDrivePageContentPort, the port   *)
(* the process selects unless it is told otherwise.  The adapter keeps the *)
(* latest snapshot of a page (records) and every snapshot it made of it    *)
(* (versions), behind two mutexes that are taken one after the other, so a *)
(* call is several critical sections and other calls run in between.       *)
(* Nothing of it survives the process.                                     *)
(***************************************************************************)
EXTENDS PageContent, Sequences

CONSTANTS
    MaxVersion,  \* bound: the greatest version number a run can reach
    FirstBody    \* what an earlier request stored in the page

\* drive-version-<page>-v<no>: the number is the id, on the page's one node.
ASSUME MemoryAssumption ==
    /\ MaxVersion \in Nat \ {0}
    /\ VersionIds = 1..MaxVersion
    /\ VersionNo = [v \in VersionIds |-> v]
    /\ \E n \in Nodes : Nodes = {n}
    /\ FirstBody \in Bodies
    /\ \A c \in Calls : c.op \in {"create", "update"} => c.body \in Bodies

VARIABLES
    records,   \* the page's entry in the adapter's records, or None
    versions,  \* the page's entry in the adapter's versions
    section,   \* the critical section a call has come to
    draft,     \* the snapshot a call is making
    wrote,     \* history: the requests that put their snapshot in records
    lost       \* history: what had been stored was lost with a process

driveVars == <<records, versions, lost>>
portVars == <<section, draft>>
memoryVars == <<vars, driveVars, portVars, wrote>>

MemoryTypeOK ==
    /\ TypeOK
    /\ records \in Snapshot \union {None}
    /\ versions \in Seq(Snapshot)
    /\ section \in [Requests -> {"enter", "number", "store", "push"}]
    /\ draft \in [Requests -> Snapshot \union {None}]
    /\ wrote \in SUBSET Requests
    /\ lost \in BOOLEAN

FirstSnapshot == [node |-> row.node, id |-> row.id, meta |-> row.meta, body |-> FirstBody]

\* The page may have been created by this process or by an earlier one.
MemoryInit ==
    /\ Init
    /\ \/ /\ status = "active"
          /\ records = FirstSnapshot /\ versions = <<FirstSnapshot>> /\ lost = FALSE
       \/ records = None /\ versions = <<>> /\ lost = (status = "active")
    /\ section = [r \in Requests |-> "enter"]
    /\ draft = [r \in Requests |-> None]
    /\ wrote = {}

-----------------------------------------------------------------------------
\* Mutant: the greatest number is used again.
IsGreatest(n) ==
    /\ \A i \in DOMAIN versions : versions[i].id <= n
    /\ n = 1 \/ \E i \in DOMAIN versions : versions[i].id = n

\* One more than the greatest version_no, or 1.
IsNext(n) ==
    /\ \A i \in DOMAIN versions : versions[i].id < n
    /\ n = 1 \/ \E i \in DOMAIN versions : versions[i].id = n - 1

At(r, op, where) == pc[r] = "drive" /\ call[r].op = op /\ section[r] = where

\* The call of r makes snapshot s and goes on to the section where.
Draft(r, s, where) ==
    /\ draft' = [draft EXCEPT ![r] = s]
    /\ section' = [section EXCEPT ![r] = where]
    /\ UNCHANGED <<vars, driveVars, wrote>>

DraftCreated(r) ==
    /\ At(r, "create", "enter")
    /\ \E n \in Nodes : Draft(r, [node |-> n, id |-> 1, meta |-> call[r].meta,
                                 body |-> call[r].body], "store")

\* update_page_content, first section: expected_drive_version_id is not used.
DraftUpdated(r) ==
    /\ At(r, "update", "enter")
    /\ \E n \in {v \in VersionIds : IsNext(v)} :
         Draft(r, [node |-> base[r].node, id |-> n, meta |-> WantedMeta(r),
                   body |-> call[r].body], "store")

IsSource(r, s) == s.id = call[r].source

\* Mutant: the latest snapshot is restored, whatever version was asked for.
LatestRestored(r) ==
    /\ At(r, "restore", "enter")
    /\ \E i \in DOMAIN versions : IsSource(r, versions[i])
    /\ Draft(r, records, "number")

\* restore_page_content_version, first section: the first snapshot with the id.
FindSource(r) ==
    /\ At(r, "restore", "enter")
    /\ \E i \in DOMAIN versions :
         /\ IsSource(r, versions[i])
         /\ \A j \in 1..(i - 1) : ~IsSource(r, versions[j])
         /\ Draft(r, versions[i], "number")

\* Second section: the source again, under the next number.
DraftRestored(r) ==
    /\ At(r, "restore", "number")
    /\ \E n \in {v \in VersionIds : IsNext(v)} :
         Draft(r, [draft[r] EXCEPT !.id = n], "store")

\* Mutant: records is not written.
RecordNotStored(r) ==
    /\ pc[r] = "drive"
    /\ section[r] = "store"
    /\ section' = [section EXCEPT ![r] = "push"]
    /\ UNCHANGED <<vars, driveVars, draft, wrote>>

\* records.insert, whichever of the three writes it is.
StoreRecord(r) ==
    /\ pc[r] = "drive"
    /\ section[r] = "store"
    /\ records' = draft[r]
    /\ section' = [section EXCEPT ![r] = "push"]
    /\ wrote' = wrote \union {r}
    /\ UNCHANGED <<vars, versions, lost, draft>>

\* versions.push, and the call returns.
PushVersion(r) ==
    /\ section[r] = "push"
    /\ DriveAnswer(r, draft[r])
    /\ versions' = Append(versions, draft[r])
    /\ section' = [section EXCEPT ![r] = "enter"]
    /\ draft' = [draft EXCEPT ![r] = None]
    /\ UNCHANGED <<records, lost, wrote>>

\* read_page_content: current_drive_version_id is not used.
ReadRecord(r) ==
    /\ At(r, "read", "enter")
    /\ records # None
    /\ DriveAnswer(r, records)
    /\ UNCHANGED <<driveVars, portVars, wrote>>

\* NotFound: there is nothing to read, or no version to restore.
NotFound(r) ==
    /\ \/ At(r, "read", "enter") /\ records = None
       \/ At(r, "restore", "enter") /\ \A i \in DOMAIN versions : ~IsSource(r, versions[i])
    /\ DriveError(r)
    /\ UNCHANGED <<driveVars, portVars, wrote>>

\* The maps are the process's own.
MemoryRestart ==
    /\ DropHandlers
    /\ records' = None
    /\ versions' = <<>>
    /\ lost' = (lost \/ records # None)
    /\ UNCHANGED <<portVars, wrote>>

MemoryNext ==
    \/ MemoryRestart
    \/ \E r \in Requests :
         \/ ServiceStep(r) /\ UNCHANGED <<driveVars, portVars, wrote>>
         \/ DraftCreated(r) \/ DraftUpdated(r) \/ FindSource(r) \/ DraftRestored(r)
         \/ StoreRecord(r) \/ PushVersion(r) \/ ReadRecord(r) \/ NotFound(r)

MemorySpec == MemoryInit /\ [][MemoryNext]_memoryVars
-----------------------------------------------------------------------------
\* Requests whose snapshot is in Drive without the row having taken it.
Stranded == wrote \ applied

Writers == {r \in applied : call[r].op # "delete"}

\* What was committed under version v.
Committed(v) ==
    IF \E r \in Writers : snap[r].id = v
    THEN snap[CHOOSE r \in Writers : snap[r].id = v].body
    ELSE FirstBody

(***************************************************************************)
(* The two stores agree whenever no write is between them and none was     *)
(* left there: records holds the version the row names, and of every       *)
(* version that was ever current the content that was committed comes      *)
(* first in versions, which is the one a restore takes.  Two creators or   *)
(* two updaters under the same number are the hard case.                   *)
(***************************************************************************)
StoresAgreeWhenSettled ==
    ~lost /\ Stranded = {} /\ status # "absent" =>
        /\ RowOf(records) = row
        /\ records.body = Committed(row.id)
        /\ \A i \in DOMAIN versions :
             (\A j \in 1..(i - 1) : versions[j].id # versions[i].id)
                 => versions[i].body = Committed(versions[i].id)

(***************************************************************************)
(* A read is answered, and with the content committed under the version it *)
(* is answered with, unless the pointer moved under it, a write is or was  *)
(* left between the two stores, or the process lost its Drive.             *)
(***************************************************************************)
ReadsSeeTheCommitted ==
    [][ \A r \in Requests :
          At(r, "read", "enter") /\ outcome'[r] \in {"ok", "port", "rejected"} =>
              \/ outcome'[r] = "ok" /\ snap'[r].body = Committed(snap'[r].id)
              \/ row # base[r] \/ Stranded # {} \/ lost ]_memoryVars

(***************************************************************************)
(* A restore that took effect brought back the content committed under the *)
(* version it named, again unless a stranded write or a restart intervened.*)
(***************************************************************************)
RestoresTheAsked ==
    \A r \in applied : call[r].op = "restore" =>
        \/ snap[r].body = Committed(call[r].source)
        \/ Stranded # {} \/ lost

(***************************************************************************)
(* A write is refused over the snapshot its own port made only after the   *)
(* process lost its Drive: until then the adapter's next number is ahead   *)
(* of every pointer the row ever had, however calls interleave and         *)
(* wherever they are dropped.                                              *)
(***************************************************************************)
RejectedOnlyAfterLoss ==
    \A r \in Requests : outcome[r] = "rejected" /\ call[r].op # "read" => lost

=============================================================================
