---------------------------- MODULE FacadeDrive ----------------------------
(***************************************************************************)
(* The requests of PageContent over SdkDriveAppFacadePageContentPort, the  *)
(* production port.  One call of the port is several calls of the Drive    *)
(* App API, none of which is conditional, and every handler's calls run    *)
(* between those of the others.  Drive itself is not part of the           *)
(* repository: it is a service that keeps the versions of a node in order, *)
(* appends one when an upload is completed or a version restored, and      *)
(* hands out the content of the latest.                                    *)
(***************************************************************************)
EXTENDS PageContent, Sequences

CONSTANTS
    MaxVersion,   \* bound: the versions a node may have
    FirstBody     \* what an earlier request stored in the page

\* What read_page_content and restore_page_content_version write down
\* whatever the page's own metadata are.
FacadeType == "application/json"
FacadeSchema == "canvas/v1"
FacadeMeta == [type |-> FacadeType, schema |-> FacadeSchema]

\* A Drive version id is unknown outside its node; its number is the place.
ASSUME FacadeAssumption ==
    /\ MaxVersion \in Nat \ {0}
    /\ VersionIds = Nodes \X (1..MaxVersion)
    /\ VersionNo = [v \in VersionIds |-> v[2]]
    /\ FacadeMeta \in Metas
    /\ \A m \in Metas : [type |-> m.type, schema |-> FacadeSchema] \in Metas
    /\ FirstBody \in Bodies
    /\ \A c \in Calls : c.op \in {"create", "update"} => c.body \in Bodies

VARIABLES
    files,   \* the versions of each Drive node: their content type and body
    step,    \* the call of the Drive API a call of the port has come to
    node,    \* the node a call is about
    no,      \* the version number a call has settled on
    up       \* history: the number of the version a request made in Drive

driveVars == <<files, up>>
portVars == <<step, node, no>>
facadeVars == <<vars, driveVars, portVars>>

Steps == {"enter", "complete", "list", "before", "revert", "after", "download"}

FacadeTypeOK ==
    /\ TypeOK
    /\ files \in [Nodes -> Seq([type : {m.type : m \in Metas}, body : Bodies])]
    /\ step \in [Requests -> Steps]
    /\ node \in [Requests -> Nodes \union {None}]
    /\ no \in [Requests -> 0..MaxVersion]
    /\ up \in [Requests -> 0..MaxVersion]

FacadeInit ==
    /\ Init
    /\ row # None => row.id[1] = row.node
    /\ files = [n \in Nodes |-> IF row # None /\ row.node = n
                                THEN <<[type |-> row.meta.type, body |-> FirstBody]>>
                                ELSE <<>>]
    /\ step = [r \in Requests |-> "enter"]
    /\ node = [r \in Requests |-> None]
    /\ no = [r \in Requests |-> 0]
    /\ up = [r \in Requests |-> 0]

-----------------------------------------------------------------------------
\* Mutant: the number a listing will have next.
NumberToCome(n) == Len(files[n]) + 1

\* latest_file_version: the greatest version_no of the whole listing.
LatestNo(n) == Len(files[n])

At(r, where) == pc[r] = "drive" /\ step[r] = where
Advance(r, where) == step' = [step EXCEPT ![r] = where] /\ UNCHANGED vars

Stored(r, s) ==
    /\ Len(files[node[r]]) < MaxVersion
    /\ files' = [files EXCEPT ![node[r]] = Append(@, s)]
    /\ up' = [up EXCEPT ![r] = Len(files'[node[r]])]

\* Mutant: the upload of a new page goes to a node another one may be using.
SharedNode(r) ==
    /\ At(r, "enter")
    /\ call[r].op = "create"
    /\ \E n \in Nodes : node' = [node EXCEPT ![r] = n]
    /\ Advance(r, "complete")
    /\ UNCHANGED <<driveVars, no>>

\* create_node_and_upload: every upload item makes a node of its own.
PrepareNode(r) ==
    /\ At(r, "enter")
    /\ call[r].op = "create"
    /\ \E n \in Nodes : /\ files[n] = <<>>
                        /\ \A q \in Requests : node[q] # n
                        /\ node' = [node EXCEPT ![r] = n]
    /\ Advance(r, "complete")
    /\ UNCHANGED <<driveVars, no>>

\* The latest version against expected_drive_version_id, which the service
\* sets to the version of the row it read when the client named none.
CheckLatest(r) ==
    /\ At(r, "enter")
    /\ IsAdvance(r)
    /\ LatestNo(base[r].node) # 0
    /\ <<base[r].node, LatestNo(base[r].node)>> = base[r].id
    /\ node' = [node EXCEPT ![r] = base[r].node]
    /\ Advance(r, IF call[r].op = "update" THEN "complete" ELSE "before")
    /\ UNCHANGED <<driveVars, no>>

\* upload_single_part: the new version is there when the upload is completed.
CompleteUpload(r) ==
    /\ At(r, "complete")
    /\ Stored(r, [type |-> WantedMeta(r).type, body |-> call[r].body])
    /\ Advance(r, "list")
    /\ UNCHANGED <<node, no>>

\* upload_new_version, create_node_and_upload: the answer is made of the
\* request's content and the version that is the latest by now.
AnswerUpload(r) ==
    /\ At(r, "list")
    /\ DriveAnswer(r, [node |-> node[r], id |-> <<node[r], LatestNo(node[r])>>,
                       meta |-> WantedMeta(r), body |-> call[r].body])
    /\ UNCHANGED <<driveVars, portVars>>

NoteBefore(r) ==
    /\ At(r, "before")
    /\ no' = [no EXCEPT ![r] = LatestNo(node[r])]
    /\ Advance(r, "revert")
    /\ UNCHANGED <<driveVars, node>>

\* versions_restore: a copy of the version becomes the latest, which Drive
\* may leave out when it is the latest already.
RevertVersion(r) ==
    /\ At(r, "revert")
    /\ \E k \in 1..Len(files[node[r]]) :
         /\ call[r].source = <<node[r], k>>
         /\ \/ Stored(r, files[node[r]][k])
            \/ k = Len(files[node[r]]) /\ UNCHANGED driveVars
    /\ Advance(r, "after")
    /\ UNCHANGED <<node, no>>

NoteAfter(r) ==
    /\ At(r, "after")
    /\ LatestNo(node[r]) > no[r]
    /\ no' = [no EXCEPT ![r] = LatestNo(node[r])]
    /\ Advance(r, "download")
    /\ UNCHANGED <<driveVars, node>>

\* resolve_version: the row's version, looked for on the first page of the
\* listing only, so past 100 versions the call may fail instead.
ResolveVersion(r) ==
    /\ At(r, "enter")
    /\ call[r].op = "read"
    /\ \E k \in 1..Len(files[base[r].node]) :
         /\ base[r].id = <<base[r].node, k>>
         /\ no' = [no EXCEPT ![r] = k]
    /\ node' = [node EXCEPT ![r] = base[r].node]
    /\ Advance(r, "download")
    /\ UNCHANGED driveVars

\* Mutant: a download gives the first version of the node.
OldestBody(n) == files[n][1].body

\* download_json_content names a node and no version.
DownloadedBody(n) == files[n][Len(files[n])].body

SnapshotMeta(r) ==
    IF call[r].op = "read" THEN FacadeMeta
    ELSE [type |-> files[node[r]][no[r]].type, schema |-> FacadeSchema]

Download(r) ==
    /\ At(r, "download")
    /\ DriveAnswer(r, [node |-> node[r], id |-> <<node[r], no[r]>>,
                       meta |-> SnapshotMeta(r), body |-> DownloadedBody(node[r])])
    /\ UNCHANGED <<driveVars, portVars>>

\* The call fails: a version that is not the expected one, or not listed or
\* not on the first page, a restore that did not advance, and any call of
\* the Drive API that fails or times out, its effect, if any, having happened.
FacadeError(r) ==
    /\ DriveError(r)
    /\ UNCHANGED <<driveVars, portVars>>

FacadeNext ==
    \/ Restart /\ UNCHANGED <<driveVars, portVars>>
    \/ \E r \in Requests :
         \/ ServiceStep(r) /\ UNCHANGED <<driveVars, portVars>>
         \/ PrepareNode(r) \/ CheckLatest(r) \/ CompleteUpload(r) \/ AnswerUpload(r)
         \/ NoteBefore(r) \/ RevertVersion(r) \/ NoteAfter(r)
         \/ ResolveVersion(r) \/ Download(r)
         \/ FacadeError(r)

FacadeSpec == FacadeInit /\ [][FacadeNext]_facadeVars
-----------------------------------------------------------------------------
(***************************************************************************)
(* The row always names a version that is in Drive, on the row's own node, *)
(* whichever of two creators won and wherever a handler was dropped.       *)
(***************************************************************************)
PointerIsInDrive ==
    row # None => /\ row.id[1] = row.node
                  /\ VersionNo[row.id] \in DOMAIN files[row.node]

(***************************************************************************)
(* The content a read answers with is of the version it is labelled with,  *)
(* or of a later one: never of an earlier one.                             *)
(***************************************************************************)
ReadsNoOlderContent ==
    \A r \in Requests : outcome[r] = "ok" /\ call[r].op = "read" =>
        \E k \in VersionNo[snap[r].id]..Len(files[snap[r].node]) :
            files[snap[r].node][k].body = snap[r].body

\* What Drive has under the version a request committed.
InDrive(r) == files[snap[r].node][VersionNo[snap[r].id]].body

\* Another request made a version after the one r started from, having read
\* that one or an earlier one itself.
Raced(r) ==
    \E q \in Requests \ {r} :
        /\ base[q] # None /\ base[r] # None
        /\ up[q] > VersionNo[base[r].id]
        /\ VersionNo[base[q].id] <= VersionNo[base[r].id]

(***************************************************************************)
(* What was committed under a version is what Drive has under it, unless   *)
(* another writer of the page made a version at the same time: a lone      *)
(* writer, and every creator, is answered with its own version, whatever   *)
(* calls failed before.                                                    *)
(***************************************************************************)
CommittedUnlessRaced ==
    \A r \in applied : call[r].op # "delete" => InDrive(r) = snap[r].body \/ Raced(r)

(***************************************************************************)
(* A page nobody writes can be read, whatever content type and schema      *)
(* version it was created with, as the service's test does over its own    *)
(* port (repository-sqlx tests/page_service.rs).                           *)
(***************************************************************************)
LoneReadIsServed ==
    \A r \in Requests :
        call[r] # None /\ call[r].op = "read" /\ (\A q \in Requests \ {r} : pc[q] = "idle")
            => outcome[r] # "rejected"
=============================================================================
