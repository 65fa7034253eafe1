------------------------- MODULE FacadeDriveProofs -------------------------
(***************************************************************************)
(* The Drive App SDK port is one of the ports PageContent allows, so all   *)
(* that is proved there holds over it; and what the row, the reads and the *)
(* commits have to do with the versions that are in Drive.                 *)
(***************************************************************************)
EXTENDS FacadeDrive, PageContentProofs

Items == [type : {m.type : m \in Metas}, body : Bodies]

DriveTypes ==
    /\ files \in [Nodes -> Seq(Items)]
    /\ \A n \in Nodes : Len(files[n]) <= MaxVersion
    /\ step \in [Requests -> Steps]
    /\ node \in [Requests -> Nodes \union {None}]
    /\ no \in [Requests -> 0..MaxVersion]
    /\ up \in [Requests -> 0..MaxVersion]

\* The versions there are of the node of r's call, and the one r started from.
Count(r) == Len(files[node[r]])
BaseNo(r) == VersionNo[base[r].id]

\* What the call of one request has come to.
CallOf(r) ==
    /\ pc[r] \in Early => step[r] = "enter"
    /\ step[r] = "enter" => node[r] = None /\ up[r] = 0
    /\ step[r] # "enter" =>
         /\ node[r] \in Nodes /\ call[r] \in Calls /\ call[r].op # "delete"
         /\ call[r].op # "create" =>
              base[r] \in Row /\ node[r] = base[r].node /\ BaseNo(r) \in 1..Count(r)
         /\ up[r] <= Count(r)
    /\ step[r] \in {"complete", "list"} => call[r].op \in {"create", "update"}
    /\ step[r] \in {"before", "revert", "after"} => call[r].op = "restore"
    /\ step[r] = "download" => call[r].op \in {"read", "restore"} /\ no[r] \in 1..Count(r)
    /\ step[r] \in {"complete", "before", "revert"} => up[r] = 0
    /\ step[r] = "list" =>
         /\ up[r] >= 1 /\ (call[r].op = "update" => up[r] > BaseNo(r))
         /\ files[node[r]][up[r]].body = call[r].body
    /\ step[r] \in {"revert", "after"} => BaseNo(r) <= no[r]
    /\ step[r] = "download" /\ call[r].op = "restore" => BaseNo(r) < no[r] /\ up[r] <= no[r]

CallsInv == \A r \in Requests : CallOf(r)

\* Every version but the first of a node was made by an update or a restore.
MakersInv ==
    \A n \in Nodes : \A k \in 2..Len(files[n]) :
        \E q \in Requests : node[q] = n /\ up[q] = k /\ call[q].op # "create"

\* A creator's node is its own until its row is there.
OwnNode(r) ==
    /\ up[r] \in {0, 1}
    /\ step[r] # "complete" => up[r] = 1
    /\ up[r] = 1 => Count(r) >= 1 /\ files[node[r]][1].body = call[r].body
    /\ r \notin applied =>
         /\ Count(r) = up[r]
         /\ row # None => row.node # node[r]
         /\ \A q \in Requests \ {r} : node[q] # node[r]

OwnInv ==
    \A r \in Requests : step[r] # "enter" /\ call[r].op = "create" => OwnNode(r)

\* Another writer made a version after the one r started from.
Mixed(r) ==
    /\ base[r] # None
    /\ \E q \in Requests \ {r} : base[q] # None /\ up[q] > BaseNo(r)

\* Where the snapshot r was answered with is in Drive.
SnapOf(r) ==
    /\ step[r] # "enter"
    /\ snap[r].node = node[r]
    /\ snap[r].id = <<node[r], VersionNo[snap[r].id]>>
    /\ VersionNo[snap[r].id] \in 1..Count(r)
    /\ call[r].op = "read" =>
         \E k \in VersionNo[snap[r].id]..Count(r) : files[node[r]][k].body = snap[r].body
    /\ call[r].op # "read" => InDrive(r) = snap[r].body \/ Mixed(r)

SnapsInv ==
    \A r \in Requests : /\ pc[r] \in Early \union {"drive"} => snap[r] = None
                        /\ snap[r] # None => SnapOf(r)

FacadeInv ==
    /\ DriveTypes /\ CallsInv /\ MakersInv /\ OwnInv /\ SnapsInv
    /\ PointerIsInDrive /\ CommittedUnlessRaced
-----------------------------------------------------------------------------
LEMMA Numbers ==
    ASSUME NEW n \in Nodes, NEW k \in 1..MaxVersion
    PROVE  <<n, k>> \in VersionIds /\ VersionNo[<<n, k>>] = k
BY FacadeAssumption

LEMMA FacadeInitInv == FacadeInit => IInv /\ FacadeInv
<1> SUFFICES ASSUME FacadeInit PROVE IInv /\ FacadeInv
  OBVIOUS
<1> USE FacadeAssumption, NoneAssumption
<1>1. IInv
  BY InitInv DEF FacadeInit
<1>2. /\ pc = [r \in Requests |-> "idle"] /\ snap = [r \in Requests |-> None]
      /\ applied = {}
      /\ row \in Row \union {None} /\ (row # None => VersionNo[row.id] = 1)
  BY DEF FacadeInit, Init
<1>3. ASSUME NEW n \in Nodes
      PROVE  /\ files[n] \in Seq(Items)
             /\ Len(files[n]) <= 1
             /\ row # None /\ row.node = n => Len(files[n]) = 1
  <2>1. CASE row # None /\ row.node = n
    <3>1. [type |-> row.meta.type, body |-> FirstBody] \in Items
      BY <1>2, <2>1 DEF Items, Row
    <3>2. files[n] = <<[type |-> row.meta.type, body |-> FirstBody]>>
      BY <2>1 DEF FacadeInit
    <3> QED  BY <3>1, <3>2
  <2>2. CASE ~(row # None /\ row.node = n)
    <3>1. files[n] = <<>>
      BY <2>2 DEF FacadeInit
    <3> QED  BY <2>2, <3>1
  <2> QED  BY <2>1, <2>2
<1>4. DriveTypes
  <2>1. files \in [Nodes -> Seq(Items)]
    <3>1. files = [n \in Nodes |-> files[n]]
      BY DEF FacadeInit
    <3> QED  BY <1>3, <3>1
  <2> QED  BY <1>3, <2>1 DEF FacadeInit, DriveTypes, Steps
<1>5. CallsInv
  BY <1>2 DEF CallsInv, CallOf, FacadeInit
<1>6. MakersInv
  BY <1>3, <1>4 DEF MakersInv, DriveTypes
<1>7. OwnInv /\ SnapsInv /\ CommittedUnlessRaced
  BY <1>2 DEF OwnInv, SnapsInv, CommittedUnlessRaced, FacadeInit, Early
<1>8. PointerIsInDrive
  BY <1>2, <1>3 DEF PointerIsInDrive, FacadeInit, Row
<1> QED  BY <1>1, <1>4, <1>5, <1>6, <1>7, <1>8 DEF FacadeInv

-----------------------------------------------------------------------------
\* Drive only adds to its files.
Grown ==
    \A n \in Nodes : /\ Len(files[n]) <= Len(files'[n])
                     /\ \A k \in 1..Len(files[n]) : files'[n][k] = files[n][k]

LEMMA SameFiles == ASSUME DriveTypes, files' = files PROVE Grown
BY DEF DriveTypes, Grown

LEMMA Stores ==
    ASSUME DriveTypes, NEW r \in Requests, NEW s \in Items, node[r] \in Nodes, Stored(r, s)
    PROVE  /\ files' \in [Nodes -> Seq(Items)]
           /\ \A n \in Nodes : Len(files'[n]) <= MaxVersion
           /\ Len(files'[node[r]]) = Count(r) + 1
           /\ files'[node[r]][Count(r) + 1] = s
           /\ \A n \in Nodes \ {node[r]} : files'[n] = files[n]
           /\ Grown
           /\ up' = [up EXCEPT ![r] = Count(r) + 1]
           /\ Count(r) + 1 \in 1..MaxVersion
<1> USE FacadeAssumption
<1>1. files[node[r]] \in Seq(Items) /\ Count(r) \in Nat /\ Count(r) < MaxVersion
  BY DEF DriveTypes, Stored, Count
<1>2. /\ files' = [files EXCEPT ![node[r]] = Append(files[node[r]], s)]
      /\ up' = [up EXCEPT ![r] = Len(files'[node[r]])]
  BY DEF Stored
<1>3. files'[node[r]] = Append(files[node[r]], s)
  BY <1>2 DEF DriveTypes
<1>4. /\ Append(files[node[r]], s) \in Seq(Items)
      /\ Len(Append(files[node[r]], s)) = Count(r) + 1
      /\ Append(files[node[r]], s)[Count(r) + 1] = s
      /\ \A k \in 1..Count(r) : Append(files[node[r]], s)[k] = files[node[r]][k]
  BY <1>1 DEF Count
<1>5. \A n \in Nodes \ {node[r]} : files'[n] = files[n]
  BY <1>2 DEF DriveTypes
<1>6. files' \in [Nodes -> Seq(Items)]
  BY <1>2, <1>4 DEF DriveTypes
<1>7. Grown
  <2> SUFFICES ASSUME NEW n \in Nodes
               PROVE  /\ Len(files[n]) <= Len(files'[n])
                      /\ \A k \in 1..Len(files[n]) : files'[n][k] = files[n][k]
    BY DEF Grown
  <2>1. CASE n = node[r]
    BY <1>1, <1>3, <1>4, <2>1 DEF Count
  <2>2. CASE n # node[r]
    BY <1>5, <2>2 DEF DriveTypes
  <2> QED  BY <2>1, <2>2
<1>8. ASSUME NEW n \in Nodes PROVE Len(files'[n]) <= MaxVersion
  <2>1. CASE n = node[r]
    BY <1>1, <1>3, <1>4, <2>1
  <2>2. CASE n # node[r]
    BY <1>5, <2>2 DEF DriveTypes
  <2> QED  BY <2>1, <2>2
<1>9. /\ Len(files'[node[r]]) = Count(r) + 1
      /\ files'[node[r]][Count(r) + 1] = s
  BY <1>3, <1>4
<1>10. up' = [up EXCEPT ![r] = Count(r) + 1]
  BY <1>2, <1>9
<1>11. Count(r) + 1 \in 1..MaxVersion
  BY <1>1
<1> QED  BY <1>5, <1>6, <1>7, <1>8, <1>9, <1>10, <1>11

\* A call that did not move is where it was, whatever Drive has got meanwhile.
LEMMA CallStays ==
    ASSUME DriveTypes, files' \in [Nodes -> Seq(Items)], Grown, NEW q \in Requests, CallOf(q),
           step'[q] = step[q], node'[q] = node[q], no'[q] = no[q], up'[q] = up[q],
           pc'[q] \in Early => pc[q] \in Early,
           step[q] # "enter" => call'[q] = call[q] /\ base'[q] = base[q]
    PROVE  CallOf(q)'
<1>1. CASE step[q] = "enter"
  BY <1>1 DEF CallOf
<1>2. CASE step[q] # "enter"
  <2>1. Count(q) \in Nat /\ Count(q)' \in Nat /\ Count(q) <= Count(q)'
    BY <1>2 DEF CallOf, Count, Grown, DriveTypes
  <2>2. BaseNo(q)' = BaseNo(q)
    BY <1>2 DEF BaseNo
  <2>3. ASSUME step[q] = "list"
        PROVE  files'[node[q]][up[q]] = files[node[q]][up[q]]
    <3>1. node[q] \in Nodes /\ up[q] \in 1..Len(files[node[q]])
      BY <1>2, <2>1, <2>3 DEF CallOf, DriveTypes, Count
    <3> QED  BY <3>1 DEF Grown
  <2> QED  BY <1>2, <2>1, <2>2, <2>3 DEF CallOf, DriveTypes
<1> QED  BY <1>1, <1>2

LEMMA WantedMetaIs ==
    ASSUME IInv, NEW r \in Requests, call[r] \in Calls, call[r].op \in {"create", "update"},
           call[r].op # "create" => base[r] \in Row
    PROVE  WantedMeta(r) \in Metas /\ call[r].body \in Bodies
BY CallsAssumption, NoneAssumption, FacadeAssumption DEF WantedMeta, Call, Row

LEMMA UploadIsSnapshot ==
    ASSUME IInv, FacadeInv, NEW r \in Requests, step[r] = "list"
    PROVE  /\ [node |-> node[r], id |-> <<node[r], LatestNo(node[r])>>,
               meta |-> WantedMeta(r), body |-> call[r].body] \in Snapshot
           /\ LatestNo(node[r]) = Count(r) /\ Count(r) \in 1..MaxVersion
<1>1. /\ node[r] \in Nodes /\ call[r] \in Calls /\ call[r].op \in {"create", "update"}
      /\ call[r].op # "create" => base[r] \in Row
      /\ 1 <= up[r] /\ up[r] <= Count(r) /\ up[r] \in Nat
  BY DEF FacadeInv, CallsInv, CallOf, DriveTypes
<1>2. Count(r) \in Nat /\ Count(r) <= MaxVersion /\ LatestNo(node[r]) = Count(r)
  BY <1>1 DEF FacadeInv, DriveTypes, Count, LatestNo
<1>3. Count(r) \in 1..MaxVersion
  BY <1>1, <1>2, FacadeAssumption
<1> QED  BY <1>1, <1>2, <1>3, WantedMetaIs, Numbers DEF Snapshot

LEMMA DownloadIsSnapshot ==
    ASSUME IInv, FacadeInv, NEW r \in Requests, step[r] = "download"
    PROVE  /\ [node |-> node[r], id |-> <<node[r], no[r]>>,
               meta |-> SnapshotMeta(r), body |-> DownloadedBody(node[r])] \in Snapshot
           /\ no[r] \in 1..MaxVersion /\ no[r] <= Count(r) /\ Count(r) \in 1..MaxVersion
           /\ DownloadedBody(node[r]) = files[node[r]][Count(r)].body
<1>1. node[r] \in Nodes /\ call[r].op \in {"read", "restore"} /\ no[r] \in 1..Count(r)
  BY DEF FacadeInv, CallsInv, CallOf
<1>2. Count(r) \in Nat /\ Count(r) <= MaxVersion /\ files[node[r]] \in Seq(Items)
  BY <1>1 DEF FacadeInv, DriveTypes, Count
<1>3. no[r] \in 1..MaxVersion /\ no[r] <= Count(r) /\ Count(r) \in 1..MaxVersion
  BY <1>1, <1>2, FacadeAssumption
<1>4. files[node[r]][Count(r)] \in Items /\ files[node[r]][no[r]] \in Items
  BY <1>1, <1>2, <1>3 DEF Count
<1>5. SnapshotMeta(r) \in Metas
  <2>1. PICK m \in Metas : files[node[r]][no[r]].type = m.type
    BY <1>4 DEF Items
  <2> QED  BY <2>1, FacadeAssumption DEF SnapshotMeta
<1>6. /\ DownloadedBody(node[r]) = files[node[r]][Count(r)].body
      /\ DownloadedBody(node[r]) \in Bodies
  BY <1>4 DEF DownloadedBody, Count, Items
<1> QED  BY <1>1, <1>3, <1>5, <1>6, Numbers DEF Snapshot

\* Every step of the adapter is a step the open port may take, or none.
LEMMA FacadeStepIsStep ==
    ASSUME IInv, FacadeInv, [FacadeNext]_facadeVars
    PROVE  [Next]_vars
<1>1. ASSUME NEW r \in Requests, AnswerUpload(r) PROVE Next
  BY <1>1, UploadIsSnapshot DEF AnswerUpload, At, Next, PortStep
<1>2. ASSUME NEW r \in Requests, Download(r) PROVE Next
  BY <1>2, DownloadIsSnapshot DEF Download, At, Next, PortStep
<1>3. ASSUME NEW r \in Requests, FacadeError(r) \/ ServiceStep(r) PROVE Next
  BY <1>3 DEF FacadeError, Next, PortStep
<1>4. ASSUME NEW r \in Requests,
             \/ PrepareNode(r) \/ CheckLatest(r) \/ CompleteUpload(r) \/ NoteBefore(r)
             \/ RevertVersion(r) \/ NoteAfter(r) \/ ResolveVersion(r)
      PROVE  UNCHANGED vars
  BY <1>4 DEF PrepareNode, CheckLatest, CompleteUpload, NoteBefore, RevertVersion, NoteAfter,
              ResolveVersion, Advance
<1>5. CASE Restart
  BY <1>5 DEF Next
<1> QED  BY <1>1, <1>2, <1>3, <1>4, <1>5 DEF FacadeNext, facadeVars

-----------------------------------------------------------------------------
\* The steps of a call between which nothing of the handlers changes.
CallStep(r) ==
    \/ PrepareNode(r) \/ CheckLatest(r) \/ CompleteUpload(r) \/ NoteBefore(r)
    \/ RevertVersion(r) \/ NoteAfter(r) \/ ResolveVersion(r)

\* The other steps: Drive and the calls stay as they are.
DriveStays == UNCHANGED <<driveVars, portVars>>

LEMMA StepsAre ==
    ASSUME IInv, FacadeInv, [FacadeNext]_facadeVars
    PROVE  \/ \E r \in Requests : CallStep(r) /\ UNCHANGED vars
           \/ DriveStays /\ [Next]_vars
<1>1. ASSUME NEW r \in Requests, CallStep(r) PROVE UNCHANGED vars
  BY <1>1 DEF CallStep, PrepareNode, CheckLatest, CompleteUpload, NoteBefore, RevertVersion,
              NoteAfter, ResolveVersion, Advance
<1>2. ASSUME NEW r \in Requests, AnswerUpload(r) \/ Download(r) \/ FacadeError(r)
      PROVE  DriveStays
  BY <1>2 DEF AnswerUpload, Download, FacadeError, DriveStays
<1>3. [Next]_vars
  BY FacadeStepIsStep
<1> QED  BY <1>1, <1>2, <1>3 DEF FacadeNext, CallStep, DriveStays, facadeVars

\* What is uploaded, and what is restored, is an item of Drive's.
LEMMA UploadedItem ==
    ASSUME IInv, FacadeInv, NEW r \in Requests, At(r, "complete")
    PROVE  [type |-> WantedMeta(r).type, body |-> call[r].body] \in Items
<1>1. /\ call[r] \in Calls /\ call[r].op \in {"create", "update"}
      /\ call[r].op # "create" => base[r] \in Row
  BY DEF At, FacadeInv, CallsInv, CallOf
<1> QED  BY <1>1, WantedMetaIs DEF Items

LEMMA RestoredItem ==
    ASSUME IInv, FacadeInv, NEW r \in Requests, At(r, "revert"),
           NEW k \in 1..Len(files[node[r]])
    PROVE  files[node[r]][k] \in Items
<1>1. node[r] \in Nodes
  BY DEF At, FacadeInv, CallsInv, CallOf
<1> QED  BY <1>1 DEF FacadeInv, DriveTypes

LEMMA CallNode ==
    ASSUME FacadeInv, NEW r \in Requests, step[r] # "enter"
    PROVE  /\ node[r] \in Nodes /\ Count(r) \in Nat /\ Count(r) <= MaxVersion
           /\ Count(r) = Len(files[node[r]]) /\ LatestNo(node[r]) = Count(r)
BY DEF FacadeInv, CallsInv, CallOf, DriveTypes, Count, LatestNo

LEMMA DriveTypesStep ==
    ASSUME IInv, FacadeInv, NEW r \in Requests, CallStep(r)
    PROVE  DriveTypes' /\ Grown
<1> USE FacadeAssumption DEF Advance, Steps
<1>1. DriveTypes
  BY DEF FacadeInv
<1>2. CASE PrepareNode(r)
  <2>1. files' = files /\ up' = up /\ no' = no
    BY <1>2 DEF PrepareNode, driveVars
  <2>2. /\ step' = [step EXCEPT ![r] = "complete"]
        /\ \E n \in Nodes : node' = [node EXCEPT ![r] = n]
    BY <1>2 DEF PrepareNode
  <2> QED  BY <1>1, <2>1, <2>2, SameFiles DEF DriveTypes
<1>3. CASE CheckLatest(r)
  <2>1. files' = files /\ up' = up /\ no' = no
    BY <1>3 DEF CheckLatest, driveVars
  <2>2. base[r].node \in Nodes
    BY <1>3 DEF CheckLatest, At, IInv, HandlerInv, TypeOK, IsAdvance, Row
  <2>3. /\ \E where \in Steps : step' = [step EXCEPT ![r] = where]
        /\ node' = [node EXCEPT ![r] = base[r].node]
    BY <1>3 DEF CheckLatest
  <2> QED  BY <1>1, <2>1, <2>2, <2>3, SameFiles DEF DriveTypes
<1>4. CASE CompleteUpload(r)
  <2>1. /\ step[r] = "complete" /\ no' = no /\ node' = node
        /\ step' = [step EXCEPT ![r] = "list"]
        /\ Stored(r, [type |-> WantedMeta(r).type, body |-> call[r].body])
    BY <1>4 DEF CompleteUpload, At
  <2>2. node[r] \in Nodes
    BY <2>1, CallNode
  <2>3. [type |-> WantedMeta(r).type, body |-> call[r].body] \in Items
    BY <1>4, UploadedItem DEF CompleteUpload
  <2>4. /\ files' \in [Nodes -> Seq(Items)]
        /\ \A n \in Nodes : Len(files'[n]) <= MaxVersion
        /\ up' = [up EXCEPT ![r] = Count(r) + 1] /\ Count(r) + 1 \in 0..MaxVersion
        /\ Grown
    BY <1>1, <2>1, <2>2, <2>3, Stores
  <2> QED  BY <1>1, <2>1, <2>4 DEF DriveTypes
<1>5. CASE RevertVersion(r)
  <2>1. /\ At(r, "revert") /\ step[r] = "revert" /\ no' = no /\ node' = node
        /\ step' = [step EXCEPT ![r] = "after"]
    BY <1>5 DEF RevertVersion, At
  <2>2. node[r] \in Nodes
    BY <2>1, CallNode
  <2>3. PICK k \in 1..Len(files[node[r]]) :
          Stored(r, files[node[r]][k]) \/ UNCHANGED driveVars
    BY <1>5 DEF RevertVersion
  <2>4. CASE Stored(r, files[node[r]][k])
    <3>1. files[node[r]][k] \in Items
      BY <2>1, RestoredItem
    <3>2. /\ files' \in [Nodes -> Seq(Items)]
          /\ \A n \in Nodes : Len(files'[n]) <= MaxVersion
          /\ up' = [up EXCEPT ![r] = Count(r) + 1] /\ Count(r) + 1 \in 0..MaxVersion
          /\ Grown
      BY <1>1, <2>2, <2>4, <3>1, Stores
    <3> QED  BY <1>1, <2>1, <3>2 DEF DriveTypes
  <2>5. CASE UNCHANGED driveVars
    BY <1>1, <2>1, <2>5, SameFiles DEF DriveTypes, driveVars
  <2> QED  BY <2>3, <2>4, <2>5
<1>6. CASE NoteBefore(r) \/ NoteAfter(r)
  <2>1. /\ step[r] # "enter" /\ files' = files /\ up' = up /\ node' = node
        /\ \E where \in Steps : step' = [step EXCEPT ![r] = where]
        /\ no' = [no EXCEPT ![r] = LatestNo(node[r])]
    BY <1>6 DEF NoteBefore, NoteAfter, At, driveVars
  <2>2. LatestNo(node[r]) \in 0..MaxVersion
    BY <2>1, CallNode
  <2> QED  BY <1>1, <2>1, <2>2, SameFiles DEF DriveTypes
<1>7. CASE ResolveVersion(r)
  <2>1. files' = files /\ up' = up
    BY <1>7 DEF ResolveVersion, driveVars
  <2>2. base[r].node \in Nodes
    BY <1>7 DEF ResolveVersion, At, IInv, HandlerInv, TypeOK, Row
  <2>3. PICK k \in 1..Len(files[base[r].node]) : no' = [no EXCEPT ![r] = k]
    BY <1>7 DEF ResolveVersion
  <2>4. k \in 0..MaxVersion
    BY <1>1, <2>2, <2>3 DEF DriveTypes
  <2>5. /\ step' = [step EXCEPT ![r] = "download"]
        /\ node' = [node EXCEPT ![r] = base[r].node]
    BY <1>7 DEF ResolveVersion
  <2> QED  BY <1>1, <2>1, <2>2, <2>3, <2>4, <2>5, SameFiles DEF DriveTypes
<1> QED  BY <1>2, <1>3, <1>4, <1>5, <1>6, <1>7 DEF CallStep

\* A step of r's call is seen by no other call but for what Drive has got.
LEMMA CallMoves ==
    ASSUME NEW r \in Requests, CallStep(r), DriveTypes
    PROVE  \A q \in Requests \ {r} :
             step'[q] = step[q] /\ node'[q] = node[q] /\ no'[q] = no[q] /\ up'[q] = up[q]
BY DEF CallStep, PrepareNode, CheckLatest, CompleteUpload, NoteBefore, RevertVersion, NoteAfter,
       ResolveVersion, Advance, Stored, driveVars, DriveTypes

LEMMA CallsStep ==
    ASSUME IInv, FacadeInv, NEW r \in Requests, CallStep(r), UNCHANGED vars
    PROVE  CallsInv'
<1> USE FacadeAssumption
<1>1. DriveTypes /\ DriveTypes' /\ Grown /\ CallOf(r) /\ Count(r)' = Len(files'[node'[r]])
  BY DriveTypesStep DEF FacadeInv, CallsInv, Count
<1>2. /\ pc' = pc /\ call' = call /\ base' = base /\ BaseNo(r)' = BaseNo(r)
      /\ \A q \in Requests \ {r} : CallOf(q)
  BY DEF FacadeInv, CallsInv, vars, handlerVars, BaseNo
<1>3. ASSUME NEW q \in Requests \ {r} PROVE CallOf(q)'
  BY <1>1, <1>2, CallMoves, CallStays DEF DriveTypes
<1>4. /\ pc[r] = "drive" => pc[r] \notin Early
      /\ pc[r] = "drive" /\ call[r].op # "create" => base[r] \in Row
      /\ pc[r] = "drive" => call[r] \in Calls /\ call[r].op # "delete"
  BY DEF IInv, HandlerInv, TypeOK, Early
<1>5. step[r] # "enter" => /\ node[r] \in Nodes /\ Count(r) \in Nat
                           /\ Count(r) = Len(files[node[r]]) /\ LatestNo(node[r]) = Count(r)
  BY CallNode
<1>6. CASE PrepareNode(r)
  <2>1. /\ pc[r] = "drive" /\ step[r] = "enter" /\ call[r].op = "create"
        /\ files' = files /\ up' = up /\ no' = no
        /\ step'[r] = "complete" /\ node'[r] \in Nodes
    BY <1>1, <1>6 DEF PrepareNode, At, Advance, driveVars, DriveTypes
  <2>2. Count(r)' \in Nat /\ up[r] = 0
    BY <1>1, <2>1 DEF DriveTypes, CallOf
  <2> QED  BY <1>2, <1>3, <1>4, <2>1, <2>2 DEF CallsInv, CallOf
<1>7. CASE CheckLatest(r)
  <2>1. /\ pc[r] = "drive" /\ step[r] = "enter" /\ call[r].op \in {"update", "restore"}
        /\ files' = files /\ up' = up /\ no' = no
        /\ step'[r] = (IF call[r].op = "update" THEN "complete" ELSE "before")
        /\ node'[r] = base[r].node
        /\ LatestNo(base[r].node) # 0
        /\ <<base[r].node, LatestNo(base[r].node)>> = base[r].id
    BY <1>1, <1>7 DEF CheckLatest, At, Advance, driveVars, DriveTypes, IsAdvance
  <2>2. base[r].node \in Nodes /\ base[r].id \in VersionIds
    BY <1>4, <2>1 DEF Row
  <2>3. Count(r)' = LatestNo(base[r].node) /\ Count(r)' \in Nat /\ Count(r)' \in 1..MaxVersion
    BY <1>1, <2>1, <2>2 DEF Count, LatestNo, DriveTypes
  <2>4. BaseNo(r) = Count(r)'
    BY <2>1, <2>2, <2>3, Numbers DEF BaseNo
  <2>5. up[r] = 0
    BY <1>1, <2>1 DEF CallOf
  <2> QED  BY <1>2, <1>3, <1>4, <2>1, <2>2, <2>3, <2>4, <2>5 DEF CallsInv, CallOf
<1>8. CASE CompleteUpload(r)
  <2>1. /\ pc[r] = "drive" /\ step[r] = "complete" /\ node' = node
        /\ step'[r] = "list"
        /\ Stored(r, [type |-> WantedMeta(r).type, body |-> call[r].body])
    BY <1>1, <1>8 DEF CompleteUpload, At, Advance, DriveTypes
  <2>2. [type |-> WantedMeta(r).type, body |-> call[r].body] \in Items
    BY <1>8, UploadedItem DEF CompleteUpload
  <2>3. /\ Count(r)' = Count(r) + 1 /\ up'[r] = Count(r) + 1
        /\ files'[node[r]][Count(r) + 1] = [type |-> WantedMeta(r).type, body |-> call[r].body]
    <3>1. node[r] \in Nodes /\ node'[r] = node[r]
      BY <1>5, <2>1
    <3>2. /\ Len(files'[node[r]]) = Count(r) + 1 /\ up' = [up EXCEPT ![r] = Count(r) + 1]
          /\ files'[node[r]][Count(r) + 1]
               = [type |-> WantedMeta(r).type, body |-> call[r].body]
      BY <1>1, <2>1, <2>2, <3>1, Stores
    <3> QED  BY <1>1, <3>1, <3>2 DEF DriveTypes
  <2> QED  BY <1>1, <1>2, <1>3, <1>4, <1>5, <2>1, <2>3 DEF CallsInv, CallOf
<1>9. CASE NoteBefore(r)
  <2>1. /\ pc[r] = "drive" /\ step[r] = "before" /\ node' = node /\ up' = up /\ files' = files
        /\ step'[r] = "revert" /\ no'[r] = Count(r)
    BY <1>1, <1>5, <1>9 DEF NoteBefore, At, Advance, DriveTypes, driveVars
  <2>2. Count(r)' = Count(r)
    BY <2>1 DEF Count
  <2> QED  BY <1>1, <1>2, <1>3, <1>4, <1>5, <2>1, <2>2 DEF CallsInv, CallOf
<1>10. CASE RevertVersion(r)
  <2>1. /\ pc[r] = "drive" /\ step[r] = "revert" /\ node' = node /\ no' = no
        /\ step'[r] = "after" /\ At(r, "revert")
    BY <1>1, <1>10 DEF RevertVersion, At, Advance, DriveTypes
  <2>2. PICK k \in 1..Len(files[node[r]]) :
          Stored(r, files[node[r]][k]) \/ UNCHANGED driveVars
    BY <1>10 DEF RevertVersion
  <2>3. \/ Count(r)' = Count(r) + 1 /\ up'[r] = Count(r) + 1
        \/ Count(r)' = Count(r) /\ up'[r] = up[r]
    <3>1. files[node[r]][k] \in Items
      BY <2>1, RestoredItem
    <3>2. CASE Stored(r, files[node[r]][k])
      BY <1>1, <1>5, <2>1, <3>1, <3>2, Stores DEF DriveTypes
    <3>3. CASE UNCHANGED driveVars
      BY <1>1, <1>5, <2>1, <3>3 DEF driveVars
    <3> QED  BY <2>2, <3>2, <3>3
  <2> QED  BY <1>1, <1>2, <1>3, <1>4, <1>5, <2>1, <2>3 DEF CallsInv, CallOf
<1>11. CASE NoteAfter(r)
  <2>1. /\ pc[r] = "drive" /\ step[r] = "after" /\ node' = node /\ up' = up /\ files' = files
        /\ step'[r] = "download" /\ no'[r] = Count(r) /\ Count(r) > no[r]
    BY <1>1, <1>5, <1>11 DEF NoteAfter, At, Advance, DriveTypes, driveVars
  <2>2. Count(r)' = Count(r) /\ no[r] \in Nat
    BY <1>1, <2>1 DEF Count, DriveTypes
  <2> QED  BY <1>1, <1>2, <1>3, <1>4, <1>5, <2>1, <2>2 DEF CallsInv, CallOf
<1>12. CASE ResolveVersion(r)
  <2>1. /\ pc[r] = "drive" /\ step[r] = "enter" /\ call[r].op = "read"
        /\ files' = files /\ up' = up
        /\ step'[r] = "download" /\ node'[r] = base[r].node
        /\ \E k \in 1..Len(files[base[r].node]) :
             base[r].id = <<base[r].node, k>> /\ no'[r] = k
    BY <1>1, <1>12 DEF ResolveVersion, At, Advance, DriveTypes, driveVars
  <2>2. base[r].node \in Nodes /\ base[r].id \in VersionIds
    BY <1>4, <2>1 DEF Row
  <2>3. Count(r)' = Len(files[base[r].node]) /\ Count(r)' \in Nat /\ Count(r)' <= MaxVersion
    BY <1>1, <2>1, <2>2 DEF Count, DriveTypes
  <2>4. BaseNo(r) = no'[r] /\ no'[r] \in 1..Count(r)'
    BY <2>1, <2>2, <2>3, Numbers DEF BaseNo
  <2>5. up[r] = 0
    BY <1>1, <2>1 DEF CallOf
  <2> QED  BY <1>2, <1>3, <1>4, <2>1, <2>2, <2>3, <2>4, <2>5 DEF CallsInv, CallOf
<1> QED  BY <1>6, <1>7, <1>8, <1>9, <1>10, <1>11, <1>12 DEF CallStep

\* The handlers' steps leave the calls as they are.
LEMMA CallsStay ==
    ASSUME IInv, FacadeInv, DriveStays, [Next]_vars
    PROVE  DriveTypes' /\ CallsInv' /\ MakersInv'
<1>1. UNCHANGED <<files, up, step, node, no>>
  BY DEF DriveStays, driveVars, portVars
<1>2. DriveTypes /\ DriveTypes' /\ Grown
  BY <1>1, SameFiles DEF FacadeInv, DriveTypes
<1>3. \A q \in Requests : pc[q] \notin Early =>
        pc'[q] \notin Early /\ call'[q] = call[q] /\ base'[q] = base[q]
  BY HandlersKeep
<1>4. \A q \in Requests : step[q] # "enter" => pc[q] \notin Early
  BY DEF FacadeInv, CallsInv, CallOf
<1>5. CallsInv'
  <2> SUFFICES ASSUME NEW q \in Requests PROVE CallOf(q)'
    BY DEF CallsInv
  <2>1. CallOf(q) /\ files' \in [Nodes -> Seq(Items)]
    BY <1>2 DEF FacadeInv, CallsInv, DriveTypes
  <2> QED  BY <1>1, <1>2, <1>3, <1>4, <2>1, CallStays
<1>6. MakersInv'
  <2> SUFFICES ASSUME NEW n \in Nodes, NEW k \in 2..Len(files[n])
               PROVE  \E q \in Requests : node[q] = n /\ up[q] = k /\ call'[q].op # "create"
    BY <1>1 DEF MakersInv
  <2>1. PICK q \in Requests : node[q] = n /\ up[q] = k /\ call[q].op # "create"
    BY DEF FacadeInv, MakersInv
  <2>2. step[q] # "enter"
    <3>1. up[q] # 0
      BY <2>1, <1>2 DEF DriveTypes
    <3> QED  BY <3>1 DEF FacadeInv, CallsInv, CallOf
  <2> QED  BY <1>3, <1>4, <2>1, <2>2
<1> QED  BY <1>2, <1>5, <1>6

LEMMA MakersStep ==
    ASSUME IInv, FacadeInv, NEW r \in Requests, CallStep(r), UNCHANGED vars
    PROVE  MakersInv'
<1> SUFFICES ASSUME NEW n \in Nodes, NEW k \in 2..Len(files'[n])
             PROVE  \E q \in Requests : node'[q] = n /\ up'[q] = k /\ call[q].op # "create"
  BY DEF MakersInv, vars, handlerVars
<1>1. DriveTypes /\ DriveTypes' /\ Grown /\ CallsInv
  BY DriveTypesStep DEF FacadeInv
<1>2. CASE k \in 2..Len(files[n])
  <2>1. PICK q \in Requests : node[q] = n /\ up[q] = k /\ call[q].op # "create"
    BY <1>2 DEF FacadeInv, MakersInv
  <2>2. step[q] \notin {"enter", "complete", "before", "revert"}
    BY <1>1, <2>1 DEF CallsInv, CallOf, DriveTypes
  <2>3. node'[q] = node[q] /\ up'[q] = up[q]
    <3>1. CASE q = r
      BY <2>2, <3>1 DEF CallStep, PrepareNode, CheckLatest, CompleteUpload, NoteBefore,
           RevertVersion, NoteAfter, ResolveVersion, At, driveVars
    <3>2. CASE q # r
      BY <1>1, <3>2, CallMoves
    <3> QED  BY <3>1, <3>2
  <2> QED  BY <2>1, <2>3
<1>3. CASE k \notin 2..Len(files[n])
  <2>1. Len(files[n]) < Len(files'[n]) /\ k > Len(files[n]) /\ Len(files[n]) \in Nat
    BY <1>1, <1>3 DEF DriveTypes
  <2>2. PICK s \in Items : /\ Stored(r, s) /\ node[r] \in Nodes
                           /\ step[r] \in {"complete", "revert"} /\ node' = node
    <3>1. CASE CompleteUpload(r)
      <4>1. [type |-> WantedMeta(r).type, body |-> call[r].body] \in Items
        BY <3>1, UploadedItem DEF CompleteUpload
      <4> QED  BY <3>1, <4>1, CallNode DEF CompleteUpload, At
    <3>2. CASE RevertVersion(r)
      <4>1. At(r, "revert") /\ step[r] = "revert" /\ node' = node
        BY <3>2 DEF RevertVersion, At
      <4>2. PICK j \in 1..Len(files[node[r]]) :
              Stored(r, files[node[r]][j]) \/ UNCHANGED driveVars
        BY <3>2 DEF RevertVersion
      <4>3. files' # files
        BY <2>1
      <4> QED  BY <4>1, <4>2, <4>3, RestoredItem, CallNode DEF driveVars
    <3>3. CASE ~CompleteUpload(r) /\ ~RevertVersion(r)
      <4>1. files' = files
        BY <3>3 DEF CallStep, PrepareNode, CheckLatest, NoteBefore, NoteAfter, ResolveVersion,
             driveVars
      <4> QED  BY <2>1, <4>1
    <3> QED  BY <3>1, <3>2, <3>3
  <2>3. /\ n = node[r] /\ up'[r] = Count(r) + 1 /\ Len(files'[n]) = Count(r) + 1
        /\ Len(files[n]) = Count(r)
    BY <1>1, <2>1, <2>2, Stores DEF Count, DriveTypes
  <2>4. up'[r] = k
    BY <2>1, <2>3
  <2>5. call[r].op # "create"
    <3>1. SUFFICES ASSUME call[r].op = "create" PROVE FALSE
      OBVIOUS
    <3>2. step[r] = "complete" /\ up[r] = 0
      BY <1>1, <2>2, <3>1 DEF CallsInv, CallOf
    <3>3. pc[r] = "drive" /\ r \notin applied
      <4>1. pc[r] = "drive"
        BY DEF CallStep, PrepareNode, CheckLatest, CompleteUpload, NoteBefore,
           RevertVersion, NoteAfter, ResolveVersion, At
      <4> QED  BY <4>1 DEF IInv, WritesInv
    <3>4. Count(r) = 0
      BY <3>1, <3>2, <3>3 DEF FacadeInv, OwnInv, OwnNode
    <3> QED  BY <2>3, <3>4
  <2> QED  BY <2>2, <2>3, <2>4, <2>5
<1> QED  BY <1>2, <1>3

-----------------------------------------------------------------------------
\* A call's step adds to the file of its own node only, and never to up twice.
LEMMA CallStores ==
    ASSUME IInv, FacadeInv, NEW r \in Requests, CallStep(r)
    PROVE  /\ \A n \in Nodes \ {node[r]} : files'[n] = files[n]
           /\ \A q \in Requests : up[q] <= up'[q]
<1>1. DriveTypes /\ CallOf(r)
  BY DEF FacadeInv, CallsInv
<1>2. CASE files' = files /\ up' = up
  BY <1>1, <1>2 DEF DriveTypes
<1>3. ASSUME NEW s \in Items, Stored(r, s), step[r] # "enter"
      PROVE  /\ \A n \in Nodes \ {node[r]} : files'[n] = files[n]
             /\ \A q \in Requests : up[q] <= up'[q]
  <2>1. /\ \A n \in Nodes \ {node[r]} : files'[n] = files[n]
        /\ up' = [up EXCEPT ![r] = Count(r) + 1]
    BY <1>1, <1>3, CallNode, Stores
  <2>2. up[r] <= Count(r) /\ Count(r) \in Nat
    BY <1>1, <1>3, CallNode DEF CallOf
  <2> QED  BY <1>1, <2>1, <2>2 DEF DriveTypes
<1>4. CASE CompleteUpload(r)
  <2>1. [type |-> WantedMeta(r).type, body |-> call[r].body] \in Items
    BY <1>4, UploadedItem DEF CompleteUpload
  <2> QED  BY <1>3, <1>4, <2>1 DEF CompleteUpload, At
<1>5. CASE RevertVersion(r)
  <2>1. At(r, "revert") /\ step[r] # "enter"
    BY <1>5 DEF RevertVersion, At
  <2>2. PICK k \in 1..Len(files[node[r]]) :
          Stored(r, files[node[r]][k]) \/ UNCHANGED driveVars
    BY <1>5 DEF RevertVersion
  <2>3. files[node[r]][k] \in Items
    BY <2>1, RestoredItem
  <2> QED  BY <1>2, <1>3, <2>1, <2>2, <2>3 DEF driveVars
<1>6. CASE ~CompleteUpload(r) /\ ~RevertVersion(r)
  BY <1>2, <1>6 DEF CallStep, PrepareNode, CheckLatest, NoteBefore, NoteAfter, ResolveVersion,
     driveVars
<1> QED  BY <1>4, <1>5, <1>6

\* A call comes to a node that no creator has for itself.
LEMMA NodesStayOwn ==
    ASSUME IInv, FacadeInv, NEW r \in Requests, CallStep(r),
           NEW q \in Requests \ {r}, step[q] # "enter", call[q].op = "create", q \notin applied
    PROVE  node'[r] # node[q]
<1>1. /\ row # None => row.node # node[q]
      /\ node[r] # node[q]
  BY DEF FacadeInv, OwnInv, OwnNode
<1>2. DriveTypes
  BY DEF FacadeInv
<1>3. CASE PrepareNode(r)
  BY <1>2, <1>3 DEF PrepareNode, DriveTypes
<1>4. CASE CheckLatest(r) \/ ResolveVersion(r)
  <2>1. pc[r] = "drive" /\ call[r].op # "create" /\ node'[r] = base[r].node
    BY <1>2, <1>4 DEF CheckLatest, ResolveVersion, At, IsAdvance, DriveTypes
  <2>2. base[r].node = row.node /\ row # None
    BY <2>1 DEF IInv, HandlerInv, ReadsInv
  <2> QED  BY <1>1, <2>1, <2>2
<1>5. CASE CompleteUpload(r) \/ NoteBefore(r) \/ RevertVersion(r) \/ NoteAfter(r)
  BY <1>1, <1>5 DEF CompleteUpload, NoteBefore, RevertVersion, NoteAfter
<1> QED  BY <1>3, <1>4, <1>5 DEF CallStep

LEMMA OwnStep ==
    ASSUME IInv, FacadeInv, NEW r \in Requests, CallStep(r), UNCHANGED vars
    PROVE  OwnInv'
<1> SUFFICES ASSUME NEW q \in Requests, step'[q] # "enter", call[q].op = "create"
             PROVE  OwnNode(q)'
  BY DEF OwnInv, vars, handlerVars
<1>1. DriveTypes /\ DriveTypes' /\ Grown /\ CallOf(r)
  BY DriveTypesStep DEF FacadeInv, CallsInv
<1>2. call' = call /\ applied' = applied /\ row' = row
  BY DEF vars, pageVars, handlerVars, historyVars
<1>3. CASE q = r /\ PrepareNode(r)
  <2>1. PICK n \in Nodes : /\ files[n] = <<>>
                           /\ \A p \in Requests : node[p] # n
                           /\ node' = [node EXCEPT ![r] = n]
    BY <1>3 DEF PrepareNode
  <2>2. files' = files /\ up' = up /\ step[r] = "enter" /\ step'[r] = "complete"
    BY <1>1, <1>3 DEF PrepareNode, driveVars, At, Advance, DriveTypes
  <2>3. up[r] = 0 /\ node'[r] = n /\ \A p \in Requests \ {r} : node'[p] = node[p]
    BY <1>1, <2>1, <2>2 DEF CallOf, DriveTypes
  <2>4. row # None => row.node # n
    BY <2>1 DEF FacadeInv, PointerIsInDrive
  <2>5. Count(r)' = 0
    BY <2>1, <2>2, <2>3 DEF Count
  <2> QED  BY <1>2, <1>3, <2>1, <2>2, <2>3, <2>4, <2>5 DEF OwnNode
<1>4. CASE q = r /\ CompleteUpload(r)
  <2>1. /\ step[r] = "complete" /\ pc[r] = "drive" /\ node' = node /\ node[r] \in Nodes
        /\ Stored(r, [type |-> WantedMeta(r).type, body |-> call[r].body])
    BY <1>4, CallNode DEF CompleteUpload, At
  <2>2. r \notin applied /\ up[r] = 0
    BY <1>1, <2>1 DEF IInv, WritesInv, CallOf
  <2>3. /\ Count(r) = 0
        /\ row # None => row.node # node[r]
        /\ \A p \in Requests \ {r} : node[p] # node[r]
    BY <1>4, <2>1, <2>2 DEF FacadeInv, OwnInv, OwnNode
  <2>4. [type |-> WantedMeta(r).type, body |-> call[r].body] \in Items
    BY <1>4, UploadedItem DEF CompleteUpload
  <2>5. /\ Len(files'[node[r]]) = Count(r) + 1 /\ up' = [up EXCEPT ![r] = Count(r) + 1]
        /\ files'[node[r]][Count(r) + 1]
             = [type |-> WantedMeta(r).type, body |-> call[r].body]
    BY <1>1, <2>1, <2>4, Stores
  <2>6. /\ Len(files'[node[r]]) = 1 /\ up'[r] = 1
        /\ files'[node[r]][1] = [type |-> WantedMeta(r).type, body |-> call[r].body]
    BY <1>1, <2>3, <2>5 DEF DriveTypes
  <2> QED  BY <1>2, <1>4, <2>1, <2>3, <2>6 DEF OwnNode, Count
<1>5. CASE q = r /\ ~PrepareNode(r) /\ ~CompleteUpload(r)
  <2>1. call[r].op # "create"
    BY <1>1, <1>5 DEF CallStep, CheckLatest, NoteBefore, RevertVersion, NoteAfter,
       ResolveVersion, At, IsAdvance, CallOf
  <2> QED  BY <1>5, <2>1
<1>6. CASE q # r
  <2>1. step'[q] = step[q] /\ node'[q] = node[q] /\ up'[q] = up[q]
    BY <1>1, <1>6, CallMoves
  <2>2. OwnNode(q) /\ node[q] \in Nodes
    BY <2>1, CallNode DEF FacadeInv, OwnInv
  <2>3. up[q] = 1 => Count(q)' >= 1 /\ files'[node[q]][1] = files[node[q]][1]
    <3>1. /\ Count(q) = Len(files[node[q]]) /\ Count(q)' = Len(files'[node[q]])
          /\ Count(q) \in Nat /\ Count(q)' \in Nat
      BY <1>1, <2>1, <2>2 DEF Count, DriveTypes
    <3>2. Count(q) <= Count(q)' /\ \A k \in 1..Count(q) : files'[node[q]][k] = files[node[q]][k]
      BY <1>1, <2>2, <3>1 DEF Grown
    <3> QED  BY <2>2, <3>1, <3>2 DEF OwnNode
  <2>4. ASSUME q \notin applied
        PROVE  /\ Count(q)' = Count(q)
               /\ \A p \in Requests \ {q} : node'[p] # node[q]
    <3>1. node[r] # node[q]
      BY <1>6, <2>2, <2>4 DEF OwnNode
    <3>2. files'[node[q]] = files[node[q]]
      BY <2>2, <3>1, CallStores
    <3>3. node'[r] # node[q]
      BY <1>6, <2>1, <2>4, NodesStayOwn
    <3>4. \A p \in Requests \ {q, r} : node'[p] = node[p] /\ node[p] # node[q]
      BY <1>1, <2>2, <2>4, CallMoves DEF OwnNode
    <3> QED  BY <2>1, <3>2, <3>3, <3>4 DEF Count
  <2> QED  BY <1>2, <2>1, <2>2, <2>3, <2>4 DEF OwnNode
<1> QED  BY <1>3, <1>4, <1>5, <1>6

-----------------------------------------------------------------------------
LEMMA OwnStays ==
    ASSUME IInv, FacadeInv, DriveStays, [Next]_vars
    PROVE  OwnInv'
<1> SUFFICES ASSUME NEW q \in Requests, step'[q] # "enter", call'[q].op = "create"
             PROVE  OwnNode(q)'
  BY DEF OwnInv
<1>1. UNCHANGED <<files, up, step, node, no>>
  BY DEF DriveStays, driveVars, portVars
<1>2. call'[q] = call[q] /\ applied \subseteq applied'
  BY <1>1, HandlersKeep DEF FacadeInv, CallsInv, CallOf
<1>3. OwnNode(q)
  BY <1>1, <1>2 DEF FacadeInv, OwnInv
<1>4. ASSUME q \notin applied' PROVE row' # None => row'.node # node[q]
  <2>1. CASE row' = row
    BY <1>2, <1>3, <1>4, <2>1 DEF OwnNode
  <2>2. ASSUME NEW p \in Requests, snap[p] # None, row' = RowOf(snap[p]),
               applied' = applied \union {p}
        PROVE  row'.node # node[q]
    <3>1. row'.node = node[p] /\ p # q
      BY <1>4, <2>2 DEF FacadeInv, SnapsInv, SnapOf, RowOf
    <3> QED  BY <1>2, <1>3, <1>4, <3>1 DEF OwnNode
  <2> QED  BY <2>1, <2>2, RowMoves DEF RowKept, RowTaken
<1>5. Count(q)' = Count(q)
  BY <1>1 DEF Count
<1> QED  BY <1>1, <1>2, <1>3, <1>4, <1>5 DEF OwnNode

-----------------------------------------------------------------------------
LEMMA BaseNumber ==
    ASSUME IInv, NEW r \in Requests, base[r] # None
    PROVE  base[r] \in Row /\ BaseNo(r) \in Nat
BY VersionNoAssumption DEF IInv, TypeOK, Row, BaseNo

\* A snapshot that is kept stays where it is in Drive.
LEMMA SnapStays ==
    ASSUME IInv, DriveTypes, DriveTypes', Grown, NEW q \in Requests, SnapOf(q), node[q] \in Nodes,
           step'[q] = step[q], node'[q] = node[q], snap'[q] = snap[q], call'[q] = call[q],
           \A p \in Requests : base[p] # None => base'[p] = base[p],
           \A p \in Requests : up[p] <= up'[p]
    PROVE  SnapOf(q)'
<1>1. /\ Count(q) \in Nat /\ Count(q)' \in Nat /\ Count(q) <= Count(q)'
      /\ \A k \in 1..Count(q) : files'[node[q]][k] = files[node[q]][k]
  <2>1. Count(q) = Len(files[node[q]]) /\ Count(q)' = Len(files'[node[q]])
    BY DEF Count
  <2>2. files[node[q]] \in Seq(Items) /\ files'[node[q]] \in Seq(Items)
    BY DEF DriveTypes
  <2> QED  BY <2>1, <2>2 DEF Grown
<1>2. snap[q].node = node[q] /\ VersionNo[snap[q].id] \in 1..Count(q)
  BY DEF SnapOf
<1>3. VersionNo[snap[q].id] \in 1..Count(q)' /\ InDrive(q)' = InDrive(q)
  <2>1. VersionNo[snap[q].id] \in 1..Count(q)'
    BY <1>1, <1>2
  <2>2. files'[node[q]][VersionNo[snap[q].id]] = files[node[q]][VersionNo[snap[q].id]]
    BY <1>1, <1>2
  <2> QED  BY <1>2, <2>1, <2>2 DEF InDrive
<1>4. Mixed(q) => Mixed(q)'
  <2> SUFFICES ASSUME Mixed(q) PROVE Mixed(q)'
    OBVIOUS
  <2>1. PICK p \in Requests \ {q} : base[p] # None /\ up[p] > BaseNo(q)
    BY DEF Mixed
  <2>2. base[q] # None /\ base'[q] = base[q] /\ BaseNo(q)' = BaseNo(q) /\ BaseNo(q) \in Nat
    BY BaseNumber DEF Mixed, BaseNo
  <2>3. up'[p] > BaseNo(q)
    BY <2>1, <2>2 DEF DriveTypes
  <2> QED  BY <2>1, <2>2, <2>3 DEF Mixed
<1>5. ASSUME call[q].op = "read"
      PROVE  \E k \in VersionNo[snap[q].id]..Count(q)' : files'[node[q]][k].body = snap[q].body
  <2>1. PICK k \in VersionNo[snap[q].id]..Count(q) : files[node[q]][k].body = snap[q].body
    BY <1>5 DEF SnapOf
  <2>2. k \in 1..Count(q) /\ k \in VersionNo[snap[q].id]..Count(q)'
    BY <1>1, <1>2
  <2> QED  BY <1>1, <2>1, <2>2
<1>6. call[q].op # "read" => InDrive(q) = snap[q].body \/ Mixed(q)
  BY DEF SnapOf
<1> QED  BY <1>2, <1>3, <1>4, <1>5, <1>6 DEF SnapOf

LEMMA SnapsStep ==
    ASSUME IInv, FacadeInv, NEW r \in Requests, CallStep(r), UNCHANGED vars
    PROVE  SnapsInv' /\ PointerIsInDrive'
<1>1. DriveTypes /\ DriveTypes' /\ Grown /\ SnapsInv
  BY DriveTypesStep DEF FacadeInv
<1>2. /\ pc' = pc /\ call' = call /\ base' = base /\ snap' = snap /\ row' = row
  BY DEF vars, pageVars, handlerVars
<1>3. pc[r] = "drive" /\ snap[r] = None
  <2>1. pc[r] = "drive"
    BY DEF CallStep, PrepareNode, CheckLatest, CompleteUpload, NoteBefore, RevertVersion,
           NoteAfter, ResolveVersion, At
  <2> QED  BY <1>1, <2>1 DEF SnapsInv
<1>4. ASSUME NEW q \in Requests, snap[q] # None PROVE SnapOf(q)'
  <2>1. q # r
    BY <1>3, <1>4
  <2>2. step'[q] = step[q] /\ node'[q] = node[q]
    BY <1>1, <2>1, CallMoves
  <2>3. SnapOf(q) /\ node[q] \in Nodes
    BY <1>1, <1>4, CallNode DEF SnapsInv, SnapOf
  <2> QED  BY <1>1, <1>2, <2>2, <2>3, CallStores, SnapStays
<1>5. SnapsInv'
  BY <1>1, <1>2, <1>4 DEF SnapsInv
<1>6. PointerIsInDrive'
  <2> SUFFICES ASSUME row # None
               PROVE  row.id[1] = row.node /\ VersionNo[row.id] \in DOMAIN files'[row.node]
    BY <1>2 DEF PointerIsInDrive
  <2>1. row.node \in Nodes
    BY DEF IInv, TypeOK, Row
  <2>2. row.id[1] = row.node /\ VersionNo[row.id] \in 1..Len(files[row.node])
    BY <1>1, <2>1 DEF FacadeInv, PointerIsInDrive, DriveTypes
  <2>3. Len(files[row.node]) <= Len(files'[row.node])
    BY <1>1, <2>1 DEF Grown
  <2> QED  BY <1>1, <2>1, <2>2, <2>3 DEF DriveTypes
<1> QED  BY <1>5, <1>6

\* What is answered when an upload is done is the version uploaded, or a
\* version another writer has made since.
LEMMA UploadIsThere ==
    ASSUME IInv, FacadeInv, NEW r \in Requests, AnswerUpload(r)
    PROVE  files[node[r]][Count(r)].body = call[r].body \/ Mixed(r)
<1>1. pc[r] = "drive" /\ step[r] = "list"
  BY DEF AnswerUpload, At
<1>2. /\ call[r].op \in {"create", "update"}
      /\ up[r] >= 1 /\ (call[r].op = "update" => up[r] > BaseNo(r)) /\ up[r] <= Count(r)
      /\ files[node[r]][up[r]].body = call[r].body
      /\ node[r] \in Nodes /\ Count(r) \in Nat /\ up[r] \in Nat
  BY <1>1, CallNode DEF FacadeInv, CallsInv, CallOf, DriveTypes
<1>3. CASE call[r].op = "create"
  <2>1. r \notin applied
    BY <1>1 DEF IInv, WritesInv
  <2>2. Count(r) = up[r]
    BY <1>1, <1>3, <2>1 DEF FacadeInv, OwnInv, OwnNode
  <2> QED  BY <1>2, <2>2
<1>4. CASE call[r].op = "update" /\ Count(r) # up[r]
  <2>1. base[r] # None /\ BaseNo(r) \in Nat
    BY <1>1, <1>4, BaseNumber DEF IInv, HandlerInv
  <2>2. Count(r) \in 2..Len(files[node[r]])
    BY <1>2, <1>4 DEF Count
  <2>3. PICK q \in Requests : node[q] = node[r] /\ up[q] = Count(r) /\ call[q].op # "create"
    BY <1>2, <2>2 DEF FacadeInv, MakersInv
  <2>4. q # r /\ up[q] > BaseNo(r) /\ up[q] # 0
    BY <1>2, <1>4, <2>1, <2>2, <2>3
  <2>5. base[q] # None
    BY <2>3, <2>4, NoneAssumption DEF FacadeInv, CallsInv, CallOf
  <2> QED  BY <2>1, <2>4, <2>5 DEF Mixed
<1> QED  BY <1>2, <1>3, <1>4

\* What is answered when a restore is done likewise.
LEMMA RestoredIsThere ==
    ASSUME IInv, FacadeInv, NEW r \in Requests, Download(r), call[r].op = "restore"
    PROVE  files[node[r]][no[r]].body = DownloadedBody(node[r]) \/ Mixed(r)
<1>1. pc[r] = "drive" /\ step[r] = "download"
  BY DEF Download, At
<1>2. /\ no[r] \in 1..Count(r) /\ BaseNo(r) < no[r] /\ up[r] <= no[r]
      /\ node[r] \in Nodes /\ Count(r) \in Nat /\ up[r] \in Nat
  BY <1>1, CallNode DEF FacadeInv, CallsInv, CallOf, DriveTypes
<1>3. base[r] # None /\ BaseNo(r) \in Nat
  BY <1>1, BaseNumber DEF IInv, HandlerInv
<1>4. CASE no[r] = Count(r)
  BY <1>1, <1>4, DownloadIsSnapshot
<1>5. CASE no[r] # Count(r)
  <2>1. Count(r) \in 2..Len(files[node[r]])
    BY <1>2, <1>5 DEF Count
  <2>2. PICK q \in Requests : node[q] = node[r] /\ up[q] = Count(r) /\ call[q].op # "create"
    BY <1>2, <2>1 DEF FacadeInv, MakersInv
  <2>3. q # r /\ up[q] > BaseNo(r) /\ up[q] # 0
    BY <1>2, <1>3, <1>5, <2>1, <2>2
  <2>4. base[q] # None
    BY <2>2, <2>3, NoneAssumption DEF FacadeInv, CallsInv, CallOf
  <2> QED  BY <1>3, <2>3, <2>4 DEF Mixed
<1> QED  BY <1>4, <1>5

\* The snapshot a call answers with, while the rest stays as it is.
LEMMA AnswerIsThere ==
    ASSUME IInv, FacadeInv, DriveStays, [Next]_vars, NEW r \in Requests,
           AnswerUpload(r) \/ Download(r), snap'[r] # None, snap'[r] # snap[r]
    PROVE  SnapOf(r)'
<1>1. UNCHANGED <<files, up, step, node, no>>
  BY DEF DriveStays, driveVars, portVars
<1>2. call' = call /\ base' = base
  BY DEF AnswerUpload, Download, DriveAnswer
<1>3. Count(r)' = Count(r) /\ (Mixed(r) => Mixed(r)')
  BY <1>1, <1>2 DEF Count, Mixed, BaseNo
<1>4. CASE AnswerUpload(r)
  <2>1. /\ step[r] = "list" /\ call[r].op \in {"create", "update"}
        /\ node[r] \in Nodes /\ Count(r) \in 1..MaxVersion /\ LatestNo(node[r]) = Count(r)
    BY <1>4, UploadIsSnapshot, CallNode DEF AnswerUpload, At, FacadeInv, CallsInv, CallOf
  <2>2. snap'[r] = [node |-> node[r], id |-> <<node[r], Count(r)>>,
                    meta |-> WantedMeta(r), body |-> call[r].body]
    BY <1>4, <2>1 DEF AnswerUpload, DriveAnswer, IInv, TypeOK
  <2>3. VersionNo[snap'[r].id] = Count(r)
    BY <2>1, <2>2, Numbers
  <2>4. files[node[r]][Count(r)].body = call[r].body \/ Mixed(r)
    BY <1>4, UploadIsThere
  <2>5. InDrive(r)' = files[node[r]][Count(r)].body
    BY <1>1, <2>2, <2>3 DEF InDrive
  <2> QED  BY <1>1, <1>2, <1>3, <2>1, <2>2, <2>3, <2>4, <2>5 DEF SnapOf
<1>5. CASE Download(r)
  <2>1. /\ step[r] = "download" /\ call[r].op \in {"read", "restore"}
        /\ node[r] \in Nodes /\ Count(r) \in 1..MaxVersion
        /\ no[r] \in 1..MaxVersion /\ no[r] <= Count(r)
        /\ DownloadedBody(node[r]) = files[node[r]][Count(r)].body
    BY <1>5, DownloadIsSnapshot, CallNode DEF Download, At, FacadeInv, CallsInv, CallOf
  <2>2. snap'[r] = [node |-> node[r], id |-> <<node[r], no[r]>>,
                    meta |-> SnapshotMeta(r), body |-> DownloadedBody(node[r])]
    BY <1>5 DEF Download, DriveAnswer, IInv, TypeOK
  <2>3. VersionNo[snap'[r].id] = no[r] /\ no[r] \in 1..Count(r) /\ Count(r) \in no[r]..Count(r)
    BY <2>1, <2>2, Numbers
  <2>4. InDrive(r)' = files[node[r]][no[r]].body
    BY <1>1, <2>2, <2>3 DEF InDrive
  <2>5. call[r].op = "restore" =>
          files[node[r]][no[r]].body = DownloadedBody(node[r]) \/ Mixed(r)
    BY <1>5, RestoredIsThere
  <2>6. call[r].op = "read" =>
          \E k \in VersionNo[snap'[r].id]..Count(r) : files[node[r]][k].body = snap'[r].body
    BY <2>1, <2>2, <2>3
  <2>7. /\ snap'[r].node = node[r] /\ snap'[r].id = <<node[r], VersionNo[snap'[r].id]>>
        /\ VersionNo[snap'[r].id] \in 1..Count(r)
        /\ call[r].op # "read" => InDrive(r)' = snap'[r].body \/ Mixed(r)'
    BY <1>3, <2>1, <2>2, <2>3, <2>4, <2>5
  <2> QED  BY <1>1, <1>2, <1>3, <2>1, <2>6, <2>7 DEF SnapOf
<1> QED  BY <1>4, <1>5

LEMMA SnapsStay ==
    ASSUME IInv, FacadeInv, DriveStays, [Next]_vars, [FacadeNext]_facadeVars
    PROVE  SnapsInv' /\ PointerIsInDrive'
<1>1. UNCHANGED <<files, up, step, node, no>>
  BY DEF DriveStays, driveVars, portVars
<1>2. DriveTypes /\ DriveTypes' /\ Grown /\ SnapsInv
  BY <1>1, SameFiles DEF FacadeInv, DriveTypes
<1>3. ASSUME NEW q \in Requests, snap'[q] # snap[q] PROVE AnswerUpload(q) \/ Download(q)
  <2>1. ASSUME NEW r \in Requests, ServiceStep(r) PROVE snap' = snap
    BY <2>1 DEF ServiceStep, Arrive, Refuse, ReserveId, LookupPage, FindPage, InsertPage,
       UpdateDriveSnapshot, DeletePage, ReloadPage, WriteProjection, DbFailure, Abandon
  <2>2. ASSUME NEW r \in Requests, CallStep(r) PROVE snap' = snap
    BY <2>2 DEF CallStep, PrepareNode, CheckLatest, CompleteUpload, NoteBefore, RevertVersion,
       NoteAfter, ResolveVersion, Advance, vars, handlerVars
  <2>3. ASSUME NEW r \in Requests, AnswerUpload(r) \/ Download(r)
        PROVE  \A p \in Requests \ {r} : snap'[p] = snap[p]
    BY <2>3 DEF AnswerUpload, Download, DriveAnswer, IInv, TypeOK
  <2>4. Restart \/ UNCHANGED facadeVars => snap' = snap
    BY DEF Restart, DropHandlers, facadeVars, vars, handlerVars
  <2>5. ASSUME NEW r \in Requests, FacadeError(r) PROVE snap' = snap
    BY <2>5 DEF FacadeError, DriveError
  <2> QED  BY <1>3, <2>1, <2>2, <2>3, <2>4, <2>5 DEF FacadeNext, CallStep
<1>4. ASSUME NEW q \in Requests, snap'[q] # None PROVE SnapOf(q)'
  <2>1. CASE snap'[q] = snap[q]
    <3>1. SnapOf(q) /\ pc[q] \notin Early /\ node[q] \in Nodes
      BY <1>2, <1>4, <2>1, CallNode DEF SnapsInv, SnapOf
    <3>2. call'[q] = call[q] /\ \A p \in Requests : base[p] # None => base'[p] = base[p]
      BY <3>1, HandlersKeep
    <3>3. \A p \in Requests : up[p] <= up'[p]
      BY <1>1, <1>2 DEF DriveTypes
    <3> QED  BY <1>1, <1>2, <2>1, <3>1, <3>2, <3>3, SnapStays
  <2>2. CASE snap'[q] # snap[q]
    BY <1>3, <1>4, <2>2, AnswerIsThere
  <2> QED  BY <2>1, <2>2
<1>5. SnapsInv'
  BY <1>2, <1>4, SnapsMove DEF SnapsInv
<1>6. PointerIsInDrive'
  <2>1. CASE row' = row
    BY <1>1, <2>1 DEF FacadeInv, PointerIsInDrive
  <2>2. ASSUME NEW p \in Requests, snap[p] # None, row' = RowOf(snap[p]) PROVE PointerIsInDrive'
    <3>1. /\ row'.node = node[p] /\ row'.id = <<node[p], VersionNo[row'.id]>>
          /\ VersionNo[row'.id] \in 1..Count(p)
      BY <1>2, <2>2 DEF SnapsInv, SnapOf, RowOf
    <3>2. node[p] \in Nodes
      BY <1>2, <2>2, CallNode DEF SnapsInv, SnapOf
    <3>3. row'.id[1] = node[p]
      BY <3>1
    <3>4. DOMAIN files'[node[p]] = 1..Count(p)
      BY <1>1, <1>2, <3>2 DEF DriveTypes, Count
    <3> QED  BY <3>1, <3>3, <3>4 DEF PointerIsInDrive
  <2> QED  BY <2>1, <2>2, RowMoves DEF RowKept, RowTaken
<1> QED  BY <1>5, <1>6

-----------------------------------------------------------------------------
\* What is committed is kept, with the race that excuses it.
LEMMA CommitStays ==
    ASSUME IInv, DriveTypes, DriveTypes', Grown, NEW r \in Requests, SnapOf(r), node[r] \in Nodes,
           snap'[r] = snap[r], call'[r] = call[r],
           \A p \in Requests : base[p] # None => base'[p] = base[p],
           \A p \in Requests : up[p] <= up'[p]
    PROVE  /\ InDrive(r)' = InDrive(r)
           /\ Raced(r) => Raced(r)'
<1>1. snap[r].node = node[r] /\ VersionNo[snap[r].id] \in 1..Len(files[node[r]])
  BY DEF SnapOf, Count
<1>2. files'[node[r]][VersionNo[snap[r].id]] = files[node[r]][VersionNo[snap[r].id]]
  BY <1>1 DEF Grown
<1>3. InDrive(r)' = InDrive(r)
  BY <1>1, <1>2 DEF InDrive
<1>4. ASSUME Raced(r) PROVE Raced(r)'
  <2>1. PICK q \in Requests \ {r} : /\ base[q] # None /\ base[r] # None
                                    /\ up[q] > VersionNo[base[r].id]
                                    /\ VersionNo[base[q].id] <= VersionNo[base[r].id]
    BY <1>4 DEF Raced
  <2>2. VersionNo[base[r].id] \in Nat
    BY <2>1, BaseNumber DEF BaseNo
  <2>3. up'[q] > VersionNo[base[r].id]
    BY <2>1, <2>2 DEF DriveTypes
  <2>4. base'[q] = base[q] /\ base'[r] = base[r]
    BY <2>1
  <2> QED  BY <2>1, <2>3, <2>4 DEF Raced
<1> QED  BY <1>3, <1>4

\* A request that has committed holds the snapshot it committed.
LEMMA CommittedSnap ==
    ASSUME IInv, FacadeInv, NEW r \in applied, call[r].op # "delete"
    PROVE  /\ r \in Requests /\ pc[r] \in {"reload", "project", "done"}
           /\ snap[r] # None /\ SnapOf(r) /\ node[r] \in Nodes
<1>1. r \in Requests /\ snap[r] # None /\ pc[r] \in {"reload", "project", "done"}
  BY DEF IInv, TypeOK, WritesInv
<1> QED  BY <1>1, CallNode DEF FacadeInv, SnapsInv, SnapOf

\* A commit whose version another writer got in between was raced: the row
\* was still where the request had read it, and nobody had read a later one.
LEMMA CommitIsRaced ==
    ASSUME IInv, FacadeInv, NEW p \in Requests, pc[p] = "persist", call[p].op # "delete",
           snap[p] # None, IsAdvance(p) => row # None /\ row.id = base[p].id
    PROVE  InDrive(p) = snap[p].body \/ Raced(p)
<1>1. call[p].op # "read" /\ (InDrive(p) = snap[p].body \/ Mixed(p))
  BY DEF IInv, HandlerInv, FacadeInv, SnapsInv, SnapOf
<1>2. ASSUME Mixed(p) PROVE Raced(p)
  <2>1. PICK q \in Requests \ {p} : base[q] # None /\ up[q] > BaseNo(p)
    BY <1>2 DEF Mixed
  <2>2. base[p] # None
    BY <1>2 DEF Mixed
  <2>3. IsAdvance(p)
    <3>1. call[p] # None /\ call[p].op # "create"
      BY <2>2 DEF IInv, HandlerInv
    <3>2. call[p].op \in Ops
      BY <3>1, CallsAssumption DEF IInv, TypeOK, Call
    <3> QED  BY <1>1, <3>1, <3>2 DEF Ops, IsAdvance
  <2>4. VersionNo[base[q].id] <= VersionNo[base[p].id]
    BY <2>1, <2>3 DEF IInv, ReadsInv
  <2> QED  BY <2>1, <2>2, <2>4 DEF Raced, BaseNo
<1> QED  BY <1>1, <1>2

LEMMA CommitsStep ==
    ASSUME IInv, FacadeInv, NEW r \in Requests, CallStep(r), UNCHANGED vars
    PROVE  CommittedUnlessRaced'
<1>1. /\ call' = call /\ base' = base /\ snap' = snap /\ applied' = applied
  BY DEF vars, handlerVars, historyVars
<1>2. DriveTypes /\ DriveTypes' /\ Grown
  BY DriveTypesStep DEF FacadeInv
<1> SUFFICES ASSUME NEW q \in applied, call[q].op # "delete"
             PROVE  InDrive(q)' = snap[q].body \/ Raced(q)'
  BY <1>1 DEF CommittedUnlessRaced
<1>3. InDrive(q) = snap[q].body \/ Raced(q)
  BY DEF FacadeInv, CommittedUnlessRaced
<1>4. InDrive(q)' = InDrive(q) /\ (Raced(q) => Raced(q)')
  BY <1>1, <1>2, CommittedSnap, CallStores, CommitStays
<1> QED  BY <1>3, <1>4

LEMMA CommitsStay ==
    ASSUME IInv, FacadeInv, DriveStays, [Next]_vars
    PROVE  CommittedUnlessRaced'
<1>1. UNCHANGED <<files, up, step, node, no>>
  BY DEF DriveStays, driveVars, portVars
<1>2. DriveTypes /\ DriveTypes' /\ Grown /\ \A p \in Requests : up[p] <= up'[p]
  BY <1>1, SameFiles DEF FacadeInv, DriveTypes
<1> SUFFICES ASSUME NEW q \in applied', call'[q].op # "delete"
             PROVE  InDrive(q)' = snap'[q].body \/ Raced(q)'
  BY DEF CommittedUnlessRaced
<1>3. ASSUME q \in Requests, pc[q] \in {"persist", "reload", "project", "done"},
             snap[q] # None, InDrive(q) = snap[q].body \/ Raced(q)
      PROVE  InDrive(q)' = snap'[q].body \/ Raced(q)'
  <2>1. /\ call'[q] = call[q] /\ snap'[q] = snap[q]
        /\ \A p \in Requests : base[p] # None => base'[p] = base[p]
    BY <1>3, HandlersKeep, SnapsMove DEF Early
  <2>2. SnapOf(q) /\ node[q] \in Nodes
    BY <1>3, CallNode DEF FacadeInv, SnapsInv, SnapOf
  <2>3. InDrive(q)' = InDrive(q) /\ (Raced(q) => Raced(q)')
    BY <1>2, <1>3, <2>1, <2>2, CommitStays
  <2> QED  BY <1>3, <2>1, <2>3
<1>4. CASE q \in applied
  <2>1. q \in Requests /\ pc[q] \in {"reload", "project", "done"}
    BY <1>4 DEF IInv, TypeOK, WritesInv
  <2>2. call[q].op # "delete"
    BY <2>1, HandlersKeep DEF Early
  <2>3. snap[q] # None /\ (InDrive(q) = snap[q].body \/ Raced(q))
    BY <1>4, <2>2, CommittedSnap DEF FacadeInv, CommittedUnlessRaced
  <2> QED  BY <1>3, <2>1, <2>3
<1>5. CASE q \notin applied
  <2>1. q \in Requests
    <3>1. TypeOK'
      BY StepInv DEF IInv
    <3> QED  BY <3>1 DEF TypeOK
  <2>2. ASSUME pc[q] = "persist", call[q].op = "delete" PROVE FALSE
    BY <2>1, <2>2, HandlersKeep DEF Early
  <2>3. ASSUME NEW p \in Requests, pc[p] = "persist", call[p].op # "delete", snap[p] # None,
               applied' = applied \union {p},
               IsAdvance(p) => row # None /\ row.id = base[p].id
        PROVE  InDrive(q)' = snap'[q].body \/ Raced(q)'
    <3>1. p = q
      BY <1>5, <2>3
    <3>2. InDrive(p) = snap[p].body \/ Raced(p)
      BY <2>3, CommitIsRaced
    <3> QED  BY <1>3, <2>3, <3>1, <3>2
  <2> QED  BY <1>5, <2>2, <2>3, RowMoves DEF RowKept, RowTaken
<1> QED  BY <1>4, <1>5

-----------------------------------------------------------------------------
LEMMA FacadeStepInv ==
    ASSUME IInv, FacadeInv, [FacadeNext]_facadeVars
    PROVE  IInv' /\ FacadeInv'
<1>1. [Next]_vars
  BY FacadeStepIsStep
<1>2. IInv'
  BY <1>1, StepInv
<1>3. CASE DriveStays
  BY <1>1, <1>2, <1>3, CallsStay, OwnStays, SnapsStay, CommitsStay DEF FacadeInv
<1>4. ASSUME NEW r \in Requests, CallStep(r), UNCHANGED vars PROVE FacadeInv'
  BY <1>4, DriveTypesStep, CallsStep, MakersStep, OwnStep, SnapsStep, CommitsStep DEF FacadeInv
<1> QED  BY <1>2, <1>3, <1>4, StepsAre

(***************************************************************************)
(* The invariant of the handlers and that of the adapter hold together, in *)
(* every behaviour over the production port.                               *)
(***************************************************************************)
THEOREM FacadeInductive == FacadeSpec => [](IInv /\ FacadeInv)
<1> QED  BY FacadeInitInv, FacadeStepInv, PTL DEF FacadeSpec

(***************************************************************************)
(* The Drive App SDK adapter is a port as PageContent allows: every        *)
(* behaviour over it is a behaviour over the open port, and every theorem  *)
(* of PageContentProofs holds of the service in production.                *)
(***************************************************************************)
THEOREM FacadeImplementsPort == FacadeSpec => Spec
<1>1. FacadeInit => Init
  BY DEF FacadeInit
<1>2. IInv /\ FacadeInv /\ [FacadeNext]_facadeVars => [Next]_vars
  BY FacadeStepIsStep
<1> QED  BY FacadeInductive, <1>1, <1>2, PTL DEF FacadeSpec, Spec

(***************************************************************************)
(* The variables of the handlers, of Drive and of the calls keep their     *)
(* types: what a call uploads or restores is always an item of Drive's.    *)
(***************************************************************************)
THEOREM FacadeTypes == FacadeSpec => []FacadeTypeOK
<1>1. IInv /\ FacadeInv => FacadeTypeOK
  BY DEF IInv, FacadeInv, DriveTypes, FacadeTypeOK, Items
<1> QED  BY FacadeInductive, <1>1, PTL

(***************************************************************************)
(* The row names a version Drive has, on the row's own node, however many  *)
(* requests race and wherever a call or a handler is given up.             *)
(***************************************************************************)
THEOREM PointerStaysInDrive == FacadeSpec => []PointerIsInDrive
<1>1. IInv /\ FacadeInv => PointerIsInDrive
  BY DEF FacadeInv
<1> QED  BY FacadeInductive, <1>1, PTL

(***************************************************************************)
(* A read's content is of the version it is labelled with or of a later    *)
(* one, although the download names no version (download_json_content).    *)
(***************************************************************************)
THEOREM ReadsAreNoOlder == FacadeSpec => []ReadsNoOlderContent
<1>1. IInv /\ FacadeInv => ReadsNoOlderContent
  <2> SUFFICES ASSUME IInv, FacadeInv, NEW r \in Requests, outcome[r] = "ok",
                      call[r].op = "read"
               PROVE  \E k \in VersionNo[snap[r].id]..Len(files[snap[r].node]) :
                        files[snap[r].node][k].body = snap[r].body
    BY DEF ReadsNoOlderContent
  <2>1. snap[r] # None
    BY DEF IInv, HandlerInv
  <2>2. SnapOf(r)
    BY <2>1 DEF FacadeInv, SnapsInv
  <2> QED  BY <2>2 DEF SnapOf, Count
<1> QED  BY FacadeInductive, <1>1, PTL

(***************************************************************************)
(* What a request committed is what Drive has under the version it         *)
(* committed, unless another writer that had read that version or an older *)
(* one made a version of the page in between: a lone writer is always      *)
(* answered with its own, whatever calls failed before.                    *)
(***************************************************************************)
THEOREM CommitsAreOwn == FacadeSpec => []CommittedUnlessRaced
<1>1. IInv /\ FacadeInv => CommittedUnlessRaced
  BY DEF FacadeInv
<1> QED  BY FacadeInductive, <1>1, PTL
=============================================================================
