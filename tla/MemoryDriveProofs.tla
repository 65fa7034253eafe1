------------------------- MODULE MemoryDriveProofs -------------------------
(***************************************************************************)
(* The in-memory port is one of the ports PageContent allows, so all that  *)
(* is proved there holds over it; its numbers stay ahead of the row for as *)
(* long as the process keeps what it stored; and what is in its two maps   *)
(* is what was committed, as long as the two stores may still agree.       *)
(***************************************************************************)
EXTENDS MemoryDrive, PageContentProofs

DriveTypes ==
    /\ records \in Snapshot \union {None}
    /\ versions \in Seq(Snapshot)
    /\ section \in [Requests -> {"enter", "number", "store", "push"}]
    /\ draft \in [Requests -> Snapshot \union {None}]
    /\ wrote \in SUBSET Requests
    /\ lost \in BOOLEAN

\* Some version has at least the number v.
Reached(v) == \E i \in DOMAIN versions : versions[i].id >= v

\* What a call has drafted is what its request asked for.
DraftsInv ==
    \A r \in Requests :
        /\ section[r] # "enter" => draft[r] \in Snapshot
        /\ pc[r] \in {"idle", "reserve", "lookup", "find"} => section[r] = "enter"
        /\ pc[r] = "drive" /\ section[r] = "push" => records # None
        /\ pc[r] = "drive" /\ section[r] = "number" => call[r].op = "restore"
        /\ pc[r] = "drive" /\ section[r] \in {"store", "push"} =>
             /\ call[r].op \in {"create", "update", "restore"}
             /\ call[r].op = "create" => draft[r].meta = call[r].meta
             /\ call[r].op = "update" => draft[r].meta = WantedMeta(r)
             /\ IsAdvance(r) /\ ~lost => draft[r].id > base[r].id

\* While nothing was lost, the versions reach every pointer.
AheadInv ==
    /\ versions # <<>> => records # None
    /\ ~lost => /\ row # None => Reached(row.id)
                /\ \A r \in Requests :
                     pc[r] = "persist" /\ call[r].op # "delete" => Reached(snap[r].id)

MemoryInv == DriveTypes /\ DraftsInv /\ AheadInv /\ RejectedOnlyAfterLoss
-----------------------------------------------------------------------------
LEMMA MemoryInitInv == MemoryInit => IInv /\ MemoryInv
<1> SUFFICES ASSUME MemoryInit PROVE IInv /\ MemoryInv
  OBVIOUS
<1> USE MemoryAssumption, VersionNoAssumption, NoneAssumption
<1>1. IInv
  BY InitInv DEF MemoryInit
<1>2. status = "active" => row \in Row /\ FirstSnapshot \in Snapshot /\ FirstSnapshot.id = row.id
  BY DEF MemoryInit, Init, FirstSnapshot, Snapshot, Row
<1>3. DriveTypes
  <2>1. versions \in Seq(Snapshot) /\ records \in Snapshot \union {None}
    <3>1. CASE records = None /\ versions = <<>>
      BY <3>1
    <3>2. CASE status = "active" /\ records = FirstSnapshot /\ versions = <<FirstSnapshot>>
      <4>1. <<FirstSnapshot>> \in Seq(Snapshot)
        BY <1>2, <3>2
      <4> QED  BY <1>2, <3>2, <4>1
    <3> QED  BY <3>1, <3>2, Zenon DEF MemoryInit
  <2>2. lost \in BOOLEAN
    BY Zenon DEF MemoryInit
  <2>3. /\ section \in [Requests -> {"enter", "number", "store", "push"}]
        /\ draft \in [Requests -> Snapshot \union {None}]
        /\ wrote \in SUBSET Requests
        BY DEF MemoryInit
  <2> QED  BY <2>1, <2>2, <2>3 DEF DriveTypes
<1>4. DraftsInv
  BY DEF MemoryInit, Init, DraftsInv
<1>5. AheadInv
  <2>1. CASE records = None /\ versions = <<>> /\ lost = (status = "active")
    BY <2>1 DEF MemoryInit, Init, AheadInv
  <2>2. CASE /\ status = "active" /\ records = FirstSnapshot
             /\ versions = <<FirstSnapshot>> /\ lost = FALSE
    <3>1. Reached(row.id)
      <4>1. 1 \in DOMAIN versions /\ versions[1] = FirstSnapshot
        BY <2>2
      <4> QED  BY <4>1, <1>2, <2>2 DEF Reached, Row
    <3> QED  BY <1>2, <2>2, <3>1 DEF MemoryInit, Init, AheadInv
  <2> QED  BY <2>1, <2>2 DEF MemoryInit
<1>6. RejectedOnlyAfterLoss
  BY DEF MemoryInit, Init, RejectedOnlyAfterLoss
<1> QED  BY <1>1, <1>3, <1>4, <1>5, <1>6 DEF MemoryInv

\* Every step of the adapter is a step the open port may take, or none.
LEMMA MemoryStepIsStep ==
  ASSUME IInv, MemoryInv, [MemoryNext]_memoryVars
  PROVE  [Next]_vars
<1> USE DEF MemoryInv, DriveTypes, DraftsInv
<1>1. ASSUME NEW r \in Requests, PushVersion(r) PROVE Next
  <2>1. draft[r] \in Snapshot /\ DriveAnswer(r, draft[r])
    BY <1>1 DEF PushVersion
  <2> QED  BY <2>1 DEF Next, PortStep
<1>2. ASSUME NEW r \in Requests, ReadRecord(r) PROVE Next
  <2>1. records \in Snapshot /\ DriveAnswer(r, records)
    BY <1>2 DEF ReadRecord
  <2> QED  BY <2>1 DEF Next, PortStep
<1>3. ASSUME NEW r \in Requests, NotFound(r) \/ ServiceStep(r) PROVE Next
  BY <1>3 DEF NotFound, Next, PortStep
<1>4. ASSUME NEW r \in Requests,
             \/ DraftCreated(r) \/ DraftUpdated(r) \/ FindSource(r) \/ DraftRestored(r)
             \/ StoreRecord(r)
      PROVE  UNCHANGED vars
  BY <1>4 DEF DraftCreated, DraftUpdated, FindSource, DraftRestored, StoreRecord, Draft
<1>5. CASE MemoryRestart
  <2>1. CASE \E r \in Requests : InFlight(r)
    BY <1>5, <2>1 DEF MemoryRestart, Restart, Next
  <2>2. CASE ~\E r \in Requests : InFlight(r)
    <3>1. pc' = pc /\ outcome' = outcome
      BY <1>5, <2>2 DEF MemoryRestart, DropHandlers, IInv, TypeOK
    <3> QED  BY <1>5, <3>1
             DEF MemoryRestart, DropHandlers, vars, pageVars, handlerVars, historyVars
  <2> QED  BY <2>1, <2>2
<1> QED  BY <1>1, <1>2, <1>3, <1>4, <1>5 DEF MemoryNext, memoryVars

LEMMA DriveTypesStep ==
  ASSUME IInv, MemoryInv, [MemoryNext]_memoryVars
  PROVE  DriveTypes'
<1> USE MemoryAssumption, VersionNoAssumption, CallsAssumption, NoneAssumption
    DEF MemoryInv, DriveTypes
<1>1. ASSUME NEW r \in Requests, NEW s \in Snapshot,
             NEW where \in {"enter", "number", "store", "push"}, Draft(r, s, where)
      PROVE  DriveTypes'
  BY <1>1 DEF Draft, driveVars
<1>2. ASSUME NEW r \in Requests, DraftCreated(r) PROVE DriveTypes'
  <2>1. PICK n \in Nodes : Draft(r, [node |-> n, id |-> 1, meta |-> call[r].meta,
                                    body |-> call[r].body], "store")
    BY <1>2 DEF DraftCreated
  <2>2. call[r] \in Calls /\ call[r].op = "create"
    BY <1>2 DEF DraftCreated, At, IInv, HandlerInv, TypeOK
  <2>3. [node |-> n, id |-> 1, meta |-> call[r].meta, body |-> call[r].body] \in Snapshot
    BY <2>2 DEF Snapshot, Call
  <2> QED  BY <1>1, <2>1, <2>3
<1>3. ASSUME NEW r \in Requests, DraftUpdated(r) PROVE DriveTypes'
  <2>1. PICK n \in VersionIds : Draft(r, [node |-> base[r].node, id |-> n,
                                meta |-> WantedMeta(r), body |-> call[r].body], "store")
    BY <1>3 DEF DraftUpdated
  <2>2. call[r] \in Calls /\ call[r].op = "update" /\ base[r] \in Row
    BY <1>3 DEF DraftUpdated, At, IInv, HandlerInv, TypeOK
  <2>3. [node |-> base[r].node, id |-> n, meta |-> WantedMeta(r), body |-> call[r].body]
          \in Snapshot
    BY <2>2 DEF Snapshot, Call, Row, WantedMeta
  <2> QED  BY <1>1, <2>1, <2>3
<1>4. ASSUME NEW r \in Requests, FindSource(r) PROVE DriveTypes'
  <2>1. PICK i \in DOMAIN versions : Draft(r, versions[i], "number")
    BY <1>4 DEF FindSource
  <2>2. versions[i] \in Snapshot
    BY <2>1
  <2> QED  BY <1>1, <2>1, <2>2
<1>5. ASSUME NEW r \in Requests, DraftRestored(r) PROVE DriveTypes'
  <2>1. PICK n \in VersionIds : Draft(r, [draft[r] EXCEPT !.id = n], "store")
    BY <1>5 DEF DraftRestored
  <2>2. draft[r] \in Snapshot
    BY <1>5 DEF DraftRestored, At, DraftsInv
  <2>3. [draft[r] EXCEPT !.id = n] \in Snapshot
    BY <2>2 DEF Snapshot
  <2> QED  BY <1>1, <2>1, <2>3
<1>6. ASSUME NEW r \in Requests, StoreRecord(r) PROVE DriveTypes'
  <2>1. draft[r] \in Snapshot
    BY <1>6 DEF StoreRecord, DraftsInv
  <2> QED  BY <1>6, <2>1 DEF StoreRecord
<1>7. ASSUME NEW r \in Requests, PushVersion(r) PROVE DriveTypes'
  <2>1. draft[r] \in Snapshot
    BY <1>7 DEF PushVersion, DraftsInv
  <2> QED  BY <1>7, <2>1 DEF PushVersion
<1>8. ASSUME NEW r \in Requests, ReadRecord(r) \/ NotFound(r)
      PROVE  UNCHANGED <<driveVars, portVars, wrote>>
  BY <1>8 DEF ReadRecord, NotFound
<1>9. CASE UNCHANGED <<driveVars, portVars, wrote>>
  BY <1>9 DEF driveVars, portVars
<1>10. CASE MemoryRestart
  BY <1>10 DEF MemoryRestart, portVars
<1> QED
  BY <1>2, <1>3, <1>4, <1>5, <1>6, <1>7, <1>8, <1>9, <1>10 DEF MemoryNext, memoryVars

\* A new number is beyond every number that was reached.
LEMMA NextIsBeyond ==
  ASSUME versions \in Seq(Snapshot), NEW v \in VersionIds, Reached(v),
         NEW n \in VersionIds, IsNext(n)
  PROVE  n > v
<1>1. PICK i \in DOMAIN versions : versions[i].id >= v
  BY DEF Reached
<1>2. versions[i].id < n
  BY DEF IsNext
<1>3. versions[i] \in Snapshot
  OBVIOUS
<1>4. versions[i].id \in VersionIds
  BY <1>3 DEF Snapshot
<1>5. versions[i].id \in Nat /\ v \in Nat /\ n \in Nat
  BY <1>4, MemoryAssumption
<1> QED  BY <1>1, <1>2, <1>5

\* The adapter's next number is beyond the row any handler has read.
LEMMA NextIsAhead ==
  ASSUME IInv, MemoryInv, ~lost, NEW r \in Requests, base[r] # None,
         NEW n \in VersionIds, IsNext(n)
  PROVE  n > base[r].id
<1>1. row \in Row /\ base[r] \in Row /\ VersionNo[base[r].id] <= VersionNo[row.id]
  BY DEF IInv, TypeOK, ReadsInv
<1>2. row.id \in VersionIds /\ base[r].id \in VersionIds
  BY <1>1 DEF Row
<1>3. base[r].id <= row.id
  BY <1>1, <1>2, MemoryAssumption
<1>4. Reached(row.id)
  BY <1>1, NoneAssumption DEF MemoryInv, AheadInv
<1>5. n > row.id
  BY <1>2, <1>4, NextIsBeyond DEF MemoryInv, DriveTypes
<1>6. n \in Nat /\ row.id \in Nat /\ base[r].id \in Nat
  BY <1>2, MemoryAssumption
<1> QED  BY <1>3, <1>5, <1>6

\* What the drafted snapshot of r must be for its request.
Suits(r, s) ==
    /\ call[r].op \in {"create", "update", "restore"}
    /\ call[r].op = "create" => s.meta = call[r].meta
    /\ call[r].op = "update" => s.meta = WantedMeta(r)
    /\ IsAdvance(r) /\ ~lost => s.id > base[r].id

LEMMA DraftKeeps ==
  ASSUME IInv, MemoryInv, NEW r \in Requests, NEW s \in Snapshot,
         NEW where \in {"number", "store"}, Draft(r, s, where), pc[r] = "drive",
         where = "number" => call[r].op = "restore",
         where = "store" => Suits(r, s)
  PROVE  DraftsInv'
<1>1. /\ draft' = [draft EXCEPT ![r] = s]
      /\ section' = [section EXCEPT ![r] = where]
      /\ UNCHANGED <<pc, call, base, records, lost>>
  BY DEF Draft, vars, handlerVars, driveVars
<1> SUFFICES ASSUME NEW q \in Requests
             PROVE  /\ section'[q] # "enter" => draft'[q] \in Snapshot
                    /\ pc[q] \in {"idle", "reserve", "lookup", "find"} => section'[q] = "enter"
                    /\ pc[q] = "drive" /\ section'[q] = "push" => records # None
                    /\ pc[q] = "drive" /\ section'[q] = "number" => call[q].op = "restore"
                    /\ pc[q] = "drive" /\ section'[q] \in {"store", "push"} =>
                         Suits(q, draft'[q])
  BY <1>1 DEF DraftsInv, Suits, IsAdvance, WantedMeta
<1>2. CASE q = r
  BY <1>1, <1>2 DEF MemoryInv, DriveTypes
<1>3. CASE q # r
  BY <1>1, <1>3 DEF MemoryInv, DriveTypes, DraftsInv, Suits
<1> QED  BY <1>2, <1>3

LEMMA DraftsStep ==
  ASSUME IInv, MemoryInv, [MemoryNext]_memoryVars
  PROVE  DraftsInv'
<1> USE MemoryAssumption, NoneAssumption
    DEF MemoryInv, DriveTypes, DraftsInv, IInv, TypeOK, IsAdvance, WantedMeta
<1>1. DriveTypes'
  BY DriveTypesStep
<1>2. ASSUME NEW r \in Requests, DraftCreated(r) PROVE DraftsInv'
  <2>1. PICK n \in Nodes : Draft(r, [node |-> n, id |-> 1, meta |-> call[r].meta,
                                    body |-> call[r].body], "store")
    BY <1>2 DEF DraftCreated
  <2>2. pc[r] = "drive" /\ call[r] \in Calls /\ call[r].op = "create"
    BY <1>2 DEF DraftCreated, At, HandlerInv
  <2>3. [node |-> n, id |-> 1, meta |-> call[r].meta, body |-> call[r].body] \in Snapshot
    BY <2>2, CallsAssumption DEF Snapshot, Call
  <2> HIDE DEF MemoryInv, DraftsInv, IInv
  <2> QED  BY <2>1, <2>2, <2>3, DraftKeeps DEF Suits
<1>3. ASSUME NEW r \in Requests, DraftUpdated(r) PROVE DraftsInv'
  <2>1. PICK n \in VersionIds : /\ IsNext(n)
                                /\ Draft(r, [node |-> base[r].node, id |-> n,
                                     meta |-> WantedMeta(r), body |-> call[r].body], "store")
    BY <1>3 DEF DraftUpdated
  <2>2. /\ pc[r] = "drive" /\ call[r] \in Calls /\ call[r].op = "update"
        /\ base[r] \in Row
    BY <1>3 DEF DraftUpdated, At, HandlerInv
  <2>3. ~lost => n > base[r].id
    BY <2>1, <2>2, NextIsAhead
  <2>4. [node |-> base[r].node, id |-> n, meta |-> WantedMeta(r), body |-> call[r].body]
          \in Snapshot
    BY <2>2, CallsAssumption DEF Snapshot, Call, Row
  <2> HIDE DEF MemoryInv, DraftsInv, IInv, WantedMeta
  <2> QED  BY <2>1, <2>2, <2>3, <2>4, DraftKeeps DEF Suits
<1>4. ASSUME NEW r \in Requests, FindSource(r) PROVE DraftsInv'
  <2>1. PICK i \in DOMAIN versions : Draft(r, versions[i], "number")
    BY <1>4 DEF FindSource
  <2>2. pc[r] = "drive" /\ versions[i] \in Snapshot /\ call[r].op = "restore"
    BY <1>4 DEF FindSource, At
  <2> QED  BY <2>1, <2>2, DraftKeeps
<1>5. ASSUME NEW r \in Requests, DraftRestored(r) PROVE DraftsInv'
  <2>1. PICK n \in VersionIds : /\ IsNext(n)
                                /\ Draft(r, [draft[r] EXCEPT !.id = n], "store")
    BY <1>5 DEF DraftRestored
  <2>2. pc[r] = "drive" /\ call[r].op = "restore" /\ draft[r] \in Snapshot /\ base[r] # None
    BY <1>5 DEF DraftRestored, At, HandlerInv
  <2>3. ~lost => n > base[r].id
    BY <2>1, <2>2, NextIsAhead
  <2>4. /\ [draft[r] EXCEPT !.id = n] \in Snapshot
        /\ [draft[r] EXCEPT !.id = n].id = n
    BY <2>2 DEF Snapshot
  <2> HIDE DEF MemoryInv, DraftsInv, IInv
  <2> QED  BY <2>1, <2>2, <2>3, <2>4, DraftKeeps DEF Suits
<1>6. ASSUME NEW r \in Requests, StoreRecord(r) PROVE DraftsInv'
  BY <1>1, <1>6 DEF StoreRecord, vars, pageVars, handlerVars
<1>7. ASSUME NEW r \in Requests, PushVersion(r) PROVE DraftsInv'
  BY <1>1, <1>7 DEF PushVersion, DriveAnswer, Goto, Finish
<1>8. ASSUME NEW r \in Requests, ReadRecord(r) \/ NotFound(r) PROVE DraftsInv'
  <2>1. /\ pc[r] = "drive"
        /\ pc'[r] \in {"done", "persist"}
        /\ \A q \in Requests \ {r} : pc'[q] = pc[q]
        /\ UNCHANGED <<call, base>>
    BY <1>8 DEF ReadRecord, NotFound, DriveError, DriveAnswer, Goto, Finish, At
  <2>2. UNCHANGED <<section, draft, records, lost>>
    BY <1>8 DEF ReadRecord, NotFound, driveVars, portVars
  <2> QED  BY <1>1, <2>1, <2>2
<1>9. ASSUME NEW r \in Requests, ServiceStep(r), UNCHANGED <<driveVars, portVars, wrote>>
      PROVE  DraftsInv'
  <2>1. \A q \in Requests : pc'[q] = "drive" =>
          \/ pc[q] = "drive" /\ base'[q] = base[q] /\ call'[q] = call[q]
          \/ pc[q] # "drive" /\ section[q] = "enter"
    BY <1>9 DEF ServiceStep, Arrive, Refuse, ReserveId, LookupPage, FindPage, InsertPage,
                UpdateDriveSnapshot, DeletePage, ReloadPage, WriteProjection, DbFailure,
                Abandon, Goto, Finish
  <2>2. \A q \in Requests : pc'[q] \in {"idle", "reserve", "lookup", "find"} =>
          pc[q] \in {"idle", "reserve", "lookup", "find"}
    BY <1>9 DEF ServiceStep, Arrive, Refuse, ReserveId, LookupPage, FindPage, InsertPage,
                UpdateDriveSnapshot, DeletePage, ReloadPage, WriteProjection, DbFailure,
                Abandon, Goto, Finish
  <2>3. UNCHANGED <<section, draft, records, lost>>
    BY <1>9 DEF driveVars, portVars
  <2> QED  BY <1>1, <2>1, <2>2, <2>3
<1>10. CASE MemoryRestart
  BY <1>1, <1>10 DEF MemoryRestart, DropHandlers, InFlight, portVars
<1>11. CASE UNCHANGED memoryVars
  BY <1>1, <1>11 DEF memoryVars, vars, pageVars, handlerVars, driveVars, portVars
<1> QED
  BY <1>2, <1>3, <1>4, <1>5, <1>6, <1>7, <1>8, <1>9, <1>10, <1>11 DEF MemoryNext

LEMMA AheadStep ==
  ASSUME IInv, MemoryInv, [MemoryNext]_memoryVars
  PROVE  AheadInv'
<1> USE NoneAssumption DEF MemoryInv, DriveTypes, AheadInv, Reached, IInv, TypeOK
<1>1. DriveTypes'
  BY DriveTypesStep
<1>2. ASSUME NEW r \in Requests,
             \/ DraftCreated(r) \/ DraftUpdated(r) \/ FindSource(r) \/ DraftRestored(r)
      PROVE  AheadInv'
  <2>1. UNCHANGED <<row, pc, call, snap, records, versions, lost>>
    BY <1>2 DEF DraftCreated, DraftUpdated, FindSource, DraftRestored, Draft, vars, pageVars,
                handlerVars, driveVars
  <2> QED  BY <2>1
<1>3. ASSUME NEW r \in Requests, StoreRecord(r) PROVE AheadInv'
  <2>1. /\ UNCHANGED <<row, pc, call, snap, versions, lost>>
        /\ records' = draft[r] /\ draft[r] \in Snapshot
    BY <1>3 DEF StoreRecord, DraftsInv, vars, pageVars, handlerVars
  <2> QED  BY <2>1
<1>4. ASSUME NEW r \in Requests, PushVersion(r) PROVE AheadInv'
  <2>1. /\ draft[r] \in Snapshot
        /\ records # None
        /\ versions' = Append(versions, draft[r])
        /\ UNCHANGED <<row, call, records, lost>>
    BY <1>4 DEF PushVersion, DriveAnswer, DraftsInv, pageVars
  <2>2. /\ Len(versions') = Len(versions) + 1
        /\ versions'[Len(versions')] = draft[r]
        /\ \A i \in DOMAIN versions : i \in DOMAIN versions' /\ versions'[i] = versions[i]
        /\ Len(versions') \in DOMAIN versions'
    BY <2>1
  <2>3. draft[r].id >= draft[r].id
    BY <2>1, MemoryAssumption DEF Snapshot
  <2>4. \E i \in DOMAIN versions' : versions'[i].id >= draft[r].id
    BY <2>2, <2>3
  <2>5. \A v \in VersionIds : Reached(v) => \E i \in DOMAIN versions' : versions'[i].id >= v
    BY <2>2
  <2>6. \A q \in Requests :
          pc'[q] = "persist" => \/ pc[q] = "persist" /\ snap'[q] = snap[q]
                                \/ snap'[q] = draft[r]
    BY <1>4 DEF PushVersion, DriveAnswer, Goto, Finish
  <2>7. \A q \in Requests : pc[q] = "persist" /\ call[q].op # "delete" => snap[q] \in Snapshot
    BY DEF HandlerInv
  <2>8. versions' # <<>>
    BY <2>1
  <2>9. ~lost /\ row # None => \E i \in DOMAIN versions' : versions'[i].id >= row.id
    BY <2>5 DEF Row
  <2>10. ASSUME ~lost, NEW q \in Requests, pc'[q] = "persist", call[q].op # "delete"
         PROVE  \E i \in DOMAIN versions' : versions'[i].id >= snap'[q].id
    <3>1. CASE snap'[q] = draft[r]
      BY <2>4, <3>1
    <3>2. CASE pc[q] = "persist" /\ snap'[q] = snap[q]
      <4>1. snap[q].id \in VersionIds /\ Reached(snap[q].id)
        BY <2>7, <2>10, <3>2 DEF Snapshot
      <4> QED  BY <2>5, <3>2, <4>1
    <3> QED  BY <2>6, <2>10, <3>1, <3>2
  <2> QED  BY <2>1, <2>8, <2>9, <2>10
<1>5. ASSUME NEW r \in Requests, ReadRecord(r) \/ NotFound(r) PROVE AheadInv'
  <2>1. /\ UNCHANGED <<row, call, records, versions, lost>>
        /\ pc'[r] = "done" \/ call[r].op = "read"
        /\ pc[r] = "drive"
        /\ \A q \in Requests \ {r} : pc'[q] = pc[q] /\ snap'[q] = snap[q]
    BY <1>5 DEF ReadRecord, NotFound, DriveError, DriveAnswer, Goto, Finish, At, pageVars,
                handlerVars, driveVars
  <2>2. pc'[r] # "persist"
    BY <1>5 DEF ReadRecord, NotFound, DriveError, DriveAnswer, Goto, Finish, At
  <2> QED  BY <2>1, <2>2
<1>6. ASSUME NEW r \in Requests, ServiceStep(r), UNCHANGED <<driveVars, portVars, wrote>>
      PROVE  AheadInv'
  <2>1. UNCHANGED <<records, versions, lost>>
    BY <1>6 DEF driveVars
  <2>2. \/ UNCHANGED row
        \/ pc[r] = "persist" /\ call[r].op # "delete" /\ row' = RowOf(snap[r])
    BY <1>6 DEF ServiceStep, Arrive, Refuse, ReserveId, LookupPage, FindPage, InsertPage,
                UpdateDriveSnapshot, IsAdvance, DeletePage, ReloadPage, WriteProjection,
                DbFailure, Abandon, pageVars
  <2>3. \A q \in Requests : pc'[q] = "persist" /\ call'[q].op # "delete" =>
          pc[q] = "persist" /\ call[q].op # "delete" /\ snap'[q] = snap[q]
    BY <1>6 DEF ServiceStep, Arrive, Refuse, ReserveId, LookupPage, FindPage, InsertPage,
                UpdateDriveSnapshot, DeletePage, ReloadPage, WriteProjection, DbFailure,
                Abandon, Goto, Finish
  <2>4. ~lost /\ row' # None => \E i \in DOMAIN versions : versions[i].id >= row'.id
    <3>1. CASE UNCHANGED row
      BY <3>1
    <3>2. CASE pc[r] = "persist" /\ call[r].op # "delete" /\ row' = RowOf(snap[r])
      <4>1. row'.id = snap[r].id
        BY <3>2 DEF RowOf
      <4> QED  BY <3>2, <4>1
    <3> QED  BY <2>2, <3>1, <3>2
  <2> QED  BY <2>1, <2>3, <2>4
<1>7. CASE MemoryRestart
  <2>1. /\ UNCHANGED <<row, call, snap>>
        /\ records' = None /\ versions' = <<>>
        /\ ~lost' => ~lost /\ records = None
        /\ \A q \in Requests : pc'[q] # "persist"
    BY <1>7 DEF MemoryRestart, DropHandlers, InFlight, pageVars
  <2>2. records = None /\ ~lost => row = None
    OBVIOUS
  <2> QED  BY <2>1, <2>2
<1>8. CASE UNCHANGED memoryVars
  <2>1. UNCHANGED <<row, pc, call, snap, records, versions, lost>>
    BY <1>8 DEF memoryVars, vars, pageVars, handlerVars, driveVars
  <2> QED  BY <2>1
<1> QED
  BY <1>2, <1>3, <1>4, <1>5, <1>6, <1>7, <1>8 DEF MemoryNext

\* What the adapter made passes the service's validation while nothing is lost.
LEMMA DraftIsAcceptable ==
  ASSUME IInv, MemoryInv, ~lost, NEW r \in Requests,
         pc[r] = "drive", section[r] = "push"
  PROVE  Acceptable(r, draft[r])
<1>1. /\ draft[r] \in Snapshot
      /\ call[r].op \in {"create", "update", "restore"}
      /\ call[r].op = "create" => draft[r].meta = call[r].meta
      /\ call[r].op = "update" => draft[r].meta = WantedMeta(r)
      /\ IsAdvance(r) => draft[r].id > base[r].id
  BY DEF MemoryInv, DraftsInv
<1>2. IsAdvance(r) => base[r] \in Row
  BY DEF IInv, TypeOK, HandlerInv, IsAdvance
<1>3. VersionNo[draft[r].id] >= 1
  BY <1>1, MemoryAssumption DEF Snapshot
<1>4. IsAdvance(r) => RefsMatch(r, draft[r])
  BY <1>1, <1>2, MemoryAssumption DEF RefsMatch, Snapshot, Row
<1>5. IsAdvance(r) => Advances(r, draft[r])
  BY <1>1, <1>2, MemoryAssumption DEF Advances, Snapshot, Row
<1> QED  BY <1>1, <1>3, <1>4, <1>5 DEF Acceptable, IsAdvance, RefsMatch

LEMMA RejectedStep ==
  ASSUME IInv, MemoryInv, [MemoryNext]_memoryVars
  PROVE  RejectedOnlyAfterLoss'
<1> USE DEF MemoryInv, RejectedOnlyAfterLoss, IInv, TypeOK
<1>1. ASSUME NEW r \in Requests,
             \/ DraftCreated(r) \/ DraftUpdated(r) \/ FindSource(r) \/ DraftRestored(r)
             \/ StoreRecord(r)
      PROVE  RejectedOnlyAfterLoss'
  <2>1. UNCHANGED <<call, outcome, lost>>
    BY <1>1 DEF DraftCreated, DraftUpdated, FindSource, DraftRestored, StoreRecord, Draft,
                vars, handlerVars, driveVars
  <2> QED  BY <2>1
<1>2. ASSUME NEW r \in Requests, PushVersion(r) PROVE RejectedOnlyAfterLoss'
  <2>1. /\ UNCHANGED <<call, lost>>
        /\ lost \/ Acceptable(r, draft[r])
    BY <1>2, DraftIsAcceptable DEF PushVersion, DriveAnswer
  <2>2. \A q \in Requests : outcome'[q] = "rejected" => outcome[q] = "rejected" \/ lost
    BY <1>2, <2>1 DEF PushVersion, DriveAnswer, Goto, Finish
  <2> QED  BY <2>1, <2>2
<1>3. ASSUME NEW r \in Requests, ReadRecord(r) \/ NotFound(r) PROVE RejectedOnlyAfterLoss'
  <2>1. /\ UNCHANGED <<call, lost>>
        /\ \A q \in Requests : outcome'[q] = "rejected" =>
             outcome[q] = "rejected" \/ call[q].op = "read"
    BY <1>3 DEF ReadRecord, NotFound, DriveError, DriveAnswer, Goto, Finish, At, driveVars,
                pageVars, handlerVars
  <2> QED  BY <2>1
<1>4. ASSUME NEW r \in Requests, ServiceStep(r), UNCHANGED <<driveVars, portVars, wrote>>
      PROVE  RejectedOnlyAfterLoss'
  <2>1. UNCHANGED lost
    BY <1>4 DEF driveVars
  <2>2. \A q \in Requests : outcome'[q] = "rejected" =>
          outcome[q] = "rejected" /\ call'[q] = call[q]
    BY <1>4 DEF ServiceStep, Arrive, Refuse, ReserveId, LookupPage, FindPage, InsertPage,
                UpdateDriveSnapshot, DeletePage, ReloadPage, WriteProjection, DbFailure,
                Abandon, Goto, Finish, HandlerInv
  <2> QED  BY <2>1, <2>2
<1>5. CASE MemoryRestart
  BY <1>5, Zenon DEF MemoryRestart, DropHandlers
<1>6. CASE UNCHANGED memoryVars
  BY <1>6 DEF memoryVars, vars, handlerVars, driveVars
<1> QED
  BY <1>1, <1>2, <1>3, <1>4, <1>5, <1>6 DEF MemoryNext
-----------------------------------------------------------------------------
(***************************************************************************)
(* The invariant of the open port and the adapter's own, together.         *)
(***************************************************************************)
THEOREM MemoryInductive == MemorySpec => [](IInv /\ MemoryInv)
<1>1. (IInv /\ MemoryInv) /\ [MemoryNext]_memoryVars => (IInv /\ MemoryInv)'
  BY MemoryStepIsStep, StepInv, DriveTypesStep, DraftsStep, AheadStep, RejectedStep
     DEF MemoryInv
<1> QED  BY MemoryInitInv, <1>1, PTL DEF MemorySpec

(***************************************************************************)
(* What the adapter keeps of a page, what its calls have come to and the   *)
(* service's own variables keep their types, restarts included.            *)
(***************************************************************************)
THEOREM MemoryTypes == MemorySpec => []MemoryTypeOK
<1>1. IInv /\ MemoryInv => MemoryTypeOK
  BY DEF IInv, MemoryInv, DriveTypes, MemoryTypeOK
<1> QED  BY MemoryInductive, <1>1, PTL

(***************************************************************************)
(* MemoryDrivePageContentPort is a Drive port as PageContent assumes one:  *)
(* every theorem about PageContent's Spec is one about the process that    *)
(* runs on its in-memory Drive, restarts included.                         *)
(***************************************************************************)
THEOREM MemoryImplementsPort == MemorySpec => Spec
<1>1. MemoryInit => Init
  BY DEF MemoryInit
<1>2. IInv /\ MemoryInv /\ [MemoryNext]_memoryVars => [Next]_vars
  BY MemoryStepIsStep
<1> QED  BY MemoryInductive, <1>1, <1>2, PTL DEF MemorySpec, Spec

(***************************************************************************)
(* Until its process is restarted, the adapter never makes a snapshot that *)
(* the service turns down, whatever calls it serves at the same time.      *)
(***************************************************************************)
THEOREM NumbersStayAhead == MemorySpec => []RejectedOnlyAfterLoss
<1>1. IInv /\ MemoryInv => RejectedOnlyAfterLoss
  BY DEF MemoryInv
<1> QED  BY MemoryInductive, <1>1, PTL

-----------------------------------------------------------------------------
\* What is in the two maps, as long as every write that reached them has
\* been committed or may still be.

\* The snapshot a call has put in records.
Made(p) == IF pc[p] = "drive" THEN draft[p] ELSE snap[p]

CanCommit(p) ==
    /\ \/ pc[p] = "drive" /\ section[p] = "push"
       \/ pc[p] = "persist"
    /\ IF call[p].op = "create" THEN status = "absent"
       ELSE status = "active" /\ base[p] = row

\* The two stores may still come to agree; if not, they never will.
Hopeful ==
    /\ ~lost
    /\ \A p \in Stranded : CanCommit(p) /\ \A q \in Stranded : p = q

\* Which calls have written, and that no two commit the same number.
WroteInv ==
    /\ \A r \in Requests :
         /\ section[r] = "push" => r \in wrote
         /\ section[r] \in {"number", "store"} => r \notin wrote
         /\ pc[r] \in Early \union {"drive"} /\ section[r] = "enter" => r \notin wrote
         /\ pc[r] = "persist" /\ call[r].op # "delete" => r \in wrote /\ section[r] = "enter"
    /\ \A r \in wrote : pc[r] \notin Early /\ call[r].op \in {"create", "update", "restore"}
    /\ Writers \subseteq wrote
    /\ wrote # {} /\ ~lost => records # None
    /\ \A r, q \in Writers : snap[r].id = snap[q].id => r = q

\* A restore's snapshot s is of an entry that was there before it.
Sourced(r, s) ==
    \E i \in DOMAIN versions : versions[i].id = call[r].source /\ versions[i].body = s.body

SourcesInv ==
    \A r \in Requests :
        /\ pc[r] = "drive" /\ section[r] = "number" => Sourced(r, draft[r])
        /\ pc[r] = "drive" /\ section[r] \in {"store", "push"} /\ call[r].op = "restore" =>
             Sourced(r, draft[r]) /\ call[r].source < draft[r].id
        /\ pc[r] = "persist" /\ call[r].op = "restore" =>
             Sourced(r, snap[r]) /\ call[r].source < snap[r].id

\* Where an entry of versions comes from.
EntryOf(i) ==
    \/ \E r \in Writers : versions[i] = snap[r]
    \/ \E r \in Stranded : pc[r] = "persist" /\ versions[i] = snap[r]
    \/ /\ versions[i].body = FirstBody
       /\ row # None /\ versions[i].id <= row.id
       /\ \A r \in Writers : snap[r].id # versions[i].id

EntriesInv == \A i \in DOMAIN versions : EntryOf(i)

RecordsInv ==
    /\ \A p \in Stranded : records = Made(p)
    /\ row # None /\ Stranded = {} =>
         RowOf(records) = row /\ records.body = Committed(row.id)

RestoredInv ==
    \A r \in Writers : call[r].op = "restore" =>
        /\ call[r].source \in VersionIds /\ call[r].source <= row.id
        /\ snap[r].body = Committed(call[r].source)

ContentInv ==
    /\ WroteInv /\ SourcesInv
    /\ Hopeful => EntriesInv /\ RecordsInv /\ RestoredInv

\* Drive and the calls stay as they are.
DriveStays == UNCHANGED <<driveVars, portVars, wrote>>

DraftStep(r) == DraftCreated(r) \/ DraftUpdated(r) \/ FindSource(r) \/ DraftRestored(r)
-----------------------------------------------------------------------------
LEMMA CommittedIs == WroteInv => \A r \in Writers : Committed(snap[r].id) = snap[r].body
<1> SUFFICES ASSUME WroteInv, NEW r \in Writers PROVE Committed(snap[r].id) = snap[r].body
  OBVIOUS
<1> DEFINE w == CHOOSE q \in Writers : snap[q].id = snap[r].id
<1>1. w \in Writers /\ snap[w].id = snap[r].id
  OBVIOUS
<1>2. w = r
  BY <1>1 DEF WroteInv
<1>3. Committed(snap[r].id) = snap[w].body
  BY DEF Committed
<1> QED  BY <1>2, <1>3

LEMMA CommittedIsNext ==
    (WroteInv => \A r \in Writers : Committed(snap[r].id) = snap[r].body)'
BY CommittedIs, PTL

LEMMA CommittedFirst ==
    ASSUME NEW v, \A r \in Writers : snap[r].id # v
    PROVE  Committed(v) = FirstBody
BY DEF Committed

\* An entry left when nothing is stranded has what was committed under its id.
LEMMA EntryCommitted ==
    WroteInv /\ Stranded = {} /\ EntriesInv =>
        \A i \in DOMAIN versions : versions[i].body = Committed(versions[i].id)
<1> SUFFICES ASSUME WroteInv, Stranded = {}, EntriesInv, NEW i \in DOMAIN versions
             PROVE  versions[i].body = Committed(versions[i].id)
  OBVIOUS
<1>1. CASE \E r \in Writers : versions[i] = snap[r]
  BY <1>1, CommittedIs
<1>2. CASE versions[i].body = FirstBody /\ \A r \in Writers : snap[r].id # versions[i].id
  BY <1>2, CommittedFirst
<1>3. EntryOf(i) /\ ~\E r \in Stranded : pc[r] = "persist" /\ versions[i] = snap[r]
  BY DEF EntriesInv
<1> QED  BY <1>1, <1>2, <1>3 DEF EntryOf

LEMMA EntryCommittedNext ==
    (WroteInv /\ Stranded = {} /\ EntriesInv =>
        \A i \in DOMAIN versions : versions[i].body = Committed(versions[i].id))'
BY EntryCommitted, PTL

\* What was committed stays what it was when the writers stay who they were
\* as far as the version goes.
LEMMA CommittedStays ==
    ASSUME WroteInv, WroteInv', NEW v,
           Writers \subseteq Writers', \A r \in Writers : snap'[r] = snap[r],
           \A r \in Writers' \ Writers : snap'[r].id # v
    PROVE  Committed(v)' = Committed(v)
<1>1. CASE \E r \in Writers : snap[r].id = v
  <2>1. PICK r \in Writers : snap[r].id = v
    BY <1>1
  <2>2. Committed(v) = snap[r].body
    BY <2>1, CommittedIs
  <2>3. Committed(v)' = snap'[r].body
    <3>1. (\A q \in Writers : Committed(snap[q].id) = snap[q].body)'
      BY CommittedIsNext
    <3>2. r \in Writers' /\ snap'[r] = snap[r]
      BY <2>1
    <3> QED  BY <2>1, <3>1, <3>2
  <2> QED  BY <2>1, <2>2, <2>3
<1>2. CASE \A r \in Writers : snap[r].id # v
  <2>1. Committed(v) = FirstBody
    BY <1>2, CommittedFirst
  <2>2. \A r \in Writers' : snap'[r].id # v
    BY <1>2
  <2>3. Committed(v)' = FirstBody
    BY <2>2 DEF Committed
  <2> QED  BY <2>1, <2>3
<1> QED  BY <1>1, <1>2

-----------------------------------------------------------------------------
\* The five kinds of steps, and what each does.
LEMMA StepsAre ==
    ASSUME IInv, MemoryInv, [MemoryNext]_memoryVars
    PROVE  \/ \E r \in Requests : DraftStep(r)
           \/ \E r \in Requests : StoreRecord(r)
           \/ \E r \in Requests : PushVersion(r)
           \/ /\ DriveStays /\ [Next]_vars
              /\ \/ \E r \in Requests : ServiceStep(r) \/ ReadRecord(r) \/ NotFound(r)
                 \/ UNCHANGED memoryVars
           \/ MemoryRestart
<1>1. ASSUME NEW r \in Requests, ReadRecord(r) \/ NotFound(r) PROVE DriveStays
  BY <1>1 DEF ReadRecord, NotFound, DriveStays
<1>2. UNCHANGED memoryVars => DriveStays
  BY DEF memoryVars, DriveStays
<1>3. [Next]_vars
  BY MemoryStepIsStep
<1> QED  BY <1>1, <1>2, <1>3 DEF MemoryNext, DraftStep, DriveStays

LEMMA DraftMoves ==
    ASSUME IInv, MemoryInv, WroteInv, NEW r \in Requests, DraftStep(r)
    PROVE  /\ UNCHANGED <<vars, driveVars, wrote>>
           /\ pc[r] = "drive" /\ r \notin wrote
           /\ section'[r] \in {"number", "store"} /\ draft'[r] \in Snapshot
           /\ \A q \in Requests \ {r} : section'[q] = section[q] /\ draft'[q] = draft[q]
           /\ section'[r] = "number" => Sourced(r, draft'[r])
           /\ section'[r] = "store" /\ call[r].op = "restore" =>
                section[r] = "number" /\ draft'[r].body = draft[r].body /\ IsNext(draft'[r].id)
<1>1. /\ UNCHANGED <<vars, driveVars, wrote>>
      /\ pc[r] = "drive" /\ section[r] \in {"enter", "number"}
  BY DEF DraftStep, DraftCreated, DraftUpdated, FindSource, DraftRestored, At, Draft
<1>2. r \notin wrote
  BY <1>1 DEF WroteInv
<1>3. [MemoryNext]_memoryVars
  BY DEF DraftStep, MemoryNext
<1>4. DriveTypes /\ DriveTypes' /\ DraftsInv /\ DraftsInv'
  BY <1>3, DriveTypesStep, DraftsStep DEF MemoryInv
<1>5. ASSUME NEW s, NEW where \in {"number", "store"}, Draft(r, s, where)
      PROVE  /\ section'[r] = where /\ draft'[r] = s /\ s \in Snapshot
             /\ \A q \in Requests \ {r} : section'[q] = section[q] /\ draft'[q] = draft[q]
  <2>1. draft' = [draft EXCEPT ![r] = s] /\ section' = [section EXCEPT ![r] = where]
    BY <1>5 DEF Draft
  <2>2. section'[r] = where /\ draft'[r] = s
    BY <1>4, <2>1 DEF DriveTypes
  <2>3. s \in Snapshot
    BY <1>4, <2>2 DEF DraftsInv
  <2> QED  BY <1>4, <2>1, <2>2, <2>3 DEF DriveTypes
<1>6. CASE DraftCreated(r) \/ DraftUpdated(r)
  <2>1. PICK s : Draft(r, s, "store")
    BY <1>6 DEF DraftCreated, DraftUpdated
  <2>2. call[r].op # "restore"
    BY <1>6 DEF DraftCreated, DraftUpdated, At
  <2> QED  BY <1>1, <1>2, <1>5, <2>1, <2>2
<1>7. CASE FindSource(r)
  <2>1. PICK i \in DOMAIN versions : /\ IsSource(r, versions[i])
                                     /\ Draft(r, versions[i], "number")
    BY <1>7 DEF FindSource
  <2>2. section'[r] = "number" /\ draft'[r] = versions[i] /\ draft'[r] \in Snapshot
    BY <1>5, <2>1
  <2>3. Sourced(r, draft'[r])
    BY <2>1, <2>2 DEF IsSource, Sourced
  <2> QED  BY <1>1, <1>2, <1>5, <2>1, <2>2, <2>3
<1>8. CASE DraftRestored(r)
  <2>1. PICK n \in VersionIds : IsNext(n) /\ Draft(r, [draft[r] EXCEPT !.id = n], "store")
    BY <1>8 DEF DraftRestored
  <2>2. section[r] = "number" /\ draft[r] \in Snapshot
    BY <1>4, <1>8 DEF DraftRestored, At, DraftsInv
  <2>3. [draft[r] EXCEPT !.id = n].id = n /\ [draft[r] EXCEPT !.id = n].body = draft[r].body
    BY <2>2 DEF Snapshot
  <2>4. /\ section'[r] = "store" /\ draft'[r] = [draft[r] EXCEPT !.id = n]
        /\ draft'[r] \in Snapshot
    BY <1>5, <2>1
  <2>5. draft'[r].body = draft[r].body /\ IsNext(draft'[r].id)
    BY <2>1, <2>3, <2>4
  <2> QED  BY <1>1, <1>2, <1>5, <2>1, <2>2, <2>4, <2>5
<1> QED  BY <1>6, <1>7, <1>8 DEF DraftStep

LEMMA StoreMoves ==
    ASSUME IInv, MemoryInv, WroteInv, NEW r \in Requests, StoreRecord(r)
    PROVE  /\ UNCHANGED <<vars, versions, lost, draft>>
           /\ pc[r] = "drive" /\ section[r] = "store" /\ section'[r] = "push"
           /\ \A q \in Requests \ {r} : section'[q] = section[q]
           /\ records' = draft[r] /\ draft[r] \in Snapshot
           /\ wrote' = wrote \union {r} /\ r \notin wrote /\ r \notin applied
           /\ call[r].op \in {"create", "update", "restore"}
<1>1. /\ UNCHANGED <<vars, versions, lost, draft>>
      /\ pc[r] = "drive" /\ section[r] = "store" /\ records' = draft[r]
      /\ section' = [section EXCEPT ![r] = "push"] /\ wrote' = wrote \union {r}
  BY DEF StoreRecord
<1>2. draft[r] \in Snapshot /\ call[r].op \in {"create", "update", "restore"}
  BY <1>1 DEF MemoryInv, DraftsInv
<1>3. r \notin wrote /\ r \notin applied
  BY <1>1 DEF WroteInv, IInv, WritesInv
<1> QED  BY <1>1, <1>2, <1>3 DEF MemoryInv, DriveTypes

LEMMA PushMoves ==
    ASSUME IInv, MemoryInv, WroteInv, NEW r \in Requests, PushVersion(r)
    PROVE  /\ UNCHANGED <<status, row, call, base, applied, records, lost, wrote>>
           /\ pc[r] = "drive" /\ section[r] = "push" /\ section'[r] = "enter"
           /\ draft[r] \in Snapshot /\ versions' = Append(versions, draft[r])
           /\ r \in wrote /\ r \notin applied
           /\ call[r].op \in {"create", "update", "restore"}
           /\ \A q \in Requests \ {r} : /\ section'[q] = section[q] /\ draft'[q] = draft[q]
                                        /\ snap'[q] = snap[q] /\ pc'[q] = pc[q]
           /\ \/ pc'[r] = "persist" /\ snap'[r] = draft[r]
              \/ pc'[r] = "done" /\ snap'[r] = snap[r] /\ lost
<1>1. /\ UNCHANGED <<status, row, call, base, applied, records, lost, wrote>>
      /\ pc[r] = "drive" /\ section[r] = "push"
      /\ versions' = Append(versions, draft[r])
      /\ section' = [section EXCEPT ![r] = "enter"] /\ draft' = [draft EXCEPT ![r] = None]
  BY DEF PushVersion, DriveAnswer, pageVars, historyVars
<1>2. draft[r] \in Snapshot /\ call[r].op \in {"create", "update", "restore"}
  BY <1>1 DEF MemoryInv, DraftsInv
<1>3. r \in wrote /\ r \notin applied
  BY <1>1 DEF WroteInv, IInv, WritesInv
<1>4. \/ pc' = [pc EXCEPT ![r] = "persist"] /\ snap' = [snap EXCEPT ![r] = draft[r]]
      \/ pc' = [pc EXCEPT ![r] = "done"] /\ snap' = snap /\ lost
  <2>1. lost \/ Acceptable(r, draft[r])
    BY <1>1, DraftIsAcceptable
  <2> QED  BY <1>2, <2>1 DEF PushVersion, DriveAnswer, Goto, Finish
<1>5. /\ pc \in [Requests -> Phases] /\ snap \in [Requests -> Snapshot \union {None}]
      /\ DriveTypes
  BY DEF IInv, TypeOK, MemoryInv
<1>6. \A q \in Requests \ {r} : /\ section'[q] = section[q] /\ draft'[q] = draft[q]
                                /\ snap'[q] = snap[q] /\ pc'[q] = pc[q]
  BY <1>1, <1>4, <1>5 DEF DriveTypes
<1>7. section'[r] = "enter"
  BY <1>1, <1>5 DEF DriveTypes
<1>8. \/ pc'[r] = "persist" /\ snap'[r] = draft[r]
      \/ pc'[r] = "done" /\ snap'[r] = snap[r] /\ lost
  BY <1>4, <1>5
<1> QED  BY <1>1, <1>2, <1>3, <1>6, <1>7, <1>8

LEMMA QuietMoves ==
    ASSUME IInv, MemoryInv,
           \/ \E r \in Requests : ServiceStep(r) \/ ReadRecord(r) \/ NotFound(r)
           \/ UNCHANGED memoryVars
    PROVE  \A q \in Requests :
             /\ pc'[q] \in Early \union {"drive"} => pc[q] \in Early \union {"drive"}
             /\ pc'[q] \in Early => pc[q] \in Early
             /\ pc'[q] = "persist" => /\ call'[q] = call[q] /\ snap'[q] = snap[q]
                                      /\ pc[q] = "persist" \/ call[q].op = "delete"
             /\ call[q].op # "read" \/ pc[q] # "drive" => snap'[q] = snap[q]
<1> USE DEF Early
<1>1. ASSUME NEW r \in Requests, ServiceStep(r)
      PROVE  /\ snap' = snap
             /\ \A q \in Requests :
                  /\ pc'[q] \in Early \union {"drive"} => pc[q] \in Early \union {"drive"}
                  /\ pc'[q] \in Early => pc[q] \in Early
                  /\ pc'[q] = "persist" => /\ call'[q] = call[q]
                                           /\ pc[q] = "persist" \/ call[q].op = "delete"
  BY <1>1 DEF ServiceStep, Arrive, Refuse, ReserveId, LookupPage, FindPage, InsertPage,
              UpdateDriveSnapshot, DeletePage, ReloadPage, WriteProjection, DbFailure, Abandon,
              Goto, Finish, IInv, TypeOK
<1>2. ASSUME NEW r \in Requests, ReadRecord(r) \/ NotFound(r)
      PROVE  /\ pc' = [pc EXCEPT ![r] = "done"] /\ pc[r] = "drive"
             /\ \A q \in Requests : call[q].op # "read" \/ q # r => snap'[q] = snap[q]
             /\ call' = call
  BY <1>2 DEF ReadRecord, NotFound, At, DriveError, DriveAnswer, Goto, Finish, IInv, TypeOK
<1>3. UNCHANGED memoryVars => UNCHANGED <<pc, call, snap>>
  BY DEF memoryVars, vars, handlerVars
<1>4. pc \in [Requests -> Phases]
  BY DEF IInv, TypeOK
<1>5. ASSUME NEW r \in Requests, ReadRecord(r) \/ NotFound(r), NEW q \in Requests
      PROVE  /\ pc'[q] \in Early \union {"drive"} => pc[q] \in Early \union {"drive"}
             /\ pc'[q] \in Early => pc[q] \in Early
             /\ pc'[q] = "persist" => /\ call'[q] = call[q] /\ snap'[q] = snap[q]
                                      /\ pc[q] = "persist" \/ call[q].op = "delete"
             /\ call[q].op # "read" \/ pc[q] # "drive" => snap'[q] = snap[q]
  BY <1>2, <1>4, <1>5
<1> QED  BY <1>1, <1>3, <1>5

LEMMA RestartMoves ==
    ASSUME MemoryRestart
    PROVE  /\ UNCHANGED <<status, row, call, base, snap, applied, section, draft, wrote>>
           /\ records' = None /\ versions' = <<>>
           /\ ~lost' => ~lost /\ records = None
           /\ \A q \in Requests : pc'[q] = "done" \/ (pc'[q] = "idle" /\ pc[q] = "idle")
<1>1. /\ UNCHANGED <<status, row, call, base, snap, applied, section, draft, wrote>>
      /\ records' = None /\ versions' = <<>>
      /\ \A q \in Requests : pc'[q] = "done" \/ (pc'[q] = "idle" /\ pc[q] = "idle")
  BY DEF MemoryRestart, DropHandlers, InFlight, portVars, pageVars, historyVars
<1>2. ~lost' => ~lost /\ records = None
  BY Zenon DEF MemoryRestart
<1> QED  BY <1>1, <1>2

-----------------------------------------------------------------------------
\* A handler's commit takes a number beyond the row's.
LEMMA CommitAdvances ==
    ASSUME IInv, NEW p \in Requests, RowTaken(p),
           call[p].op \in {"create", "update", "restore"}
    PROVE  /\ snap[p] \in Snapshot /\ snap[p].id \in Nat /\ snap[p].id \in VersionIds
           /\ row'.id = snap[p].id
           /\ row # None => row.id \in Nat /\ snap[p].id > row.id
<1>1. snap[p] \in Snapshot /\ snap[p].id \in VersionIds /\ snap[p].id \in Nat
  <2>1. snap[p] \in Snapshot
    BY DEF RowTaken, IInv, TypeOK
  <2> QED  BY <2>1, MemoryAssumption DEF Snapshot
<1>2. row'.id = snap[p].id
  BY DEF RowTaken, RowOf
<1>3. ASSUME row # None PROVE row.id \in Nat /\ snap[p].id > row.id
  <2>1. row \in Row /\ row.id \in VersionIds /\ row.id \in Nat
    BY <1>3, MemoryAssumption DEF IInv, TypeOK, Row
  <2>2. status # "absent"
    BY <1>3 DEF IInv, ReadsInv
  <2>3. IsAdvance(p) /\ row.id = base[p].id
    BY <2>2 DEF RowTaken, IsAdvance
  <2>4. VersionNo[snap[p].id] > VersionNo[row.id]
    BY <2>3 DEF RowTaken, IInv, HandlerInv, Advances
  <2> QED  BY <1>1, <2>1, <2>4, MemoryAssumption
<1> QED  BY <1>1, <1>2, <1>3

\* A request that has committed keeps what it committed.
LEMMA WritersKeep ==
    ASSUME IInv, MemoryInv, WroteInv, DriveStays, [Next]_vars,
           \/ \E r \in Requests : ServiceStep(r) \/ ReadRecord(r) \/ NotFound(r)
           \/ UNCHANGED memoryVars
    PROVE  /\ \A q \in wrote : call'[q] = call[q] /\ base'[q] = base[q] /\ snap'[q] = snap[q]
           /\ Writers \subseteq Writers'
           /\ RowKept => Writers' = Writers /\ Stranded' = Stranded
           /\ \A p \in Requests : RowTaken(p) =>
                /\ call[p].op \in {"create", "update", "restore"} /\ p \in wrote
                /\ Writers' = Writers \union {p} /\ Stranded' = Stranded \ {p}
<1>1. wrote \subseteq Requests /\ wrote' = wrote
  BY DEF MemoryInv, DriveTypes, DriveStays
<1>2. \A q \in wrote : pc[q] \notin Early /\ call[q].op \in {"create", "update", "restore"}
  BY DEF WroteInv
<1>3. \A q \in wrote : call'[q] = call[q] /\ base'[q] = base[q] /\ snap'[q] = snap[q]
  BY <1>1, <1>2, HandlersKeep, QuietMoves
<1>4. applied \subseteq Requests /\ \A q \in applied : pc[q] \notin Early
  BY DEF IInv, TypeOK, WritesInv, Early
<1>5. \A q \in applied : q \in applied' /\ call'[q] = call[q]
  BY <1>4, HandlersKeep
<1>6. Writers \subseteq Writers'
  BY <1>5 DEF Writers
<1>7. ASSUME RowKept PROVE Writers' = Writers /\ Stranded' = Stranded
  <2>1. ASSUME NEW q \in applied' \ applied PROVE call'[q].op = "delete" /\ q \notin wrote
    <3>1. pc[q] = "persist" /\ call[q].op = "delete"
      BY <1>7, <2>1 DEF RowKept
    <3>2. q \in Requests
      <4>1. TypeOK'
        BY StepInv DEF IInv
      <4> QED  BY <2>1, <4>1 DEF TypeOK
    <3> QED  BY <1>2, <3>1, <3>2, HandlersKeep DEF Early
  <2> QED  BY <1>1, <1>5, <2>1 DEF Writers, Stranded
<1>8. ASSUME NEW p \in Requests, RowTaken(p)
      PROVE  /\ call[p].op \in {"create", "update", "restore"} /\ p \in wrote
             /\ Writers' = Writers \union {p} /\ Stranded' = Stranded \ {p}
  <2>1. p \in wrote
    BY <1>8 DEF RowTaken, WroteInv
  <2> QED  BY <1>1, <1>2, <1>8, <2>1 DEF RowTaken, Writers, Stranded
<1> QED  BY <1>3, <1>6, <1>7, <1>8

LEMMA WroteStep ==
    ASSUME IInv, MemoryInv, WroteInv, [MemoryNext]_memoryVars
    PROVE  WroteInv'
<1> USE NoneAssumption
<1>1. ASSUME NEW r \in Requests, DraftStep(r) PROVE WroteInv'
  <2>1. UNCHANGED <<pc, call, snap, applied, records, lost, wrote>> /\ Writers' = Writers
    BY <1>1, DraftMoves DEF vars, handlerVars, historyVars, driveVars, Writers
  <2> QED  BY <1>1, <2>1, DraftMoves DEF WroteInv
<1>2. ASSUME NEW r \in Requests, StoreRecord(r) PROVE WroteInv'
  <2>1. pc' = pc /\ call' = call /\ snap' = snap /\ Writers' = Writers
    BY <1>2, StoreMoves DEF vars, handlerVars, historyVars, Writers
  <2>2. records' # None
    BY <1>2, StoreMoves
  <2>3. \A q \in Requests \ {r} : section'[q] = section[q] /\ (q \in wrote' <=> q \in wrote)
    BY <1>2, StoreMoves
  <2>4. /\ section'[r] = "push" /\ pc[r] = "drive" /\ wrote' = wrote \union {r}
        /\ call[r].op \in {"create", "update", "restore"}
    BY <1>2, StoreMoves
  <2>5. ASSUME NEW q \in Requests
        PROVE  /\ section'[q] = "push" => q \in wrote'
               /\ section'[q] \in {"number", "store"} => q \notin wrote'
               /\ pc[q] \in Early \union {"drive"} /\ section'[q] = "enter" => q \notin wrote'
               /\ pc[q] = "persist" /\ call[q].op # "delete" =>
                    q \in wrote' /\ section'[q] = "enter"
    <3>1. CASE q = r
      BY <2>4, <3>1
    <3>2. CASE q # r
      BY <2>3, <3>2 DEF WroteInv
    <3> QED  BY <3>1, <3>2
  <2>6. \A q \in wrote' : pc[q] \notin Early /\ call[q].op \in {"create", "update", "restore"}
    BY <2>4 DEF WroteInv, Early
  <2>7. /\ Writers' \subseteq wrote'
        /\ \A q, p \in Writers' : snap'[q].id = snap'[p].id => q = p
    BY <2>1, <2>4 DEF WroteInv
  <2> QED  BY <2>1, <2>2, <2>5, <2>6, <2>7 DEF WroteInv
<1>3. ASSUME NEW r \in Requests, PushVersion(r) PROVE WroteInv'
  <2>1. Writers' = Writers /\ \A q \in Writers : snap'[q] = snap[q]
    BY <1>3, PushMoves DEF Writers, IInv, TypeOK
  <2>2. /\ UNCHANGED <<call, records, lost, wrote>>
        /\ section[r] = "push" /\ section'[r] = "enter" /\ pc'[r] \in {"persist", "done"}
        /\ r \in wrote
        /\ \A q \in Requests \ {r} : section'[q] = section[q] /\ pc'[q] = pc[q]
    BY <1>3, PushMoves
  <2>3. \A q \in Requests :
          /\ section'[q] = "push" => q \in wrote
          /\ section'[q] \in {"number", "store"} => q \notin wrote
          /\ pc'[q] \in Early \union {"drive"} /\ section'[q] = "enter" => q \notin wrote
          /\ pc'[q] = "persist" /\ call[q].op # "delete" => q \in wrote /\ section'[q] = "enter"
    BY <2>2 DEF WroteInv, Early
  <2>4. \A q \in wrote : pc'[q] \notin Early /\ call[q].op \in {"create", "update", "restore"}
    BY <2>2 DEF WroteInv, Early, MemoryInv, DriveTypes
  <2> QED  BY <2>1, <2>2, <2>3, <2>4 DEF WroteInv
<1>4. ASSUME DriveStays, [Next]_vars,
             \/ \E r \in Requests : ServiceStep(r) \/ ReadRecord(r) \/ NotFound(r)
             \/ UNCHANGED memoryVars
      PROVE  WroteInv'
  <2>1. UNCHANGED <<section, wrote, records, lost>> /\ wrote \subseteq Requests
    BY <1>4 DEF DriveStays, driveVars, portVars, MemoryInv, DriveTypes
  <2>2. \A r \in Requests :
         /\ section[r] = "push" => r \in wrote
         /\ section[r] \in {"number", "store"} => r \notin wrote
         /\ pc'[r] \in Early \union {"drive"} /\ section[r] = "enter" => r \notin wrote
         /\ pc'[r] = "persist" /\ call'[r].op # "delete" => r \in wrote /\ section[r] = "enter"
    BY <1>4, QuietMoves DEF WroteInv
  <2>3. \A r \in wrote : pc'[r] \notin Early /\ call'[r].op \in {"create", "update", "restore"}
    BY <1>4, <2>1, QuietMoves, WritersKeep DEF WroteInv
  <2>4. Writers \subseteq wrote /\ \A r, q \in Writers : snap[r].id = snap[q].id => r = q
    BY DEF WroteInv
  <2>5. CASE RowKept
    <3>1. Writers' = Writers /\ \A q \in Writers : snap'[q] = snap[q]
      BY <1>4, <2>4, <2>5, WritersKeep
    <3> QED  BY <2>1, <2>2, <2>3, <2>4, <3>1 DEF WroteInv
  <2>6. ASSUME NEW p \in Requests, RowTaken(p) PROVE WroteInv'
    <3>1. /\ Writers' = Writers \union {p} /\ p \in wrote
          /\ call[p].op \in {"create", "update", "restore"}
          /\ \A q \in Writers' : snap'[q] = snap[q]
      BY <1>4, <2>4, <2>6, WritersKeep
    <3>2. ASSUME NEW q \in Writers PROVE snap[q].id # snap[p].id
      <4>1. row # None /\ VersionNo[snap[q].id] <= VersionNo[row.id] /\ snap[q] # None
        BY DEF Writers, IInv, WritesInv
      <4>2. snap[q].id \in VersionIds /\ row.id \in VersionIds
        BY <4>1 DEF Writers, IInv, TypeOK, Snapshot, Row
      <4>3. snap[p].id > row.id /\ snap[p].id \in Nat
        BY <2>6, <3>1, <4>1, CommitAdvances
      <4> QED  BY <4>1, <4>2, <4>3, MemoryAssumption
    <3> QED  BY <2>1, <2>2, <2>3, <2>4, <3>1, <3>2 DEF WroteInv
  <2> QED  BY <1>4, <2>5, <2>6, RowMoves
<1>5. CASE MemoryRestart
  <2>1. Writers' = Writers
    BY <1>5, RestartMoves DEF Writers
  <2>2. \A q \in Requests : pc'[q] \in Early \union {"drive", "persist"} =>
          pc'[q] = "idle" /\ pc[q] = "idle"
    BY <1>5, RestartMoves DEF Early
  <2>3. wrote \subseteq Requests
    BY DEF MemoryInv, DriveTypes
  <2> QED  BY <1>5, <2>1, <2>2, <2>3, RestartMoves DEF WroteInv, Early
<1> QED  BY <1>1, <1>2, <1>3, <1>4, <1>5, StepsAre

LEMMA SourcesStep ==
    ASSUME IInv, MemoryInv, WroteInv, SourcesInv, [MemoryNext]_memoryVars
    PROVE  SourcesInv'
<1> USE DEF SourcesInv
<1>1. ASSUME NEW r \in Requests, DraftStep(r) PROVE SourcesInv'
  <2>1. UNCHANGED <<pc, call, snap, versions>>
    BY <1>1, DraftMoves DEF vars, handlerVars, driveVars
  <2>2. ASSUME section'[r] = "store", call[r].op = "restore"
        PROVE  Sourced(r, draft'[r]) /\ call[r].source < draft'[r].id
    <3>1. /\ Sourced(r, draft[r]) /\ draft'[r].body = draft[r].body /\ IsNext(draft'[r].id)
      BY <1>1, <2>2, DraftMoves
    <3>2. PICK i \in DOMAIN versions :
            versions[i].id = call[r].source /\ versions[i].body = draft[r].body
      BY <3>1 DEF Sourced
    <3>3. versions[i].id < draft'[r].id
      BY <3>1 DEF IsNext
    <3> QED  BY <3>1, <3>2, <3>3 DEF Sourced
  <2> QED  BY <1>1, <2>1, <2>2, DraftMoves DEF Sourced
<1>2. ASSUME NEW r \in Requests, StoreRecord(r) PROVE SourcesInv'
  <2>1. UNCHANGED <<pc, call, snap, versions>>
    BY <1>2, StoreMoves DEF vars, handlerVars
  <2> QED  BY <1>2, <2>1, StoreMoves DEF Sourced
<1>3. ASSUME NEW r \in Requests, PushVersion(r) PROVE SourcesInv'
  <2>1. \A i \in DOMAIN versions : i \in DOMAIN versions' /\ versions'[i] = versions[i]
    <3>1. versions \in Seq(Snapshot) /\ versions' = Append(versions, draft[r])
      BY <1>3, PushMoves DEF MemoryInv, DriveTypes
    <3> QED  BY <3>1
  <2>2. call' = call
    BY <1>3, PushMoves
  <2>3. ASSUME NEW q \in Requests, NEW s, Sourced(q, s)
        PROVE  \E i \in DOMAIN versions' :
                 versions'[i].id = call[q].source /\ versions'[i].body = s.body
    BY <2>1, <2>3 DEF Sourced
  <2> QED  BY <1>3, <2>2, <2>3, PushMoves DEF Sourced
<1>4. ASSUME DriveStays, [Next]_vars,
             \/ \E r \in Requests : ServiceStep(r) \/ ReadRecord(r) \/ NotFound(r)
             \/ UNCHANGED memoryVars
      PROVE  SourcesInv'
  <2>1. UNCHANGED <<section, draft, versions>>
    BY <1>4 DEF DriveStays, driveVars, portVars
  <2>2. ASSUME NEW q \in Requests, pc'[q] = "drive", section[q] # "enter"
        PROVE  pc[q] = "drive" /\ call'[q] = call[q]
    <3>1. pc[q] = "drive"
      BY <1>4, <2>2, QuietMoves DEF MemoryInv, DraftsInv, Early
    <3> QED  BY <1>4, <3>1, HandlersKeep DEF Early
  <2>3. ASSUME NEW q \in Requests, pc'[q] = "persist", call'[q].op = "restore"
        PROVE  pc[q] = "persist" /\ call'[q] = call[q] /\ snap'[q] = snap[q]
    BY <1>4, <2>3, QuietMoves
  <2> QED  BY <2>1, <2>2, <2>3 DEF Sourced
<1>5. CASE MemoryRestart
  BY <1>5, RestartMoves
<1> QED  BY <1>1, <1>2, <1>3, <1>4, <1>5, StepsAre

-----------------------------------------------------------------------------
\* A handler that has read a row cannot come to commit over it again.
LEMMA ReadRowIsBehind ==
    ASSUME IInv, NEW q \in Requests, base[q] # None, NEW p \in Requests, RowTaken(p),
           call[p].op \in {"create", "update", "restore"}
    PROVE  base[q] # row'
<1>1. /\ row # None /\ row \in Row /\ base[q] \in Row
      /\ VersionNo[base[q].id] <= VersionNo[row.id]
  BY DEF IInv, TypeOK, ReadsInv
<1>2. base[q].id <= row.id /\ base[q].id \in Nat /\ row.id \in Nat
  BY <1>1, MemoryAssumption DEF Row
<1>3. row'.id > row.id /\ row'.id \in Nat
  BY <1>1, CommitAdvances
<1> QED  BY <1>2, <1>3

\* Once the stores cannot come to agree they never will.
LEMMA HopeStays ==
    ASSUME IInv, MemoryInv, WroteInv, [MemoryNext]_memoryVars, Hopeful'
    PROVE  Hopeful
<1>1. ~lost' /\ \A p \in Stranded' : CanCommit(p)' /\ \A q \in Stranded' : p = q
  BY DEF Hopeful
<1>2. wrote \subseteq Requests /\ applied \subseteq Requests
  BY DEF MemoryInv, DriveTypes, IInv, TypeOK
<1>3. ASSUME NEW r \in Requests, DraftStep(r) PROVE Hopeful
  <2>1. UNCHANGED <<pc, call, base, status, row, applied, wrote, lost>> /\ r \notin wrote
    BY <1>3, DraftMoves DEF vars, pageVars, handlerVars, historyVars, driveVars
  <2>2. Stranded' = Stranded
    BY <2>1 DEF Stranded
  <2>3. \A p \in Stranded : section'[p] = section[p]
    BY <1>2, <1>3, <2>1, DraftMoves DEF Stranded
  <2> QED  BY <1>1, <2>1, <2>2, <2>3 DEF Hopeful, CanCommit
<1>4. ASSUME NEW r \in Requests, StoreRecord(r) PROVE Hopeful
  <2>1. UNCHANGED <<pc, call, base, status, row, applied, lost>>
    BY <1>4, StoreMoves DEF vars, pageVars, handlerVars, historyVars
  <2>2. Stranded' = Stranded \union {r} /\ r \notin Stranded
    BY <1>4, <2>1, StoreMoves DEF Stranded
  <2>3. Stranded = {}
    BY <1>1, <2>2
  <2> QED  BY <1>1, <2>1, <2>3 DEF Hopeful
<1>5. ASSUME NEW r \in Requests, PushVersion(r) PROVE Hopeful
  <2>1. UNCHANGED <<call, base, status, row, applied, lost, wrote>>
    BY <1>5, PushMoves
  <2>2. Stranded' = Stranded /\ r \in Stranded
    BY <1>5, <2>1, PushMoves DEF Stranded
  <2>3. Stranded = {r}
    BY <1>1, <2>2
  <2>4. CanCommit(r)' => CanCommit(r)
    BY <1>5, <2>1, PushMoves DEF CanCommit
  <2> QED  BY <1>1, <2>1, <2>2, <2>3, <2>4 DEF Hopeful
<1>6. ASSUME DriveStays, [Next]_vars,
             \/ \E r \in Requests : ServiceStep(r) \/ ReadRecord(r) \/ NotFound(r)
             \/ UNCHANGED memoryVars
      PROVE  Hopeful
  <2>1. UNCHANGED <<section, wrote, lost>>
    BY <1>6 DEF DriveStays, driveVars, portVars
  <2>2. \A q \in wrote : call'[q] = call[q] /\ base'[q] = base[q]
    BY <1>6, WritersKeep
  <2>3. ASSUME NEW q \in wrote
        PROVE  /\ pc'[q] = "drive" => pc[q] = "drive"
               /\ pc'[q] = "persist" => pc[q] = "persist"
    <3>1. pc[q] \notin Early /\ call[q].op \in {"create", "update", "restore"}
      BY DEF WroteInv
    <3> QED  BY <1>2, <1>6, <3>1, QuietMoves
  <2>4. CASE RowKept
    <3>1. Stranded' = Stranded
      BY <1>6, <2>4, WritersKeep
    <3>2. ASSUME NEW q \in Stranded PROVE CanCommit(q)
      <4>1. q \in wrote /\ CanCommit(q)'
        BY <1>1, <3>1, <3>2 DEF Stranded
      <4>2. row' = row /\ (status' = status \/ (status = "active" /\ status' = "deleted"))
        BY <2>4 DEF RowKept
      <4> QED  BY <2>1, <2>2, <2>3, <4>1, <4>2 DEF CanCommit
    <3> QED  BY <1>1, <2>1, <3>1, <3>2 DEF Hopeful
  <2>5. ASSUME NEW p \in Requests, RowTaken(p) PROVE Hopeful
    <3>1. /\ call[p].op \in {"create", "update", "restore"} /\ p \in wrote
          /\ Stranded' = Stranded \ {p}
      BY <1>6, <2>5, WritersKeep
    <3>2. ASSUME NEW q \in Stranded, q # p PROVE FALSE
      <4>1. q \in wrote /\ q \in Requests /\ CanCommit(q)'
        BY <1>1, <1>2, <3>1, <3>2 DEF Stranded
      <4>2. status' = "active"
        BY <2>5 DEF RowTaken
      <4>3. call[q].op # "create" /\ base[q] = row'
        BY <2>2, <4>1, <4>2 DEF CanCommit
      <4>4. base[q] # None
        <5>1. row' # None
          BY <1>6, <4>2, StepInv DEF IInv, ReadsInv
        <5> QED  BY <4>3, <5>1
      <4> QED  BY <2>5, <3>1, <4>1, <4>3, <4>4, ReadRowIsBehind
    <3>3. CanCommit(p)
      <4>1. call[p].op # "create" => status = "active" /\ base[p] = row
        <5>1. call[p].op # "create" => /\ status = "active" /\ row # None
                                       /\ row.id = base[p].id /\ base[p] # None
          BY <2>5, <3>1 DEF RowTaken, IsAdvance, IInv, HandlerInv
        <5> QED  BY <5>1 DEF IInv, ReadsInv
      <4> QED  BY <2>5, <4>1 DEF CanCommit, RowTaken
    <3> QED  BY <1>1, <2>1, <3>2, <3>3 DEF Hopeful
  <2> QED  BY <1>6, <2>4, <2>5, RowMoves
<1>7. CASE MemoryRestart
  <2>1. ~lost /\ records = None
    BY <1>1, <1>7, RestartMoves
  <2> QED  BY <2>1 DEF WroteInv, Hopeful, Stranded
<1> QED  BY <1>3, <1>4, <1>5, <1>6, <1>7, StepsAre

-----------------------------------------------------------------------------
\* A step that commits nothing leaves what was committed and restored.
LEMMA RestoredStays ==
    ASSUME WroteInv, WroteInv', RestoredInv, row' = row, Writers' = Writers,
           \A q \in Writers : snap'[q] = snap[q] /\ call'[q] = call[q]
    PROVE  /\ \A v : Committed(v)' = Committed(v)
           /\ RestoredInv'
<1>1. ASSUME NEW v PROVE Committed(v)' = Committed(v)
  BY CommittedStays
<1> QED  BY <1>1 DEF RestoredInv

LEMMA DraftSettles ==
    ASSUME IInv, MemoryInv, WroteInv, WroteInv', NEW r \in Requests, DraftStep(r),
           EntriesInv, RecordsInv, RestoredInv
    PROVE  EntriesInv' /\ RecordsInv' /\ RestoredInv'
<1>1. /\ UNCHANGED <<pc, call, snap, row, applied, records, versions, wrote>>
      /\ r \notin wrote
  BY DraftMoves DEF vars, pageVars, handlerVars, historyVars, driveVars
<1>2. Writers' = Writers /\ Stranded' = Stranded /\ Stranded \subseteq Requests
  BY <1>1 DEF Writers, Stranded, MemoryInv, DriveTypes
<1>3. \A q \in Stranded : draft'[q] = draft[q]
  BY <1>1, <1>2, DraftMoves DEF Stranded
<1>4. RestoredInv' /\ \A v : Committed(v)' = Committed(v)
  BY <1>1, <1>2, RestoredStays
<1>5. EntriesInv'
  BY <1>1, <1>2 DEF EntriesInv, EntryOf
<1>6. RecordsInv'
  BY <1>1, <1>2, <1>3, <1>4 DEF RecordsInv, Made, RowOf
<1> QED  BY <1>4, <1>5, <1>6

LEMMA StoreSettles ==
    ASSUME IInv, MemoryInv, WroteInv, WroteInv', NEW r \in Requests, StoreRecord(r), Hopeful',
           EntriesInv, RecordsInv, RestoredInv
    PROVE  EntriesInv' /\ RecordsInv' /\ RestoredInv'
<1>1. /\ UNCHANGED <<pc, call, snap, row, applied, versions, draft>>
      /\ r \notin wrote /\ r \notin applied /\ pc[r] = "drive" /\ records' = draft[r]
      /\ wrote' = wrote \union {r}
  BY StoreMoves DEF vars, pageVars, handlerVars, historyVars
<1>2. Writers' = Writers /\ Stranded' = Stranded \union {r} /\ r \notin Stranded
  BY <1>1 DEF Writers, Stranded
<1>3. Stranded = {} /\ Stranded' = {r}
  BY <1>2 DEF Hopeful
<1>4. RestoredInv'
  BY <1>1, <1>2, RestoredStays
<1>5. EntriesInv'
  BY <1>1, <1>2, <1>3 DEF EntriesInv, EntryOf
<1>6. RecordsInv'
  BY <1>1, <1>3 DEF RecordsInv, Made
<1> QED  BY <1>4, <1>5, <1>6

LEMMA PushSettles ==
    ASSUME IInv, MemoryInv, WroteInv, WroteInv', NEW r \in Requests, PushVersion(r), Hopeful,
           EntriesInv, RecordsInv, RestoredInv
    PROVE  EntriesInv' /\ RecordsInv' /\ RestoredInv'
<1>1. /\ UNCHANGED <<call, row, applied, records, wrote>>
      /\ r \in wrote /\ r \notin applied /\ pc[r] = "drive" /\ versions' = Append(versions, draft[r])
      /\ pc'[r] = "persist" /\ snap'[r] = draft[r] /\ draft[r] \in Snapshot
      /\ \A q \in Requests \ {r} : snap'[q] = snap[q]
  BY PushMoves DEF Hopeful
<1>2. Writers' = Writers /\ Stranded' = Stranded /\ r \in Stranded
  BY <1>1 DEF Writers, Stranded
<1>3. Stranded = {r}
  BY <1>2 DEF Hopeful
<1>4. \A q \in Writers : snap'[q] = snap[q]
  BY <1>1 DEF Writers, IInv, TypeOK
<1>5. RestoredInv'
  BY <1>1, <1>2, <1>4, RestoredStays
<1>6. /\ DOMAIN versions' = 1..(Len(versions) + 1) /\ Len(versions) \in Nat
      /\ DOMAIN versions = 1..Len(versions)
      /\ versions'[Len(versions) + 1] = draft[r]
      /\ \A i \in DOMAIN versions : versions'[i] = versions[i]
  BY <1>1 DEF MemoryInv, DriveTypes
<1>7. EntriesInv'
  <2> SUFFICES ASSUME NEW i \in DOMAIN versions' PROVE EntryOf(i)'
    BY DEF EntriesInv
  <2>1. CASE i \in DOMAIN versions
    <3>1. EntryOf(i) /\ versions'[i] = versions[i]
      BY <1>6, <2>1 DEF EntriesInv
    <3>2. ~\E q \in Stranded : pc[q] = "persist" /\ versions[i] = snap[q]
      BY <1>1, <1>3
    <3> QED  BY <1>1, <1>2, <1>4, <3>1, <3>2 DEF EntryOf
  <2>2. CASE i = Len(versions) + 1
    <3>1. versions'[i] = snap'[r] /\ pc'[r] = "persist" /\ r \in Stranded'
      BY <1>1, <1>2, <1>6, <2>2
    <3> QED  BY <3>1 DEF EntryOf
  <2> QED  BY <1>6, <2>1, <2>2
<1>8. RecordsInv'
  <2>1. records = draft[r]
    BY <1>1, <1>3 DEF RecordsInv, Made
  <2> QED  BY <1>1, <1>2, <1>3, <2>1 DEF RecordsInv, Made
<1> QED  BY <1>5, <1>7, <1>8

LEMMA KeptSettles ==
    ASSUME IInv, MemoryInv, WroteInv, WroteInv', DriveStays, [Next]_vars,
           \/ \E r \in Requests : ServiceStep(r) \/ ReadRecord(r) \/ NotFound(r)
           \/ UNCHANGED memoryVars,
           RowKept, Hopeful', EntriesInv, RecordsInv, RestoredInv
    PROVE  EntriesInv' /\ RecordsInv' /\ RestoredInv'
<1>1. UNCHANGED <<records, versions, draft, wrote, row>>
  BY DEF DriveStays, driveVars, portVars, RowKept
<1>2. Writers' = Writers /\ Stranded' = Stranded
  BY WritersKeep
<1>3. /\ \A q \in Writers : q \in wrote
      /\ \A q \in Stranded : q \in wrote /\ q \in Requests
  BY DEF WroteInv, Stranded, MemoryInv, DriveTypes
<1>4. \A q \in wrote : snap'[q] = snap[q] /\ call'[q] = call[q]
  BY WritersKeep
<1>5. ASSUME NEW q \in Stranded
      PROVE  pc'[q] = pc[q] /\ pc[q] \in {"drive", "persist"}
  <2>1. pc'[q] \in {"drive", "persist"}
    BY <1>2, <1>5 DEF Hopeful, CanCommit
  <2>2. /\ pc[q] \notin Early /\ call[q].op \in {"create", "update", "restore"}
        /\ q \in Requests
    BY <1>3, <1>5 DEF WroteInv
  <2>3. pc'[q] = "drive" => pc[q] = "drive"
    BY <2>2, QuietMoves
  <2>4. pc'[q] = "persist" => pc[q] = "persist"
    BY <2>2, QuietMoves
  <2> QED  BY <2>1, <2>3, <2>4
<1>6. RestoredInv' /\ \A v : Committed(v)' = Committed(v)
  BY <1>1, <1>2, <1>3, <1>4, RestoredStays
<1>7. EntriesInv'
  <2> SUFFICES ASSUME NEW i \in DOMAIN versions PROVE EntryOf(i)'
    BY <1>1 DEF EntriesInv
  <2>1. EntryOf(i)
    BY DEF EntriesInv
  <2> QED  BY <1>1, <1>2, <1>3, <1>4, <1>5, <2>1 DEF EntryOf
<1>8. RecordsInv'
  <2>1. \A p \in Stranded : Made(p)' = Made(p)
    BY <1>1, <1>3, <1>4, <1>5 DEF Made
  <2> QED  BY <1>1, <1>2, <1>6, <2>1 DEF RecordsInv, RowOf
<1> QED  BY <1>6, <1>7, <1>8

LEMMA TakenSettles ==
    ASSUME IInv, MemoryInv, WroteInv, WroteInv', SourcesInv, DriveStays, [Next]_vars,
           \/ \E r \in Requests : ServiceStep(r) \/ ReadRecord(r) \/ NotFound(r)
           \/ UNCHANGED memoryVars,
           NEW p \in Requests, RowTaken(p), Hopeful, EntriesInv, RecordsInv, RestoredInv
    PROVE  EntriesInv' /\ RecordsInv' /\ RestoredInv'
<1>1. UNCHANGED <<records, versions, wrote, call, snap>>
  BY DEF DriveStays, driveVars, RowTaken
<1>2. /\ call[p].op \in {"create", "update", "restore"} /\ p \in wrote
      /\ Writers' = Writers \union {p} /\ Stranded' = Stranded \ {p}
  BY WritersKeep
<1>3. p \in Stranded
  BY <1>2 DEF Stranded, RowTaken, IInv, WritesInv
<1>4. Stranded = {p} /\ Stranded' = {}
  BY <1>2, <1>3 DEF Hopeful
<1>5. /\ row' = RowOf(snap[p]) /\ pc[p] = "persist"
      /\ snap[p] \in Snapshot /\ snap[p].id \in Nat /\ snap[p].id \in VersionIds
      /\ row'.id = snap[p].id /\ row' # None
      /\ row # None => row.id \in Nat /\ snap[p].id > row.id
  <2>1. row' # None
    <3>1. status' = "active" /\ ReadsInv'
      BY StepInv DEF RowTaken, IInv
    <3> QED  BY <3>1 DEF ReadsInv
  <2> QED  BY <1>2, <2>1, CommitAdvances DEF RowTaken
<1>6. EntriesInv'
  <2> SUFFICES ASSUME NEW i \in DOMAIN versions PROVE EntryOf(i)'
    BY <1>1 DEF EntriesInv
  <2>1. EntryOf(i) /\ versions[i].id \in Nat
    <3>1. versions[i] \in Snapshot
      BY DEF MemoryInv, DriveTypes
    <3> QED  BY <3>1, MemoryAssumption DEF EntriesInv, Snapshot
  <2>2. CASE \E r \in Writers \union {p} : versions[i] = snap[r]
    BY <1>1, <1>2, <2>2 DEF EntryOf
  <2>3. CASE /\ versions[i].body = FirstBody
             /\ row # None /\ versions[i].id <= row.id
             /\ \A r \in Writers : snap[r].id # versions[i].id
    <3>1. versions[i].id <= row'.id /\ snap[p].id # versions[i].id
      BY <1>5, <2>1, <2>3
    <3> QED  BY <1>1, <1>2, <1>5, <2>3, <3>1 DEF EntryOf
  <2> QED  BY <1>4, <2>1, <2>2, <2>3 DEF EntryOf
<1>7. RecordsInv'
  <2>1. records = snap[p]
    BY <1>3, <1>5 DEF RecordsInv, Made
  <2>2. Committed(snap[p].id)' = snap[p].body
    BY <1>1, <1>2, CommittedIsNext
  <2>3. Committed(row.id)' = snap[p].body
    <3> DEFINE w == CHOOSE r \in Writers' : snap'[r].id = row'.id
    <3>1. p \in Writers' /\ snap'[p].id = row'.id
      BY <1>1, <1>2, <1>5
    <3>2. w \in Writers' /\ snap'[w].id = row'.id
      BY <3>1
    <3>3. w = p
      BY <3>1, <3>2 DEF WroteInv
    <3>4. Committed(row.id)' = snap'[w].body
      BY <3>1 DEF Committed
    <3> QED  BY <1>1, <3>3, <3>4
  <2> QED  BY <1>1, <1>4, <1>5, <2>1, <2>3 DEF RecordsInv, RowOf
<1>8. ASSUME NEW r \in Writers, call[r].op = "restore"
      PROVE  /\ call[r].source \in VersionIds /\ call[r].source <= row'.id
             /\ snap[r].body = Committed(call[r].source)'
  <2>1. row # None
    BY DEF Writers, IInv, WritesInv
  <2>2. /\ call[r].source \in VersionIds /\ call[r].source <= row.id
        /\ snap[r].body = Committed(call[r].source)
    BY <1>8 DEF RestoredInv
  <2>3. call[r].source <= row'.id /\ snap[p].id # call[r].source
    BY <1>5, <2>1, <2>2, MemoryAssumption
  <2>4. Committed(call[r].source)' = Committed(call[r].source)
    BY <1>1, <1>2, <2>3, CommittedStays
  <2> QED  BY <1>1, <2>2, <2>3, <2>4
<1>9. ASSUME call[p].op = "restore"
      PROVE  /\ call[p].source \in VersionIds /\ call[p].source <= row'.id
             /\ snap[p].body = Committed(call[p].source)'
  <2>1. Sourced(p, snap[p]) /\ call[p].source < snap[p].id
    BY <1>5, <1>9 DEF SourcesInv
  <2>2. PICK i \in DOMAIN versions :
          versions[i].id = call[p].source /\ versions[i].body = snap[p].body
    BY <2>1 DEF Sourced
  <2>3. versions[i].id \in VersionIds
    <3>1. versions[i] \in Snapshot
      BY DEF MemoryInv, DriveTypes
    <3> QED  BY <3>1 DEF Snapshot
  <2>4. versions[i].body = Committed(versions[i].id)'
    BY <1>1, <1>4, <1>6, EntryCommittedNext
  <2>5. versions'[i].id = call'[p].source
    BY <1>1, <2>2
  <2>6. Committed(versions[i].id)' = Committed(call[p].source)'
    BY <2>5 DEF Committed
  <2> QED  BY <1>1, <1>5, <2>1, <2>2, <2>3, <2>4, <2>6, MemoryAssumption
<1>10. RestoredInv'
  BY <1>1, <1>2, <1>8, <1>9 DEF RestoredInv
<1> QED  BY <1>6, <1>7, <1>10

LEMMA RestartSettles ==
    ASSUME IInv, MemoryInv, WroteInv, MemoryRestart, ~lost'
    PROVE  EntriesInv' /\ RecordsInv' /\ RestoredInv'
<1>1. /\ UNCHANGED <<status, row, call, applied, wrote>>
      /\ versions' = <<>> /\ ~lost /\ records = None
  BY RestartMoves
<1>2. wrote = {} /\ Writers' = {} /\ Stranded' = {}
  BY <1>1 DEF WroteInv, Writers, Stranded
<1>3. row = None
  BY <1>1 DEF MemoryInv, DriveTypes, AheadInv, Reached
<1> QED  BY <1>1, <1>2, <1>3 DEF EntriesInv, RecordsInv, RestoredInv


-----------------------------------------------------------------------------
LEMMA ContentInit == MemoryInit => ContentInv
<1> SUFFICES ASSUME MemoryInit PROVE ContentInv
  OBVIOUS
<1>1. /\ IInv /\ MemoryInv
      /\ wrote = {} /\ applied = {}
      /\ \A r \in Requests : pc[r] = "idle" /\ section[r] = "enter"
  BY MemoryInitInv DEF MemoryInit, Init
<1>2. Writers = {} /\ Stranded = {}
  BY <1>1 DEF Writers, Stranded
<1>3. WroteInv /\ SourcesInv /\ RestoredInv
  BY <1>1, <1>2 DEF WroteInv, SourcesInv, RestoredInv
<1>4. ASSUME Hopeful PROVE EntriesInv /\ RecordsInv
  <2>1. \A v : Committed(v) = FirstBody
    BY <1>2, CommittedFirst
  <2>2. CASE status = "active" /\ records = FirstSnapshot /\ versions = <<FirstSnapshot>>
    <3>1. /\ row # None /\ row \in Row /\ row.id \in Nat
          /\ FirstSnapshot.id = row.id /\ FirstSnapshot.body = FirstBody
          /\ RowOf(FirstSnapshot) = row
      BY <1>1, <2>2, MemoryAssumption, NoneAssumption
      DEF IInv, ReadsInv, TypeOK, Row, FirstSnapshot, RowOf
    <3>2. \A i \in DOMAIN versions : versions[i] = FirstSnapshot
      BY <2>2
    <3> QED  BY <1>2, <2>1, <2>2, <3>1, <3>2 DEF EntriesInv, EntryOf, RecordsInv
  <2>3. CASE versions = <<>> /\ lost = (status = "active")
    <3>1. row = None
      BY <1>4, <2>3 DEF Hopeful, MemoryInit, Init
    <3> QED  BY <1>2, <2>3, <3>1 DEF EntriesInv, RecordsInv
  <2> QED  BY <2>2, <2>3 DEF MemoryInit
<1> QED  BY <1>3, <1>4 DEF ContentInv

LEMMA ContentStep ==
    ASSUME IInv, MemoryInv, ContentInv, [MemoryNext]_memoryVars
    PROVE  ContentInv'
<1>1. WroteInv /\ WroteInv' /\ SourcesInv /\ SourcesInv'
  BY WroteStep, SourcesStep DEF ContentInv
<1>2. ASSUME Hopeful' PROVE EntriesInv' /\ RecordsInv' /\ RestoredInv'
  <2>1. Hopeful /\ EntriesInv /\ RecordsInv /\ RestoredInv
    BY <1>1, <1>2, HopeStays DEF ContentInv
  <2>2. ASSUME NEW r \in Requests, DraftStep(r)
        PROVE  EntriesInv' /\ RecordsInv' /\ RestoredInv'
    BY <1>1, <2>1, <2>2, DraftSettles
  <2>3. ASSUME NEW r \in Requests, StoreRecord(r)
        PROVE  EntriesInv' /\ RecordsInv' /\ RestoredInv'
    BY <1>1, <1>2, <2>1, <2>3, StoreSettles
  <2>4. ASSUME NEW r \in Requests, PushVersion(r)
        PROVE  EntriesInv' /\ RecordsInv' /\ RestoredInv'
    BY <1>1, <2>1, <2>4, PushSettles
  <2>5. ASSUME DriveStays, [Next]_vars,
               \/ \E r \in Requests : ServiceStep(r) \/ ReadRecord(r) \/ NotFound(r)
               \/ UNCHANGED memoryVars
        PROVE  EntriesInv' /\ RecordsInv' /\ RestoredInv'
    <3>1. CASE RowKept
      BY <1>1, <1>2, <2>1, <2>5, <3>1, KeptSettles
    <3>2. ASSUME NEW p \in Requests, RowTaken(p)
          PROVE  EntriesInv' /\ RecordsInv' /\ RestoredInv'
      BY <1>1, <2>1, <2>5, <3>2, TakenSettles
    <3> QED  BY <2>5, <3>1, <3>2, RowMoves
  <2>6. CASE MemoryRestart
    BY <1>1, <1>2, <2>6, RestartSettles DEF Hopeful
  <2> QED  BY <2>2, <2>3, <2>4, <2>5, <2>6, StepsAre
<1> QED  BY <1>1, <1>2 DEF ContentInv

\* The contents of the two maps and the histories of the calls that write
\* them, in every reachable state: read_page_content, update_page_content and
\* restore_page_content_version of the in-memory adapter.
THEOREM MemoryContents == MemorySpec => [](IInv /\ MemoryInv /\ ContentInv)
<1>1. MemoryInit => ContentInv
  BY ContentInit
<1>2. IInv /\ MemoryInv /\ ContentInv /\ [MemoryNext]_memoryVars => ContentInv'
  BY ContentStep
<1> QED  BY <1>1, <1>2, MemoryInductive, PTL DEF MemorySpec

\* Whenever no write is between the two stores and none was left there, the
\* adapter's records hold the version the row names with the content that was
\* committed under it, and of every number in its versions the first snapshot
\* is the one that was committed: whatever calls interleaved before.
THEOREM StoresAgree == MemorySpec => []StoresAgreeWhenSettled
<1>1. IInv /\ MemoryInv /\ ContentInv => StoresAgreeWhenSettled
  <2> SUFFICES ASSUME IInv, ContentInv, ~lost, Stranded = {}, status # "absent"
               PROVE  /\ RowOf(records) = row
                      /\ records.body = Committed(row.id)
                      /\ \A i \in DOMAIN versions : versions[i].body = Committed(versions[i].id)
    BY DEF StoresAgreeWhenSettled
  <2>1. WroteInv /\ EntriesInv /\ RecordsInv
    BY DEF ContentInv, Hopeful
  <2>2. row # None
    BY DEF IInv, ReadsInv
  <2> QED  BY <2>1, <2>2, EntryCommitted DEF RecordsInv
<1> QED  BY <1>1, MemoryContents, PTL

\* A restore that took effect brought back the content committed under the
\* version it named (restore_page_content_version), unless a stranded write
\* or the loss of the process's Drive intervened.
THEOREM RestoresAreOfTheAsked == MemorySpec => []RestoresTheAsked
<1>1. ContentInv => RestoresTheAsked
  <2> SUFFICES ASSUME ContentInv, NEW r \in applied, call[r].op = "restore", ~lost, Stranded = {}
               PROVE  snap[r].body = Committed(call[r].source)
    BY DEF RestoresTheAsked
  <2>1. RestoredInv
    BY DEF ContentInv, Hopeful
  <2> QED  BY <2>1 DEF RestoredInv, Writers
<1> QED  BY <1>1, MemoryContents, PTL

\* A read (read_page_content) is answered with what was committed under the
\* version it is answered with, unless the pointer moved under it or a write
\* or a restart is to blame.
THEOREM ReadsSeeCommitted == MemorySpec => ReadsSeeTheCommitted
<1>1. IInv /\ MemoryInv /\ ContentInv /\ [MemoryNext]_memoryVars =>
        \A r \in Requests :
          At(r, "read", "enter") /\ outcome'[r] \in {"ok", "port", "rejected"} =>
              \/ outcome'[r] = "ok" /\ snap'[r].body = Committed(snap'[r].id)
              \/ row # base[r] \/ Stranded # {} \/ lost
  <2> SUFFICES ASSUME IInv, MemoryInv, ContentInv, [MemoryNext]_memoryVars,
                      NEW r \in Requests, At(r, "read", "enter"),
                      outcome'[r] \in {"ok", "port", "rejected"},
                      row = base[r], Stranded = {}, ~lost
               PROVE  outcome'[r] = "ok" /\ snap'[r].body = Committed(snap'[r].id)
    OBVIOUS
  <2>1. pc[r] = "drive" /\ call[r].op = "read" /\ outcome[r] = "none" /\ row # None
    BY DEF At, IInv, HandlerInv, TypeOK, Outcomes, ReadsInv
  <2>2. /\ pc \in [Requests -> Phases] /\ outcome \in [Requests -> Outcomes]
        /\ snap \in [Requests -> Snapshot \union {None}]
    BY DEF IInv, TypeOK
  <2>3. WroteInv /\ RecordsInv
    BY DEF ContentInv, Hopeful
  <2>4. ReadRecord(r) \/ NotFound(r)
    <3>1. ASSUME NEW q \in Requests, ReadRecord(q) \/ NotFound(q), q # r PROVE FALSE
      BY <2>1, <2>2, <3>1 DEF ReadRecord, NotFound, DriveAnswer, DriveError, Goto, Finish
    <3>2. ASSUME NEW q \in Requests, ServiceStep(q) PROVE FALSE
      BY <2>1, <2>2, <3>2
      DEF ServiceStep, Arrive, Refuse, ReserveId, LookupPage, FindPage, InsertPage,
          UpdateDriveSnapshot, DeletePage, ReloadPage, WriteProjection, DbFailure, Abandon,
          Goto, Finish, DbPhases
    <3>3. ASSUME NEW q \in Requests, DraftStep(q) \/ StoreRecord(q) PROVE FALSE
      BY <2>1, <2>3, <3>3, DraftMoves, StoreMoves DEF vars, handlerVars
    <3>4. ASSUME NEW q \in Requests, PushVersion(q) PROVE FALSE
      <4>1. q # r
        BY <2>1, <2>3, <3>4, PushMoves
      <4> QED  BY <2>1, <2>2, <3>4, <4>1 DEF PushVersion, DriveAnswer, Goto, Finish
    <3>5. ~MemoryRestart
      BY <2>1, <2>2 DEF MemoryRestart, DropHandlers, InFlight
    <3>6. ~UNCHANGED memoryVars
      BY <2>1 DEF memoryVars, vars, handlerVars
    <3> QED  BY <3>1, <3>2, <3>3, <3>4, <3>5, <3>6, StepsAre
  <2>5. records # None /\ records \in Snapshot
    BY <2>1 DEF MemoryInv, DriveTypes, AheadInv, Reached
  <2>6. RowOf(records) = row /\ records.body = Committed(row.id)
    BY <2>1, <2>3 DEF RecordsInv
  <2>7. records.id = row.id /\ records.node = row.node /\ records.meta = row.meta
    BY <2>5, <2>6 DEF RowOf, Snapshot
  <2>8. Acceptable(r, records)
    <3>1. records.id \in VersionIds
      BY <2>5 DEF Snapshot
    <3>2. VersionNo[records.id] >= 1
      BY <3>1, MemoryAssumption
    <3> QED  BY <2>1, <2>7, <3>2 DEF Acceptable, RefsMatch, IsCurrent
  <2>9. ReadRecord(r)
    BY <2>1, <2>4, <2>5 DEF NotFound, At
  <2>10. outcome'[r] = "ok" /\ snap'[r] = records
    BY <2>1, <2>2, <2>8, <2>9 DEF ReadRecord, DriveAnswer, Finish
  <2> QED  BY <2>6, <2>7, <2>10
<1> QED  BY <1>1, MemoryContents, PTL DEF MemorySpec, ReadsSeeTheCommitted
=============================================================================
