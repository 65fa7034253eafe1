------------------------- MODULE PageContentProofs -------------------------
(***************************************************************************)
(* The safety of PageContent for every set of requests and every Drive     *)
(* port.  The inductive invariant ties each handler's place to what it     *)
(* holds (HandlerInv), what was read to the row as it is now (ReadsInv)    *)
(* and what was written to the row as it is now (WritesInv).  With it each *)
(* step maps to a step of the register PageRegister or to none.            *)
(***************************************************************************)
EXTENDS PageContent, TLAPS

(***************************************************************************)
(* The row only ever goes forward: to a version with a greater number on   *)
(* the same node, from absent to active to deleted, and a deleted page's   *)
(* pointer stays where it is.                                              *)
(***************************************************************************)
RowGoesForward ==
    [][ /\ row' # row => /\ status' = "active"
                         /\ row # None => /\ VersionNo[row'.id] > VersionNo[row.id]
                                          /\ row'.node = row.node
        /\ status' # status => <<status, status'>> \in
               {<<"absent", "active">>, <<"active", "deleted">>} ]_<<status, row>>

(***************************************************************************)
(* Of the requests that started from the same current version, with or     *)
(* without an expected version, at most one moves the pointer on, and one  *)
(* that named an expected version moved it from that very version          *)
(* (expectedDriveVersionId, compared before the Drive write and again by   *)
(* the statement's WHERE clause).                                          *)
(***************************************************************************)
OneWinnerPerVersion ==
    \A r \in {q \in applied : IsAdvance(q)} :
        /\ call[r].expect \in {None, base[r].id}
        /\ \A q \in {p \in applied : IsAdvance(p)} : base[q].id = base[r].id => q = r

\* What a handler holds in each phase.
HandlerInv ==
    \A r \in Requests :
        /\ pc[r] = "idle" => outcome[r] = "none"
        /\ pc[r] \in {"idle", "reserve", "lookup", "find"} => base[r] = None
        /\ pc[r] # "idle" /\ call[r].op = "create" => base[r] = None
        /\ pc[r] # "idle" => call[r] # None
        /\ outcome[r] # "none" => pc[r] = "done"
        /\ pc[r] \in {"reserve", "lookup"} => call[r].op = "create"
        /\ pc[r] = "find" => call[r].op # "create"
        /\ pc[r] = "drive" => /\ call[r].op # "delete"
                              /\ call[r].op # "create" => base[r] # None
        /\ pc[r] = "persist" => /\ call[r].op # "create" => base[r] # None
                                /\ IsAdvance(r) => Advances(r, snap[r])
                                /\ IsAdvance(r) => snap[r].node = base[r].node
                                /\ call[r].op # "delete" =>
                                     snap[r] # None /\ VersionNo[snap[r].id] >= 1
                                /\ call[r].op # "read"
        /\ pc[r] \in {"reload", "project"} => r \in applied
        /\ outcome[r] = "ok" /\ call[r].op = "read" =>
             /\ base[r] # None
             /\ snap[r] # None
             /\ snap[r].id = base[r].id
        /\ outcome[r] = "ok" /\ call[r].op # "read" => r \in applied
        /\ base[r] # None /\ IsAdvance(r) => call[r].expect \in {None, base[r].id}

\* What was read is no newer than the row, and is the row if the ids agree.
ReadsInv ==
    /\ status = "absent" <=> row = None
    /\ \A r \in Requests :
        /\ floor[r] <= PointerNo
        /\ base[r] # None =>
             /\ row # None
             /\ VersionNo[base[r].id] <= VersionNo[row.id]
             /\ floor[r] <= VersionNo[base[r].id]
             /\ base[r].node = row.node
             /\ base[r].id = row.id => base[r] = row

\* What was written advanced what was read, and the row is not behind it.
WritesInv ==
    /\ \A r \in applied :
        /\ row # None
        /\ call[r] # None
        /\ call[r].op # "read"
        /\ pc[r] \in {"reload", "project", "done"}
        /\ outcome[r] \notin {"refused", "port", "rejected"}
        /\ call[r].op # "delete" =>
             /\ snap[r] # None
             /\ VersionNo[snap[r].id] <= VersionNo[row.id]
        /\ call[r].op = "delete" => pc[r] # "reload"
        /\ IsAdvance(r) => base[r] # None /\ Advances(r, snap[r])
    /\ NoLostUpdate
    /\ OneWinnerPerVersion

\* The steps that only move a handler on or end it.
QuietStep(r) ==
    \/ Refuse(r) \/ ReserveId(r) \/ LookupPage(r) \/ DriveError(r)
    \/ ReloadPage(r) \/ WriteProjection(r) \/ DbFailure(r) \/ Abandon(r)

IInv == TypeOK /\ HandlerInv /\ ReadsInv /\ WritesInv
-----------------------------------------------------------------------------
LEMMA RowOfType == ASSUME NEW s \in Snapshot PROVE RowOf(s) \in Row
  BY DEF RowOf, Row, Snapshot

LEMMA InitInv == Init => IInv
<1> SUFFICES ASSUME Init PROVE IInv
  OBVIOUS
<1> USE NoneAssumption, VersionNoAssumption DEF Init
<1>1. TypeOK
  BY DEF TypeOK, Phases, DbPhases, Outcomes
<1>2. HandlerInv
  BY DEF HandlerInv
<1>3. ReadsInv
  BY DEF ReadsInv, PointerNo, Row
<1>4. WritesInv
  BY DEF WritesInv, NoLostUpdate, OneWinnerPerVersion
<1> QED  BY <1>1, <1>2, <1>3, <1>4 DEF IInv

LEMMA TypeStep == IInv /\ [Next]_vars => TypeOK'
<1> SUFFICES ASSUME IInv, [Next]_vars PROVE TypeOK'
  OBVIOUS
<1> USE VersionNoAssumption, CallsAssumption, NoneAssumption
    DEF IInv, TypeOK, Phases, DbPhases, Outcomes, pageVars, handlerVars, historyVars,
        Goto, Finish
<1>1. ASSUME NEW r \in Requests, Arrive(r) PROVE TypeOK'
  <2>1. PointerNo \in Nat
    BY DEF PointerNo, Row
  <2> QED  BY <1>1, <2>1 DEF Arrive
<1>2. ASSUME NEW r \in Requests, QuietStep(r) PROVE TypeOK'
  BY <1>2 DEF QuietStep, Refuse, ReserveId, LookupPage, DriveError, ReloadPage,
              WriteProjection, DbFailure, Abandon
<1>3. ASSUME NEW r \in Requests, FindPage(r) PROVE TypeOK'
  BY <1>3 DEF FindPage
<1>4. ASSUME NEW r \in Requests, NEW s \in Snapshot, DriveAnswer(r, s) PROVE TypeOK'
  BY <1>4 DEF DriveAnswer
<1>5. ASSUME NEW r \in Requests, InsertPage(r) PROVE TypeOK'
  <2>1. snap[r] \in Snapshot
    BY <1>5 DEF InsertPage, HandlerInv
  <2>2. RowOf(snap[r]) \in Row
    BY <2>1, RowOfType
  <2> QED  BY <1>5, <2>2 DEF InsertPage
<1>6. ASSUME NEW r \in Requests, UpdateDriveSnapshot(r) PROVE TypeOK'
  <2>1. snap[r] \in Snapshot
    BY <1>6 DEF UpdateDriveSnapshot, HandlerInv, IsAdvance
  <2>2. RowOf(snap[r]) \in Row
    BY <2>1, RowOfType
  <2> QED  BY <1>6, <2>2 DEF UpdateDriveSnapshot
<1>7. ASSUME NEW r \in Requests, DeletePage(r) PROVE TypeOK'
  BY <1>7 DEF DeletePage
<1>8. CASE Restart
  BY <1>8 DEF Restart, DropHandlers
<1>9. CASE UNCHANGED vars
  BY <1>9 DEF vars
<1> QED
  BY <1>1, <1>2, <1>3, <1>4, <1>5, <1>6, <1>7, <1>8, <1>9
     DEF Next, ServiceStep, PortStep, QuietStep

LEMMA HandlerStep == IInv /\ [Next]_vars => HandlerInv'
<1> SUFFICES ASSUME IInv, [Next]_vars PROVE HandlerInv'
  OBVIOUS
<1> USE VersionNoAssumption, CallsAssumption, NoneAssumption
    DEF IInv, TypeOK, Phases, DbPhases, Outcomes, pageVars, handlerVars, historyVars,
        Goto, Finish, HandlerInv, IsAdvance, Advances
<1>1. ASSUME NEW r \in Requests, Arrive(r) PROVE HandlerInv'
  BY <1>1 DEF Arrive
<1>2. ASSUME NEW r \in Requests, QuietStep(r) PROVE HandlerInv'
  <2>1. CASE WriteProjection(r)
    BY <2>1 DEF WriteProjection, WritesInv
  <2>2. CASE ReserveId(r) \/ LookupPage(r) \/ ReloadPage(r)
    BY <2>2 DEF ReserveId, LookupPage, ReloadPage
  <2>3. CASE Refuse(r) \/ DriveError(r) \/ DbFailure(r) \/ Abandon(r)
    BY <2>3 DEF Refuse, DriveError, DbFailure, Abandon, InFlight
  <2> QED  BY <1>2, <2>1, <2>2, <2>3 DEF QuietStep
<1>3. ASSUME NEW r \in Requests, FindPage(r) PROVE HandlerInv'
  BY <1>3 DEF FindPage, ReadsInv, ExpectationHolds
<1>4. ASSUME NEW r \in Requests, NEW s \in Snapshot, DriveAnswer(r, s) PROVE HandlerInv'
  BY <1>4 DEF DriveAnswer, Acceptable, RefsMatch, IsCurrent
<1>5. ASSUME NEW r \in Requests, InsertPage(r) PROVE HandlerInv'
  BY <1>5 DEF InsertPage
<1>6. ASSUME NEW r \in Requests, UpdateDriveSnapshot(r) PROVE HandlerInv'
  BY <1>6 DEF UpdateDriveSnapshot
<1>7. ASSUME NEW r \in Requests, DeletePage(r) PROVE HandlerInv'
  BY <1>7 DEF DeletePage
<1>8. CASE Restart
  BY <1>8 DEF Restart, DropHandlers, InFlight
<1>9. CASE UNCHANGED vars
  BY <1>9 DEF vars
<1> QED
  BY <1>1, <1>2, <1>3, <1>4, <1>5, <1>6, <1>7, <1>8, <1>9
     DEF Next, ServiceStep, PortStep, QuietStep

LEMMA ReadsStep == IInv /\ [Next]_vars => ReadsInv'
<1> SUFFICES ASSUME IInv, [Next]_vars PROVE ReadsInv'
  OBVIOUS
<1> USE VersionNoAssumption, CallsAssumption, NoneAssumption
    DEF IInv, TypeOK, pageVars, handlerVars, historyVars, ReadsInv, PointerNo
<1>1. ASSUME NEW r \in Requests, Arrive(r) PROVE ReadsInv'
  BY <1>1 DEF Arrive, HandlerInv, Row
<1>2. ASSUME NEW r \in Requests, QuietStep(r) PROVE ReadsInv'
  BY <1>2 DEF QuietStep, Refuse, ReserveId, LookupPage, DriveError, ReloadPage,
              WriteProjection, DbFailure, Abandon
<1>3. ASSUME NEW r \in Requests, FindPage(r) PROVE ReadsInv'
  BY <1>3 DEF FindPage, Row
<1>4. ASSUME NEW r \in Requests, NEW s \in Snapshot, DriveAnswer(r, s) PROVE ReadsInv'
  BY <1>4 DEF DriveAnswer
<1>5. ASSUME NEW r \in Requests, InsertPage(r) PROVE ReadsInv'
  <2>1. snap[r] \in Snapshot
    BY <1>5 DEF InsertPage, HandlerInv
  <2>2. RowOf(snap[r]) \in Row
    BY <2>1, RowOfType
  <2> QED  BY <1>5, <2>1, <2>2 DEF InsertPage, Row
<1>6. ASSUME NEW r \in Requests, UpdateDriveSnapshot(r) PROVE ReadsInv'
  <2>1. CASE PointerUnmoved(r)
    <3>1. /\ snap[r] \in Snapshot
          /\ base[r] \in Row
          /\ Advances(r, snap[r])
          /\ snap[r].node = base[r].node
      BY <1>6 DEF UpdateDriveSnapshot, HandlerInv, IsAdvance
    <3>2. /\ row' = RowOf(snap[r])
          /\ row' \in Row
          /\ row'.id = snap[r].id
          /\ row'.node = row.node
      BY <1>6, <2>1, <3>1, RowOfType DEF UpdateDriveSnapshot, PointerUnmoved, RowOf
    <3>3. VersionNo[row'.id] > VersionNo[row.id]
      BY <2>1, <3>1, <3>2 DEF PointerUnmoved, Advances, Row
    <3> QED  BY <1>6, <2>1, <3>2, <3>3 DEF UpdateDriveSnapshot, PointerUnmoved, Row
  <2>2. CASE ~PointerUnmoved(r)
    BY <1>6, <2>2 DEF UpdateDriveSnapshot
  <2> QED  BY <2>1, <2>2
<1>7. ASSUME NEW r \in Requests, DeletePage(r) PROVE ReadsInv'
  BY <1>7 DEF DeletePage
<1>8. CASE Restart
  BY <1>8 DEF Restart, DropHandlers
<1>9. CASE UNCHANGED vars
  BY <1>9 DEF vars
<1> QED
  BY <1>1, <1>2, <1>3, <1>4, <1>5, <1>6, <1>7, <1>8, <1>9
     DEF Next, ServiceStep, PortStep, QuietStep

LEMMA WritesStep == IInv /\ [Next]_vars => WritesInv'
<1> SUFFICES ASSUME IInv, [Next]_vars PROVE WritesInv'
  OBVIOUS
<1> USE VersionNoAssumption, CallsAssumption, NoneAssumption
    DEF IInv, TypeOK, pageVars, handlerVars, historyVars, WritesInv, IsAdvance,
        Goto, Finish, NoLostUpdate, OneWinnerPerVersion
<1>1. ASSUME NEW r \in Requests, Arrive(r) PROVE WritesInv'
  BY <1>1 DEF Arrive, Advances
<1>2. ASSUME NEW r \in Requests, QuietStep(r) PROVE WritesInv'
  <2>1. CASE WriteProjection(r) \/ ReloadPage(r)
    BY <2>1 DEF WriteProjection, ReloadPage, Advances
  <2>2. CASE ReserveId(r) \/ LookupPage(r) \/ Refuse(r) \/ DriveError(r)
    BY <2>2 DEF ReserveId, LookupPage, Refuse, DriveError, Advances
  <2>3. CASE DbFailure(r) \/ Abandon(r)
    BY <2>3 DEF DbFailure, DbPhases, Abandon, InFlight, Advances
  <2> QED  BY <1>2, <2>1, <2>2, <2>3 DEF QuietStep
<1>3. ASSUME NEW r \in Requests, FindPage(r) PROVE WritesInv'
  BY <1>3 DEF FindPage, Advances
<1>4. ASSUME NEW r \in Requests, NEW s \in Snapshot, DriveAnswer(r, s) PROVE WritesInv'
  BY <1>4 DEF DriveAnswer, Advances
<1>5. ASSUME NEW r \in Requests, InsertPage(r) PROVE WritesInv'
  <2>1. CASE status = "absent"
    <3>1. applied = {}
      BY <2>1 DEF ReadsInv
    <3>2. /\ snap[r] \in Snapshot
          /\ call[r] # None
          /\ outcome[r] = "none"
      BY <1>5 DEF InsertPage, HandlerInv
    <3>3. row' = RowOf(snap[r]) /\ row' \in Row
      BY <1>5, <2>1, <3>2, RowOfType DEF InsertPage
    <3> QED  BY <1>5, <2>1, <3>1, <3>2, <3>3 DEF InsertPage, RowOf, Snapshot
  <2>2. CASE status # "absent"
    BY <1>5, <2>2 DEF InsertPage, Advances
  <2> QED  BY <2>1, <2>2
<1>6. ASSUME NEW r \in Requests, UpdateDriveSnapshot(r) PROVE WritesInv'
  <2>1. CASE PointerUnmoved(r)
    <3>1. /\ snap[r] \in Snapshot
          /\ base[r] \in Row
          /\ Advances(r, snap[r])
          /\ call[r] # None
          /\ outcome[r] = "none"
          /\ call[r].expect \in {None, base[r].id}
      BY <1>6 DEF UpdateDriveSnapshot, HandlerInv
    <3>2. base[r] = row
      BY <2>1, <3>1 DEF PointerUnmoved, ReadsInv
    <3>3. /\ row' = RowOf(snap[r])
          /\ row' \in Row
          /\ row'.id = snap[r].id
          /\ applied' = applied \union {r}
          /\ pc' = [pc EXCEPT ![r] = "reload"]
          /\ UNCHANGED <<call, base, snap, outcome>>
      BY <1>6, <2>1, <3>1, RowOfType DEF UpdateDriveSnapshot, RowOf
    <3>4. VersionNo[row'.id] > VersionNo[row.id]
      BY <3>1, <3>2, <3>3 DEF Advances
    <3>5. ASSUME NEW q \in applied, IsAdvance(q) PROVE base[q].id # base[r].id
      <4>1. VersionNo[snap[q].id] > VersionNo[base[q].id]
        BY <3>5 DEF Advances
      <4>2. VersionNo[snap[q].id] <= VersionNo[row.id]
        BY <3>5
      <4>3. /\ snap[q].id \in VersionIds
            /\ base[q].id \in VersionIds
            /\ row.id \in VersionIds
        BY <3>5 DEF Snapshot, Row
      <4> QED  BY <4>1, <4>2, <4>3, <3>2
    <3>6. NoLostUpdate'
      BY <1>6, <3>2, <3>3 DEF UpdateDriveSnapshot
    <3>7. OneWinnerPerVersion'
      BY <1>6, <3>1, <3>3, <3>5 DEF UpdateDriveSnapshot
    <3>8. ASSUME NEW q \in applied', call[q].op # "delete"
          PROVE VersionNo[snap[q].id] <= VersionNo[row'.id]
      <4>1. CASE q = r
        BY <4>1, <3>1, <3>3 DEF Snapshot
      <4>2. CASE q # r
        <5>1. q \in applied /\ VersionNo[snap[q].id] <= VersionNo[row.id]
          BY <3>3, <3>8, <4>2
        <5>2. snap[q].id \in VersionIds /\ row.id \in VersionIds /\ row'.id \in VersionIds
          BY <5>1, <3>3, <3>8 DEF Snapshot, Row
        <5> QED  BY <5>1, <5>2, <3>4
      <4> QED  BY <4>1, <4>2
    <3>9. ASSUME NEW q \in applied'
          PROVE /\ row' # None
                /\ call[q] # None
                /\ call[q].op # "read"
                /\ pc'[q] \in {"reload", "project", "done"}
                /\ outcome[q] \notin {"refused", "port", "rejected"}
                /\ call[q].op # "delete" => snap[q] # None
                /\ call[q].op = "delete" => pc'[q] # "reload"
                /\ IsAdvance(q) => base[q] # None /\ Advances(q, snap[q])
      BY <1>6, <3>1, <3>3, <3>9 DEF UpdateDriveSnapshot
    <3> QED  BY <3>3, <3>6, <3>7, <3>8, <3>9 DEF Advances
  <2>2. CASE ~PointerUnmoved(r)
    BY <1>6, <2>2 DEF UpdateDriveSnapshot, Advances
  <2> QED  BY <2>1, <2>2
<1>7. ASSUME NEW r \in Requests, DeletePage(r) PROVE WritesInv'
  BY <1>7 DEF DeletePage, Advances, HandlerInv, ReadsInv
<1>8. CASE Restart
  BY <1>8 DEF Restart, DropHandlers, InFlight, Advances
<1>9. CASE UNCHANGED vars
  BY <1>9 DEF vars, Advances
<1> QED
  BY <1>1, <1>2, <1>3, <1>4, <1>5, <1>6, <1>7, <1>8, <1>9
     DEF Next, ServiceStep, PortStep, QuietStep

LEMMA StepInv == IInv /\ [Next]_vars => IInv'
BY TypeStep, HandlerStep, ReadsStep, WritesStep DEF IInv
-----------------------------------------------------------------------------
\* Where a handler is before its call of the port.
Early == {"idle", "reserve", "lookup", "find"}

\* What every step of a handler leaves alone.
LEMMA HandlersKeep ==
    ASSUME IInv, [Next]_vars
    PROVE  /\ \A q \in Requests :
                pc[q] \notin Early => pc'[q] \notin Early /\ call'[q] = call[q] /\ base'[q] = base[q]
           /\ \A q \in Requests : base[q] # None => base'[q] = base[q]
           /\ applied \subseteq applied'
<1> USE DEF Early
<1>1. ASSUME NEW r \in Requests, ServiceStep(r)
      PROVE  /\ \A q \in Requests :
                  pc[q] \notin Early => pc'[q] \notin Early /\ call'[q] = call[q] /\ base'[q] = base[q]
             /\ \A q \in Requests : base[q] # None => base'[q] = base[q]
             /\ applied \subseteq applied'
  BY <1>1 DEF ServiceStep, Arrive, Refuse, ReserveId, LookupPage, FindPage, InsertPage,
              UpdateDriveSnapshot, DeletePage, ReloadPage, WriteProjection, DbFailure, Abandon,
              Goto, Finish, historyVars, IInv, TypeOK, HandlerInv
<1>2. ASSUME NEW r \in Requests, PortStep(r)
      PROVE  /\ UNCHANGED <<call, base, applied>> /\ pc[r] \notin Early
             /\ pc' = [pc EXCEPT ![r] = pc'[r]] /\ pc'[r] \notin Early
  BY <1>2 DEF PortStep, DriveError, DriveAnswer, Goto, Finish, historyVars, IInv, TypeOK
<1>3. CASE Restart
  BY <1>3 DEF Restart, DropHandlers, historyVars, InFlight
<1>4. CASE UNCHANGED vars
  BY <1>4 DEF vars, handlerVars, historyVars
<1> QED  BY <1>1, <1>2, <1>3, <1>4 DEF Next, IInv, TypeOK

\* A step that leaves the row, and one that commits the snapshot p holds.
RowKept ==
    /\ row' = row
    /\ status' = status \/ (status = "active" /\ status' = "deleted")
    /\ \A q \in applied' \ applied : pc[q] = "persist" /\ call[q].op = "delete"

RowTaken(p) ==
    /\ pc[p] = "persist" /\ call[p].op # "delete" /\ snap[p] # None
    /\ row' = RowOf(snap[p]) /\ applied' = applied \union {p} /\ status' = "active"
    /\ UNCHANGED <<call, base, snap>>
    /\ call[p].op = "create" => status = "absent"
    /\ IsAdvance(p) => status = "active" /\ row # None /\ row.id = base[p].id

LEMMA RowMoves ==
    ASSUME IInv, [Next]_vars
    PROVE  \/ RowKept
           \/ \E p \in Requests : RowTaken(p)
<1>1. ASSUME NEW r \in Requests, InsertPage(r) \/ UpdateDriveSnapshot(r)
      PROVE  RowKept \/ RowTaken(r)
  <2>1. pc[r] = "persist" /\ call[r].op # "delete" /\ snap[r] # None
    BY <1>1 DEF InsertPage, UpdateDriveSnapshot, IsAdvance, IInv, HandlerInv
  <2>2. CASE InsertPage(r)
    BY <2>1, <2>2 DEF InsertPage, IsAdvance, pageVars, RowKept, RowTaken
  <2>3. CASE UpdateDriveSnapshot(r)
    <3>1. PointerUnmoved(r) => status = "active" /\ row # None /\ row.id = base[r].id
      BY DEF PointerUnmoved, IInv, ReadsInv
    <3> QED  BY <2>1, <2>3, <3>1 DEF UpdateDriveSnapshot, IsAdvance, RowKept, RowTaken
  <2> QED  BY <1>1, <2>2, <2>3
<1>2. ASSUME NEW r \in Requests, DeletePage(r) PROVE RowKept
  BY <1>2 DEF DeletePage, RowKept
<1>3. ASSUME NEW r \in Requests, ServiceStep(r),
             ~InsertPage(r) /\ ~UpdateDriveSnapshot(r) /\ ~DeletePage(r)
      PROVE  UNCHANGED <<row, status, applied>>
  BY <1>3 DEF ServiceStep, Arrive, Refuse, ReserveId, LookupPage, FindPage, ReloadPage,
              WriteProjection, DbFailure, Abandon, pageVars, historyVars
<1>4. ASSUME NEW r \in Requests, PortStep(r) PROVE UNCHANGED <<row, status, applied>>
  BY <1>4 DEF PortStep, DriveError, DriveAnswer, pageVars, historyVars
<1>5. CASE Restart \/ UNCHANGED vars
  BY <1>5 DEF Restart, DropHandlers, vars, pageVars, historyVars, RowKept
<1>6. UNCHANGED <<row, status, applied>> => RowKept
  BY DEF RowKept
<1> QED  BY <1>1, <1>2, <1>3, <1>4, <1>5, <1>6 DEF Next

LEMMA SnapsMove ==
    ASSUME IInv, [Next]_vars
    PROVE  /\ \A q \in Requests : pc'[q] \in Early \union {"drive"} =>
                                    pc[q] \in Early \union {"drive"} /\ snap'[q] = snap[q]
           /\ \A q \in Requests : pc[q] \notin Early \union {"drive"} => snap'[q] = snap[q]
<1> USE DEF Early
<1>1. ASSUME NEW r \in Requests, ServiceStep(r)
      PROVE  /\ snap' = snap
             /\ \A q \in Requests : pc'[q] \in Early \union {"drive"} =>
                                      pc[q] \in Early \union {"drive"}
  BY <1>1 DEF ServiceStep, Arrive, Refuse, ReserveId, LookupPage, FindPage, InsertPage,
              UpdateDriveSnapshot, DeletePage, ReloadPage, WriteProjection, DbFailure, Abandon,
              Goto, Finish, IInv, TypeOK
<1>2. ASSUME NEW r \in Requests, PortStep(r)
      PROVE  /\ pc[r] = "drive" /\ pc' = [pc EXCEPT ![r] = pc'[r]]
             /\ pc'[r] \in {"persist", "done"}
             /\ \A q \in Requests \ {r} : snap'[q] = snap[q]
  BY <1>2 DEF PortStep, DriveError, DriveAnswer, Goto, Finish, IInv, TypeOK
<1>3. CASE Restart
  BY <1>3 DEF Restart, DropHandlers, InFlight
<1>4. CASE UNCHANGED vars
  BY <1>4 DEF vars, handlerVars
<1> QED  BY <1>1, <1>2, <1>3, <1>4 DEF Next, IInv, TypeOK
-----------------------------------------------------------------------------
(***************************************************************************)
(* The invariant holds of every behaviour, and the safety properties       *)
(* follow from it.                                                         *)
(***************************************************************************)
THEOREM Inductive == Spec => []IInv
<1> QED  BY InitInv, StepInv, PTL DEF Spec

(***************************************************************************)
(* The variables keep their types: in particular the row is only ever      *)
(* written from a snapshot the port gave, with both metadata columns       *)
(* (insert_page, update_page_drive_snapshot).                              *)
(***************************************************************************)
THEOREM TypeCorrect == Spec => []TypeOK
<1>1. IInv => TypeOK
  BY DEF IInv
<1> QED  BY Inductive, <1>1, PTL

(***************************************************************************)
(* No committed version is overwritten by a writer that had not read it,   *)
(* for any number of concurrent create_page, update_page_content and       *)
(* restore_page_version requests and any Drive port.                       *)
(***************************************************************************)
THEOREM NoUpdateIsLost == Spec => []NoLostUpdate
<1>1. IInv => NoLostUpdate
  BY DEF IInv, WritesInv
<1> QED  BY Inductive, <1>1, PTL

(***************************************************************************)
(* Of the requests that read the same current version at most one moves    *)
(* the pointer, from the version it named if it named one.                 *)
(***************************************************************************)
THEOREM WinnerIsUnique == Spec => []OneWinnerPerVersion
<1>1. IInv => OneWinnerPerVersion
  BY DEF IInv, WritesInv
<1> QED  BY Inductive, <1>1, PTL

(***************************************************************************)
(* An acknowledged write took effect, and one that was refused or whose    *)
(* Drive call failed did not.                                              *)
(***************************************************************************)
THEOREM AnswersAreTrue == Spec => []AnswerMatchesEffect
<1>1. IInv => AnswerMatchesEffect
  BY DEF IInv, HandlerInv, WritesInv, AnswerMatchesEffect
<1> QED  BY Inductive, <1>1, PTL

(***************************************************************************)
(* No answer is older than what was current when its request arrived.      *)
(***************************************************************************)
THEOREM AnswersAreFresh == Spec => []AnswersRespectRealTime
<1>1. IInv => AnswersRespectRealTime
  <2> SUFFICES ASSUME IInv, NEW r \in Requests, outcome[r] = "ok"
               PROVE /\ call[r].op = "read" => VersionNo[snap[r].id] >= floor[r]
                     /\ IsAdvance(r) => VersionNo[snap[r].id] > floor[r]
    BY DEF AnswersRespectRealTime
  <2> USE VersionNoAssumption DEF IInv, TypeOK
  <2>1. CASE call[r].op = "read"
    <3>1. base[r] # None /\ snap[r].id = base[r].id
      BY <2>1 DEF HandlerInv
    <3>2. floor[r] <= VersionNo[base[r].id]
      BY <3>1 DEF ReadsInv
    <3> QED  BY <2>1, <3>1, <3>2 DEF IsAdvance, Row
  <2>2. CASE IsAdvance(r)
    <3>1. r \in applied
      BY <2>2 DEF HandlerInv, IsAdvance
    <3>2. base[r] # None /\ snap[r] # None /\ Advances(r, snap[r])
      BY <2>2, <3>1 DEF WritesInv, IsAdvance
    <3>3. floor[r] <= VersionNo[base[r].id]
      BY <3>2 DEF ReadsInv
    <3> QED  BY <2>2, <3>2, <3>3 DEF IsAdvance, Advances, Row, Snapshot
  <2> QED  BY <2>1, <2>2
<1> QED  BY Inductive, <1>1, PTL

(***************************************************************************)
(* Every statement moves the row forward or leaves it alone.               *)
(***************************************************************************)
THEOREM RowOnlyGoesForward == Spec => RowGoesForward
<1> DEFINE Forward ==
      /\ row' # row => /\ status' = "active"
                       /\ row # None => /\ VersionNo[row'.id] > VersionNo[row.id]
                                        /\ row'.node = row.node
      /\ status' # status => <<status, status'>> \in
             {<<"absent", "active">>, <<"active", "deleted">>}
<1>1. IInv /\ [Next]_vars => [Forward]_<<status, row>>
  <2> SUFFICES ASSUME IInv, [Next]_vars PROVE Forward \/ UNCHANGED <<status, row>>
    OBVIOUS
  <2>1. ASSUME NEW r \in Requests, InsertPage(r) PROVE Forward
    BY <2>1 DEF InsertPage, IInv, ReadsInv, pageVars
  <2>2. ASSUME NEW r \in Requests, UpdateDriveSnapshot(r), PointerUnmoved(r)
        PROVE Forward
    <3>1. /\ snap[r] \in Snapshot
          /\ Advances(r, snap[r])
          /\ snap[r].node = base[r].node
          /\ base[r] # None
      BY <2>2, NoneAssumption DEF UpdateDriveSnapshot, IInv, TypeOK, HandlerInv, IsAdvance
    <3>2. base[r] = row
      BY <2>2, <3>1 DEF PointerUnmoved, IInv, ReadsInv
    <3>3. row' = RowOf(snap[r]) /\ UNCHANGED status /\ status = "active"
      BY <2>2 DEF UpdateDriveSnapshot, PointerUnmoved
    <3> QED  BY <3>1, <3>2, <3>3 DEF Advances, RowOf
  <2>3. ASSUME NEW r \in Requests, DeletePage(r) PROVE Forward
    BY <2>3 DEF DeletePage
  <2>4. ASSUME NEW r \in Requests, UpdateDriveSnapshot(r), ~PointerUnmoved(r)
        PROVE UNCHANGED <<status, row>>
    BY <2>4 DEF UpdateDriveSnapshot
  <2>5. ASSUME NEW r \in Requests,
               \/ Arrive(r) \/ QuietStep(r) \/ FindPage(r)
               \/ \E s \in Snapshot : DriveAnswer(r, s)
        PROVE UNCHANGED <<status, row>>
    BY <2>5 DEF Arrive, QuietStep, Refuse, ReserveId, LookupPage, DriveError, ReloadPage,
                WriteProjection, DbFailure, Abandon, FindPage, DriveAnswer, pageVars
  <2>6. CASE Restart \/ UNCHANGED vars
    BY <2>6 DEF Restart, DropHandlers, vars, pageVars
  <2> QED
    BY <2>1, <2>2, <2>3, <2>4, <2>5, <2>6 DEF Next, ServiceStep, PortStep, QuietStep
<1> QED  BY Inductive, <1>1, PTL DEF Spec, RowGoesForward

-----------------------------------------------------------------------------
(***************************************************************************)
(* The requests of PageContent, with the statements of the repository,     *)
(* implement the register of PageRegister, whatever the Drive port does:   *)
(* each step of a handler is one step of the register or none.             *)
(***************************************************************************)

\* The versions the register's clients have seen.
MappedSeen == [r \in Requests |-> VersionSeen(r)]

LEMMA InitMaps == Init => Register!Init
<1> SUFFICES ASSUME Init PROVE Register!Init
  OBVIOUS
<1>1. \A r \in Requests : RegisterPhase(r) = "idle" /\ VersionSeen(r) = None
  BY DEF Init, RegisterPhase, VersionSeen, VersionOf, InFlight
<1>2. \/ status = "absent" /\ VersionOf(row) = None
      \/ status = "active" /\ VersionOf(row) \in VersionIds
  BY NoneAssumption DEF Init, VersionOf, Row
<1> QED  BY <1>1, <1>2 DEF Register!Init, Init

\* A step of one handler moves one client of the register.
LEMMA OneMoves ==
  ASSUME NEW r \in Requests, NEW from, NEW to,
         RegisterPhase(r) = from, RegisterPhase(r)' = to,
         VersionSeen(r)' = VersionSeen(r),
         \A q \in Requests \ {r} : /\ RegisterPhase(q)' = RegisterPhase(q)
                                   /\ VersionSeen(q)' = VersionSeen(q)
  PROVE  /\ Register!Move(r, from, to)
         /\ MappedSeen' = MappedSeen
  BY DEF Register!Move, MappedSeen

\* Any other handler's client stays as it is.
LEMMA OthersStay ==
  ASSUME NEW r \in Requests, IInv,
         NEW q \in Requests \ {r},
         pc'[q] = pc[q], outcome'[q] = outcome[q], call'[q] = call[q],
         base'[q] = base[q], snap'[q] = snap[q], q \in applied' <=> q \in applied
  PROVE  /\ RegisterPhase(q)' = RegisterPhase(q)
         /\ VersionSeen(q)' = VersionSeen(q)
  BY DEF RegisterPhase, VersionSeen, InFlight

\* A handler that ends without an ok is a failure of its client.
LEMMA FailureMaps ==
  ASSUME NEW r \in Requests, NEW answer, IInv,
         InFlight(r), Finish(r, answer), answer # "ok",
         UNCHANGED <<status, row, call, base, snap, applied>>
  PROVE  Register!Fail
<1> USE DEF IInv, TypeOK
<1>1. /\ pc' = [pc EXCEPT ![r] = "done"]
      /\ outcome' = [outcome EXCEPT ![r] = answer]
  BY DEF Finish
<1>2. outcome[r] = "none"
  BY DEF HandlerInv, InFlight
<1>3. RegisterPhase(r) \in {"open", "sampled", "applied"}
  BY DEF RegisterPhase, InFlight
<1>4. RegisterPhase(r)' = "failed" /\ VersionSeen(r)' = VersionSeen(r)
  BY <1>1, <1>2 DEF RegisterPhase, VersionSeen, VersionOf, InFlight
<1>5. \A q \in Requests \ {r} : /\ RegisterPhase(q)' = RegisterPhase(q)
                                /\ VersionSeen(q)' = VersionSeen(q)
  BY <1>1, OthersStay
<1> QED  BY <1>3, <1>4, <1>5 DEF Register!Fail, VersionOf

\* Nothing a client of the register can see has changed.
LEMMA StutterMaps ==
  ASSUME UNCHANGED <<status, row>>,
         \A q \in Requests : /\ RegisterPhase(q)' = RegisterPhase(q)
                             /\ VersionSeen(q)' = VersionSeen(q)
  PROVE  UNCHANGED Register!vars
  BY DEF Register!vars, VersionOf

\* FindPage samples the register, or fails.
LEMMA FindMaps ==
  ASSUME NEW r \in Requests, IInv, FindPage(r)
  PROVE  Register!Next
<1> USE NoneAssumption DEF IInv, TypeOK
<1>0. InFlight(r) /\ outcome[r] = "none" /\ base[r] = None /\ r \notin applied
  BY DEF FindPage, InFlight, HandlerInv, WritesInv
<1>1. CASE status = "active" /\ ExpectationHolds(r)
  <2>1. /\ row # None
        /\ base' = [base EXCEPT ![r] = row]
        /\ pc'[r] \in {"persist", "drive"}
        /\ \A q \in Requests \ {r} : pc'[q] = pc[q]
        /\ UNCHANGED <<status, row, call, snap, outcome, applied>>
    BY <1>1 DEF FindPage, Goto, ReadsInv, pageVars, historyVars
  <2>2. RegisterPhase(r) = "open" /\ RegisterPhase(r)' = "sampled"
    BY <1>0, <2>1 DEF RegisterPhase, InFlight
  <2>3. VersionSeen(r)' = VersionOf(row)
    BY <1>0, <2>1 DEF VersionSeen
  <2>4. \A q \in Requests \ {r} : /\ RegisterPhase(q)' = RegisterPhase(q)
                                  /\ VersionSeen(q)' = VersionSeen(q)
    BY <2>1, OthersStay
  <2>5. Register!Sample(r)
    BY <1>1, <2>1, <2>2, <2>3, <2>4 DEF Register!Sample, Register!Move
  <2> QED  BY <2>5 DEF Register!Next
<1>2. CASE ~(status = "active" /\ ExpectationHolds(r))
  <2>1. Finish(r, "refused") /\ UNCHANGED <<status, row, call, base, snap, applied>>
    BY <1>2 DEF FindPage, pageVars, historyVars
  <2>2. Register!Fail
    BY <1>0, <2>1, FailureMaps
  <2> QED  BY <2>2 DEF Register!Next
<1> QED  BY <1>1, <1>2

\* The port's answer to a read is its return, to a write no step at all.
LEMMA AnswerMaps ==
  ASSUME NEW r \in Requests, NEW s \in Snapshot, IInv, DriveAnswer(r, s)
  PROVE  Register!Next \/ UNCHANGED Register!vars
<1> USE NoneAssumption DEF IInv, TypeOK
<1>0. InFlight(r) /\ outcome[r] = "none" /\ r \notin applied
  BY DEF DriveAnswer, InFlight, HandlerInv, WritesInv
<1>1. CASE Acceptable(r, s) /\ call[r].op = "read"
  <2>1. /\ pc' = [pc EXCEPT ![r] = "done"]
        /\ outcome' = [outcome EXCEPT ![r] = "ok"]
        /\ snap' = [snap EXCEPT ![r] = s]
        /\ UNCHANGED <<status, row, call, base, applied>>
    BY <1>1 DEF DriveAnswer, Finish, pageVars, historyVars
  <2>2. base[r] # None /\ s.id = base[r].id
    BY <1>1 DEF DriveAnswer, HandlerInv, Acceptable, IsCurrent
  <2>3. RegisterPhase(r) = "sampled" /\ RegisterPhase(r)' = "returned"
    BY <1>0, <1>1, <2>1, <2>2 DEF RegisterPhase, InFlight
  <2>4. VersionSeen(r)' = VersionSeen(r)
    BY <1>0, <1>1, <2>1, <2>2 DEF VersionSeen, VersionOf
  <2>5. \A q \in Requests \ {r} : /\ RegisterPhase(q)' = RegisterPhase(q)
                                  /\ VersionSeen(q)' = VersionSeen(q)
    BY <2>1, OthersStay
  <2>6. Register!ReturnSeen(r)
    BY <2>1, <2>3, <2>4, <2>5, OneMoves DEF Register!ReturnSeen, MappedSeen, VersionOf
  <2> QED  BY <2>6 DEF Register!Next
<1>2. CASE Acceptable(r, s) /\ call[r].op # "read"
  <2>1. /\ pc' = [pc EXCEPT ![r] = "persist"]
        /\ snap' = [snap EXCEPT ![r] = s]
        /\ UNCHANGED <<status, row, call, base, outcome, applied>>
    BY <1>2 DEF DriveAnswer, Goto, pageVars, historyVars
  <2>2. RegisterPhase(r)' = RegisterPhase(r) /\ VersionSeen(r)' = VersionSeen(r)
    BY <1>0, <2>1 DEF RegisterPhase, VersionSeen, VersionOf, InFlight
  <2>3. \A q \in Requests \ {r} : /\ RegisterPhase(q)' = RegisterPhase(q)
                                  /\ VersionSeen(q)' = VersionSeen(q)
    BY <2>1, OthersStay
  <2> QED  BY <2>1, <2>2, <2>3, StutterMaps
<1>3. CASE ~Acceptable(r, s)
  <2>1. Finish(r, "rejected") /\ UNCHANGED <<status, row, call, base, snap, applied>>
    BY <1>3 DEF DriveAnswer, pageVars, historyVars
  <2>2. Register!Fail
    BY <1>0, <2>1, FailureMaps
  <2> QED  BY <2>2 DEF Register!Next
<1> QED  BY <1>1, <1>2, <1>3

\* The statement of insert_page installs the first version, or fails.
LEMMA InsertMaps ==
  ASSUME NEW r \in Requests, IInv, InsertPage(r)
  PROVE  Register!Next
<1> USE NoneAssumption DEF IInv, TypeOK
<1>0. /\ InFlight(r) /\ outcome[r] = "none" /\ base[r] = None /\ r \notin applied
      /\ snap[r] \in Snapshot
  BY DEF InsertPage, InFlight, HandlerInv, WritesInv
<1>1. CASE status = "absent"
  <2>1. /\ status' = "active"
        /\ row' = RowOf(snap[r])
        /\ applied' = applied \union {r}
        /\ pc' = [pc EXCEPT ![r] = "reload"]
        /\ UNCHANGED <<call, base, snap, outcome>>
    BY <1>1 DEF InsertPage, Goto
  <2>2. RegisterPhase(r) = "open" /\ RegisterPhase(r)' = "applied"
    BY <1>0, <2>1 DEF RegisterPhase, InFlight
  <2>3. VersionSeen(r)' = VersionSeen(r)
    BY <1>0, <2>1 DEF VersionSeen, VersionOf
  <2>4. \A q \in Requests \ {r} : /\ RegisterPhase(q)' = RegisterPhase(q)
                                  /\ VersionSeen(q)' = VersionSeen(q)
    BY <2>1, OthersStay
  <2>5. VersionOf(row)' \in VersionIds
    BY <1>0, <2>1, RowOfType DEF VersionOf, Row
  <2>6. Register!Install(r)
    BY <1>1, <2>1, <2>2, <2>3, <2>4, <2>5, OneMoves DEF Register!Install, MappedSeen
  <2> QED  BY <2>6 DEF Register!Next
<1>2. CASE status # "absent"
  <2>1. Finish(r, "reconcile") /\ UNCHANGED <<status, row, call, base, snap, applied>>
    BY <1>2 DEF InsertPage, pageVars
  <2>2. Register!Fail
    BY <1>0, <2>1, FailureMaps
  <2> QED  BY <2>2 DEF Register!Next
<1> QED  BY <1>1, <1>2

\* The compare and swap of update_page_drive_snapshot is the register's.
LEMMA UpdateMaps ==
  ASSUME NEW r \in Requests, IInv, UpdateDriveSnapshot(r)
  PROVE  Register!Next
<1> USE NoneAssumption DEF IInv, TypeOK
<1>0. /\ InFlight(r) /\ outcome[r] = "none" /\ base[r] \in Row /\ r \notin applied
      /\ snap[r] \in Snapshot
      /\ Advances(r, snap[r])
  BY DEF UpdateDriveSnapshot, IsAdvance, InFlight, HandlerInv, WritesInv
<1>1. CASE PointerUnmoved(r)
  <2>1. /\ row' = RowOf(snap[r])
        /\ applied' = applied \union {r}
        /\ pc' = [pc EXCEPT ![r] = "reload"]
        /\ UNCHANGED <<status, call, base, snap, outcome>>
    BY <1>1 DEF UpdateDriveSnapshot, Goto
  <2>2. RegisterPhase(r) = "sampled" /\ RegisterPhase(r)' = "applied"
    BY <1>0, <2>1 DEF RegisterPhase, InFlight
  <2>3. VersionSeen(r)' = VersionSeen(r) /\ VersionSeen(r) = base[r].id
    BY <1>0, <2>1 DEF VersionSeen, VersionOf
  <2>4. \A q \in Requests \ {r} : /\ RegisterPhase(q)' = RegisterPhase(q)
                                  /\ VersionSeen(q)' = VersionSeen(q)
    BY <2>1, OthersStay
  <2>5. status = "active" /\ VersionOf(row) = base[r].id
    BY <1>0, <1>1 DEF PointerUnmoved, ReadsInv, VersionOf
  <2>6. VersionOf(row)' \in VersionIds /\ VersionNo[VersionOf(row)'] > VersionNo[base[r].id]
    BY <1>0, <2>1, RowOfType DEF VersionOf, Row, RowOf, Advances
  <2>7. Register!Swap(r)
    BY <2>1, <2>2, <2>3, <2>4, <2>5, <2>6, OneMoves DEF Register!Swap, MappedSeen
  <2> QED  BY <2>7 DEF Register!Next
<1>2. CASE ~PointerUnmoved(r)
  <2>1. Finish(r, "reconcile") /\ UNCHANGED <<status, row, call, base, snap, applied>>
    BY <1>2 DEF UpdateDriveSnapshot
  <2>2. Register!Fail
    BY <1>0, <2>1, FailureMaps
  <2> QED  BY <2>2 DEF Register!Next
<1> QED  BY <1>1, <1>2

\* delete_page removes the register's value, or fails.
LEMMA DeleteMaps ==
  ASSUME NEW r \in Requests, IInv, DeletePage(r)
  PROVE  Register!Next
<1> USE NoneAssumption DEF IInv, TypeOK
<1>0. InFlight(r) /\ outcome[r] = "none" /\ base[r] # None /\ r \notin applied
  BY DEF DeletePage, InFlight, HandlerInv, WritesInv
<1>1. CASE status = "active"
  <2>1. /\ status' = "deleted"
        /\ applied' = applied \union {r}
        /\ pc' = [pc EXCEPT ![r] = "project"]
        /\ UNCHANGED <<row, call, base, snap, outcome>>
    BY <1>1 DEF DeletePage, Goto
  <2>2. RegisterPhase(r) = "sampled" /\ RegisterPhase(r)' = "applied"
    BY <1>0, <2>1 DEF RegisterPhase, InFlight
  <2>3. VersionSeen(r)' = VersionSeen(r)
    BY <1>0, <2>1 DEF VersionSeen
  <2>4. \A q \in Requests \ {r} : /\ RegisterPhase(q)' = RegisterPhase(q)
                                  /\ VersionSeen(q)' = VersionSeen(q)
    BY <2>1, OthersStay
  <2>5. Register!Remove(r)
    BY <1>1, <2>1, <2>2, <2>3, <2>4, OneMoves DEF Register!Remove, MappedSeen, VersionOf
  <2> QED  BY <2>5 DEF Register!Next
<1>2. CASE status # "active"
  <2>1. Finish(r, "refused") /\ UNCHANGED <<status, row, call, base, snap, applied>>
    BY <1>2 DEF DeletePage
  <2>2. Register!Fail
    BY <1>0, <2>1, FailureMaps
  <2> QED  BY <2>2 DEF Register!Next
<1> QED  BY <1>1, <1>2

\* The last statement acknowledges, an arrival invokes.
LEMMA EndsMap ==
  ASSUME NEW r \in Requests, IInv, Arrive(r) \/ WriteProjection(r)
  PROVE  Register!Next
<1> USE DEF IInv, TypeOK
<1>1. CASE Arrive(r)
  <2>1. /\ pc[r] = "idle" /\ r \notin applied /\ base[r] = None
        /\ outcome[r] = "none"
        /\ pc'[r] \in {"reserve", "find"}
        /\ \A q \in Requests \ {r} : pc'[q] = pc[q] /\ call'[q] = call[q]
        /\ UNCHANGED <<status, row, base, snap, outcome, applied>>
    BY <1>1 DEF Arrive, Goto, pageVars, HandlerInv, WritesInv
  <2>2. RegisterPhase(r) = "idle" /\ RegisterPhase(r)' = "open"
    BY <2>1 DEF RegisterPhase, InFlight
  <2>3. VersionSeen(r)' = VersionSeen(r)
    BY <2>1 DEF VersionSeen
  <2>4. \A q \in Requests \ {r} : /\ RegisterPhase(q)' = RegisterPhase(q)
                                  /\ VersionSeen(q)' = VersionSeen(q)
    BY <2>1, OthersStay
  <2>5. Register!Invoke(r)
    BY <2>1, <2>2, <2>3, <2>4, OneMoves DEF Register!Invoke, MappedSeen, VersionOf
  <2> QED  BY <2>5 DEF Register!Next
<1>2. CASE WriteProjection(r)
  <2>1. /\ pc[r] = "project" /\ r \in applied /\ call[r].op # "read"
        /\ outcome[r] = "none"
        /\ pc' = [pc EXCEPT ![r] = "done"]
        /\ outcome' = [outcome EXCEPT ![r] = "ok"]
        /\ UNCHANGED <<status, row, call, base, snap, applied>>
    BY <1>2 DEF WriteProjection, Finish, pageVars, historyVars, HandlerInv, WritesInv
  <2>2. RegisterPhase(r) = "applied" /\ RegisterPhase(r)' = "acknowledged"
    BY <2>1 DEF RegisterPhase, InFlight
  <2>3. VersionSeen(r)' = VersionSeen(r)
    BY <2>1 DEF VersionSeen
  <2>4. \A q \in Requests \ {r} : /\ RegisterPhase(q)' = RegisterPhase(q)
                                  /\ VersionSeen(q)' = VersionSeen(q)
    BY <2>1, OthersStay
  <2>5. Register!Acknowledge(r)
    BY <2>1, <2>2, <2>3, <2>4, OneMoves DEF Register!Acknowledge, MappedSeen, VersionOf
  <2> QED  BY <2>5 DEF Register!Next
<1> QED  BY <1>1, <1>2

\* The other steps of one handler fail, or are not seen by the register.
LEMMA QuietMaps ==
  ASSUME NEW r \in Requests, IInv, QuietStep(r)
  PROVE  Register!Next \/ UNCHANGED Register!vars
<1> USE DEF IInv, TypeOK
<1>1. CASE WriteProjection(r)
  BY <1>1, EndsMap
<1>2. ASSUME NEW answer, InFlight(r), Finish(r, answer), answer # "ok",
             UNCHANGED <<status, row, call, base, snap, applied>>
      PROVE  Register!Next
  BY <1>2, FailureMaps DEF Register!Next
<1>3. CASE Refuse(r) \/ DriveError(r) \/ DbFailure(r) \/ Abandon(r)
  BY <1>2, <1>3 DEF Refuse, DriveError, DbFailure, DbPhases, Abandon, InFlight,
                    pageVars, historyVars
<1>4. ASSUME NEW phase \in {"lookup", "drive", "project"}, InFlight(r), Goto(r, phase),
             UNCHANGED <<status, row, call, base, snap, applied>>
      PROVE  UNCHANGED Register!vars
  <2>1. /\ pc' = [pc EXCEPT ![r] = phase]
        /\ UNCHANGED outcome
    BY <1>4 DEF Goto
  <2>2. RegisterPhase(r)' = RegisterPhase(r) /\ VersionSeen(r)' = VersionSeen(r)
    BY <1>4, <2>1 DEF RegisterPhase, VersionSeen, InFlight
  <2>3. \A q \in Requests \ {r} : /\ RegisterPhase(q)' = RegisterPhase(q)
                                  /\ VersionSeen(q)' = VersionSeen(q)
    BY <1>4, <2>1, OthersStay
  <2> QED  BY <1>4, <2>2, <2>3, StutterMaps
<1>5. CASE ReserveId(r) \/ LookupPage(r) \/ ReloadPage(r)
  BY <1>2, <1>4, <1>5 DEF ReserveId, LookupPage, ReloadPage, InFlight, pageVars, historyVars
<1> QED  BY <1>1, <1>3, <1>5 DEF QuietStep

\* A restart fails every client whose request is under way.
LEMMA RestartMaps == ASSUME IInv, Restart PROVE Register!Fail
<1> USE DEF IInv, TypeOK
<1> DEFINE lost == {r \in Requests : InFlight(r)}
<1>1. /\ pc' = [r \in Requests |-> IF r \in lost THEN "done" ELSE pc[r]]
      /\ outcome' = [r \in Requests |-> IF r \in lost THEN "gone" ELSE outcome[r]]
      /\ UNCHANGED <<status, row, call, base, snap, applied>>
  BY DEF Restart, DropHandlers, pageVars, historyVars
<1>2. \A r \in lost : /\ RegisterPhase(r) \in {"open", "sampled", "applied"}
                      /\ RegisterPhase(r)' = "failed"
                      /\ VersionSeen(r)' = VersionSeen(r)
  <2> SUFFICES ASSUME NEW r \in lost
               PROVE /\ RegisterPhase(r) \in {"open", "sampled", "applied"}
                     /\ RegisterPhase(r)' = "failed"
                     /\ VersionSeen(r)' = VersionSeen(r)
    OBVIOUS
  <2>1. outcome[r] = "none" /\ pc'[r] = "done" /\ outcome'[r] = "gone"
    BY <1>1 DEF HandlerInv, InFlight
  <2>2. RegisterPhase(r) \in {"open", "sampled", "applied"}
    BY DEF RegisterPhase, InFlight
  <2>3. RegisterPhase(r)' = "failed"
    BY <2>1 DEF RegisterPhase, InFlight
  <2>4. VersionSeen(r)' = VersionSeen(r)
    BY <1>1, <2>1 DEF VersionSeen
  <2> QED  BY <2>2, <2>3, <2>4
<1>3. \A r \in Requests \ lost : /\ RegisterPhase(r)' = RegisterPhase(r)
                                 /\ VersionSeen(r)' = VersionSeen(r)
  BY <1>1 DEF RegisterPhase, VersionSeen, InFlight
<1>4. lost \in SUBSET {r \in Requests : RegisterPhase(r) \in {"open", "sampled", "applied"}}
  BY <1>2
<1>5. \A r \in Requests : RegisterPhase(r)' = IF r \in lost THEN "failed" ELSE RegisterPhase(r)
  BY <1>2, <1>3
<1>6. \A r \in Requests : VersionSeen(r)' = VersionSeen(r)
  BY <1>2, <1>3
<1> HIDE DEF lost
<1> QED  BY <1>1, <1>4, <1>5, <1>6 DEF Register!Fail, VersionOf

LEMMA StepMaps == IInv /\ [Next]_vars => [Register!Next]_(Register!vars)
<1> SUFFICES ASSUME IInv, [Next]_vars PROVE Register!Next \/ UNCHANGED Register!vars
  OBVIOUS
<1>1. ASSUME NEW r \in Requests, Arrive(r) PROVE Register!Next
  BY <1>1, EndsMap
<1>2. ASSUME NEW r \in Requests, QuietStep(r)
      PROVE  Register!Next \/ UNCHANGED Register!vars
  BY <1>2, QuietMaps
<1>3. ASSUME NEW r \in Requests, FindPage(r) PROVE Register!Next
  BY <1>3, FindMaps
<1>4. ASSUME NEW r \in Requests, NEW s \in Snapshot, DriveAnswer(r, s)
      PROVE  Register!Next \/ UNCHANGED Register!vars
  BY <1>4, AnswerMaps
<1>5. ASSUME NEW r \in Requests, InsertPage(r) \/ UpdateDriveSnapshot(r) \/ DeletePage(r)
      PROVE  Register!Next
  BY <1>5, InsertMaps, UpdateMaps, DeleteMaps
<1>6. CASE Restart
  BY <1>6, RestartMaps DEF Register!Next
<1>7. CASE UNCHANGED vars
  <2>1. \A r \in Requests : /\ RegisterPhase(r)' = RegisterPhase(r)
                            /\ VersionSeen(r)' = VersionSeen(r)
    BY <1>7 DEF vars, pageVars, handlerVars, historyVars, RegisterPhase, VersionSeen, InFlight
  <2> QED  BY <1>7, <2>1, StutterMaps DEF vars, pageVars
<1> QED
  BY <1>1, <1>2, <1>3, <1>4, <1>5, <1>6, <1>7
     DEF Next, ServiceStep, PortStep, QuietStep

(***************************************************************************)
(* For any number of requests and whatever the Drive port answers, the     *)
(* handlers of create_page, update_page_content, restore_page_version,     *)
(* get_page_content and permanent-delete implement the register: each      *)
(* takes effect at most once, between its arrival and its answer.          *)
(***************************************************************************)
THEOREM Refinement == Spec => ImplementsRegister
<1> QED  BY Inductive, InitMaps, StepMaps, PTL DEF Spec, Register!Spec, ImplementsRegister
=============================================================================
