------------------------- MODULE PageMetadataProofs -------------------------
(***************************************************************************)
(* The invariant of PageMetadata and the properties that follow from it,   *)
(* for any number of requests, pages and commands.                         *)
(***************************************************************************)
EXTENDS PageMetadata, TLAPS

(***************************************************************************)
(* A page deleted for good is never changed again, nor brought back by an  *)
(* update that found it before, and each change of a row takes the next    *)
(* version, on which expectedVersion relies.                               *)
(***************************************************************************)
RowsOnlyAdvance ==
    [][\A p \in Pages : row'[p] # row[p] =>
          row[p].active /\ row'[p].version = row[p].version + 1]_row

\* Where a handler is, what it was asked, and what it has written by then.
Control(r) ==
    /\ pc[r] = "idle" => WritesOf(r) = {} /\ want[r] = None
    /\ pc[r] # "idle" => call[r] \in Calls
    /\ pc[r] # "done" => outcome[r] = "none"
    /\ pc[r] \in {"apply", "find", "parent", "write", "missed", "purge", "source",
                 "replace"} => PartsWritten(r) = {} /\ want[r] = None
    /\ pc[r] \notin {"idle", "done"} =>
          (call[r].op = "suggestion" <=> pc[r] \in {"source", "replace"})
    /\ pc[r] = "apply" => call[r].op # "update"
    /\ pc[r] = "find" => call[r].op = "update" \/ Names(r)
    /\ pc[r] \in {"parent", "write", "missed"} => Names(r)
    /\ pc[r] = "parent" => call[r].patch.parent \in Pages
    /\ pc[r] = "missed" => call[r].expect # None
    /\ pc[r] \in {"purge", "unindex"} => call[r].op = "purge"
    /\ pc[r] \in {"show", "index"} =>
         /\ want[r] = None => Names(r) /\ PartsWritten(r) = {"meta"}
         /\ want[r] # None => call[r].text /\ PartsWritten(r) = Parts(r)
    /\ pc[r] \in {"text", "save", "commit"} =>
          call[r].text /\ PartsWritten(r) = Parts(r) \ {"text"}
    /\ pc[r] = "text" => want[r] = None
    /\ pc[r] \in {"save", "commit"} => want[r] \in Nat
    /\ pc[r] = "last" => PartsWritten(r) = Parts(r)
    /\ pc[r] = "unindex" => PartsWritten(r) = {"gone"} /\ ~row[Target(r)].active

ControlInv == (\A r \in Requests : Control(r)) /\ AnswersMatchWrites

\* The row read last is the row, or the row has gone on since.
ReadBefore(r) ==
    pc[r] \in {"parent", "write"} =>
         /\ seen[r] \in Row
         /\ seen[r].version <= row[Target(r)].version
         /\ seen[r].version = row[Target(r)].version => seen[r] = row[Target(r)]
         /\ call[r].expect \in {None, seen[r].version}

\* What was checked by reading it was so since the request arrived.
ParentSeen(r) ==
    pc[r] = "write" /\ call[r].patch.parent \in Pages =>
         /\ call[r].patch.parent # Target(r)
         /\ \E x \in RowsSince(r, call[r].patch.parent) : x.active

TrashSeen(r) ==
    pc[r] = "purge" /\ Target(r) \notin Folders =>
          \E x \in RowsSince(r, Target(r)) : x.active /\ x.archive = "archived"

Seen(r) ==
    /\ pc[r] # "idle" => \A p \in Pages : start[r][p] <= row[p].version
    /\ ReadBefore(r)
    /\ pc[r] = "index" => seen[r] \in Row
    /\ ParentSeen(r)
    /\ TrashSeen(r)

SeenInv == \A r \in Requests : Seen(r)

WritesInv ==
    /\ \A w \in writes : pc[w.by] # "idle"
    /\ ExpectedWritesKeepTheRest
    /\ ChecksHeldSinceArrival

\* The current version of an active page is indexed, or will be, or it is an
\* apply's, or a handler was lost.
WillIndex(r, p) ==
    /\ Target(r) = p
    /\ \/ pc[r] = "show"
       \/ pc[r] = "index" /\ seen[r].pointer = row[p].pointer

IndexInv ==
    \A p \in Pages : row[p].active =>
        \/ Entry(p, row[p].pointer) \in index \/ LeftByApply(p)
        \/ \E r \in Requests : outcome[r] = "lost" \/ WillIndex(r, p)

IInv == MetaTypeOK /\ ControlInv /\ SeenInv /\ WritesInv /\ IndexInv

\* The steps that change no row.
ReadStep(r) ==
    \/ Arrive(r) \/ Refuse(r) \/ FindToApply(r) \/ FindPage(r) \/ FindParent(r)
    \/ FindUnwritten(r) \/ FindWritten(r) \/ Index(r) \/ FindVersion(r) \/ FindToSave(r)
    \/ DriveFails(r) \/ FindApplied(r) \/ FindSource(r) \/ DeleteIndex(r) \/ Lose(r)

-----------------------------------------------------------------------------
LEMMA CallFields ==
    ASSUME NEW c \in Calls
    PROVE  /\ c.op \in Ops /\ c.page \in Pages /\ c.text \in BOOLEAN
           /\ c.patch \in Patch
           /\ DOMAIN c.patch = {"title", "archive", "parent"}
           /\ c.patch.title \in Titles \union {Keep}
           /\ c.patch.archive \in ArchiveStatuses \union {Keep}
           /\ c.patch.parent \in Pages \union {None, Keep}
           /\ c.expect \in Nat \union {None}
           /\ c.cursor \in Nat \union {None}
           /\ c # None
           /\ c.text => c.op \in {"upsert", "suggestion"}
           /\ c.op = "suggestion" => c.text
           /\ c.expect # None => c.op = "update"
           /\ c.op = "remote" => \E f \in DOMAIN c.patch : c.patch[f] # Keep
           /\ c.op \in {"purge", "suggestion"} => \A f \in DOMAIN c.patch : c.patch[f] = Keep
<1>1. c \in Call
  BY MetadataAssumption
<1>2. c # None
  BY MetadataAssumption
<1>3. c.patch \in Patch
  BY <1>1 DEF Call
<1> QED  BY <1>1, <1>2, <1>3, MetadataAssumption DEF Call, Patch

LEMMA FirstPhases ==
    ASSUME NEW op \in Ops
    PROVE  /\ FirstPhase[op] \in {"find", "apply", "source"}
           /\ FirstPhase[op] = "find" <=> op = "update"
           /\ FirstPhase[op] = "source" <=> op = "suggestion"
BY DEF FirstPhase, Ops

LEMMA NoneIsNone ==
    /\ None \notin Nat /\ None \notin Pages /\ None \notin Row
    /\ Keep \notin Pages /\ Keep # None
BY MetadataAssumption

LEMMA InitInv == Init => IInv
<1> SUFFICES ASSUME Init PROVE IInv
  OBVIOUS
<1>1. MetaTypeOK
  BY MetadataAssumption, NoneIsNone DEF Init, MetaTypeOK, Phases, Outcomes, Row, Entry
<1>2. ControlInv
  BY DEF Init, ControlInv, Control, WritesOf, PartsWritten, AnswersMatchWrites
<1>3. SeenInv
  BY DEF Init, SeenInv, Seen, ReadBefore, ParentSeen, TrashSeen
<1>4. WritesInv
  BY DEF Init, WritesInv, ExpectedWritesKeepTheRest, ChecksHeldSinceArrival
<1>5. IndexInv
  BY DEF Init, IndexInv, Entry
<1> QED  BY <1>1, <1>2, <1>3, <1>4, <1>5 DEF IInv

\* One step is one request's.
LEMMA Others ==
    ASSUME MetaTypeOK, NEW r \in Requests, Step(r), NEW q \in Requests, q # r
    PROVE  /\ pc'[q] = pc[q] /\ call'[q] = call[q] /\ seen'[q] = seen[q]
           /\ want'[q] = want[q] /\ outcome'[q] = outcome[q] /\ start'[q] = start[q]
           /\ WritesOf(q)' = WritesOf(q)
<1> USE DEF MetaTypeOK, Goto, Finish, See, Missing, Update, history, tables
<1>1. /\ pc'[q] = pc[q] /\ call'[q] = call[q] /\ seen'[q] = seen[q]
      /\ want'[q] = want[q] /\ outcome'[q] = outcome[q] /\ start'[q] = start[q]
  <2>1. CASE ReadStep(r)
    BY <2>1 DEF ReadStep, Arrive, Refuse, FindToApply, FindPage, FindParent, FindUnwritten,
       FindWritten, Index, FindVersion, FindToSave, DriveFails, FindApplied,
       FindSource, DeleteIndex, Lose
  <2>2. CASE WriteMetadata(r) \/ SaveText(r) \/ ApplySuggestion(r) \/ Delete(r)
    BY <2>2 DEF WriteMetadata, SaveText, ApplySuggestion, Delete
  <2> QED  BY <2>1, <2>2 DEF Step, ReadStep
<1>2. WritesOf(q)' = WritesOf(q)
  <2>1. CASE ReadStep(r)
    BY <2>1 DEF WritesOf, ReadStep, Arrive, Refuse, FindToApply, FindPage, FindParent,
       FindUnwritten, FindWritten, Index, FindVersion, FindToSave, DriveFails, FindApplied,
       FindSource, DeleteIndex, Lose
  <2>2. CASE WriteMetadata(r) \/ SaveText(r) \/ ApplySuggestion(r) \/ Delete(r)
    BY <2>2 DEF WritesOf, WriteMetadata, SaveText, ApplySuggestion, Delete
  <2> QED  BY <2>1, <2>2 DEF Step, ReadStep
<1> QED  BY <1>1, <1>2

LEMMA TargetIsThere ==
    ASSUME MetaTypeOK, NEW r \in Requests, call[r] \in Calls
    PROVE  Target(r) \in Pages /\ Found(r) \in Row
BY CallFields DEF MetaTypeOK, Target, Found

LEMMA RowFields ==
    ASSUME NEW x \in Row
    PROVE  /\ x.version \in Nat /\ x.pointer \in Nat /\ x.title \in Titles
           /\ x.version + 1 \in Nat /\ x.pointer + 1 \in Nat
           /\ x.archive \in ArchiveStatuses /\ x.parent \in Pages \union {None}
           /\ x.active \in BOOLEAN
BY DEF Row

\* A row changed within its columns' types is one.
LEMMA DeletedRow ==
    ASSUME NEW x \in Row, NEW v \in Nat
    PROVE  LET new == [x EXCEPT !.active = FALSE, !.version = v] IN
             new \in Row /\ new.version = v /\ ~new.active
BY DEF Row

LEMMA PatchedIsARow ==
    ASSUME MetaTypeOK, NEW r \in Requests, call[r] \in Calls, seen[r] \in Row
    PROVE  /\ Patched(r) \in Row
           /\ Patched(r).version = Found(r).version + 1
           /\ Patched(r).active = Found(r).active
           /\ Patched(r).pointer = Found(r).pointer
           /\ Patched(r).title = Named(r, "title")
           /\ Patched(r).archive = Named(r, "archive")
           /\ Patched(r).parent = IF call[r].patch.parent = Keep THEN Found(r).parent
                                  ELSE call[r].patch.parent
<1>1. Found(r) \in Row
  BY TargetIsThere
<1>2. Named(r, "title") \in Titles
  BY CallFields, RowFields DEF Named
<1>3. Named(r, "archive") \in ArchiveStatuses
  BY CallFields, RowFields DEF Named
<1>4. (IF call[r].patch.parent = Keep THEN Found(r).parent ELSE call[r].patch.parent)
        \in Pages \union {None}
  BY <1>1, CallFields, RowFields
<1>5. Found(r).version + 1 \in Nat
  BY <1>1, RowFields
<1> DEFINE x == Found(r)
           t == Named(r, "title")
           a == Named(r, "archive")
           q == IF call[r].patch.parent = Keep THEN Found(r).parent ELSE call[r].patch.parent
           v == Found(r).version + 1
<1>6. Patched(r) = [x EXCEPT !.title = t, !.archive = a, !.parent = q, !.version = v]
  BY DEF Patched
<1>7. x \in Row /\ t \in Titles /\ a \in ArchiveStatuses /\ q \in Pages \union {None} /\ v \in Nat
  BY <1>1, <1>2, <1>3, <1>4, <1>5
<1>8. /\ Patched(r) \in Row /\ Patched(r).version = v /\ Patched(r).active = x.active
      /\ Patched(r).pointer = x.pointer /\ Patched(r).title = t
      /\ Patched(r).archive = a /\ Patched(r).parent = q
  <2> HIDE DEF x, t, a, q, v
  <2> QED  BY <1>6, <1>7 DEF Row
<1> QED  BY <1>8

\* A statement that changes a row leaves the next one, and is on record.
UpdateOf(r, part, new) ==
    /\ call[r] \in Calls
    /\ Found(r).active
    /\ new \in Row
    /\ new.version = Found(r).version + 1
    /\ part \in {"meta", "text", "gone"}
    /\ Update(r, part, new)

LEMMA MetadataUpdate ==
    ASSUME MetaTypeOK, ControlInv, SeenInv, NEW r \in Requests, WriteMetadata(r)
    PROVE  \/ /\ UpdateOf(r, "meta", Patched(r))
              /\ Goto(r, "show")
              /\ IsExpected(r)
           \/ UNCHANGED <<row, writes>> /\ ~VersionUnmoved(r)
<1>1. pc[r] = "write" /\ call[r] \in Calls /\ seen[r] \in Row
  BY DEF WriteMetadata, ControlInv, Control, SeenInv, Seen, ReadBefore
<1>2. CASE VersionUnmoved(r)
  BY <1>1, <1>2, PatchedIsARow DEF WriteMetadata, VersionUnmoved, UpdateOf
<1> QED  BY <1>2 DEF WriteMetadata

LEMMA NextTextIsARow ==
    ASSUME MetaTypeOK, NEW r \in Requests, call[r] \in Calls
    PROVE  /\ NextText(r) \in Row
           /\ NextText(r).version = Found(r).version + 1
           /\ NextText(r).active = Found(r).active
<1>1. Found(r) \in Row
  BY TargetIsThere
<1> DEFINE x == Found(r)
           n == Found(r).pointer + 1
           v == Found(r).version + 1
<1>2. NextText(r) = [x EXCEPT !.pointer = n, !.version = v]
  BY DEF NextText
<1>3. x \in Row /\ n \in Nat /\ v \in Nat
  BY <1>1, RowFields
<1>4. NextText(r) \in Row /\ NextText(r).version = v /\ NextText(r).active = x.active
  <2> HIDE DEF x, n, v
  <2> QED  BY <1>2, <1>3 DEF Row
<1> QED  BY <1>4

LEMMA TextUpdate ==
    ASSUME MetaTypeOK, ControlInv, NEW r \in Requests, SaveText(r)
    PROVE  \/ /\ UpdateOf(r, "text", NextText(r))
              /\ NextText(r).active
              /\ Goto(r, "show")
           \/ UNCHANGED <<row, writes>> /\ Finish(r, "reconcile")
<1>1. pc[r] = "commit" /\ call[r] \in Calls
  BY DEF SaveText, ControlInv, Control
<1>2. CASE PointerUnmoved(r)
  BY <1>1, <1>2, NextTextIsARow DEF SaveText, PointerUnmoved, UpdateOf
<1> QED  BY <1>2 DEF SaveText

LEMMA ApplyUpdate ==
    ASSUME MetaTypeOK, ControlInv, NEW r \in Requests, ApplySuggestion(r)
    PROVE  \/ /\ UpdateOf(r, "text", NextText(r))
              /\ \E answer \in {"ok", "reconcile", "lost"} : Finish(r, answer)
           \/ UNCHANGED <<row, writes>> /\ Finish(r, "reconcile")
<1>1. pc[r] = "replace" /\ call[r] \in Calls
  BY DEF ApplySuggestion, ControlInv, Control
<1>2. CASE PointerUnmoved(r) /\ Update(r, "text", NextText(r))
  BY <1>1, <1>2, NextTextIsARow DEF ApplySuggestion, PointerUnmoved, UpdateOf
<1> QED  BY <1>2 DEF ApplySuggestion

LEMMA DeleteUpdate ==
    ASSUME MetaTypeOK, ControlInv, NEW r \in Requests, Delete(r)
    PROVE  \/ \E new \in Row :
                /\ UpdateOf(r, "gone", new)
                /\ ~new.active
                /\ Goto(r, "unindex")
           \/ UNCHANGED <<row, writes>> /\ Finish(r, "missing")
<1>1. pc[r] = "purge" /\ call[r] \in Calls
  BY DEF Delete, ControlInv, Control
<1>2. Found(r) \in Row
  BY <1>1, TargetIsThere
<1> DEFINE new == [Found(r) EXCEPT !.active = FALSE, !.version = @ + 1]
<1>3. new \in Row /\ new.version = Found(r).version + 1 /\ ~new.active
  BY <1>2, RowFields, DeletedRow
<1>4. CASE Found(r).active
  <2>1. Update(r, "gone", new) /\ Goto(r, "unindex")
    BY <1>4 DEF Delete
  <2> QED  BY <1>1, <1>3, <1>4, <2>1 DEF UpdateOf
<1> QED  BY <1>4 DEF Delete

LEMMA ReadsChangeNoRow ==
    ASSUME NEW r \in Requests, ReadStep(r)
    PROVE  UNCHANGED <<row, writes>>
BY DEF ReadStep, Arrive, Refuse, FindToApply, FindPage, FindParent, FindUnwritten,
   FindWritten, Index, FindVersion, FindToSave, DriveFails, FindApplied,
   FindSource, DeleteIndex, Lose,
   tables, history

LEMMA StepUpdates ==
    ASSUME MetaTypeOK, ControlInv, SeenInv, NEW r \in Requests, Step(r)
    PROVE  \/ UNCHANGED <<row, writes>>
           \/ \E part \in {"meta", "text", "gone"}, new \in Row : UpdateOf(r, part, new)
<1>1. CASE ReadStep(r)
  BY <1>1, ReadsChangeNoRow
<1>2. CASE WriteMetadata(r)
  BY <1>2, MetadataUpdate DEF UpdateOf
<1>3. CASE SaveText(r)
  BY <1>3, TextUpdate DEF UpdateOf
<1>4. CASE ApplySuggestion(r)
  BY <1>4, ApplyUpdate DEF UpdateOf
<1>5. CASE Delete(r)
  BY <1>5, DeleteUpdate DEF UpdateOf
<1> QED  BY <1>1, <1>2, <1>3, <1>4, <1>5 DEF Step, ReadStep

\* Rows go forward, and what they were stays on record.
LEMMA RowsGrow ==
    ASSUME MetaTypeOK, ControlInv, SeenInv, NEW r \in Requests, Step(r)
    PROVE  /\ row' \in [Pages -> Row]
           /\ writes \subseteq writes'
           /\ writes' \in SUBSET Write
           /\ \A p \in Pages : row'[p] # row[p] =>
                /\ p = Target(r)
                /\ row[p].active
                /\ row'[p].version = row[p].version + 1
                /\ \E w \in writes' : w.by = r /\ w.from = row[p]
<1>1. CASE UNCHANGED <<row, writes>>
  BY <1>1 DEF MetaTypeOK
<1>2. CASE \E part \in {"meta", "text", "gone"}, new \in Row : UpdateOf(r, part, new)
  <2>1. PICK part \in {"meta", "text", "gone"}, new \in Row : UpdateOf(r, part, new)
    BY <1>2
  <2>2. Target(r) \in Pages /\ Found(r) \in Row
    BY <2>1, TargetIsThere DEF UpdateOf
  <2>3. row' = [row EXCEPT ![Target(r)] = new]
    BY <2>1 DEF UpdateOf, Update
  <2> DEFINE w == [by |-> r, part |-> part, from |-> Found(r), to |-> new]
  <2>4. writes' = writes \union {w}
    BY <2>1 DEF UpdateOf, Update
  <2>5. w \in Write
    BY <2>2 DEF Write
  <2>6. w.by = r /\ w.from = Found(r)
    OBVIOUS
  <2> QED  BY <2>1, <2>2, <2>3, <2>4, <2>5, <2>6 DEF UpdateOf, MetaTypeOK, Found
<1> QED  BY <1>1, <1>2, StepUpdates

-----------------------------------------------------------------------------
LEMMA FinishTypes ==
    ASSUME MetaTypeOK, NEW r \in Requests, NEW answer \in Outcomes, Finish(r, answer)
    PROVE  /\ pc' \in [Requests -> Phases] /\ seen' \in [Requests -> Row \union {None}]
           /\ want' \in [Requests -> Nat \union {None}] /\ outcome' \in [Requests -> Outcomes]
BY DEF MetaTypeOK, Finish, Phases

LEMMA SeeTypes ==
    ASSUME MetaTypeOK, NEW r \in Requests, NEW phase \in Phases, See(r, phase),
           Found(r) \in Row
    PROVE  /\ pc' \in [Requests -> Phases] /\ seen' \in [Requests -> Row \union {None}]
           /\ want' \in [Requests -> Nat \union {None}] /\ outcome' \in [Requests -> Outcomes]
BY DEF MetaTypeOK, See

LEMMA TypeStep == IInv /\ [Next]_vars => MetaTypeOK'
<1> SUFFICES ASSUME IInv, [Next]_vars PROVE MetaTypeOK'
  OBVIOUS
<1>1. ASSUME NEW r \in Requests, Step(r) PROVE MetaTypeOK'
  <2>1. row' \in [Pages -> Row] /\ writes' \in SUBSET Write
    BY <1>1, RowsGrow DEF IInv
  <2>2. index' \in SUBSET [page : Pages, pointer : Nat]
    <3>1. CASE Index(r)
      <4>1. pc[r] = "index" /\ seen[r] \in Row /\ Target(r) \in Pages
        BY <3>1, TargetIsThere DEF Index, IInv, ControlInv, Control, SeenInv, Seen
      <4>2. Entry(Target(r), seen[r].pointer) \in [page : Pages, pointer : Nat]
        BY <4>1, RowFields DEF Entry
      <4> QED  BY <3>1, <4>2 DEF Index, IInv, MetaTypeOK
    <3>2. CASE DeleteIndex(r)
      BY <3>2 DEF DeleteIndex, IInv, MetaTypeOK
    <3>3. CASE ~Index(r) /\ ~DeleteIndex(r)
      BY <1>1, <3>3 DEF IInv, MetaTypeOK, Step, Arrive, Refuse, FindToApply, FindPage, FindParent,
         FindUnwritten, FindWritten, FindVersion, FindToSave, DriveFails, FindApplied,
         FindSource, Lose,
         WriteMetadata, SaveText, ApplySuggestion, Delete, tables
    <3> QED  BY <3>1, <3>2, <3>3
  <2>3. /\ pc' \in [Requests -> Phases] /\ seen' \in [Requests -> Row \union {None}]
        /\ want' \in [Requests -> Nat \union {None}] /\ outcome' \in [Requests -> Outcomes]
        /\ call' \in [Requests -> Calls \union {None}]
        /\ start' \in [Requests -> [Pages -> Nat]]
    <3> USE DEF MetaTypeOK, Goto, Finish, See, Missing, Phases, Outcomes, history
    <3>1. CASE Arrive(r)
      <4>1. \A p \in Pages : row[p].version \in Nat
        BY RowFields DEF IInv
      <4>2. \A c \in Calls : FirstPhase[c.op] \in Phases
        BY CallFields, FirstPhases
      <4> QED  BY <3>1, <4>1, <4>2 DEF Arrive, IInv
    <3>2. pc[r] # "idle" => Found(r) \in Row
      BY TargetIsThere DEF IInv, ControlInv, Control
    <3>3. MetaTypeOK /\ call \in [Requests -> Calls \union {None}]
           /\ start \in [Requests -> [Pages -> Nat]]
      BY DEF IInv
    <3>4. CASE Refuse(r) \/ FindUnwritten(r) \/ DriveFails(r) \/ DeleteIndex(r) \/ Lose(r)
      BY <3>4 DEF IInv, Refuse, FindUnwritten, DriveFails, DeleteIndex, Lose
    <3>5. CASE FindToApply(r)
      <4>1. FirstPart(r) \in {"find", "text", "last"}
        BY DEF FirstPart
      <4>2. \/ \E phase \in Phases : See(r, phase)
            \/ \E answer \in Outcomes : Finish(r, answer)
        BY <3>5, <4>1 DEF FindToApply
      <4>3. pc[r] # "idle" /\ UNCHANGED <<call, start>>
        BY <3>5 DEF FindToApply
      <4> QED  BY <3>2, <3>3, <4>2, <4>3, FinishTypes, SeeTypes
    <3>6. CASE FindPage(r)
      <4>1. \/ \E phase \in Phases : See(r, phase)
            \/ \E answer \in Outcomes : Finish(r, answer)
        BY <3>6 DEF FindPage
      <4>2. pc[r] # "idle" /\ UNCHANGED <<call, start>>
        BY <3>6 DEF FindPage
      <4> QED  BY <3>2, <3>3, <4>1, <4>2, FinishTypes, SeeTypes
    <3>7. CASE FindParent(r)
      BY <3>7 DEF IInv, FindParent
    <3>8. CASE FindWritten(r) \/ FindToSave(r) \/ FindApplied(r) \/ FindSource(r)
      <4>1. \/ \E phase \in Phases : See(r, phase)
            \/ \E answer \in Outcomes : Finish(r, answer)
        BY <3>8 DEF FindWritten, FindToSave, FindApplied, FindSource
      <4>2. pc[r] # "idle" /\ UNCHANGED <<call, start>>
        BY <3>8 DEF FindWritten, FindToSave, FindApplied, FindSource
      <4> QED  BY <3>2, <3>3, <4>1, <4>2, FinishTypes, SeeTypes
    <3>11. CASE Index(r)
      BY <3>3, <3>11 DEF Index
    <3>9. CASE FindVersion(r)
      <4>1. Found(r).pointer \in Nat
        BY <3>2, <3>9, RowFields DEF FindVersion
      <4> QED  BY <3>9, <4>1 DEF IInv, FindVersion
    <3>10. CASE WriteMetadata(r) \/ SaveText(r) \/ ApplySuggestion(r) \/ Delete(r)
      BY <3>10 DEF IInv, WriteMetadata, SaveText, ApplySuggestion, Delete
    <3> QED  BY <1>1, <3>1, <3>4, <3>5, <3>6, <3>7, <3>8, <3>9, <3>10, <3>11 DEF Step
  <2> QED  BY <2>1, <2>2, <2>3 DEF MetaTypeOK
<1>2. CASE UNCHANGED vars
  BY <1>2 DEF IInv, MetaTypeOK, vars, tables, history
<1> QED  BY <1>1, <1>2 DEF Next

-----------------------------------------------------------------------------
LEMMA Kept ==
    ASSUME NEW r \in Requests, call'[r] = call[r]
    PROVE  (Names(r)' <=> Names(r)) /\ Parts(r)' = Parts(r) /\ Target(r)' = Target(r)
BY DEF Names, Parts, Target

LEMMA PartsAre ==
    ASSUME NEW r \in Requests, call[r] \in Calls
    PROVE  /\ call[r].text \in BOOLEAN
           /\ call[r].text => call[r].op \in {"upsert", "suggestion"}
           /\ call[r].op = "suggestion" => Parts(r) = {"text"} /\ call[r].text
           /\ call[r].op = "purge" => ~call[r].text /\ ~Names(r) /\ Parts(r) = {"gone"}
           /\ call[r].text /\ Names(r) => Parts(r) = {"meta", "text"}
           /\ call[r].text /\ ~Names(r) => Parts(r) = {"text"}
           /\ ~call[r].text /\ Names(r) => Parts(r) = {"meta"}
           /\ ~call[r].text /\ ~Names(r) /\ call[r].op # "purge" => Parts(r) = {}
           /\ call[r].op = "remote" => Names(r)
           /\ call[r].expect # None => call[r].op = "update"
           /\ call[r].op \in Ops
<1>1. call[r].op \in {"purge", "suggestion"} => ~Names(r)
  BY CallFields DEF Names
<1>2. call[r].op = "remote" => Names(r)
  BY CallFields DEF Names
<1>3. /\ call[r].op \in Ops /\ call[r].text \in BOOLEAN
      /\ call[r].text => call[r].op \in {"upsert", "suggestion"}
      /\ call[r].op = "suggestion" => call[r].text
      /\ call[r].expect # None => call[r].op = "update"
  BY CallFields
<1> QED  BY <1>1, <1>2, <1>3 DEF Parts

\* AnswersMatchWrites of one request.
AnswerOf(r) ==
    /\ outcome[r] = "ok" => PartsWritten(r) = Parts(r)
    /\ outcome[r] \in {"conflict", "refused"} => PartsWritten(r) = {}
    /\ outcome[r] \in {"stale", "port"} => PartsWritten(r) = Parts(r) \ {
          IF call[r].text THEN "text" ELSE "meta"}

LEMMA ControlOfOthers ==
    ASSUME IInv, NEW r \in Requests, Step(r), NEW q \in Requests, q # r
    PROVE  Control(q)' /\ AnswerOf(q)'
<1>1. /\ pc'[q] = pc[q] /\ call'[q] = call[q] /\ want'[q] = want[q]
      /\ outcome'[q] = outcome[q] /\ WritesOf(q)' = WritesOf(q)
  BY Others DEF IInv
<1>2. PartsWritten(q)' = PartsWritten(q)
  BY <1>1 DEF PartsWritten
<1>3. (Names(q)' <=> Names(q)) /\ Parts(q)' = Parts(q) /\ Target(q)' = Target(q)
  BY <1>1, Kept
<1>4. pc[q] = "unindex" => ~row'[Target(q)].active
  <2>1. pc[q] = "unindex" => Target(q) \in Pages /\ ~row[Target(q)].active
    BY TargetIsThere DEF IInv, ControlInv, Control
  <2> QED  BY <2>1, RowsGrow DEF IInv
<1>5. Control(q) /\ AnswerOf(q)
  BY DEF IInv, ControlInv, AnswersMatchWrites, AnswerOf
<1>6. Control(q)'
  BY <1>1, <1>2, <1>3, <1>4, <1>5 DEF Control
<1>7. AnswerOf(q)'
  BY <1>1, <1>2, <1>3, <1>5 DEF AnswerOf
<1> QED  BY <1>6, <1>7

\* What a handler asked for and has written stays as long as it only reads.
LEMMA ReadKeeps ==
    ASSUME IInv, NEW r \in Requests, ReadStep(r), ~Arrive(r)
    PROVE  /\ pc[r] \notin {"idle", "done"}
           /\ call[r] \in Calls /\ call'[r] = call[r]
           /\ PartsWritten(r)' = PartsWritten(r)
           /\ UNCHANGED row
<1>1. UNCHANGED <<row, writes>>
  BY ReadsChangeNoRow
<1>2. pc[r] \notin {"idle", "done"} /\ call'[r] = call[r]
  BY DEF ReadStep, Refuse, FindToApply, FindPage, FindParent, FindUnwritten, FindWritten,
     Index, FindVersion, FindToSave, DriveFails, FindApplied,
     FindSource, DeleteIndex, Lose, InFlight
<1>3. call[r] \in Calls
  BY <1>2 DEF IInv, ControlInv, Control
<1> QED  BY <1>1, <1>2, <1>3 DEF PartsWritten, WritesOf

LEMMA Ended ==
    ASSUME IInv, NEW r \in Requests, NEW answer, Finish(r, answer),
           call[r] \in Calls, call'[r] = call[r],
           PartsWritten(r)' = PartsWritten(r),
           answer = "ok" => PartsWritten(r) = Parts(r),
           answer \in {"conflict", "refused"} => PartsWritten(r) = {},
           answer \in {"stale", "port"} => PartsWritten(r) = Parts(r) \ {
              IF call[r].text THEN "text" ELSE "meta"}
    PROVE  Control(r)' /\ AnswerOf(r)'
<1>1. pc'[r] = "done" /\ outcome'[r] = answer
  BY DEF Finish, IInv, MetaTypeOK
<1>2. Parts(r)' = Parts(r)
  BY Kept
<1>3. Control(r)'
  BY <1>1 DEF Control
<1>4. AnswerOf(r)'
  BY <1>1, <1>2 DEF AnswerOf
<1> QED  BY <1>3, <1>4

\* A handler that goes on has answered nothing yet.
LEMMA Going ==
    ASSUME IInv, NEW r \in Requests, pc'[r] # "done", outcome' = outcome, pc[r] # "done"
    PROVE  outcome'[r] = "none" /\ AnswerOf(r)'
BY DEF IInv, ControlInv, Control, AnswerOf

LEMMA ControlOfReads ==
    ASSUME IInv, NEW r \in Requests, ReadStep(r), ~Arrive(r)
    PROVE  Control(r)' /\ AnswerOf(r)'
<1>1. /\ pc[r] \notin {"idle", "done"} /\ call[r] \in Calls /\ call'[r] = call[r]
      /\ PartsWritten(r)' = PartsWritten(r) /\ row' = row
  BY ReadKeeps
<1>2. Control(r) /\ (Names(r)' <=> Names(r)) /\ Parts(r)' = Parts(r) /\ Target(r)' = Target(r)
  BY <1>1, Kept DEF IInv, ControlInv
<1>3. MetaTypeOK
  BY DEF IInv
<1>4. ASSUME NEW answer, Finish(r, answer), answer \in {"missing", "reconcile", "lost"}
      PROVE  Control(r)' /\ AnswerOf(r)'
  BY <1>1, <1>4, Ended
<1>5. CASE Refuse(r)
  BY <1>1, <1>2, <1>5, Ended DEF Refuse, Control
<1>6. CASE FindToApply(r)
  <2>1. PartsWritten(r) = {} /\ want[r] = None /\ call[r].op # "update" /\ pc[r] = "apply"
    BY <1>2, <1>6 DEF FindToApply, Control
  <2>2. CASE Finish(r, "conflict")
    BY <1>1, <2>1, <2>2, Ended
  <2>3. CASE call[r].op # "purge" /\ See(r, FirstPart(r))
    <3>1. pc'[r] = FirstPart(r) /\ want' = want /\ outcome' = outcome
      BY <1>3, <2>3 DEF See, MetaTypeOK
    <3>2. FirstPart(r) \in {"find", "text", "last"} /\ (FirstPart(r) = "find" <=> Names(r))
          /\ (FirstPart(r) = "text" <=> ~Names(r) /\ call[r].text)
      BY DEF FirstPart
    <3>3. outcome'[r] = "none" /\ AnswerOf(r)'
      BY <1>1, <3>1, <3>2, Going
    <3> QED  BY <1>1, <1>2, <2>1, <2>3, <3>1, <3>2, <3>3, PartsAre DEF Control
  <2>4. CASE call[r].op = "purge" /\ See(r, "purge")
    <3>1. pc'[r] = "purge" /\ want' = want /\ outcome' = outcome
      BY <1>3, <2>4 DEF See, MetaTypeOK
    <3>2. outcome'[r] = "none" /\ AnswerOf(r)'
      BY <1>1, <3>1, Going
    <3> QED  BY <1>1, <1>2, <2>1, <2>4, <3>1, <3>2 DEF Control
  <2> QED  BY <1>6, <2>2, <2>3, <2>4 DEF FindToApply, Missing
<1>7. CASE FindPage(r)
  <2>1. /\ PartsWritten(r) = {} /\ want[r] = None /\ pc[r] = "find"
        /\ call[r].op = "update" \/ Names(r)
    BY <1>2, <1>7 DEF FindPage, Control
  <2>2. CASE Finish(r, "stale") /\ ~IsExpected(r)
    <3>1. call[r].op = "update" /\ ~call[r].text
      BY <1>1, <2>2, PartsAre DEF IsExpected
    <3> QED  BY <1>1, <2>1, <2>2, <3>1, Ended, PartsAre
  <2>3. CASE Finish(r, "ok") /\ ~Names(r)
    BY <1>1, <2>1, <2>3, Ended, PartsAre
  <2>4. CASE Names(r) /\ See(r, IF call[r].patch.parent \in Pages THEN "parent" ELSE "write")
    <3>1. /\ pc'[r] \in {"parent", "write"} /\ want' = want /\ outcome' = outcome
          /\ pc'[r] = "parent" => call[r].patch.parent \in Pages
      BY <1>3, <2>4 DEF See, MetaTypeOK
    <3>2. outcome'[r] = "none" /\ AnswerOf(r)'
      BY <1>1, <3>1, Going
    <3> QED  BY <1>1, <1>2, <2>1, <2>4, <3>1, <3>2 DEF Control
  <2>5. CASE Finish(r, "missing")
    BY <1>4, <2>5
  <2> QED  BY <1>7, <2>2, <2>3, <2>4, <2>5 DEF FindPage, Missing
<1>8. CASE FindParent(r)
  <2>1. CASE Finish(r, "missing")
    BY <1>4, <2>1
  <2>2. CASE Goto(r, "write")
    <3>1. pc'[r] = "write" /\ want' = want /\ outcome' = outcome /\ pc[r] = "parent"
      BY <1>3, <1>8, <2>2 DEF Goto, MetaTypeOK, FindParent
    <3>2. outcome'[r] = "none" /\ AnswerOf(r)'
      BY <1>1, <3>1, Going
    <3> QED  BY <1>1, <1>2, <3>1, <3>2 DEF Control
  <2> QED  BY <1>8, <2>1, <2>2 DEF FindParent
<1>9. CASE FindUnwritten(r)
  <2>1. pc[r] = "missed" /\ (Finish(r, "stale") \/ Finish(r, "missing"))
    BY <1>9 DEF FindUnwritten
  <2>2. PartsWritten(r) = {} /\ Names(r) /\ call[r].expect # None
    BY <1>2, <2>1 DEF Control
  <2>3. PartsWritten(r) = Parts(r) \ {IF call[r].text THEN "text" ELSE "meta"}
    BY <1>1, <2>2, PartsAre
  <2> QED  BY <1>1, <1>4, <2>1, <2>3, Ended
<1>10. CASE FindWritten(r)
  <2>1. CASE See(r, "index")
    <3>1. pc'[r] = "index" /\ want' = want /\ outcome' = outcome /\ pc[r] = "show"
      BY <1>3, <1>10, <2>1 DEF See, MetaTypeOK, FindWritten
    <3>2. outcome'[r] = "none" /\ AnswerOf(r)'
      BY <1>1, <3>1, Going
    <3> QED  BY <1>1, <1>2, <3>1, <3>2 DEF Control
  <2>2. CASE Finish(r, "missing") \/ Finish(r, "reconcile")
    BY <1>4, <2>2
  <2> QED  BY <1>10, <2>1, <2>2 DEF FindWritten, Missing
<1>11. CASE Index(r)
  <2>1. pc[r] = "index" /\ call[r].op # "suggestion"
    BY <1>1, <1>2, <1>11 DEF Index, Control
  <2>2. /\ want[r] = None => Names(r) /\ PartsWritten(r) = {"meta"}
        /\ want[r] # None => call[r].text /\ PartsWritten(r) = Parts(r)
    BY <1>2, <2>1 DEF Control
  <2>3. CASE Finish(r, "ok") /\ want[r] = None /\ call[r].op # "upsert"
    BY <1>1, <2>2, <2>3, Ended, PartsAre
  <2>4. CASE /\ Goto(r, "last")
             /\ want[r] # None \/ ~call[r].text
    <3>1. pc'[r] = "last" /\ want' = want /\ outcome' = outcome
      BY <1>3, <2>4 DEF Goto, MetaTypeOK
    <3>2. outcome'[r] = "none" /\ AnswerOf(r)'
      BY <1>1, <3>1, Going
    <3>3. PartsWritten(r) = Parts(r)
      BY <1>1, <2>2, <2>4, PartsAre
    <3> QED  BY <1>1, <1>2, <2>1, <3>1, <3>2, <3>3 DEF Control
  <2>5. CASE Goto(r, "text") /\ want[r] = None /\ call[r].text
    <3>1. pc'[r] = "text" /\ want' = want /\ outcome' = outcome
      BY <1>3, <2>5 DEF Goto, MetaTypeOK
    <3>2. outcome'[r] = "none" /\ AnswerOf(r)'
      BY <1>1, <3>1, Going
    <3>3. PartsWritten(r) = Parts(r) \ {"text"}
      BY <1>1, <2>2, <2>5, PartsAre
    <3> QED  BY <1>1, <1>2, <2>1, <2>5, <3>1, <3>2, <3>3 DEF Control
  <2>6. call[r].text \in BOOLEAN
    BY <1>1, PartsAre
  <2> QED  BY <1>11, <2>3, <2>4, <2>5, <2>6 DEF Index
<1>12. CASE FindVersion(r)
  <2>1. CASE Finish(r, "missing")
    BY <1>4, <2>1
  <2>2. CASE /\ want' = [want EXCEPT ![r] = Found(r).pointer]
             /\ pc' = [pc EXCEPT ![r] = "save"]
             /\ UNCHANGED <<seen, outcome>>
    <3>1. /\ pc'[r] = "save" /\ want'[r] = Found(r).pointer /\ outcome' = outcome
          /\ pc[r] = "text"
      BY <1>3, <1>12, <2>2 DEF MetaTypeOK, FindVersion
    <3>2. outcome'[r] = "none" /\ AnswerOf(r)'
      BY <1>1, <3>1, Going
    <3>3. want'[r] \in Nat
      BY <1>1, <1>3, <3>1, TargetIsThere, RowFields
    <3> QED  BY <1>1, <1>2, <3>1, <3>2, <3>3 DEF Control
  <2> QED  BY <1>12, <2>1, <2>2 DEF FindVersion, Missing
<1>13. CASE FindToSave(r)
  <2>1. pc[r] = "save"
    BY <1>13 DEF FindToSave
  <2>2. call[r].text /\ PartsWritten(r) = Parts(r) \ {"text"} /\ want[r] \in Nat
    BY <1>2, <2>1 DEF Control
  <2>3. CASE Finish(r, "missing")
    BY <1>4, <2>3
  <2>4. CASE Finish(r, "stale")
    BY <1>1, <2>2, <2>4, Ended
  <2>5. CASE See(r, "commit")
    <3>1. pc'[r] = "commit" /\ want' = want /\ outcome' = outcome
      BY <1>3, <2>5 DEF See, MetaTypeOK
    <3>2. outcome'[r] = "none" /\ AnswerOf(r)'
      BY <1>1, <3>1, Going
    <3> QED  BY <1>1, <1>2, <2>1, <2>2, <3>1, <3>2 DEF Control
  <2> QED  BY <1>13, <2>3, <2>4, <2>5 DEF FindToSave, Missing
<1>14. CASE DriveFails(r)
  <2>1. call[r].text /\ PartsWritten(r) = Parts(r) \ {"text"} /\ Finish(r, "port")
    BY <1>1, <1>2, <1>14, PartsAre DEF DriveFails, Control
  <2> QED  BY <1>1, <2>1, Ended
<1>15. CASE FindApplied(r)
  <2>1. CASE Finish(r, "ok")
    <3>1. PartsWritten(r) = Parts(r)
      BY <1>2, <1>15 DEF FindApplied, Control
    <3> QED  BY <1>1, <2>1, <3>1, Ended
  <2> QED  BY <1>4, <1>15, <2>1 DEF FindApplied, Missing
<1>16. CASE DeleteIndex(r)
  <2>1. PartsWritten(r) = {"gone"} /\ call[r].op = "purge" /\ Finish(r, "ok")
    BY <1>2, <1>16 DEF DeleteIndex, Control
  <2> QED  BY <1>1, <2>1, Ended, PartsAre
<1>17. CASE Lose(r)
  BY <1>4, <1>17 DEF Lose
<1>18. CASE FindSource(r)
  <2>1. /\ pc[r] = "source" /\ PartsWritten(r) = {} /\ want[r] = None
        /\ call[r].op = "suggestion" /\ call[r].text /\ Parts(r) = {"text"}
    BY <1>1, <1>2, <1>18, PartsAre DEF FindSource, Control
  <2>2. CASE Finish(r, "missing")
    BY <1>4, <2>2
  <2>3. CASE Finish(r, "stale")
    BY <1>1, <2>1, <2>3, Ended
  <2>4. CASE See(r, "replace")
    <3>1. pc'[r] = "replace" /\ want' = want /\ outcome' = outcome
      BY <1>3, <2>4 DEF See, MetaTypeOK
    <3>2. outcome'[r] = "none" /\ AnswerOf(r)'
      BY <1>1, <3>1, Going
    <3> QED  BY <1>1, <1>2, <2>1, <3>1, <3>2 DEF Control
  <2> QED  BY <1>18, <2>2, <2>3, <2>4 DEF FindSource, Missing
<1> QED
  BY <1>5, <1>6, <1>7, <1>8, <1>9, <1>10, <1>11, <1>12, <1>13, <1>14, <1>15, <1>16, <1>17,
     <1>18 DEF ReadStep

LEMMA ControlOfArrive ==
    ASSUME IInv, NEW r \in Requests, Arrive(r)
    PROVE  Control(r)' /\ AnswerOf(r)'
<1>1. pc[r] = "idle" /\ PartsWritten(r) = {} /\ want[r] = None /\ outcome[r] = "none"
  BY DEF Arrive, IInv, ControlInv, Control, PartsWritten
<1>2. PartsWritten(r)' = {}
  BY <1>1 DEF Arrive, PartsWritten, WritesOf
<1>3. PICK c \in Calls : call' = [call EXCEPT ![r] = c]
                          /\ Goto(r, FirstPhase[c.op])
  BY DEF Arrive
<1>4. /\ call'[r] = c /\ want'[r] = None /\ outcome'[r] = "none"
      /\ pc'[r] = FirstPhase[c.op]
  BY <1>1, <1>3 DEF Goto, IInv, MetaTypeOK
<1>5. c.op \in Ops
  BY CallFields
<1>6. /\ pc'[r] \in {"find", "apply", "source"}
      /\ pc'[r] = "find" <=> c.op = "update"
      /\ pc'[r] = "source" <=> c.op = "suggestion"
  BY <1>4, <1>5, FirstPhases
<1>7. Control(r)'
  BY <1>2, <1>4, <1>6 DEF Control
<1>8. AnswerOf(r)'
  BY <1>4 DEF AnswerOf
<1> QED  BY <1>7, <1>8

LEMMA PartsGrow ==
    ASSUME NEW r \in Requests, NEW part, NEW new, UpdateOf(r, part, new)
    PROVE  PartsWritten(r)' = PartsWritten(r) \union {part}
<1> DEFINE w == [by |-> r, part |-> part, from |-> Found(r), to |-> new]
<1>1. writes' = writes \union {w} /\ w.by = r /\ w.part = part
  BY DEF UpdateOf, Update
<1>2. WritesOf(r)' = WritesOf(r) \union {w}
  BY <1>1 DEF WritesOf
<1> QED  BY <1>1, <1>2 DEF PartsWritten

LEMMA WentOn ==
    ASSUME MetaTypeOK, NEW r \in Requests, NEW phase, Goto(r, phase)
    PROVE  pc'[r] = phase /\ seen' = seen /\ want' = want /\ outcome' = outcome
BY DEF MetaTypeOK, Goto

LEMMA ControlOfUpdates ==
    ASSUME IInv, NEW r \in Requests,
           WriteMetadata(r) \/ SaveText(r) \/ ApplySuggestion(r) \/ Delete(r)
    PROVE  Control(r)' /\ AnswerOf(r)'
<1>1. /\ pc[r] \notin {"idle", "done"} /\ call'[r] = call[r]
      /\ pc[r] \in {"write", "commit", "replace", "purge"}
  BY DEF WriteMetadata, SaveText, ApplySuggestion, Delete
<1>2. Control(r) /\ call[r] \in Calls /\ MetaTypeOK /\ ControlInv /\ SeenInv
  BY <1>1 DEF IInv, ControlInv, Control
<1>3. (Names(r)' <=> Names(r)) /\ Parts(r)' = Parts(r) /\ Target(r)' = Target(r)
  BY <1>1, Kept
<1>4. UNCHANGED writes => PartsWritten(r)' = PartsWritten(r)
  BY DEF PartsWritten, WritesOf
<1>5. ASSUME NEW answer, Finish(r, answer), UNCHANGED writes,
             answer \in {"missing", "reconcile"}
      PROVE  Control(r)' /\ AnswerOf(r)'
  BY <1>1, <1>2, <1>4, <1>5, Ended
<1>6. CASE WriteMetadata(r)
  <2>1. /\ pc[r] = "write" /\ call[r].op # "suggestion"
        /\ PartsWritten(r) = {} /\ want[r] = None /\ Names(r)
    BY <1>2, <1>6 DEF WriteMetadata, Control
  <2>2. CASE UpdateOf(r, "meta", Patched(r)) /\ Goto(r, "show")
    <3>1. PartsWritten(r)' = {"meta"}
      BY <2>1, <2>2, PartsGrow
    <3>2. pc'[r] = "show" /\ want' = want /\ outcome' = outcome
      BY <1>2, <2>2, WentOn
    <3>3. outcome'[r] = "none" /\ AnswerOf(r)'
      BY <1>1, <3>2, Going
    <3> QED  BY <1>1, <1>2, <1>3, <2>1, <3>1, <3>2, <3>3 DEF Control
  <2>3. CASE UNCHANGED <<row, writes>> /\ ~VersionUnmoved(r)
    <3>1. CASE Finish(r, "missing")
      BY <1>5, <2>3, <3>1
    <3>2. CASE call[r].expect # None /\ Goto(r, "missed")
      <4>1. pc'[r] = "missed" /\ want' = want /\ outcome' = outcome
        BY <1>2, <3>2, WentOn
      <4>2. outcome'[r] = "none" /\ AnswerOf(r)'
        BY <1>1, <4>1, Going
      <4> QED  BY <1>1, <1>2, <1>3, <1>4, <2>1, <2>3, <3>2, <4>1, <4>2 DEF Control
    <3> QED  BY <1>6, <2>3, <3>1, <3>2 DEF WriteMetadata
  <2> QED  BY <1>2, <1>6, <2>2, <2>3, MetadataUpdate
<1>7. CASE SaveText(r)
  <2>1. call[r].text /\ PartsWritten(r) = Parts(r) \ {"text"} /\ want[r] # None
    BY <1>2, <1>7, NoneIsNone DEF SaveText, Control
  <2>2. CASE UpdateOf(r, "text", NextText(r)) /\ Goto(r, "show")
    <3>1. PartsWritten(r)' = Parts(r)
      BY <1>2, <2>1, <2>2, PartsGrow, PartsAre
    <3>2. pc'[r] = "show" /\ want' = want /\ outcome' = outcome
      BY <1>2, <2>2, WentOn
    <3>3. outcome'[r] = "none" /\ AnswerOf(r)'
      BY <1>1, <3>2, Going
    <3> QED  BY <1>1, <1>2, <1>3, <2>1, <3>1, <3>2, <3>3 DEF Control
  <2> QED  BY <1>2, <1>5, <1>7, <2>2, TextUpdate
<1>8. CASE Delete(r)
  <2>1. PartsWritten(r) = {} /\ call[r].op = "purge"
    BY <1>2, <1>8 DEF Delete, Control
  <2>2. CASE \E new \in Row : UpdateOf(r, "gone", new) /\ ~new.active /\ Goto(r, "unindex")
    <3>1. PICK new \in Row : UpdateOf(r, "gone", new) /\ ~new.active /\ Goto(r, "unindex")
      BY <2>2
    <3>2. PartsWritten(r)' = {"gone"}
      BY <2>1, <3>1, PartsGrow
    <3>3. pc'[r] = "unindex" /\ want' = want /\ outcome' = outcome
      BY <1>2, <3>1, WentOn
    <3>4. outcome'[r] = "none" /\ AnswerOf(r)'
      BY <1>1, <3>3, Going
    <3>5. ~row'[Target(r)].active
      <4>1. Target(r) \in Pages
        BY <1>2, TargetIsThere
      <4> QED  BY <1>2, <3>1, <4>1 DEF UpdateOf, Update, MetaTypeOK
    <3> QED  BY <1>1, <1>2, <1>3, <2>1, <3>2, <3>3, <3>4, <3>5 DEF Control
  <2> QED  BY <1>2, <1>5, <1>8, <2>2, DeleteUpdate
<1>9. CASE ApplySuggestion(r)
  <2>1. PartsWritten(r) = {} /\ Parts(r) = {"text"}
    BY <1>2, <1>9, PartsAre DEF ApplySuggestion, Control
  <2>2. CASE /\ UpdateOf(r, "text", NextText(r))
             /\ \E answer \in {"ok", "reconcile", "lost"} : Finish(r, answer)
    <3>1. PartsWritten(r)' = Parts(r)'
      BY <1>3, <2>1, <2>2, PartsGrow
    <3>2. pc'[r] = "done" /\ outcome'[r] \in {"ok", "reconcile", "lost"}
      BY <1>2, <2>2 DEF Finish, MetaTypeOK
    <3> QED  BY <1>1, <1>2, <3>1, <3>2 DEF Control, AnswerOf
  <2> QED  BY <1>2, <1>5, <1>9, <2>2, ApplyUpdate
<1> QED  BY <1>6, <1>7, <1>8, <1>9

LEMMA ControlStep == IInv /\ [Next]_vars => ControlInv'
<1> SUFFICES ASSUME IInv, [Next]_vars PROVE ControlInv'
  OBVIOUS
<1>1. CASE UNCHANGED vars
  <2>1. ASSUME NEW q \in Requests
        PROVE  /\ pc'[q] = pc[q] /\ call'[q] = call[q] /\ want'[q] = want[q]
               /\ outcome'[q] = outcome[q] /\ row' = row
               /\ WritesOf(q)' = WritesOf(q) /\ PartsWritten(q)' = PartsWritten(q)
    BY <1>1 DEF vars, tables, history, WritesOf, PartsWritten
  <2>2. ASSUME NEW q \in Requests PROVE Control(q)' /\ AnswerOf(q)'
    <3>1. Control(q) /\ AnswerOf(q)
      BY DEF IInv, ControlInv, AnswersMatchWrites, AnswerOf
    <3>2. (Names(q)' <=> Names(q)) /\ Parts(q)' = Parts(q) /\ Target(q)' = Target(q)
      BY <2>1, Kept
    <3> QED  BY <2>1, <3>1, <3>2 DEF Control, AnswerOf
  <2>3. AnswersMatchWrites'
    BY <2>2 DEF AnswersMatchWrites, AnswerOf
  <2> QED  BY <2>2, <2>3 DEF ControlInv
<1>2. ASSUME NEW r \in Requests, Step(r) PROVE ControlInv'
  <2>1. Control(r)' /\ AnswerOf(r)'
    BY <1>2, ControlOfReads, ControlOfArrive, ControlOfUpdates DEF Step, ReadStep
  <2>2. \A q \in Requests : Control(q)' /\ AnswerOf(q)'
    BY <1>2, <2>1, ControlOfOthers
  <2>3. AnswersMatchWrites'
    BY <2>2 DEF AnswersMatchWrites, AnswerOf
  <2> QED  BY <2>2, <2>3 DEF ControlInv
<1> QED  BY <1>1, <1>2 DEF Next

-----------------------------------------------------------------------------
\* A request stays what it was when it arrived.
LEMMA CallKept ==
    ASSUME IInv, NEW r \in Requests, Step(r), NEW q \in Requests, pc[q] # "idle"
    PROVE  call'[q] = call[q] /\ start'[q] = start[q] /\ pc'[q] # "idle"
<1>1. CASE q # r
  BY <1>1, Others DEF IInv
<1>2. CASE q = r
  <2>1. UNCHANGED <<call, start>>
    BY <1>2 DEF Step, Arrive, Refuse, FindToApply, FindPage, FindParent, FindUnwritten,
       FindWritten, Index, FindVersion, FindToSave, DriveFails, FindApplied,
       FindSource, DeleteIndex, Lose,
       WriteMetadata, SaveText, ApplySuggestion, Delete, history
  <2>2. pc'[r] # "idle"
    <3> USE DEF MetaTypeOK, Goto, Finish, See, Missing
    <3>1. CASE FindToApply(r)
      <4>1. FirstPart(r) # "idle"
        BY DEF FirstPart
      <4> QED  BY <3>1, <4>1 DEF IInv, FindToApply
    <3>2. CASE ReadStep(r) /\ ~FindToApply(r)
      BY <1>2, <3>2 DEF IInv, ReadStep, Arrive, Refuse, FindPage, FindParent, FindUnwritten,
         FindWritten, Index, FindVersion, FindToSave, DriveFails, FindApplied,
         FindSource, DeleteIndex, Lose
    <3>3. CASE WriteMetadata(r) \/ SaveText(r) \/ ApplySuggestion(r) \/ Delete(r)
      BY <3>3 DEF IInv, WriteMetadata, SaveText, ApplySuggestion, Delete
    <3> QED  BY <3>1, <3>2, <3>3 DEF Step, ReadStep
  <2> QED  BY <1>2, <2>1, <2>2
<1> QED  BY <1>1, <1>2

LEMMA VersionsGrow ==
    ASSUME IInv, NEW r \in Requests, Step(r), NEW p \in Pages
    PROVE  /\ row[p] \in Row /\ row'[p] \in Row
           /\ row[p].version \in Nat /\ row'[p].version \in Nat
           /\ row[p].version <= row'[p].version
           /\ row'[p] # row[p] => row[p].version < row'[p].version
<1>1. row[p] \in Row /\ row'[p] \in Row
  BY RowsGrow DEF IInv, MetaTypeOK
<1>2. row[p].version \in Nat /\ row'[p].version \in Nat
  BY <1>1, RowFields
<1>3. row'[p] # row[p] => row'[p].version = row[p].version + 1
  BY RowsGrow DEF IInv
<1> QED  BY <1>1, <1>2, <1>3

\* What a page has been since a request arrived it has still been later.
LEMMA SinceGrows ==
    ASSUME IInv, NEW r \in Requests, Step(r), NEW q \in Requests, pc[q] # "idle",
           NEW p \in Pages, NEW x \in RowsSince(q, p)
    PROVE  x \in RowsSince(q, p)'
<1>1. start'[q] = start[q]
  BY CallKept
<1>2. writes \subseteq writes' /\ writes \subseteq Write
  BY RowsGrow DEF IInv, MetaTypeOK
<1>3. x.version >= start[q][p]
  BY DEF RowsSince
<1>4. CASE x = row[p] /\ row'[p] = row[p]
  BY <1>1, <1>3, <1>4 DEF RowsSince
<1>5. CASE x = row[p] /\ row'[p] # row[p]
  <2>1. p = Target(r) /\ \E w \in writes' : w.by = r /\ w.from = row[p]
    BY <1>5, RowsGrow DEF IInv
  <2>2. ~ReadStep(r)
    BY <1>5, ReadsChangeNoRow
  <2>3. pc[r] # "idle"
    BY <2>2 DEF Step, ReadStep, WriteMetadata, SaveText, ApplySuggestion, Delete
  <2>4. call'[r].page = p
    BY <2>1, <2>3, CallKept DEF Target
  <2> QED  BY <1>1, <1>3, <1>5, <2>1, <2>4 DEF RowsSince
<1>6. CASE \E w \in writes : call[w.by].page = p /\ x = w.from
  <2>1. PICK w \in writes : call[w.by].page = p /\ x = w.from
    BY <1>6
  <2>2. w.by \in Requests /\ pc[w.by] # "idle"
    BY <1>2, <2>1 DEF Write, IInv, WritesInv
  <2>3. w \in writes' /\ call'[w.by].page = p
    BY <1>2, <2>1, <2>2, CallKept
  <2> QED  BY <1>1, <1>3, <2>1, <2>3 DEF RowsSince
<1> QED  BY <1>4, <1>5, <1>6 DEF RowsSince

LEMMA StartsBefore ==
    ASSUME IInv, NEW r \in Requests, Step(r), NEW q \in Requests, pc'[q] # "idle",
           NEW p \in Pages
    PROVE  start'[q][p] <= row'[p].version
<1>1. CASE pc[q] # "idle"
  <2>1. start'[q] = start[q] /\ start[q][p] <= row[p].version /\ start[q][p] \in Nat
    BY <1>1, CallKept DEF IInv, SeenInv, Seen, MetaTypeOK
  <2> QED  BY <2>1, VersionsGrow
<1>2. CASE pc[q] = "idle"
  <2>1. q = r
    BY <1>2, Others DEF IInv
  <2>2. Arrive(r)
    BY <1>2, <2>1 DEF Step, Arrive, Refuse, FindToApply, FindPage, FindParent, FindUnwritten,
       FindWritten, Index, FindVersion, FindToSave, DriveFails, FindApplied,
       FindSource, DeleteIndex, Lose,
       WriteMetadata, SaveText, ApplySuggestion, Delete, InFlight
  <2>3. start'[q][p] = row[p].version /\ row'[p] = row[p]
    BY <2>1, <2>2 DEF Arrive, IInv, MetaTypeOK, tables
  <2> QED  BY <2>3, VersionsGrow
<1> QED  BY <1>1, <1>2

LEMMA SinceFor ==
    ASSUME NEW q \in Requests, NEW p, start'[q] = start[q]
    PROVE  /\ call'[q].patch.parent = p => RowsSince(q, call[q].patch.parent)' = RowsSince(q, p)'
           /\ Target(q)' = p => RowsSince(q, Target(q))' = RowsSince(q, p)'
BY DEF RowsSince

LEMMA ParentKept ==
    ASSUME IInv, NEW r \in Requests, Step(r), NEW q \in Requests,
           pc[q] = "write", pc'[q] = "write"
    PROVE  ParentSeen(q)'
<1>1. call'[q] = call[q] /\ start'[q] = start[q] /\ Target(q)' = Target(q)
  BY CallKept, Kept
<1>2. CASE call[q].patch.parent \in Pages
  <2>1. PICK x \in RowsSince(q, call[q].patch.parent) : x.active
    BY <1>2 DEF IInv, SeenInv, Seen, ParentSeen
  <2>2. x \in RowsSince(q, call[q].patch.parent)'
    <3> DEFINE p == call[q].patch.parent
    <3>1. p \in Pages /\ x \in RowsSince(q, p) /\ call'[q].patch.parent = p
      BY <1>1, <1>2, <2>1
    <3>2. call[q].patch.parent \in Pages
      BY <1>2
    <3>3. \A y \in Pages : x \in RowsSince(q, y) => x \in RowsSince(q, y)'
      BY SinceGrows
    <3> QED  BY <1>1, <3>1, <3>3, SinceFor
  <2>3. call[q].patch.parent # Target(q)
    BY <1>2 DEF IInv, SeenInv, Seen, ParentSeen
  <2> QED  BY <1>1, <2>1, <2>2, <2>3 DEF ParentSeen
<1> QED  BY <1>1, <1>2 DEF ParentSeen

LEMMA TrashKept ==
    ASSUME IInv, NEW r \in Requests, Step(r), NEW q \in Requests,
           pc[q] = "purge", pc'[q] = "purge"
    PROVE  TrashSeen(q)'
<1>1. call'[q] = call[q] /\ start'[q] = start[q] /\ Target(q)' = Target(q)
  BY CallKept, Kept
<1>2. CASE Target(q) \notin Folders
  <2>1. PICK x \in RowsSince(q, Target(q)) : x.active /\ x.archive = "archived"
    BY <1>2 DEF IInv, SeenInv, Seen, TrashSeen
  <2>2. \A y \in Pages : x \in RowsSince(q, y) => x \in RowsSince(q, y)'
    BY SinceGrows
  <2>3. Target(q) \in Pages
    BY TargetIsThere DEF IInv, ControlInv, Control
  <2>4. x \in RowsSince(q, Target(q))'
    BY <1>1, <2>1, <2>2, <2>3, SinceFor
  <2> QED  BY <2>1, <2>4 DEF TrashSeen
<1> QED  BY <1>1, <1>2 DEF TrashSeen

\* What a handler read stays true of it until it reads again.
LEMMA ReadKept ==
    ASSUME IInv, NEW r \in Requests, Step(r), NEW q \in Requests,
           pc[q] \in {"parent", "write"}, seen'[q] = seen[q]
    PROVE  ReadBefore(q)'
<1>1. call'[q] = call[q] /\ Target(q)' = Target(q)
  BY CallKept, Kept
<1>2. /\ seen[q] \in Row /\ seen[q].version \in Nat
      /\ seen[q].version <= row[Target(q)].version
      /\ seen[q].version = row[Target(q)].version => seen[q] = row[Target(q)]
      /\ call[q].expect \in {None, seen[q].version}
  BY RowFields DEF IInv, SeenInv, Seen, ReadBefore
<1>3. Target(q) \in Pages
  BY TargetIsThere DEF IInv, ControlInv, Control
<1>4. /\ seen[q].version <= row'[Target(q)].version
      /\ seen[q].version = row'[Target(q)].version => seen[q] = row'[Target(q)]
  BY <1>2, <1>3, VersionsGrow
<1> QED  BY <1>1, <1>2, <1>4 DEF ReadBefore

LEMMA SeenOfOthers ==
    ASSUME IInv, NEW r \in Requests, Step(r), NEW q \in Requests, q # r
    PROVE  Seen(q)'
<1>1. pc'[q] = pc[q] /\ seen'[q] = seen[q]
  BY Others DEF IInv
<1>2. pc'[q] # "idle" => \A p \in Pages : start'[q][p] <= row'[p].version
  BY StartsBefore
<1>3. ReadBefore(q)'
  BY <1>1, ReadKept DEF ReadBefore
<1>4. pc'[q] = "index" => seen'[q] \in Row
  BY <1>1 DEF IInv, SeenInv, Seen
<1>5. ParentSeen(q)'
  BY <1>1, ParentKept DEF ParentSeen
<1>6. TrashSeen(q)'
  BY <1>1, TrashKept DEF TrashSeen
<1> QED  BY <1>2, <1>3, <1>4, <1>5, <1>6 DEF Seen

\* A handler that has gone on to a phase with nothing to remember.
LEMMA SeenNothing ==
    ASSUME IInv, NEW r \in Requests, Step(r),
           pc'[r] \notin {"parent", "write", "index", "purge"}
    PROVE  Seen(r)'
<1>1. pc'[r] # "idle" => \A p \in Pages : start'[r][p] <= row'[p].version
  BY StartsBefore
<1> QED  BY <1>1 DEF Seen, ReadBefore, ParentSeen, TrashSeen

LEMMA RowIsSince ==
    ASSUME IInv, NEW r \in Requests, Step(r), NEW q \in Requests, pc[q] # "idle",
           NEW p \in Pages
    PROVE  row[p] \in RowsSince(q, p) /\ row[p] \in RowsSince(q, p)'
<1>1. start[q][p] <= row[p].version /\ start[q][p] \in Nat /\ row[p].version \in Nat
  BY VersionsGrow DEF IInv, SeenInv, Seen, MetaTypeOK
<1>2. row[p] \in RowsSince(q, p)
  BY <1>1 DEF RowsSince
<1> QED  BY <1>2, SinceGrows

LEMMA SeenOfSteps ==
    ASSUME IInv, NEW r \in Requests, Step(r)
    PROVE  Seen(r)'
<1>1. MetaTypeOK /\ Control(r) /\ (pc'[r] # "idle" => \A p \in Pages : start'[r][p] <= row'[p].version)
  BY StartsBefore DEF IInv, ControlInv
<1>2. pc[r] # "idle" =>
         /\ call'[r] = call[r] /\ start'[r] = start[r] /\ Target(r)' = Target(r)
         /\ call[r] \in Calls /\ Target(r) \in Pages /\ Found(r) \in Row
  BY <1>1, CallKept, Kept, TargetIsThere DEF Control
<1>3. CASE FindToApply(r)
  <2>1. CASE See(r, FirstPart(r))
    <3>1. pc'[r] \in {"find", "text", "last"}
      BY <1>1, <2>1 DEF See, FirstPart, MetaTypeOK
    <3> QED  BY <3>1, SeenNothing
  <2>2. CASE See(r, "purge") /\ InTrash(r)
    <3>1. pc'[r] = "purge" /\ pc[r] = "apply" /\ Found(r).active
      BY <1>1, <1>3, <2>2 DEF See, MetaTypeOK, FindToApply
    <3>2. Target(r) \notin Folders => Found(r).archive = "archived"
      BY <2>2 DEF InTrash
    <3>3. Found(r) \in RowsSince(r, Target(r))'
      BY <1>2, <3>1, RowIsSince, SinceFor DEF Found
    <3>4. TrashSeen(r)'
      BY <1>2, <3>1, <3>2, <3>3 DEF TrashSeen
    <3> QED  BY <1>1, <3>1, <3>4 DEF Seen, ReadBefore, ParentSeen
  <2>3. CASE Finish(r, "conflict")
    BY <1>1, <2>3, SeenNothing DEF Finish, MetaTypeOK
  <2> QED  BY <1>3, <2>1, <2>2, <2>3 DEF FindToApply, Missing
<1>4. CASE FindPage(r)
  <2>1. CASE IsExpected(r) /\ See(r, IF call[r].patch.parent \in Pages THEN "parent" ELSE "write")
    <3>1. /\ pc'[r] = IF call[r].patch.parent \in Pages THEN "parent" ELSE "write"
          /\ pc[r] = "find" /\ seen'[r] = Found(r)
      BY <1>1, <1>4, <2>1 DEF See, MetaTypeOK, FindPage
    <3>2. row' = row
      BY <1>4 DEF FindPage, tables
    <3>3. Found(r).version \in Nat /\ call[r].expect \in {None, Found(r).version}
      BY <1>2, <2>1, <3>1, RowFields DEF IsExpected
    <3>4. ReadBefore(r)'
      BY <1>2, <3>1, <3>2, <3>3 DEF ReadBefore, Found
    <3>5. ParentSeen(r)' /\ TrashSeen(r)'
      BY <1>2, <3>1 DEF ParentSeen, TrashSeen
    <3> QED  BY <1>1, <3>1, <3>4, <3>5 DEF Seen
  <2>2. CASE Finish(r, "missing") \/ Finish(r, "stale") \/ Finish(r, "ok")
    BY <1>1, <2>2, SeenNothing DEF Finish, MetaTypeOK
  <2> QED  BY <1>4, <2>1, <2>2 DEF FindPage, Missing
<1>5. CASE FindParent(r)
  <2>1. CASE Finish(r, "missing")
    BY <1>1, <2>1, SeenNothing DEF Finish, MetaTypeOK
  <2>2. CASE /\ row[call[r].patch.parent].active /\ call[r].patch.parent # Target(r)
             /\ Goto(r, "write")
    <3>1. pc[r] = "parent" /\ pc'[r] = "write" /\ seen' = seen
      BY <1>1, <1>5, <2>2, WentOn DEF FindParent
    <3>2. ReadBefore(r)'
      BY <3>1, ReadKept
    <3>3. call[r].patch.parent \in Pages
      BY <1>1, <3>1 DEF Control
    <3>4. row[call[r].patch.parent] \in RowsSince(r, call[r].patch.parent)'
      BY <1>2, <3>1, <3>3, RowIsSince, SinceFor
    <3>5. ParentSeen(r)'
      BY <1>2, <2>2, <3>1, <3>4 DEF ParentSeen
    <3> QED  BY <1>1, <3>1, <3>2, <3>5 DEF Seen, TrashSeen
  <2> QED  BY <1>5, <2>1, <2>2 DEF FindParent
<1>6. CASE FindWritten(r)
  <2>1. CASE See(r, "index")
    <3>1. pc[r] = "show" /\ pc'[r] = "index" /\ seen'[r] = Found(r)
      BY <1>1, <1>6, <2>1 DEF See, MetaTypeOK, FindWritten
    <3> QED  BY <1>1, <1>2, <3>1 DEF Seen, ReadBefore, ParentSeen, TrashSeen
  <2>2. CASE Finish(r, "missing") \/ Finish(r, "reconcile")
    BY <1>1, <2>2, SeenNothing DEF Finish, MetaTypeOK
  <2> QED  BY <1>6, <2>1, <2>2 DEF FindWritten, Missing
<1>7. CASE ~(FindToApply(r) \/ FindPage(r) \/ FindParent(r) \/ FindWritten(r))
  <2>1. Arrive(r) => pc'[r] \in {"find", "apply", "source"}
    BY <1>1, CallFields, FirstPhases DEF Arrive, Goto, MetaTypeOK
  <2>2. pc'[r] \notin {"parent", "write", "index", "purge"}
    BY <1>1, <1>7, <2>1 DEF Step, Refuse, FindUnwritten, Index, FindVersion, FindToSave,
       DriveFails, FindApplied,
       FindSource, DeleteIndex, Lose, WriteMetadata, SaveText, ApplySuggestion, Delete,
       Goto, Finish, See, Missing, MetaTypeOK
  <2> QED  BY <2>2, SeenNothing
<1> QED  BY <1>3, <1>4, <1>5, <1>6, <1>7

LEMMA SeenStep == IInv /\ [Next]_vars => SeenInv'
<1> SUFFICES ASSUME IInv, [Next]_vars PROVE SeenInv'
  OBVIOUS
<1>1. CASE UNCHANGED vars
  <2>1. /\ pc' = pc /\ call' = call /\ seen' = seen /\ row' = row /\ start' = start
        /\ writes' = writes
    BY <1>1 DEF vars, tables, history
  <2>2. ASSUME NEW q \in Requests PROVE Seen(q)'
    <3>1. Seen(q) /\ Target(q)' = Target(q)
      BY <2>1 DEF IInv, SeenInv, Target
    <3>2. TrashSeen(q)' /\ ParentSeen(q)'
      BY <2>1, <3>1 DEF Seen, TrashSeen, ParentSeen, RowsSince, Target
    <3>3. ReadBefore(q)'
      BY <2>1, <3>1 DEF Seen, ReadBefore
    <3> QED  BY <2>1, <3>1, <3>2, <3>3 DEF Seen
  <2> QED  BY <2>2 DEF SeenInv
<1>2. ASSUME NEW r \in Requests, Step(r) PROVE SeenInv'
  BY <1>2, SeenOfSteps, SeenOfOthers DEF SeenInv
<1> QED  BY <1>1, <1>2 DEF Next

-----------------------------------------------------------------------------
\* The two properties of one write.
KeepsTheRest(w) ==
    w.part = "meta" /\ call[w.by].expect # None =>
        /\ w.from.version = call[w.by].expect
        /\ \A f \in DOMAIN call[w.by].patch :
              call[w.by].patch[f] = Keep => w.to[f] = w.from[f]

ThereSince(r, p) == \E x \in RowsSince(r, p) : x.active
InTrashSince(r, p) == \E x \in RowsSince(r, p) : x.active /\ x.archive = "archived"

WasChecked(w) ==
    /\ w.part = "gone" /\ call[w.by].page \notin Folders =>
          InTrashSince(w.by, call[w.by].page)
    /\ w.part = "meta" /\ call[w.by].patch.parent \in Pages =>
          /\ call[w.by].patch.parent # call[w.by].page
          /\ ThereSince(w.by, call[w.by].patch.parent)

LEMMA OldWrite ==
    ASSUME IInv, NEW r \in Requests, Step(r), NEW w \in writes
    PROVE  pc'[w.by] # "idle" /\ KeepsTheRest(w)' /\ WasChecked(w)'
<1>1. w.by \in Requests /\ pc[w.by] # "idle"
  BY DEF IInv, MetaTypeOK, Write, WritesInv
<1>2. KeepsTheRest(w) /\ WasChecked(w)
  BY DEF IInv, WritesInv, ExpectedWritesKeepTheRest, ChecksHeldSinceArrival,
     KeepsTheRest, WasChecked, InTrashSince, ThereSince
<1>3. call'[w.by] = call[w.by] /\ start'[w.by] = start[w.by] /\ pc'[w.by] # "idle"
  BY <1>1, CallKept
<1>4. \A p \in Pages : /\ InTrashSince(w.by, p) => InTrashSince(w.by, p)'
                       /\ ThereSince(w.by, p) => ThereSince(w.by, p)'
  BY <1>1, SinceGrows DEF InTrashSince, ThereSince
<1>5. call[w.by] \in Calls /\ call[w.by].page \in Pages
  BY <1>1, TargetIsThere DEF IInv, ControlInv, Control, Target
<1>6. InTrashSince(w.by, call[w.by].page) => InTrashSince(w.by, call[w.by].page)'
  BY <1>3, <1>4, <1>5 DEF InTrashSince, RowsSince
<1>7. call[w.by].patch.parent \in Pages /\ ThereSince(w.by, call[w.by].patch.parent) =>
        ThereSince(w.by, call[w.by].patch.parent)'
  BY <1>3, <1>4 DEF ThereSince, RowsSince
<1>8. WasChecked(w)'
  BY <1>2, <1>3, <1>6, <1>7 DEF WasChecked
<1>9. KeepsTheRest(w)'
  BY <1>2, <1>3 DEF KeepsTheRest
<1> QED  BY <1>3, <1>8, <1>9

\* The row is as it was read when it has the version that was expected.
LEMMA PatchKeeps ==
    ASSUME IInv, NEW r \in Requests, WriteMetadata(r), IsExpected(r),
           call[r].expect # None
    PROVE  /\ Found(r).version = call[r].expect
           /\ \A f \in DOMAIN call[r].patch :
                 call[r].patch[f] = Keep => Patched(r)[f] = Found(r)[f]
<1>1. pc[r] = "write" /\ call[r] \in Calls
  BY DEF WriteMetadata, IInv, ControlInv, Control
<1>2. Found(r).version = call[r].expect /\ seen[r].version = call[r].expect
  BY <1>1 DEF IsExpected, IInv, SeenInv, Seen, ReadBefore
<1>3. seen[r] = Found(r) /\ seen[r] \in Row
  BY <1>1, <1>2 DEF IInv, SeenInv, Seen, ReadBefore, Found
<1>4. /\ Patched(r).title = Named(r, "title") /\ Patched(r).archive = Named(r, "archive")
      /\ Patched(r).parent = IF call[r].patch.parent = Keep THEN Found(r).parent
                             ELSE call[r].patch.parent
  BY <1>1, <1>3, PatchedIsARow DEF IInv
<1>5. DOMAIN call[r].patch = {"title", "archive", "parent"}
  BY <1>1, CallFields
<1>6. call[r].patch["title"] = Keep => Patched(r).title = Found(r)["title"]
  BY <1>3, <1>4 DEF Named
<1>7. call[r].patch["archive"] = Keep => Patched(r).archive = Found(r)["archive"]
  BY <1>3, <1>4 DEF Named
<1>8. call[r].patch["parent"] = Keep => Patched(r).parent = Found(r)["parent"]
  BY <1>4
<1> QED  BY <1>2, <1>5, <1>6, <1>7, <1>8

LEMMA NewWrite ==
    ASSUME IInv, NEW r \in Requests, Step(r), NEW w \in writes', w \notin writes
    PROVE  pc'[w.by] # "idle" /\ KeepsTheRest(w)' /\ WasChecked(w)'
<1>1. ~ReadStep(r)
  BY ReadsChangeNoRow
<1>2. pc[r] # "idle"
  BY <1>1 DEF Step, ReadStep, WriteMetadata, SaveText, ApplySuggestion, Delete
<1>3. call'[r] = call[r] /\ start'[r] = start[r] /\ pc'[r] # "idle" /\ call[r] \in Calls
  BY <1>2, CallKept DEF IInv, ControlInv, Control
<1>4. \A p \in Pages : /\ InTrashSince(r, p) => InTrashSince(r, p)'
                       /\ ThereSince(r, p) => ThereSince(r, p)'
  BY <1>2, SinceGrows DEF InTrashSince, ThereSince
<1>5. CASE WriteMetadata(r)
  <2>1. IsExpected(r) /\ UpdateOf(r, "meta", Patched(r))
    BY <1>5, MetadataUpdate DEF IInv
  <2>2. w = [by |-> r, part |-> "meta", from |-> Found(r), to |-> Patched(r)]
    BY <2>1 DEF UpdateOf, Update
  <2>3. w.by = r /\ w.part = "meta" /\ w.from = Found(r) /\ w.to = Patched(r)
    BY <2>2
  <2>4. KeepsTheRest(w)'
    <3>1. KeepsTheRest(w)
      BY <1>5, <2>1, <2>3, PatchKeeps DEF KeepsTheRest
    <3> QED  BY <1>3, <2>3, <3>1 DEF KeepsTheRest
  <2>5. call[r].patch.parent \in Pages =>
          call[r].patch.parent # call[r].page /\ ThereSince(r, call[r].patch.parent)
    BY <1>5 DEF WriteMetadata, IInv, SeenInv, Seen, ParentSeen, ThereSince, Target
  <2>6. call[r].patch.parent \in Pages => ThereSince(r, call[r].patch.parent)'
    BY <1>3, <1>4, <2>5 DEF ThereSince, RowsSince
  <2>7. WasChecked(w)'
    BY <1>3, <2>3, <2>5, <2>6 DEF WasChecked
  <2> QED  BY <1>3, <2>3, <2>4, <2>7
<1>6. CASE SaveText(r) \/ ApplySuggestion(r)
  <2>1. UpdateOf(r, "text", NextText(r))
    BY <1>6, TextUpdate, ApplyUpdate DEF IInv
  <2>2. w.by = r /\ w.part = "text"
    BY <2>1 DEF UpdateOf, Update
  <2> QED  BY <1>3, <2>2 DEF KeepsTheRest, WasChecked
<1>7. CASE Delete(r)
  <2>1. PICK new \in Row : UpdateOf(r, "gone", new)
    BY <1>7, DeleteUpdate DEF IInv
  <2>2. w.by = r /\ w.part = "gone"
    BY <2>1 DEF UpdateOf, Update
  <2>3. call[r].page \notin Folders => InTrashSince(r, call[r].page)
    BY <1>7 DEF Delete, IInv, SeenInv, Seen, TrashSeen, InTrashSince, Target
  <2>4. call[r].page \in Pages
    BY <1>3, CallFields
  <2>5. call[r].page \notin Folders => InTrashSince(r, call[r].page)'
    BY <1>3, <1>4, <2>3, <2>4 DEF InTrashSince, RowsSince
  <2> QED  BY <1>3, <2>2, <2>5 DEF KeepsTheRest, WasChecked
<1> QED  BY <1>1, <1>5, <1>6, <1>7 DEF Step, ReadStep

LEMMA WritesStep == IInv /\ [Next]_vars => WritesInv'
<1> SUFFICES ASSUME IInv, [Next]_vars PROVE WritesInv'
  OBVIOUS
<1>1. CASE UNCHANGED vars
  <2>1. /\ pc' = pc /\ call' = call /\ row' = row /\ start' = start /\ writes' = writes
    BY <1>1 DEF vars, tables, history
  <2> QED  BY <2>1 DEF IInv, WritesInv, ExpectedWritesKeepTheRest, ChecksHeldSinceArrival, RowsSince
<1>2. ASSUME NEW r \in Requests, Step(r) PROVE WritesInv'
  <2>1. \A w \in writes' : pc'[w.by] # "idle" /\ KeepsTheRest(w)' /\ WasChecked(w)'
    BY <1>2, OldWrite, NewWrite
  <2> QED
    BY <2>1 DEF WritesInv, ExpectedWritesKeepTheRest, ChecksHeldSinceArrival,
       KeepsTheRest, WasChecked, InTrashSince, ThereSince
<1> QED  BY <1>1, <1>2 DEF Next

-----------------------------------------------------------------------------
IndexOf(p) ==
    \/ Entry(p, row[p].pointer) \in index \/ LeftByApply(p)
    \/ \E r \in Requests : outcome[r] = "lost" \/ WillIndex(r, p)

LEMMA EntriesStay ==
    ASSUME IInv, NEW r \in Requests, Step(r), NEW p \in Pages, row[p].active,
           NEW n, Entry(p, n) \in index
    PROVE  Entry(p, n) \in index'
<1>1. CASE DeleteIndex(r)
  <2>1. ~row[Target(r)].active
    BY <1>1 DEF DeleteIndex, IInv, ControlInv, Control
  <2>2. Entry(p, n).page # Target(r)
    BY <2>1 DEF Entry
  <2> QED  BY <1>1, <2>2 DEF DeleteIndex
<1>2. CASE ~DeleteIndex(r)
  BY <1>2 DEF Step, Arrive, Refuse, FindToApply, FindPage, FindParent, FindUnwritten,
     FindWritten, Index, FindVersion, FindToSave, DriveFails, FindApplied, FindSource, Lose,
     WriteMetadata, SaveText, ApplySuggestion, Delete, tables
<1> QED  BY <1>1, <1>2

LEMMA SameRowIndexed ==
    ASSUME IInv, NEW r \in Requests, Step(r), NEW p \in Pages, row'[p] = row[p],
           row[p].active
    PROVE  IndexOf(p)'
<1>1. MetaTypeOK
  BY DEF IInv
<1>2. CASE Entry(p, row[p].pointer) \in index
  <2>1. Entry(p, row[p].pointer) \in index'
    BY <1>2, EntriesStay
  <2> QED  BY <2>1 DEF IndexOf, Entry
<1>3. CASE LeftByApply(p)
  <2>1. PICK w \in writes : /\ call[w.by].op = "suggestion" /\ call[w.by].page = p
                            /\ w.to = row[p]
    BY <1>3 DEF LeftByApply
  <2>2. w.by \in Requests /\ pc[w.by] # "idle" /\ w \in writes'
    BY RowsGrow DEF IInv, MetaTypeOK, Write, WritesInv
  <2>3. call'[w.by] = call[w.by]
    BY <2>2, CallKept
  <2> QED  BY <2>1, <2>2, <2>3 DEF IndexOf, LeftByApply
<1>4. ASSUME NEW q \in Requests, q # r, outcome[q] = "lost" \/ WillIndex(q, p)
      PROVE  IndexOf(p)'
  <2>1. outcome'[q] = "lost" \/ WillIndex(q, p)'
    BY <1>1, <1>4, Others DEF WillIndex, Target
  <2> QED  BY <2>1 DEF IndexOf
<1>5. CASE outcome[r] = "lost"
  <2>1. pc[r] = "done"
    BY <1>5 DEF IInv, ControlInv, Control
  <2> QED  BY <2>1 DEF Step, Arrive, Refuse, FindToApply, FindPage, FindParent, FindUnwritten,
       FindWritten, Index, FindVersion, FindToSave, DriveFails, FindApplied,
       FindSource, DeleteIndex, Lose,
       WriteMetadata, SaveText, ApplySuggestion, Delete, InFlight
<1>6. CASE WillIndex(r, p)
  <2>1. pc[r] \in {"show", "index"} /\ Target(r) = p
    BY <1>6 DEF WillIndex
  <2>2. Lose(r) \/ (pc[r] = "show" /\ FindWritten(r)) \/ (pc[r] = "index" /\ Index(r))
    BY <2>1 DEF Step, Arrive, Refuse, FindToApply, FindPage, FindParent, FindUnwritten,
       FindWritten, Index, FindVersion, FindToSave, DriveFails, FindApplied,
       FindSource, DeleteIndex, Lose,
       WriteMetadata, SaveText, ApplySuggestion, Delete
  <2>3. CASE Lose(r)
    <3>1. outcome'[r] = "lost"
      BY <1>1, <2>3 DEF Lose, Finish, MetaTypeOK
    <3> QED  BY <3>1 DEF IndexOf
  <2>4. CASE FindWritten(r)
    <3>1. See(r, "index") /\ UNCHANGED call
      BY <2>1, <2>4 DEF FindWritten, Missing, Found
    <3>2. pc'[r] = "index" /\ seen'[r] = row[p] /\ call' = call
      BY <1>1, <2>1, <3>1 DEF See, Found, MetaTypeOK
    <3>3. WillIndex(r, p)'
      BY <2>1, <3>2 DEF WillIndex, Target
    <3> QED  BY <3>3 DEF IndexOf
  <2>5. CASE pc[r] = "index" /\ Index(r)
    <3>1. seen[r].pointer = row[p].pointer
      BY <1>6, <2>5 DEF WillIndex
    <3>2. Entry(p, row[p].pointer) \in index'
      BY <2>1, <2>5, <3>1 DEF Index, Entry
    <3> QED  BY <3>2 DEF IndexOf, Entry
  <2> QED  BY <2>2, <2>3, <2>4, <2>5
<1>7. \/ Entry(p, row[p].pointer) \in index \/ LeftByApply(p)
      \/ \E q \in Requests : outcome[q] = "lost" \/ WillIndex(q, p)
  BY DEF IInv, IndexInv
<1> QED  BY <1>2, <1>4, <1>5, <1>6, <1>7, <1>3

\* A handler that has changed a row finds it again to index it, save an apply.
LEMMA NewRowIndexed ==
    ASSUME IInv, NEW r \in Requests, Step(r), NEW p \in Pages, row'[p] # row[p],
           row'[p].active
    PROVE  IndexOf(p)'
<1>1. p = Target(r) /\ ~ReadStep(r)
  BY RowsGrow, ReadsChangeNoRow DEF IInv
<1>2. pc[r] # "idle"
  BY <1>1 DEF Step, ReadStep, WriteMetadata, SaveText, ApplySuggestion, Delete
<1>3. Target(r)' = p
  BY <1>1, <1>2, CallKept, Kept
<1>4. CASE ApplySuggestion(r)
  <2>1. UpdateOf(r, "text", NextText(r))
    BY <1>1, <1>4, ApplyUpdate DEF IInv
  <2> DEFINE w == [by |-> r, part |-> "text", from |-> Found(r), to |-> NextText(r)]
  <2>2. w \in writes' /\ w.by = r /\ w.to = NextText(r) /\ row'[p] = NextText(r)
    BY <1>1, <2>1 DEF UpdateOf, Update, IInv, MetaTypeOK
  <2>3. call'[r].op = "suggestion" /\ call'[r].page = p
    <3>1. pc[r] = "replace" /\ call' = call
      BY <1>4 DEF ApplySuggestion
    <3> QED  BY <1>1, <3>1 DEF Target, IInv, ControlInv, Control
  <2> HIDE DEF w
  <2>4. LeftByApply(p)'
    BY <2>2, <2>3 DEF LeftByApply
  <2> QED  BY <2>4 DEF IndexOf
<1>5. CASE ~ApplySuggestion(r)
  <2> SUFFICES Goto(r, "show")
    BY <1>3, WentOn DEF IInv, IndexOf, WillIndex
  <2>1. CASE WriteMetadata(r)
    BY <2>1, MetadataUpdate DEF IInv
  <2>2. CASE SaveText(r)
    BY <2>2, TextUpdate DEF IInv
  <2>3. CASE Delete(r)
    <3>1. PICK new \in Row : UpdateOf(r, "gone", new) /\ ~new.active
      BY <2>3, DeleteUpdate DEF IInv
    <3>2. row'[p] = new
      BY <1>1, <3>1 DEF UpdateOf, Update, IInv, MetaTypeOK
    <3> QED  BY <3>1, <3>2
  <2> QED  BY <1>1, <1>5, <2>1, <2>2, <2>3 DEF Step, ReadStep
<1> QED  BY <1>5, <1>4

LEMMA IndexStep == IInv /\ [Next]_vars => IndexInv'
<1> SUFFICES ASSUME IInv, [Next]_vars PROVE IndexInv'
  OBVIOUS
<1>1. CASE UNCHANGED vars
  <2>1. /\ pc' = pc /\ call' = call /\ row' = row /\ index' = index /\ seen' = seen
        /\ outcome' = outcome /\ writes' = writes
    BY <1>1 DEF vars, tables, history
  <2> QED  BY <2>1 DEF IInv, IndexInv, WillIndex, LeftByApply, Target, Entry
<1>2. ASSUME NEW r \in Requests, Step(r) PROVE IndexInv'
  <2>1. ASSUME NEW p \in Pages, row'[p].active PROVE IndexOf(p)'
    BY <1>2, <2>1, SameRowIndexed, NewRowIndexed
  <2> QED  BY <2>1 DEF IndexInv, IndexOf
<1> QED  BY <1>1, <1>2 DEF Next

-----------------------------------------------------------------------------
(***************************************************************************)
(* IInv is an invariant.                                                   *)
(***************************************************************************)
THEOREM MetadataInductive == Spec => []IInv
<1>1. IInv /\ [Next]_vars => IInv'
  BY TypeStep, ControlStep, SeenStep, WritesStep, IndexStep DEF IInv
<1> QED  BY InitInv, <1>1, PTL DEF Spec

(***************************************************************************)
(* Every variable keeps its type: what an update writes back over the row  *)
(* it read is a row.                                                       *)
(***************************************************************************)
THEOREM MetadataTypes == Spec => []MetaTypeOK
<1>1. IInv => MetaTypeOK
  BY DEF IInv
<1> QED  BY MetadataInductive, <1>1, PTL

(***************************************************************************)
(* An update that expects a version undoes no one else's: the row has not  *)
(* moved since it was read, for versions only grow and a row of the same   *)
(* version is the same row.                                                *)
(***************************************************************************)
THEOREM ExpectedWritesAreSafe == Spec => []ExpectedWritesKeepTheRest
<1>1. IInv => ExpectedWritesKeepTheRest
  BY DEF IInv, WritesInv
<1> QED  BY MetadataInductive, <1>1, PTL

(***************************************************************************)
(* What update_page_metadata and remote_apply_page answer is what they     *)
(* have written, however requests interleave and wherever they fail.       *)
(***************************************************************************)
THEOREM MetadataAnswersAreTrue == Spec => []AnswersMatchWrites
<1>1. IInv => AnswersMatchWrites
  BY DEF IInv, ControlInv
<1> QED  BY MetadataInductive, <1>1, PTL

(***************************************************************************)
(* A page is deleted for good, or put under a parent, only if it was in    *)
(* the trash, and the parent there, at some time since the request came.   *)
(***************************************************************************)
THEOREM ChecksAreRecent == Spec => []ChecksHeldSinceArrival
<1>1. IInv => ChecksHeldSinceArrival
  BY DEF IInv, WritesInv
<1> QED  BY MetadataInductive, <1>1, PTL

(***************************************************************************)
(* Once no handler is at work and none was lost, the current version of a  *)
(* page is in the projection that search joins, unless an apply of a       *)
(* suggestion was the last to change it: whoever else changed it last has  *)
(* read it again and indexed what it found, an apply's version too.        *)
(***************************************************************************)
THEOREM PagesSettleIndexed == Spec => []SettledPagesAreIndexed
<1>1. IInv => SettledPagesAreIndexed
  BY DEF IInv, IndexInv, WillIndex, SettledPagesAreIndexed, InFlight
<1> QED  BY MetadataInductive, <1>1, PTL

(***************************************************************************)
(* A page deleted for good stays as it is, and no row is changed without   *)
(* taking the next version.                                                *)
(***************************************************************************)
THEOREM RowsAdvance == Spec => RowsOnlyAdvance
<1>1. IInv /\ [Next]_vars =>
        [\A p \in Pages : row'[p] # row[p] =>
            row[p].active /\ row'[p].version = row[p].version + 1]_row
  <2> SUFFICES ASSUME IInv, [Next]_vars, row' # row
               PROVE  \A p \in Pages : row'[p] # row[p] =>
                         row[p].active /\ row'[p].version = row[p].version + 1
    OBVIOUS
  <2>1. PICK r \in Requests : Step(r)
    BY DEF Next, vars, tables
  <2> QED  BY <2>1, RowsGrow DEF IInv
<1> QED  BY MetadataInductive, <1>1, PTL DEF Spec, RowsOnlyAdvance
=============================================================================
