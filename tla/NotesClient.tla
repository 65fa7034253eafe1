---------------------------- MODULE NotesClient ----------------------------
(***************************************************************************)
(* The notes of the PC client: the list it keeps in memory (NotesProvider),*)
(* the service calls that answer later (NoteService) and the copy in the   *)
(* browser's local storage that an effect writes after a render, from      *)
(* which the client loads when it is opened the next time.  It may be      *)
(* closed at any moment, or end because the storage refuses a write; what  *)
(* is in memory is gone then.  One tab is open at a time.                  *)
(***************************************************************************)
EXTENDS Integers, SequencesExt

CONSTANTS
    MaxActs,    \* bound: how many notes are asked for and changes made of the list
    Defaults,   \* defaultNotes, the list a first start finds
    Chapters,   \* how many chapters a template prebuilds
    MaxOpens,   \* bound: how often the client is opened
    None

\* Ids are numbered in the order in which the notes are made.
Ids == Nat \ {0}

\* A note: the collection it is in, and whether it is one.  Its title and text
\* are left out.
Note == [id : Ids, parent : Ids \union {None}, coll : BOOLEAN]

IdsOf(s) == {s[i].id : i \in DOMAIN s}

ASSUME ClientAssumption ==
    /\ MaxActs \in Nat
    /\ None \notin Nat /\ None \notin Seq(Note)
    /\ Defaults \in Seq(Note)
    /\ Defaults # <<>>
    /\ \A i \in DOMAIN Defaults :
         /\ Defaults[i].id = i
         /\ Defaults[i].coll => Defaults[i].parent = None
         /\ Defaults[i].parent # None =>
              \E j \in DOMAIN Defaults : Defaults[j].id = Defaults[i].parent /\ Defaults[j].coll
    /\ Chapters \in Nat
    /\ MaxOpens \in Nat \ {0}

VARIABLES
    phase,     \* isLoading while "loading"
    list,      \* the notes
    changed,   \* the effect that saves has not run since a change
    asked,     \* the calls of createNote under way, in order
    stored,    \* local storage, or None
    made,      \* how many notes there have been: the id of the newest
    opens,     \* how often the client was opened
    room,      \* how many acts of the user there may still be
    saved,     \* history: the ids that were ever saved
    deleted,   \* history: the ids deleted by a user
    moved,     \* history: the ids a user has moved
    inner,     \* history: the collections made in another
    late       \* history: the chapters made after their collection was gone

memory == <<phase, list, changed, asked>>
noteHistory == <<made, saved, deleted, moved, inner, late>>
clientVars == <<memory, stored, opens, room, noteHistory>>

\* A createNote call: where the note goes and how many chapters follow it.
Asked == [parent : Ids \union {None}, coll : BOOLEAN, chapters : 0..Chapters]

NotesTypeOK ==
    /\ phase \in {"closed", "loading", "open"}
    /\ list \in Seq(Note)
    /\ IsInjective([i \in DOMAIN list |-> list[i].id])
    /\ changed \in BOOLEAN
    /\ asked \in Seq(Asked)
    /\ stored \in Seq(Note) \union {None}
    /\ made \in Ids
    /\ opens \in 0..MaxOpens /\ room \in Nat
    /\ \A S \in {saved, deleted, moved, inner, late} : S \subseteq 1..made

NotesInit ==
    /\ phase = "closed"
    /\ list = <<>>
    /\ changed = FALSE
    /\ asked = <<>>
    /\ stored = None
    /\ made = Len(Defaults)
    /\ opens = 0
    /\ room = MaxActs
    /\ saved = {} /\ deleted = {} /\ moved = {} /\ inner = {} /\ late = {}

-----------------------------------------------------------------------------
\* The list in memory.

\* Mutant: the effect does not look at isLoading.
LoadedOrLoading == phase # "closed"

Loaded == phase = "open"

Collections == {n \in ToSet(list) : n.coll}

\* In no collection, or in one that is listed: what the sidebar and the overview
\* of a collection offer changes of.
InPlace(n) == n.parent \in IdsOf(list) \union {None}

PositionOf(s, id) == SelectInSeq(s, LAMBDA n : n.id = id)

LastIn(s, c) == SelectLastInSeq(s, LAMBDA n : n.parent = c)

\* Mutant: after the first chapter instead of the last.
FirstIn(s, c) == SelectInSeq(s, LAMBDA n : n.parent = c)

InsertedAfterFirst(s, n) ==
    IF n.parent # None /\ FirstIn(s, n.parent) # 0
    THEN InsertAt(s, FirstIn(s, n.parent) + 1, n) ELSE s \o <<n>>

\* Where createNote puts a new note: in front, or behind the last note of its
\* collection, or behind the collection, or at the end if that is gone.
Inserted(s, n) ==
    LET behind == IF LastIn(s, n.parent) # 0 THEN LastIn(s, n.parent)
                  ELSE PositionOf(s, n.parent)
    IN  IF n.parent = None THEN <<n>> \o s
        ELSE IF behind # 0 THEN InsertAt(s, behind + 1, n)
        ELSE Append(s, n)

\* The filter of deleteNote, by the positions it keeps and their order.
Kept(s, ids) == {i \in DOMAIN s : s[i].id \notin ids}

\* The k-th of a set of positions.
Nth(K, k) == CHOOSE i \in K : Cardinality({j \in K : j <= i}) = k

Without(s, ids) ==
    [k \in 1..Cardinality(Kept(s, ids)) |-> s[Nth(Kept(s, ids), k)]]

\* Mutant: the swap without its copy of the first note.
Overwritten(s, i, j) == [s EXCEPT ![i] = s[j]]

Swapped(s, i, j) == [s EXCEPT ![i] = s[j], ![j] = s[i]]

\* Mutant: the effect does not depend on the list.
SetNotesOnly(s) == list' = s /\ UNCHANGED changed

\* A list that is set is one the effect has not seen.
SetNotes(s) ==
    /\ list' = s
    /\ changed' = TRUE

-----------------------------------------------------------------------------
\* The client's life.

Open ==
    /\ phase = "closed"
    /\ opens < MaxOpens
    /\ phase' = "loading"
    /\ changed' = TRUE
    /\ opens' = opens + 1
    /\ UNCHANGED <<list, asked, stored, room, noteHistory>>

\* getNotes answers and loadNotes goes on: the list is replaced.
Load ==
    /\ phase = "loading"
    /\ phase' = "open"
    /\ stored' = IF stored = None THEN Defaults ELSE stored
    /\ SetNotes(stored')
    /\ saved' = saved \union IdsOf(stored')
    /\ UNCHANGED <<asked, opens, room, made, deleted, moved, inner, late>>

\* The effect that runs after a change of canvas or isLoading.
Save ==
    /\ changed
    /\ changed' = FALSE
    /\ IF Loaded THEN stored' = list /\ saved' = saved \union IdsOf(list)
       ELSE UNCHANGED <<stored, saved>>
    /\ UNCHANGED <<phase, list, asked, opens, room, made, deleted, moved, inner, late>>

\* The tab is closed or reloaded, or setItem throws and React unmounts it.
Close ==
    /\ phase # "closed"
    /\ phase' = "closed"
    /\ list' = <<>>
    /\ changed' = FALSE
    /\ asked' = <<>>
    /\ UNCHANGED <<stored, opens, room, noteHistory>>

-----------------------------------------------------------------------------
\* Notes are made.

\* createNote is called: for a plain note, for a chapter or a sub-collection of
\* a collection that is listed, or for a collection from a template.
Ask(call) ==
    /\ phase # "closed"
    /\ room > call.chapters
    /\ room' = room - 1 - call.chapters
    /\ asked' = Append(asked, call)
    /\ UNCHANGED <<phase, list, changed, stored, opens, noteHistory>>

AskNote == Ask([parent |-> None, coll |-> FALSE, chapters |-> 0])

AskIn ==
    \E c \in Collections, coll \in BOOLEAN :
        Ask([parent |-> c.id, coll |-> coll, chapters |-> 0])

AskTemplate == Ask([parent |-> None, coll |-> TRUE, chapters |-> Chapters])

\* What handleCreate of the template asks for once a note of it is made.
NextChapter(n, call) ==
    IF call.chapters = 0 THEN <<>>
    ELSE <<[parent |-> IF n.coll THEN n.id ELSE n.parent, coll |-> FALSE,
            chapters |-> call.chapters - 1]>>

\* The oldest call of createNote answers.
Answer ==
    /\ asked # <<>>
    /\ LET call == Head(asked)
           n == [id |-> made + 1, parent |-> call.parent, coll |-> call.coll]
       IN  /\ SetNotes(Inserted(list, n))
           /\ asked' = Tail(asked) \o NextChapter(n, call)
           /\ made' = made + 1
           /\ inner' = IF n.coll /\ n.parent # None THEN inner \union {n.id} ELSE inner
           /\ late' = IF InPlace(n) THEN late ELSE late \union {n.id}
    /\ UNCHANGED <<phase, stored, opens, room, saved, deleted, moved>>

-----------------------------------------------------------------------------
\* The user's changes, each of the list as it is when it is applied.

Act ==
    /\ room > 0
    /\ room' = room - 1

\* Mutant: the collection alone.
CollectionOnly(s, c) == {c}

\* What the sidebar's delete of a collection deletes: it, and what is in it.
WithChildren(s, c) == {c} \union {s[i].id : i \in {j \in DOMAIN s : s[j].parent = c}}

Delete(ids) ==
    /\ Act
    /\ SetNotes(Without(list, ids))
    /\ deleted' = deleted \union ids
    /\ UNCHANGED <<phase, asked, stored, opens, made, saved, moved, inner, late>>

\* A note or a chapter, or what the card in its collection's overview shows,
\* which may be a collection.
DeleteNote ==
    \E n \in ToSet(list) :
        /\ InPlace(n) /\ (n.coll => n.parent # None)
        /\ Delete({n.id})

DeleteCollection ==
    \E c \in Collections : InPlace(c) /\ Delete(WithChildren(list, c.id))

Moved(s, ids) ==
    /\ Act
    /\ SetNotes(s)
    /\ moved' = moved \union ids
    /\ UNCHANGED <<phase, asked, stored, opens, made, saved, deleted, inner, late>>

\* Two neighbours among the notes of one collection, or among the collections
\* that are in none.
AreNeighbours(s, i, j) ==
    LET siblings == {k \in DOMAIN s : /\ s[k].parent = s[i].parent
                                      /\ s[k].parent = None => s[k].coll}
    IN  {i, j} \subseteq siblings /\ i < j /\ ~\E k \in siblings : i < k /\ k < j

MoveUpOrDown ==
    \E i, j \in DOMAIN list :
        /\ InPlace(list[i]) /\ AreNeighbours(list, i, j)
        /\ Moved(Swapped(list, i, j), {list[i].id, list[j].id})

WithParent(s, i, p) == [s EXCEPT ![i].parent = p]

\* updateNote with a parent: a note that is in no collection goes into one.
MoveInto ==
    \E i \in DOMAIN list, c \in Collections :
        /\ ~list[i].coll /\ list[i].parent = None
        /\ Moved(WithParent(list, i, c.id), {list[i].id})

MoveOut ==
    \E i \in DOMAIN list :
        /\ InPlace(list[i]) /\ list[i].parent # None
        /\ Moved(WithParent(list, i, None), {list[i].id})

NotesNext ==
    \/ Open \/ Load \/ Save \/ Close
    \/ AskNote \/ AskIn \/ AskTemplate \/ Answer
    \/ DeleteNote \/ DeleteCollection
    \/ MoveUpOrDown \/ MoveInto \/ MoveOut

NotesSpec == NotesInit /\ [][NotesNext]_clientVars

\* Timers fire and effects run as long as the client is there.
FairNotesSpec ==
    /\ NotesSpec
    /\ WF_clientVars(Load) /\ WF_clientVars(Save) /\ WF_clientVars(Answer)
-----------------------------------------------------------------------------
(***************************************************************************)
(* A note that was ever saved and that no one deleted is in the storage:   *)
(* closing the client at any moment, also while it loads, and opening it   *)
(* again loses none of them.                                               *)
(***************************************************************************)
SavedNotesStay ==
    stored # None => saved \ deleted \subseteq IdsOf(stored)

(***************************************************************************)
(* The chapters of a collection that no one has moved are listed in the    *)
(* order in which they were made, whatever else was made, moved, deleted   *)
(* or loaded in between: a template's chapters one after the other.        *)
(***************************************************************************)
ChaptersKeepTheirOrder ==
    \A i, j \in DOMAIN list :
        LET a == list[i] b == list[j]
        IN  /\ a.parent = b.parent /\ a.parent # None
            /\ {a.id, b.id} \intersect moved = {}
            /\ a.id < b.id
            => i < j

(***************************************************************************)
(* A note is left behind by a collection that is gone, and so in no list   *)
(* of the sidebar, only if it was made after that or if the collection was *)
(* made in another.  (It is left behind then: deleting a collection takes  *)
(* along what is directly in it, and what is being made comes later.)      *)
(***************************************************************************)
LeftBehindAreInnerOrLate ==
    \A n \in ToSet(list) : InPlace(n) \/ n.parent \in inner \/ n.id \in late

Lists(id) == Loaded /\ id \in IdsOf(list)

(***************************************************************************)
(* Every note in the list is saved once it is loaded, unless it is deleted *)
(* or the client is closed before.                                         *)
(***************************************************************************)
ListedNotesAreSaved ==
    \A id \in 1..(Len(Defaults) + MaxActs) : Lists(id) ~> (id \in saved \/ ~Lists(id))
=============================================================================
