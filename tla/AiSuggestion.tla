---------------------------- MODULE AiSuggestion ----------------------------
(***************************************************************************)
(* The suggestions AI jobs made for one page, and the requests that        *)
(* accept, reject and apply them and leave feedback on them.  Applying one *)
(* writes the page: it reads the suggestion and the row, calls Drive, and  *)
(* then moves the pointer and the suggestion in one transaction.  Any      *)
(* number of these run at once, with the page's other writers (here what   *)
(* PageContent leaves of them: the pointer goes forward, the page may be   *)
(* deleted).  AiJob has the creation of suggestions.                       *)
(***************************************************************************)
EXTENDS Naturals

CONSTANTS
    Requests,     \* the requests, each handled once
    Calls,        \* the commands a request may carry
    Suggestions,  \* the page's suggestions
    Source,       \* the page version each was made from, or None
    Notes,        \* the feedback one operator may leave
    MaxVersion,   \* bound: the last version the page gets
    None

Ops == {"accept", "reject", "apply", "feedback"}

Versions == 1..MaxVersion

Call == [op : Ops, suggestion : Suggestions, expect : Versions \union {None},
         note : Notes]

\* Nothing in the code dismisses a suggestion, though the column may say so.
Statuses == {"proposed", "accepted", "applied", "rejected", "dismissed"}

\* canvas_ai_feedback: the id is made of all there is to tell two apart.
Feedback == [suggestion : Suggestions, note : Notes]

ASSUME SuggestionAssumption ==
    /\ Calls \subseteq Call
    /\ MaxVersion \in Nat \ {0}
    /\ Source \in [Suggestions -> Versions \union {None}]
    /\ None \notin Calls
    /\ None \notin Versions

VARIABLES
    status,    \* the status of each suggestion
    feedback,  \* canvas_ai_feedback
    version,   \* the page's current Drive version
    active,    \* the page's lifecycle_status is 'active'
    pc,        \* where the handler of a request is
    call,      \* the command a request carries
    base,      \* the version of the row the handler's find_page returned
    snap,      \* the version the Drive port answered with
    outcome,   \* what the request was answered
    won,       \* history: the requests whose statement changed a suggestion
    moves      \* history: the moves of the page's pointer made by an apply

tables == <<status, feedback>>
page == <<version, active>>
history == <<won, moves>>
vars == <<tables, page, pc, call, base, snap, outcome, history>>

Phases == {"idle", "find", "decide", "confirm", "page", "drive", "commit",
           "reload", "reread", "fetch", "lookup", "insert", "again", "done"}

(***************************************************************************)
(* "refused"    malformed, or the suggestion or the page is not there      *)
(* "conflict"   turned down because of the statuses or versions found      *)
(* "port"       the Drive port failed or its snapshot was rejected         *)
(* "reconcile"  the apply failed after its Drive write, as the answer says *)
(* "lost"       a statement failed, the handler was dropped with its       *)
(*              connection, or the process went down                       *)
(***************************************************************************)
Outcomes == {"none", "ok", "refused", "conflict", "port", "reconcile", "lost"}

SuggestionTypeOK ==
    /\ status \in [Suggestions -> Statuses]
    /\ feedback \in SUBSET Feedback
    /\ version \in Versions
    /\ active \in BOOLEAN
    /\ pc \in [Requests -> Phases]
    /\ call \in [Requests -> Calls \union {None}]
    /\ base \in [Requests -> Versions \union {None}]
    /\ snap \in [Requests -> Versions \union {None}]
    /\ outcome \in [Requests -> Outcomes]
    /\ won \in SUBSET Requests
    /\ moves \in SUBSET [by : Requests, from : Versions, to : Versions]

\* Earlier requests may have accepted some, and moved the page on.
Init ==
    /\ status \in [Suggestions -> {"proposed", "accepted"}]
    /\ feedback = {}
    /\ version \in Versions
    /\ active = TRUE
    /\ pc = [r \in Requests |-> "idle"]
    /\ call = [r \in Requests |-> None]
    /\ base = [r \in Requests |-> None]
    /\ snap = [r \in Requests |-> None]
    /\ outcome = [r \in Requests |-> "none"]
    /\ won = {}
    /\ moves = {}

InFlight(r) == pc[r] \notin {"idle", "done"}

Target(r) == call[r].suggestion

\* Mutant: the status is not the one the table's CHECK lists.
DecisionMisspelt == [accept |-> "accepted", reject |-> "refused"]

Decision == [accept |-> "accepted", reject |-> "rejected"]

Goto(r, phase) ==
    /\ pc' = [pc EXCEPT ![r] = phase]
    /\ UNCHANGED outcome

Finish(r, answer) ==
    /\ pc' = [pc EXCEPT ![r] = "done"]
    /\ outcome' = [outcome EXCEPT ![r] = answer]

Arrive(r) ==
    /\ pc[r] = "idle"
    /\ \E c \in Calls : call' = [call EXCEPT ![r] = c]
    /\ Goto(r, "find")
    /\ UNCHANGED <<tables, page, base, snap, history>>

\* Malformed input or payload, no such suggestion, a page elsewhere: grounds
\* this module keeps no state for.
Refuse(r) ==
    /\ pc[r] \in {"find", "page"}
    /\ Finish(r, "refused")
    /\ UNCHANGED <<tables, page, call, base, snap, history>>

-----------------------------------------------------------------------------
\* accept_ai_suggestion and reject_ai_suggestion, find_ai_suggestion.
FindToDecide(r) ==
    /\ pc[r] = "find"
    /\ call[r].op \in {"accept", "reject"}
    /\ LET found == status[Target(r)] IN
         \/ found = "proposed" /\ Goto(r, "decide")
         \/ found = Decision[call[r].op] /\ Finish(r, "ok")
         \/ found \notin {"proposed", Decision[call[r].op]} /\ Finish(r, "conflict")
    /\ UNCHANGED <<tables, page, call, base, snap, history>>

\* The WHERE clause of decide_ai_suggestion.
IsProposed(r) == status[Target(r)] = "proposed"

Decide(r) ==
    /\ pc[r] = "decide"
    /\ IF IsProposed(r)
       THEN /\ status' = [status EXCEPT ![Target(r)] = Decision[call[r].op]]
            /\ won' = won \union {r}
       ELSE UNCHANGED <<status, won>>
    /\ Goto(r, "confirm")
    /\ UNCHANGED <<feedback, page, call, base, snap, moves>>

\* Mutant: the suggestion found again is returned as it is.
ConfirmTrusting(r) ==
    /\ pc[r] = "confirm"
    /\ Finish(r, "ok")
    /\ UNCHANGED <<tables, page, call, base, snap, history>>

\* The suggestion is read again whether or not the UPDATE changed it.
Confirm(r) ==
    /\ pc[r] = "confirm"
    /\ Finish(r, IF status[Target(r)] = Decision[call[r].op] THEN "ok" ELSE "conflict")
    /\ UNCHANGED <<tables, page, call, base, snap, history>>

-----------------------------------------------------------------------------
\* apply_ai_suggestion, find_ai_suggestion: a second apply reads the page.
FindToApply(r) ==
    /\ pc[r] = "find"
    /\ call[r].op = "apply"
    /\ LET found == status[Target(r)] IN
         \/ found = "applied" /\ Goto(r, "reread")
         \/ found = "accepted" /\ Goto(r, "page")
         \/ found \notin {"applied", "accepted"} /\ Finish(r, "conflict")
    /\ UNCHANGED <<tables, page, call, base, snap, history>>

\* Mutant: the suggestion's source version is not compared.
ExpectationIsMet(r) == call[r].expect \in {None, version}

\* The row is at the version the suggestion was made from and the caller expects.
IsFresh(r) ==
    /\ Source[Target(r)] \in {None, version}
    /\ call[r].expect \in {None, version}

FindPage(r) ==
    /\ pc[r] = "page"
    /\ \/ active /\ IsFresh(r) /\ base' = [base EXCEPT ![r] = version] /\ Goto(r, "drive")
       \/ active /\ ~IsFresh(r) /\ UNCHANGED base /\ Finish(r, "conflict")
       \/ ~active /\ UNCHANGED base /\ Finish(r, "refused")
    /\ UNCHANGED <<tables, page, call, snap, history>>

\* The port's update_page_content: whatever it answers, a snapshot passes
\* validation only if its version is greater than the row's.
DriveUpdate(r) ==
    /\ pc[r] = "drive"
    /\ \/ /\ \E v \in Versions : v > base[r] /\ snap' = [snap EXCEPT ![r] = v]
          /\ Goto(r, "commit")
       \/ Finish(r, "port") /\ UNCHANGED snap
    /\ UNCHANGED <<tables, page, call, base, history>>

\* Mutant: a page that was deleted meanwhile is moved too.
PointerUnmovedOnly(r) == version = base[r]

PointerUnmoved(r) == active /\ version = base[r]

IsAccepted(r) == status[Target(r)] = "accepted"

MovePointer(r) ==
    /\ version' = snap[r]
    /\ moves' = moves \union {[by |-> r, from |-> version, to |-> snap[r]]}

\* Mutant: the page's UPDATE is not part of the transaction.
CommitLoosely(r) ==
    /\ pc[r] = "commit"
    /\ IF PointerUnmoved(r) THEN MovePointer(r) ELSE UNCHANGED <<version, moves>>
    /\ IF PointerUnmoved(r) /\ IsAccepted(r)
       THEN /\ status' = [status EXCEPT ![Target(r)] = "applied"]
            /\ won' = won \union {r}
            /\ Goto(r, "reload")
       ELSE Finish(r, "reconcile") /\ UNCHANGED <<status, won>>
    /\ UNCHANGED <<feedback, active, call, base, snap>>

\* apply_ai_suggestion's transaction: the pointer and the status, or neither.
Commit(r) ==
    /\ pc[r] = "commit"
    /\ IF PointerUnmoved(r) /\ IsAccepted(r)
       THEN /\ MovePointer(r)
            /\ status' = [status EXCEPT ![Target(r)] = "applied"]
            /\ won' = won \union {r}
            /\ Goto(r, "reload")
       ELSE Finish(r, "reconcile") /\ UNCHANGED <<version, moves, status, won>>
    /\ UNCHANGED <<feedback, active, call, base, snap>>

\* The suggestion is read back and has to be 'applied'.
Reload(r) ==
    /\ pc[r] = "reload"
    /\ Finish(r, IF status[Target(r)] = "applied" THEN "ok" ELSE "conflict")
    /\ UNCHANGED <<tables, page, call, base, snap, history>>

\* get_page_content for a suggestion that is applied already.
Reread(r) ==
    /\ pc[r] = "reread"
    /\ IF active
       THEN base' = [base EXCEPT ![r] = version] /\ Goto(r, "fetch")
       ELSE Finish(r, "refused") /\ UNCHANGED base
    /\ UNCHANGED <<tables, page, call, snap, history>>

\* Mutant: the snapshot read is not compared with the row's version.
FetchAnything(r) ==
    /\ pc[r] = "fetch"
    /\ \E v \in Versions : snap' = [snap EXCEPT ![r] = v]
    /\ Finish(r, "ok")
    /\ UNCHANGED <<tables, page, call, base, history>>

\* Only a snapshot of the row's version passes.
Fetch(r) ==
    /\ pc[r] = "fetch"
    /\ \/ snap' = [snap EXCEPT ![r] = base[r]] /\ Finish(r, "ok")
       \/ UNCHANGED snap /\ Finish(r, "port")
    /\ UNCHANGED <<tables, page, call, base, history>>

-----------------------------------------------------------------------------
NewFeedback(r) == [suggestion |-> Target(r), note |-> call[r].note]

\* create_ai_feedback, find_ai_suggestion.
FindToComment(r) ==
    /\ pc[r] = "find"
    /\ call[r].op = "feedback"
    /\ Goto(r, "lookup")
    /\ UNCHANGED <<tables, page, call, base, snap, history>>

\* find_ai_feedback by the id the request stands for.
FindFeedback(r) ==
    /\ pc[r] = "lookup"
    /\ IF NewFeedback(r) \in feedback THEN Finish(r, "ok") ELSE Goto(r, "insert")
    /\ UNCHANGED <<tables, page, call, base, snap, history>>

\* insert_ai_feedback: the second of two inserts meets the primary key.
InsertFeedback(r) ==
    /\ pc[r] = "insert"
    /\ feedback' = feedback \union {NewFeedback(r)}
    /\ won' = IF NewFeedback(r) \in feedback THEN won ELSE won \union {r}
    /\ Goto(r, "again")
    /\ UNCHANGED <<status, page, call, base, snap, moves>>

\* find_ai_feedback once more, after the insert or after its Conflict.
FindFeedbackAgain(r) ==
    /\ pc[r] = "again"
    /\ Finish(r, IF NewFeedback(r) \in feedback THEN "ok" ELSE "conflict")
    /\ UNCHANGED <<tables, page, call, base, snap, history>>

-----------------------------------------------------------------------------
\* After Drive's answer a failed statement is reported as not committed.
Lose(r) ==
    /\ InFlight(r)
    /\ \/ Finish(r, "lost")
       \/ pc[r] \in {"commit", "reload"} /\ Finish(r, "reconcile")
    /\ UNCHANGED <<tables, page, call, base, snap, history>>

\* The process restarts: the handlers are lost, the database is not.
Restart ==
    /\ \E r \in Requests : InFlight(r)
    /\ pc' = [r \in Requests |-> IF InFlight(r) THEN "done" ELSE pc[r]]
    /\ outcome' = [r \in Requests |-> IF InFlight(r) THEN "lost" ELSE outcome[r]]
    /\ UNCHANGED <<tables, page, call, base, snap, history>>

\* What the page's other writers do to it (PageContent).
PageAdvances ==
    /\ active
    /\ \E v \in Versions : v > version /\ version' = v
    /\ UNCHANGED <<tables, active, pc, call, base, snap, outcome, history>>

PageDeleted ==
    /\ active
    /\ active' = FALSE
    /\ UNCHANGED <<tables, version, pc, call, base, snap, outcome, history>>

Step(r) ==
    \/ Arrive(r) \/ Refuse(r)
    \/ FindToDecide(r) \/ Decide(r) \/ Confirm(r)
    \/ FindToApply(r) \/ FindPage(r) \/ DriveUpdate(r) \/ Commit(r) \/ Reload(r)
    \/ Reread(r) \/ Fetch(r)
    \/ FindToComment(r) \/ FindFeedback(r) \/ InsertFeedback(r) \/ FindFeedbackAgain(r)
    \/ Lose(r)

Next == Restart \/ PageAdvances \/ PageDeleted \/ \E r \in Requests : Step(r)

Spec == Init /\ [][Next]_vars
-----------------------------------------------------------------------------
AppliedBy(s) == {m \in moves : call[m.by].suggestion = s}

(***************************************************************************)
(* A suggestion is applied exactly if one apply of it moved the page's     *)
(* pointer: the transaction leaves neither a page moved by a suggestion    *)
(* that is not applied nor an applied suggestion without its page, however *)
(* many applies race and whatever is lost (apply_ai_suggestion).           *)
(***************************************************************************)
AppliedWithThePage ==
    \A s \in Suggestions :
        /\ status[s] = "applied" <=> AppliedBy(s) # {}
        /\ \A m, n \in AppliedBy(s) : m = n

(***************************************************************************)
(* A suggestion goes into the page only over the version it was made from  *)
(* and the one its caller expected, though both were compared before the   *)
(* Drive call, and no two go in over the same version: content written     *)
(* meanwhile is not overwritten ("AI suggestion source Drive version is    *)
(* stale").                                                                *)
(***************************************************************************)
AppliedToItsSource ==
    /\ \A m \in moves : /\ Source[call[m.by].suggestion] \in {None, m.from}
                        /\ call[m.by].expect \in {None, m.from}
                        /\ m.from < m.to /\ m.to <= version
    /\ \A m, n \in moves : m.from = n.from => m = n

(***************************************************************************)
(* Opposite decisions are never both acknowledged, an acknowledged one     *)
(* stands, and one that took effect is answered with a conflict only if    *)
(* an apply came before its answer ("AI suggestion decision is already     *)
(* terminal").                                                             *)
(***************************************************************************)
DecisionsAreTrue ==
    \A r \in Requests :
        /\ outcome[r] = "ok" /\ call[r].op = "accept" =>
              status[Target(r)] \in {"accepted", "applied"}
        /\ outcome[r] = "ok" /\ call[r].op = "reject" => status[Target(r)] = "rejected"
        /\ outcome[r] \in {"refused", "conflict", "port"} /\ r \in won =>
              call[r].op = "accept" /\ status[Target(r)] = "applied"

(***************************************************************************)
(* An apply is acknowledged with the version that holds the suggestion or  *)
(* a later one, the second apply too that only reads the page.             *)
(***************************************************************************)
AppliedIsInTheAnswer ==
    \A r \in Requests : outcome[r] = "ok" /\ call[r].op = "apply" =>
        \E m \in AppliedBy(Target(r)) :
            snap[r] >= m.to /\ (r \in won => m.by = r /\ m.to = snap[r])

(***************************************************************************)
(* Feedback that is acknowledged is there, left by one request only, and   *)
(* feedback sent again is answered like the first.                         *)
(***************************************************************************)
FeedbackIsLeftOnce ==
    /\ \A r \in Requests : outcome[r] \in {"ok", "conflict"} /\ call[r].op = "feedback" =>
          outcome[r] = "ok" /\ NewFeedback(r) \in feedback
    /\ \A q, r \in {p \in won : call[p].op = "feedback"} :
          NewFeedback(q) = NewFeedback(r) => q = r

\* How far a request is for who sent it, and the version it is answered with.
BoardPhase(r) ==
    CASE pc[r] = "idle" -> "idle"
      [] pc[r] = "done" -> IF outcome[r] = "ok" THEN "answered"
                           ELSE IF outcome[r] \in {"refused", "conflict"} THEN outcome[r]
                           ELSE "failed"
      [] InFlight(r) -> IF r \in won THEN "applied"
                        ELSE IF pc[r] = "fetch" THEN "looked" ELSE "open"

VersionSeen(r) ==
    IF BoardPhase(r) \notin {"applied", "looked", "answered"} \/ call[r].op # "apply" THEN None
    ELSE IF r \in won THEN snap[r] ELSE base[r]

Board == INSTANCE SuggestionBoard WITH
    Clients <- Requests,
    left <- feedback,
    phase <- [r \in Requests |-> BoardPhase(r)],
    request <- call,
    seen <- [r \in Requests |-> VersionSeen(r)]

(***************************************************************************)
(* The handlers implement the board: what they compared before the Drive   *)
(* call and the transaction is as good as compared in the step that moves  *)
(* the page, each request takes effect once and between its arrival and    *)
(* its answer, and a second apply is answered with a version the page had  *)
(* while it was under way.                                                 *)
(***************************************************************************)
ImplementsBoard == Board!Spec
=============================================================================
