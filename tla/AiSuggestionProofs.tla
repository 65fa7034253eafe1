------------------------- MODULE AiSuggestionProofs -------------------------
(***************************************************************************)
(* The safety of AiSuggestion for every number of requests, suggestions    *)
(* and versions.  The inductive invariant says where a handler can be and  *)
(* what it holds there (ControlInv), what of the tables it has seen is so  *)
(* still (SeenInv), what the pointer's moves have in common with the       *)
(* suggestions (MovesInv), what is left of every request that changed      *)
(* something (WonInv), and that an answer given stays true (AnswersInv).   *)
(* From it each step is one of SuggestionBoard or none.                    *)
(***************************************************************************)
EXTENDS AiSuggestion, TLAPS

(***************************************************************************)
(* A suggestion is decided once and applied only after it was accepted.    *)
(***************************************************************************)
DecisionsAreFinal ==
    [][ \A s \in Suggestions : status'[s] # status[s] =>
          <<status[s], status'[s]>> \in {<<"proposed", "accepted">>,
              <<"proposed", "rejected">>, <<"accepted", "applied">>} ]_status

\* The command of a handler by its place, and the row and snapshot it holds.
ControlInv ==
    \A r \in Requests :
        /\ pc[r] = "idle" <=> call[r] = None
        /\ pc[r] = "done" <=> outcome[r] # "none"
        /\ pc[r] \in {"decide", "confirm"} => call[r].op \in {"accept", "reject"}
        /\ pc[r] \in {"page", "drive", "commit", "reload", "reread", "fetch"} =>
             call[r].op = "apply"
        /\ pc[r] \in {"lookup", "insert", "again"} => call[r].op = "feedback"
        /\ pc[r] \in {"drive", "commit", "reload"} =>
             /\ base[r] \in Versions
             /\ Source[Target(r)] \in {None, base[r]}
             /\ call[r].expect \in {None, base[r]}
        /\ pc[r] \in {"commit", "reload"} => snap[r] \in Versions /\ snap[r] > base[r]
        /\ pc[r] = "fetch" => base[r] \in Versions
        /\ pc[r] = "reload" => r \in won
        /\ r \in won => pc[r] \in {"confirm", "reload", "again", "done"}

\* A second apply has seen the suggestion applied, and the page after that.
SeenInv ==
    \A r \in Requests :
        /\ pc[r] \in {"reread", "fetch"} => status[Target(r)] = "applied"
        /\ pc[r] = "fetch" => \E m \in AppliedBy(Target(r)) : base[r] >= m.to
        /\ pc[r] = "again" => NewFeedback(r) \in feedback

\* Every move was made by an apply that won, with its snapshot.
MovesInv ==
    /\ \A m \in moves : /\ m.by \in won
                        /\ call[m.by].op = "apply"
                        /\ snap[m.by] = m.to
    /\ AppliedWithThePage
    /\ AppliedToItsSource

\* What a request did is still to be seen.
WonInv ==
    /\ \A r \in won :
         /\ call[r].op = "accept" => status[Target(r)] \in {"accepted", "applied"}
         /\ call[r].op = "reject" => status[Target(r)] = "rejected"
         /\ call[r].op = "apply" => \E m \in moves : m.by = r
         /\ call[r].op = "feedback" => NewFeedback(r) \in feedback
    /\ \A q, r \in won : call[q].op = "feedback" /\ call[r].op = "feedback"
                           /\ NewFeedback(q) = NewFeedback(r) => q = r

\* An answer was true when given and is true now.
AnswersInv ==
    /\ DecisionsAreTrue
    /\ AppliedIsInTheAnswer
    /\ \A r \in Requests : outcome[r] \in {"ok", "conflict"} /\ call[r].op = "feedback" =>
          outcome[r] = "ok" /\ NewFeedback(r) \in feedback

IInv == SuggestionTypeOK /\ ControlInv /\ SeenInv /\ MovesInv /\ WonInv /\ AnswersInv

\* The steps of a handler that read, or end it, and change no table.
ReadStep(r) ==
    \/ Refuse(r) \/ FindToDecide(r) \/ Confirm(r) \/ FindToApply(r) \/ FindPage(r)
    \/ DriveUpdate(r) \/ Reload(r) \/ Reread(r) \/ Fetch(r) \/ FindToComment(r)
    \/ FindFeedback(r) \/ FindFeedbackAgain(r) \/ Lose(r)

-----------------------------------------------------------------------------
LEMMA CallFields ==
    ASSUME NEW c \in Calls
    PROVE  /\ c # None
           /\ c.op \in Ops
           /\ c.suggestion \in Suggestions
           /\ c.note \in Notes
           /\ c.expect \in Versions \union {None}
  BY SuggestionAssumption DEF Call

LEMMA VersionsAreNumbers == \A v \in Versions : v \in Nat /\ v # None
  BY SuggestionAssumption DEF Versions

\* A request that has arrived names a suggestion.
LEMMA TargetIsThere ==
    ASSUME SuggestionTypeOK, ControlInv, NEW r \in Requests, pc[r] # "idle"
    PROVE  /\ call[r] \in Calls
           /\ Target(r) \in Suggestions
           /\ NewFeedback(r) \in Feedback
           /\ Decision["accept"] = "accepted"
           /\ Decision["reject"] = "rejected"
<1>1. call[r] \in Calls
  BY DEF SuggestionTypeOK, ControlInv
<1> QED  BY <1>1, CallFields DEF Target, NewFeedback, Feedback, Decision

LEMMA ReadIsQuiet ==
    ASSUME NEW r \in Requests, ReadStep(r)
    PROVE  /\ UNCHANGED <<status, feedback, version, active, call, won, moves>>
           /\ pc[r] \notin {"idle", "done"}
  BY DEF ReadStep, Refuse, FindToDecide, Confirm, FindToApply, FindPage, DriveUpdate,
         Reload, Reread, Fetch, FindToComment, FindFeedback, FindFeedbackAgain, Lose,
         InFlight, tables, page, history

LEMMA InitInv == Init => IInv
<1> SUFFICES ASSUME Init PROVE IInv
  OBVIOUS
<1> USE DEF Init
<1>1. SuggestionTypeOK
  BY DEF SuggestionTypeOK, Statuses, Phases, Outcomes
<1>2. ControlInv /\ SeenInv
  BY DEF ControlInv, SeenInv
<1>3. MovesInv /\ WonInv
  <2>1. \A s \in Suggestions : AppliedBy(s) = {} /\ status[s] # "applied"
    BY DEF AppliedBy
  <2> QED  BY <2>1 DEF MovesInv, WonInv, AppliedWithThePage, AppliedToItsSource
<1>4. AnswersInv
  BY DEF AnswersInv, DecisionsAreTrue, AppliedIsInTheAnswer
<1> QED  BY <1>1, <1>2, <1>3, <1>4 DEF IInv

LEMMA TypeStep == IInv /\ [Next]_vars => SuggestionTypeOK'
<1> SUFFICES ASSUME IInv, [Next]_vars PROVE SuggestionTypeOK'
  OBVIOUS
<1> USE SuggestionAssumption
    DEF IInv, SuggestionTypeOK, Phases, Outcomes, tables, page, history, Goto, Finish
<1>1. ASSUME NEW r \in Requests, Arrive(r) PROVE SuggestionTypeOK'
  BY <1>1 DEF Arrive
<1>2. ASSUME NEW r \in Requests, ReadStep(r) PROVE SuggestionTypeOK'
  <2>1. CASE Refuse(r) \/ FindToDecide(r) \/ Confirm(r) \/ FindToApply(r) \/ Lose(r)
    BY <2>1 DEF Refuse, FindToDecide, Confirm, FindToApply, Lose
  <2>2. CASE FindPage(r) \/ DriveUpdate(r) \/ Reload(r) \/ Reread(r)
    BY <2>2 DEF FindPage, DriveUpdate, Reload, Reread
  <2>3. CASE Fetch(r)
    BY <2>3 DEF Fetch
  <2>4. CASE FindToComment(r) \/ FindFeedback(r) \/ FindFeedbackAgain(r)
    BY <2>4 DEF FindToComment, FindFeedback, FindFeedbackAgain
  <2> QED  BY <1>2, <2>1, <2>2, <2>3, <2>4 DEF ReadStep
<1>3. ASSUME NEW r \in Requests, Decide(r) PROVE SuggestionTypeOK'
  <2>1. Decision[call[r].op] \in Statuses
    BY <1>3 DEF Decide, ControlInv, Decision, Statuses
  <2> QED  BY <1>3, <2>1 DEF Decide
<1>4. ASSUME NEW r \in Requests, Commit(r) PROVE SuggestionTypeOK'
  <2>1. snap[r] \in Versions /\ "applied" \in Statuses
    BY <1>4 DEF Commit, ControlInv, Statuses
  <2> QED  BY <1>4, <2>1 DEF Commit, MovePointer
<1>5. ASSUME NEW r \in Requests, InsertFeedback(r) PROVE SuggestionTypeOK'
  <2>1. NewFeedback(r) \in Feedback
    BY <1>5, TargetIsThere DEF InsertFeedback
  <2> QED  BY <1>5, <2>1 DEF InsertFeedback
<1>6. CASE Restart
  BY <1>6 DEF Restart
<1>7. CASE PageAdvances \/ PageDeleted
  BY <1>7 DEF PageAdvances, PageDeleted
<1>8. CASE UNCHANGED vars
  BY <1>8 DEF vars
<1> QED
  BY <1>1, <1>2, <1>3, <1>4, <1>5, <1>6, <1>7, <1>8 DEF Next, Step, ReadStep

LEMMA ControlStep == IInv /\ [Next]_vars => ControlInv'
<1> SUFFICES ASSUME IInv, [Next]_vars PROVE ControlInv'
  OBVIOUS
<1> USE SuggestionAssumption
    DEF IInv, SuggestionTypeOK, tables, page, history, Goto, Finish, ControlInv, Target
<1>1. ASSUME NEW r \in Requests, Arrive(r) PROVE ControlInv'
  <2>1. PICK c \in Calls : call' = [call EXCEPT ![r] = c]
    BY <1>1 DEF Arrive
  <2>2. c # None
    BY CallFields
  <2> QED  BY <1>1, <2>1, <2>2 DEF Arrive
<1>2. ASSUME NEW r \in Requests, ReadStep(r) PROVE ControlInv'
  <2>1. CASE Refuse(r) \/ FindToDecide(r) \/ Confirm(r) \/ FindToApply(r)
    BY <2>1 DEF Refuse, FindToDecide, Confirm, FindToApply
  <2>2. CASE FindPage(r)
    BY <2>2 DEF FindPage, IsFresh
  <2>3. CASE DriveUpdate(r)
    BY <2>3 DEF DriveUpdate
  <2>4. CASE Reload(r) \/ Reread(r)
    BY <2>4 DEF Reload, Reread
  <2>5. CASE Fetch(r) \/ FindToComment(r) \/ FindFeedback(r) \/ FindFeedbackAgain(r)
    BY <2>5 DEF Fetch, FindToComment, FindFeedback, FindFeedbackAgain
  <2>6. CASE Lose(r)
    BY <2>6 DEF Lose, InFlight
  <2> QED  BY <1>2, <2>1, <2>2, <2>3, <2>4, <2>5, <2>6 DEF ReadStep
<1>3. ASSUME NEW r \in Requests, Decide(r) PROVE ControlInv'
  BY <1>3 DEF Decide
<1>4. ASSUME NEW r \in Requests, Commit(r) PROVE ControlInv'
  BY <1>4 DEF Commit
<1>5. ASSUME NEW r \in Requests, InsertFeedback(r) PROVE ControlInv'
  BY <1>5 DEF InsertFeedback
<1>6. CASE Restart
  BY <1>6 DEF Restart, InFlight
<1>7. CASE PageAdvances \/ PageDeleted
  BY <1>7 DEF PageAdvances, PageDeleted
<1>8. CASE UNCHANGED vars
  BY <1>8 DEF vars
<1> QED
  BY <1>1, <1>2, <1>3, <1>4, <1>5, <1>6, <1>7, <1>8 DEF Next, Step, ReadStep

-----------------------------------------------------------------------------
LEMMA MoveFields ==
    ASSUME SuggestionTypeOK, NEW m \in moves
    PROVE  m.by \in Requests /\ m.from \in Versions /\ m.to \in Versions
  BY DEF SuggestionTypeOK

\* Moves and statuses as they were: what relates them is as it was.
LEMMA MovesStay ==
    ASSUME IInv, moves' = moves, won \subseteq won',
           \A q \in won : call'[q] = call[q] /\ snap'[q] = snap[q],
           \A s \in Suggestions : status'[s] = "applied" <=> status[s] = "applied",
           version' \in Versions, version' >= version
    PROVE  /\ MovesInv'
           /\ \A s \in Suggestions : AppliedBy(s)' = AppliedBy(s)
<1> USE DEF IInv
<1>1. \A m \in moves : m.by \in won /\ call'[m.by] = call[m.by] /\ snap'[m.by] = snap[m.by]
  BY DEF MovesInv
<1>2. \A s \in Suggestions : AppliedBy(s)' = AppliedBy(s)
  BY <1>1 DEF AppliedBy
<1>3. AppliedWithThePage'
  BY <1>2 DEF MovesInv, AppliedWithThePage
<1>4. \A m \in moves : m.to <= version => m.to <= version'
  BY MoveFields, VersionsAreNumbers DEF SuggestionTypeOK
<1>5. AppliedToItsSource'
  BY <1>1, <1>4 DEF MovesInv, AppliedToItsSource
<1> QED  BY <1>1, <1>2, <1>3, <1>5 DEF MovesInv

\* The transaction, when both its statements find their rows.
LEMMA CommitMoves ==
    ASSUME IInv, NEW r \in Requests, Commit(r), PointerUnmoved(r), IsAccepted(r)
    PROVE  MovesInv'
<1> DEFINE m == [by |-> r, from |-> version, to |-> snap[r]]
<1> USE DEF IInv
<1>1. /\ pc[r] = "commit"
      /\ version' = snap[r] /\ moves' = moves \union {m}
      /\ status' = [status EXCEPT ![Target(r)] = "applied"]
      /\ won' = won \union {r}
      /\ UNCHANGED <<call, snap>>
      /\ status[Target(r)] = "accepted" /\ version = base[r]
  BY DEF Commit, MovePointer, PointerUnmoved, IsAccepted
<1>2. /\ call[r].op = "apply" /\ Target(r) \in Suggestions
      /\ Source[Target(r)] \in {None, version} /\ call[r].expect \in {None, version}
      /\ version \in Versions /\ snap[r] \in Versions /\ version < snap[r]
  BY <1>1, TargetIsThere, VersionsAreNumbers DEF ControlInv, SuggestionTypeOK
<1>3. AppliedBy(Target(r)) = {}
  BY <1>1, <1>2 DEF MovesInv, AppliedWithThePage
<1>4. AppliedWithThePage'
  <2>1. \A s \in Suggestions :
          AppliedBy(s)' = IF s = Target(r) THEN {m} ELSE AppliedBy(s)
    BY <1>1, <1>3 DEF AppliedBy, Target
  <2>2. \A s \in Suggestions :
          status'[s] = IF s = Target(r) THEN "applied" ELSE status[s]
    BY <1>1 DEF SuggestionTypeOK
  <2>3. ASSUME NEW s \in Suggestions
        PROVE  /\ (status'[s] = "applied" <=> AppliedBy(s)' # {})
               /\ \A n, o \in AppliedBy(s)' : n = o
    <3>1. CASE s = Target(r)
      BY <2>1, <2>2, <3>1
    <3>2. CASE s # Target(r)
      BY <2>1, <2>2, <3>2 DEF MovesInv, AppliedWithThePage
    <3> QED  BY <3>1, <3>2
  <2> QED  BY <2>3 DEF AppliedWithThePage
<1>5. AppliedToItsSource'
  <2>1. \A n \in moves : /\ n.from < n.to /\ n.to <= version
                         /\ n.from # version /\ n.to <= snap[r]
    BY <1>2, MoveFields, VersionsAreNumbers DEF MovesInv, AppliedToItsSource
  <2>2. \A n \in moves' : /\ Source[call'[n.by].suggestion] \in {None, n.from}
                          /\ call'[n.by].expect \in {None, n.from}
                          /\ n.from < n.to /\ n.to <= version'
    BY <1>1, <1>2, <2>1, VersionsAreNumbers DEF MovesInv, AppliedToItsSource, Target
  <2>3. \A n, o \in moves' : n.from = o.from => n = o
    BY <1>1, <2>1 DEF MovesInv, AppliedToItsSource
  <2> QED  BY <2>2, <2>3 DEF AppliedToItsSource
<1>6. \A n \in moves' : n.by \in won' /\ call'[n.by].op = "apply" /\ snap'[n.by] = n.to
  BY <1>1, <1>2 DEF MovesInv
<1> QED  BY <1>4, <1>5, <1>6 DEF MovesInv

\* A step of anything but a transaction that commits leaves the moves alone.
LEMMA NoCommitStays ==
    ASSUME IInv, [Next]_vars,
           ~ \E r \in Requests : Commit(r) /\ PointerUnmoved(r) /\ IsAccepted(r)
    PROVE  /\ moves' = moves
           /\ won \subseteq won'
           /\ \A q \in won : call'[q] = call[q] /\ snap'[q] = snap[q]
           /\ \A s \in Suggestions : status'[s] = "applied" <=> status[s] = "applied"
           /\ version' \in Versions /\ version' >= version
<1> DEFINE Stays == /\ moves' = moves
                    /\ won \subseteq won'
                    /\ \A q \in won : call'[q] = call[q] /\ snap'[q] = snap[q]
                    /\ \A s \in Suggestions :
                         status'[s] = "applied" <=> status[s] = "applied"
                    /\ version' \in Versions /\ version' >= version
<1> SUFFICES Stays
  OBVIOUS
<1> USE DEF IInv, SuggestionTypeOK, tables, page, history
<1>0. version \in Versions /\ version >= version
  BY VersionsAreNumbers
<1>1. ASSUME NEW r \in Requests, Arrive(r) PROVE Stays
  BY <1>0, <1>1 DEF Arrive, ControlInv
<1>2. ASSUME NEW r \in Requests, ReadStep(r) PROVE Stays
  <2>1. \A q \in won : snap'[q] = snap[q]
    <3>1. CASE DriveUpdate(r) \/ Fetch(r)
      BY <3>1 DEF DriveUpdate, Fetch, ControlInv
    <3>2. CASE ~ (DriveUpdate(r) \/ Fetch(r))
      BY <1>2, <3>2 DEF ReadStep, Refuse, FindToDecide, Confirm, FindToApply, FindPage,
           Reload, Reread, FindToComment, FindFeedback, FindFeedbackAgain, Lose
    <3> QED  BY <3>1, <3>2
  <2> QED  BY <1>0, <1>2, <2>1, ReadIsQuiet
<1>3. ASSUME NEW r \in Requests, Decide(r) PROVE Stays
  <2>1. Decision[call[r].op] # "applied"
    BY <1>3 DEF Decide, ControlInv, Decision
  <2> QED  BY <1>0, <1>3, <2>1 DEF Decide, IsProposed
<1>4. ASSUME NEW r \in Requests, Commit(r), ~ (PointerUnmoved(r) /\ IsAccepted(r))
      PROVE  Stays
  BY <1>0, <1>4 DEF Commit
<1>5. ASSUME NEW r \in Requests, InsertFeedback(r) PROVE Stays
  BY <1>0, <1>5 DEF InsertFeedback
<1>6. CASE Restart \/ PageDeleted
  BY <1>0, <1>6 DEF Restart, PageDeleted
<1>7. CASE PageAdvances
  BY <1>7, VersionsAreNumbers DEF PageAdvances
<1>8. CASE UNCHANGED vars
  BY <1>0, <1>8 DEF vars
<1> QED
  BY <1>1, <1>2, <1>3, <1>4, <1>5, <1>6, <1>7, <1>8 DEF Next, Step, ReadStep

LEMMA MovesStep == IInv /\ [Next]_vars => MovesInv'
<1> SUFFICES ASSUME IInv, [Next]_vars PROVE MovesInv'
  OBVIOUS
<1>1. CASE \E r \in Requests : Commit(r) /\ PointerUnmoved(r) /\ IsAccepted(r)
  BY <1>1, CommitMoves
<1>2. CASE ~ \E r \in Requests : Commit(r) /\ PointerUnmoved(r) /\ IsAccepted(r)
  BY <1>2, NoCommitStays, MovesStay
<1> QED  BY <1>1, <1>2

-----------------------------------------------------------------------------
\* A handler's own data change only with its place.
LEMMA Untouched ==
    ASSUME IInv, [Next]_vars, NEW q \in Requests, pc'[q] = pc[q]
    PROVE  /\ call'[q] = call[q] /\ base'[q] = base[q] /\ snap'[q] = snap[q]
           /\ outcome'[q] = outcome[q]
           /\ q \in won' <=> q \in won
<1> DEFINE Same == /\ call'[q] = call[q] /\ base'[q] = base[q] /\ snap'[q] = snap[q]
                   /\ outcome'[q] = outcome[q]
                   /\ (q \in won' <=> q \in won)
<1> SUFFICES Same
  OBVIOUS
<1> USE DEF IInv, SuggestionTypeOK, tables, page, history, Goto, Finish
<1>1. ASSUME NEW r \in Requests, Arrive(r) \/ Decide(r) \/ Commit(r) \/ InsertFeedback(r)
      PROVE  Same
  BY <1>1 DEF Arrive, Decide, Commit, InsertFeedback
<1>2. ASSUME NEW r \in Requests, ReadStep(r) PROVE Same
  <2>1. CASE Refuse(r) \/ FindToDecide(r) \/ Confirm(r) \/ FindToApply(r) \/ Lose(r)
    BY <2>1 DEF Refuse, FindToDecide, Confirm, FindToApply, Lose, InFlight
  <2>2. CASE FindPage(r) \/ DriveUpdate(r) \/ Reload(r) \/ Reread(r) \/ Fetch(r)
    BY <2>2 DEF FindPage, DriveUpdate, Reload, Reread, Fetch
  <2>3. CASE FindToComment(r) \/ FindFeedback(r) \/ FindFeedbackAgain(r)
    BY <2>3 DEF FindToComment, FindFeedback, FindFeedbackAgain
  <2> QED  BY <1>2, <2>1, <2>2, <2>3 DEF ReadStep
<1>3. CASE Restart
  BY <1>3 DEF Restart, InFlight
<1>4. CASE PageAdvances \/ PageDeleted
  BY <1>4 DEF PageAdvances, PageDeleted
<1>5. CASE UNCHANGED vars
  BY <1>5 DEF vars
<1> QED  BY <1>1, <1>2, <1>3, <1>4, <1>5 DEF Next, Step, ReadStep

\* Its place changes with a step of its own, or with the process.
LEMMA Touched ==
    ASSUME IInv, [Next]_vars, NEW q \in Requests, pc'[q] # pc[q]
    PROVE  Step(q) \/ Restart
<1> USE DEF IInv, SuggestionTypeOK, tables, page, history, Goto, Finish
<1>1. ASSUME NEW r \in Requests, r # q,
             Arrive(r) \/ Decide(r) \/ Commit(r) \/ InsertFeedback(r)
      PROVE  FALSE
  BY <1>1 DEF Arrive, Decide, Commit, InsertFeedback
<1>2. ASSUME NEW r \in Requests, r # q, ReadStep(r) PROVE FALSE
  BY <1>2 DEF ReadStep, Refuse, FindToDecide, Confirm, FindToApply, FindPage, DriveUpdate,
              Reload, Reread, Fetch, FindToComment, FindFeedback, FindFeedbackAgain, Lose
<1>3. CASE PageAdvances \/ PageDeleted \/ UNCHANGED vars
  BY <1>3 DEF PageAdvances, PageDeleted, vars
<1> QED  BY <1>1, <1>2, <1>3 DEF Next, Step, ReadStep

\* The tables only take more, and a suggestion is decided, then applied.
LEMMA Grows ==
    ASSUME IInv, [Next]_vars
    PROVE  /\ moves \subseteq moves' /\ feedback \subseteq feedback'
           /\ \A q \in Requests : pc[q] # "idle" => call'[q] = call[q]
           /\ \A s \in Suggestions : status'[s] # status[s] =>
                <<status[s], status'[s]>> \in {<<"proposed", "accepted">>,
                    <<"proposed", "rejected">>, <<"accepted", "applied">>}
<1> DEFINE More ==
      /\ moves \subseteq moves' /\ feedback \subseteq feedback'
      /\ \A q \in Requests : pc[q] # "idle" => call'[q] = call[q]
      /\ \A s \in Suggestions : status'[s] # status[s] =>
           <<status[s], status'[s]>> \in {<<"proposed", "accepted">>,
               <<"proposed", "rejected">>, <<"accepted", "applied">>}
<1> SUFFICES More
  OBVIOUS
<1> USE DEF IInv, SuggestionTypeOK, tables, page, history
<1>1. ASSUME NEW r \in Requests, Arrive(r) PROVE More
  BY <1>1 DEF Arrive
<1>2. ASSUME NEW r \in Requests, ReadStep(r) PROVE More
  BY <1>2, ReadIsQuiet
<1>3. ASSUME NEW r \in Requests, Decide(r) PROVE More
  <2>1. Decision[call[r].op] \in {"accepted", "rejected"}
    BY <1>3 DEF Decide, ControlInv, Decision
  <2> QED  BY <1>3, <2>1 DEF Decide, IsProposed
<1>4. ASSUME NEW r \in Requests, Commit(r) PROVE More
  BY <1>4 DEF Commit, MovePointer, IsAccepted
<1>5. ASSUME NEW r \in Requests, InsertFeedback(r) PROVE More
  BY <1>5 DEF InsertFeedback
<1>6. CASE Restart \/ PageAdvances \/ PageDeleted \/ UNCHANGED vars
  BY <1>6 DEF Restart, PageAdvances, PageDeleted, vars
<1> QED  BY <1>1, <1>2, <1>3, <1>4, <1>5, <1>6 DEF Next, Step, ReadStep

LEMMA AppliedGrows ==
    ASSUME IInv, [Next]_vars, NEW s \in Suggestions
    PROVE  AppliedBy(s) \subseteq AppliedBy(s)'
<1>1. \A m \in moves : m.by \in Requests /\ pc[m.by] # "idle"
  BY MoveFields DEF IInv, MovesInv, ControlInv
<1> QED  BY <1>1, Grows DEF AppliedBy

LEMMA SeenStep == IInv /\ [Next]_vars => SeenInv'
<1> SUFFICES ASSUME IInv, [Next]_vars, NEW q \in Requests
             PROVE  /\ pc'[q] \in {"reread", "fetch"} => status'[Target(q)'] = "applied"
                    /\ pc'[q] = "fetch" => \E m \in AppliedBy(Target(q))' : base'[q] >= m.to
                    /\ pc'[q] = "again" => NewFeedback(q)' \in feedback'
  BY DEF SeenInv
<1> DEFINE Seen == /\ pc'[q] \in {"reread", "fetch"} => status'[Target(q)'] = "applied"
                   /\ pc'[q] = "fetch" => \E m \in AppliedBy(Target(q))' : base'[q] >= m.to
                   /\ pc'[q] = "again" => NewFeedback(q)' \in feedback'
<1> USE DEF IInv
<1>1. pc[q] # "idle" => /\ Target(q) \in Suggestions
                        /\ Target(q)' = Target(q)
                        /\ NewFeedback(q)' = NewFeedback(q)
  BY TargetIsThere, Grows DEF Target, NewFeedback
<1>2. pc[q] # "idle" => AppliedBy(Target(q)) \subseteq AppliedBy(Target(q))'
  <2>1. pc[q] # "idle" => AppliedBy(Target(q))' = {m \in moves' : call'[m.by].suggestion = Target(q)'}
    BY DEF AppliedBy
  <2>2. \A s \in Suggestions : AppliedBy(s)' = {m \in moves' : call'[m.by].suggestion = s}
    BY DEF AppliedBy
  <2> QED  BY <1>1, <2>1, <2>2, AppliedGrows
<1>3. CASE pc'[q] = pc[q]
  <2>1. base'[q] = base[q]
    BY <1>3, Untouched
  <2> QED  BY <1>1, <1>2, <1>3, <2>1, Grows DEF SeenInv
<1>4. CASE pc'[q] # pc[q]
  <2> USE DEF Goto, Finish, tables, page, history, SuggestionTypeOK
  <2>1. CASE FindToApply(q)
    BY <1>1, <2>1 DEF FindToApply
  <2>2. CASE Reread(q)
    <3>1. \E m \in AppliedBy(Target(q)) : version >= m.to
      <4>1. AppliedBy(Target(q)) # {} /\ \A m \in AppliedBy(Target(q)) : m.to <= version
        BY <1>1, <2>2 DEF Reread, SeenInv, MovesInv, AppliedWithThePage, AppliedToItsSource,
                          AppliedBy
      <4> QED  BY <4>1, MoveFields, VersionsAreNumbers DEF AppliedBy
    <3> QED  BY <1>1, <1>2, <2>2, <3>1 DEF Reread, SeenInv
  <2>3. CASE InsertFeedback(q)
    BY <1>1, <2>3 DEF InsertFeedback
  <2>4. CASE Restart
    BY <1>4, <2>4 DEF Restart
  <2>5. ASSUME Step(q), ~FindToApply(q), ~Reread(q), ~InsertFeedback(q)
        PROVE  pc'[q] \notin {"reread", "fetch", "again"}
    BY <2>5 DEF Step, Arrive, Refuse, FindToDecide, Decide, Confirm, FindPage, DriveUpdate,
         Commit, Reload, Fetch, FindToComment, FindFeedback, FindFeedbackAgain, Lose
  <2> QED  BY <1>4, <2>1, <2>2, <2>3, <2>4, <2>5, Touched
<1> QED  BY <1>3, <1>4

\* The steps by which a request becomes one that changed something.
LEMMA NewWinner ==
    ASSUME IInv, [Next]_vars, NEW r \in won', r \notin won
    PROVE  /\ won' = won \union {r}
           /\ r \in Requests /\ pc[r] # "idle"
           /\ \/ Decide(r) /\ IsProposed(r)
              \/ Commit(r) /\ PointerUnmoved(r) /\ IsAccepted(r)
              \/ InsertFeedback(r) /\ NewFeedback(r) \notin feedback
<1> DEFINE Wins(q) == /\ won' = won \union {q}
                      /\ pc[q] # "idle"
                      /\ \/ Decide(q) /\ IsProposed(q)
                         \/ Commit(q) /\ PointerUnmoved(q) /\ IsAccepted(q)
                         \/ InsertFeedback(q) /\ NewFeedback(q) \notin feedback
<1>1. ASSUME NEW q \in Requests, Arrive(q) \/ ReadStep(q) PROVE won' = won
  BY <1>1, ReadIsQuiet DEF Arrive, history
<1>2. ASSUME NEW q \in Requests, Decide(q) \/ Commit(q) \/ InsertFeedback(q)
      PROVE  won' = won \/ Wins(q)
  BY <1>2 DEF Decide, Commit, InsertFeedback
<1>3. CASE Restart \/ PageAdvances \/ PageDeleted \/ UNCHANGED vars
  BY <1>3 DEF Restart, PageAdvances, PageDeleted, vars, history
<1>4. PICK q \in Requests : Wins(q)
  BY <1>1, <1>2, <1>3 DEF Next, Step, ReadStep
<1>5. q = r
  BY <1>4
<1> QED  BY <1>4, <1>5

LEMMA WonStep == IInv /\ [Next]_vars => WonInv'
<1> SUFFICES ASSUME IInv, [Next]_vars PROVE WonInv'
  OBVIOUS
<1> USE DEF IInv
<1>1. \A r \in won : /\ r \in Requests /\ pc[r] # "idle" /\ call'[r] = call[r]
                     /\ Target(r) \in Suggestions
                     /\ Target(r)' = Target(r) /\ NewFeedback(r)' = NewFeedback(r)
  <2>1. \A r \in won : r \in Requests /\ pc[r] # "idle"
    BY DEF SuggestionTypeOK, ControlInv
  <2> QED  BY <2>1, Grows, TargetIsThere DEF Target, NewFeedback
<1>2. ASSUME NEW r \in won'
      PROVE  /\ call'[r].op = "accept" => status'[Target(r)'] \in {"accepted", "applied"}
             /\ call'[r].op = "reject" => status'[Target(r)'] = "rejected"
             /\ call'[r].op = "apply" => \E m \in moves' : m.by = r
             /\ call'[r].op = "feedback" => NewFeedback(r)' \in feedback'
  <2>1. CASE r \in won
    BY <1>1, <2>1, Grows DEF WonInv
  <2>2. CASE r \notin won
    <3>1. /\ r \in Requests /\ pc[r] # "idle" /\ call'[r] = call[r]
          /\ Target(r) \in Suggestions
          /\ Target(r)' = Target(r) /\ NewFeedback(r)' = NewFeedback(r)
      BY <1>2, <2>2, NewWinner, Grows, TargetIsThere DEF Target, NewFeedback
    <3>2. CASE Decide(r) /\ IsProposed(r)
      BY <3>1, <3>2 DEF Decide, ControlInv, SuggestionTypeOK, Decision
    <3>3. CASE Commit(r) /\ PointerUnmoved(r) /\ IsAccepted(r)
      <4> DEFINE m == [by |-> r, from |-> version, to |-> snap[r]]
      <4>1. m \in moves' /\ m.by = r
        BY <3>3 DEF Commit, MovePointer
      <4>2. call'[r].op = "apply"
        BY <3>1, <3>3 DEF Commit, ControlInv
      <4> QED  BY <4>1, <4>2
    <3>4. CASE InsertFeedback(r)
      BY <3>1, <3>4 DEF InsertFeedback, ControlInv
    <3> QED  BY <2>2, <3>2, <3>3, <3>4, NewWinner
  <2> QED  BY <2>1, <2>2
<1>3. ASSUME NEW q \in won', NEW r \in won', q # r,
             call'[q].op = "feedback", call'[r].op = "feedback",
             NewFeedback(q)' = NewFeedback(r)'
      PROVE  FALSE
  <2>1. ASSUME NEW o \in won, NEW n \in won', n \notin won,
               call'[o].op = "feedback", call'[n].op = "feedback"
        PROVE  NewFeedback(o)' # NewFeedback(n)'
    <3>1. n \in Requests /\ pc[n] # "idle" /\ call'[n] = call[n]
      BY <2>1, NewWinner, Grows
    <3>2. NewFeedback(n)' = NewFeedback(n)
      BY <3>1 DEF NewFeedback, Target
    <3>3. InsertFeedback(n) /\ NewFeedback(n) \notin feedback
      BY <2>1, <3>1, NewWinner DEF Decide, Commit, ControlInv
    <3> QED  BY <1>1, <2>1, <3>2, <3>3 DEF WonInv
  <2>2. CASE q \in won /\ r \in won
    BY <1>1, <1>3, <2>2 DEF WonInv
  <2>3. CASE q \notin won /\ r \notin won
    BY <1>3, <2>3, NewWinner
  <2> QED  BY <1>3, <2>1, <2>2, <2>3
<1> QED  BY <1>2, <1>3 DEF WonInv

LEMMA AnswersStep == IInv /\ [Next]_vars => AnswersInv'
<1> DEFINE
      True(q) ==
        /\ outcome[q] = "ok" /\ call[q].op = "accept" =>
              status[Target(q)] \in {"accepted", "applied"}
        /\ outcome[q] = "ok" /\ call[q].op = "reject" => status[Target(q)] = "rejected"
        /\ outcome[q] \in {"refused", "conflict", "port"} /\ q \in won =>
              call[q].op = "accept" /\ status[Target(q)] = "applied"
        /\ outcome[q] = "ok" /\ call[q].op = "apply" =>
              \E m \in AppliedBy(Target(q)) :
                snap[q] >= m.to /\ (q \in won => m.by = q /\ m.to = snap[q])
        /\ outcome[q] \in {"ok", "conflict"} /\ call[q].op = "feedback" =>
              outcome[q] = "ok" /\ NewFeedback(q) \in feedback
<1> SUFFICES ASSUME IInv, [Next]_vars, NEW q \in Requests PROVE True(q)'
  BY DEF AnswersInv, DecisionsAreTrue, AppliedIsInTheAnswer
<1> USE DEF IInv
<1>1. True(q)
  BY DEF AnswersInv, DecisionsAreTrue, AppliedIsInTheAnswer
<1>2. CASE pc[q] = "idle"
  <2>1. outcome'[q] = "none"
    <3>1. outcome[q] = "none" /\ "none" # "ok"
      BY <1>2 DEF ControlInv
    <3>2. CASE pc'[q] = pc[q]
      BY <3>1, <3>2, Untouched
    <3>3. CASE pc'[q] # pc[q]
      <4>1. Arrive(q)
        BY <1>2, <3>3, Touched DEF Step, Refuse, FindToDecide, Decide, Confirm, FindToApply,
           FindPage, DriveUpdate, Commit, Reload, Reread, Fetch, FindToComment,
           FindFeedback, InsertFeedback, FindFeedbackAgain, Lose, InFlight, Restart,
           SuggestionTypeOK
      <4> QED  BY <3>1, <4>1 DEF Arrive, Goto
    <3> QED  BY <3>2, <3>3
  <2> QED  BY <2>1
<1>3. CASE pc[q] # "idle"
  <2>1. /\ Target(q) \in Suggestions /\ call'[q] = call[q] /\ call[q].op \in Ops
        /\ Target(q)' = Target(q) /\ NewFeedback(q)' = NewFeedback(q)
    BY <1>3, Grows, TargetIsThere, CallFields DEF Target, NewFeedback
  <2>2. AppliedBy(Target(q)) \subseteq AppliedBy(Target(q))'
    <3>1. AppliedBy(Target(q))' = {m \in moves' : call'[m.by].suggestion = Target(q)'}
      BY DEF AppliedBy
    <3>2. \A s \in Suggestions : AppliedBy(s)' = {m \in moves' : call'[m.by].suggestion = s}
      BY DEF AppliedBy
    <3> QED  BY <2>1, <3>1, <3>2, AppliedGrows
  <2>3. CASE pc'[q] = pc[q]
    BY <1>1, <2>1, <2>2, <2>3, Untouched, Grows
  <2>4. CASE pc'[q] # pc[q]
    <3> USE DEF Goto, Finish, tables, page, history, SuggestionTypeOK
    <3>1. q \in won => pc[q] \in {"confirm", "reload", "again", "done"}
      BY DEF ControlInv
    <3>2. outcome[q] = "none" \/ pc[q] = "done"
      BY DEF ControlInv
    <3>3. CASE FindToDecide(q)
      BY <2>1, <3>1, <3>2, <3>3, TargetIsThere, <1>3 DEF FindToDecide
    <3>4. CASE Confirm(q)
      BY <1>3, <2>1, <3>4, TargetIsThere DEF Confirm, WonInv, ControlInv
    <3>5. CASE Reload(q)
      <4>1. PICK m \in moves : m.by = q
        BY <3>5 DEF Reload, ControlInv, WonInv
      <4>2. m \in AppliedBy(Target(q)) /\ snap[q] = m.to /\ m.to \in Versions
        BY <4>1, MoveFields DEF AppliedBy, MovesInv, Target
      <4>3. snap[q] >= m.to /\ status[Target(q)] = "applied"
        BY <2>1, <4>2, VersionsAreNumbers DEF MovesInv, AppliedWithThePage
      <4> QED  BY <2>1, <2>2, <3>5, <4>1, <4>2, <4>3 DEF Reload, ControlInv
    <3>6. CASE Fetch(q)
      BY <2>1, <2>2, <3>1, <3>6 DEF Fetch, SeenInv, ControlInv
    <3>7. CASE FindFeedback(q) \/ FindFeedbackAgain(q)
      BY <2>1, <3>1, <3>2, <3>7 DEF FindFeedback, FindFeedbackAgain, SeenInv, ControlInv
    <3>8. CASE Refuse(q) \/ FindToApply(q) \/ FindPage(q) \/ DriveUpdate(q) \/ Reread(q)
      BY <2>1, <3>1, <3>2, <3>8
         DEF Refuse, FindToApply, FindPage, DriveUpdate, Reread, ControlInv
    <3>9. CASE Decide(q) \/ Commit(q) \/ InsertFeedback(q) \/ FindToComment(q) \/ Lose(q)
      <4>1. outcome'[q] \in {"none", "lost", "reconcile"}
        BY <3>2, <3>9 DEF Decide, Commit, InsertFeedback, FindToComment, Lose, InFlight
      <4> QED  BY <4>1
    <3>10. CASE Restart
      BY <2>4, <3>10 DEF Restart
    <3>11. ~Arrive(q)
      BY <1>3 DEF Arrive
    <3> QED  BY <2>4, <3>3, <3>4, <3>5, <3>6, <3>7, <3>8, <3>9, <3>10, <3>11, Touched DEF Step
  <2> QED  BY <2>3, <2>4
<1> QED  BY <1>2, <1>3

(***************************************************************************)
(* The inductive invariant holds in every state of every behaviour.        *)
(***************************************************************************)
THEOREM SuggestionsInductive == Spec => []IInv
<1>1. IInv /\ [Next]_vars => IInv'
  BY TypeStep, ControlStep, SeenStep, MovesStep, WonStep, AnswersStep DEF IInv
<1> QED  BY InitInv, <1>1, PTL DEF Spec

(***************************************************************************)
(* Every variable keeps its type.                                          *)
(***************************************************************************)
THEOREM SuggestionTypes == Spec => []SuggestionTypeOK
<1>1. IInv => SuggestionTypeOK
  BY DEF IInv
<1> QED  BY <1>1, SuggestionsInductive, PTL

(***************************************************************************)
(* A suggestion is applied exactly if one apply of it moved the page, for  *)
(* any number of racing applies and whatever is lost: the transaction of   *)
(* apply_ai_suggestion is all or nothing.                                  *)
(***************************************************************************)
THEOREM ApplyIsAtomic == Spec => []AppliedWithThePage
<1>1. IInv => AppliedWithThePage
  BY DEF IInv, MovesInv
<1> QED  BY <1>1, SuggestionsInductive, PTL

(***************************************************************************)
(* A suggestion goes in only over the version it was made from and its     *)
(* caller expected, however long its Drive call took.                      *)
(***************************************************************************)
THEOREM ApplyIsFresh == Spec => []AppliedToItsSource
<1>1. IInv => AppliedToItsSource
  BY DEF IInv, MovesInv
<1> QED  BY <1>1, SuggestionsInductive, PTL

(***************************************************************************)
(* Decisions that were acknowledged stand, and those that were turned down *)
(* did not take effect, save one that an apply overtook.                   *)
(***************************************************************************)
THEOREM DecisionAnswersAreTrue == Spec => []DecisionsAreTrue
<1>1. IInv => DecisionsAreTrue
  BY DEF IInv, AnswersInv
<1> QED  BY <1>1, SuggestionsInductive, PTL

(***************************************************************************)
(* An apply, repeated or not, is answered with a version that has it.      *)
(***************************************************************************)
THEOREM ApplyAnswersAreTrue == Spec => []AppliedIsInTheAnswer
<1>1. IInv => AppliedIsInTheAnswer
  BY DEF IInv, AnswersInv
<1> QED  BY <1>1, SuggestionsInductive, PTL

(***************************************************************************)
(* Acknowledged feedback is there, left by one request, and what is sent   *)
(* again is never turned down as a conflict.                               *)
(***************************************************************************)
THEOREM FeedbackIsIdempotent == Spec => []FeedbackIsLeftOnce
<1>1. IInv => FeedbackIsLeftOnce
  BY DEF IInv, AnswersInv, WonInv, FeedbackIsLeftOnce
<1> QED  BY <1>1, SuggestionsInductive, PTL

(***************************************************************************)
(* A suggestion is decided once and applied only after it was accepted.    *)
(***************************************************************************)
THEOREM DecisionsStand == Spec => DecisionsAreFinal
<1>1. IInv /\ [Next]_vars =>
        [ \A s \in Suggestions : status'[s] # status[s] =>
            <<status[s], status'[s]>> \in {<<"proposed", "accepted">>,
                <<"proposed", "rejected">>, <<"accepted", "applied">>} ]_status
  BY Grows
<1> QED  BY <1>1, SuggestionsInductive, PTL DEF Spec, DecisionsAreFinal

-----------------------------------------------------------------------------
(***************************************************************************)
(* The handlers on the board.  One thing more has to be known of them: a   *)
(* decision that changed nothing met one that was made.                    *)
(***************************************************************************)
ReasonsInv ==
    \A r \in Requests : pc[r] = "confirm" => r \in won \/ status[Target(r)] # "proposed"

LEMMA ReasonsStep == IInv /\ ReasonsInv /\ [Next]_vars => ReasonsInv'
<1> SUFFICES ASSUME IInv, ReasonsInv, [Next]_vars, NEW q \in Requests, pc'[q] = "confirm"
             PROVE  q \in won' \/ status'[Target(q)'] # "proposed"
  BY DEF ReasonsInv
<1> USE DEF IInv
<1>1. CASE pc[q] = "confirm"
  <2>1. /\ call'[q] = call[q] /\ Target(q) \in Suggestions /\ Target(q)' = Target(q)
        /\ (q \in won' <=> q \in won)
    BY <1>1, Untouched, TargetIsThere DEF Target
  <2>2. status[Target(q)] # "proposed" => status'[Target(q)] # "proposed"
    BY <2>1, Grows
  <2> QED  BY <1>1, <2>1, <2>2 DEF ReasonsInv
<1>2. CASE pc[q] # "confirm"
  <2>1. Decide(q)
    BY <1>2, Touched DEF Step, Arrive, Refuse, FindToDecide, Confirm, FindToApply, FindPage,
       DriveUpdate, Commit, Reload, Reread, Fetch, FindToComment, FindFeedback,
       InsertFeedback, FindFeedbackAgain, Lose, Restart, Goto, Finish, SuggestionTypeOK
  <2> QED  BY <2>1 DEF Decide, IsProposed, Target
<1> QED  BY <1>1, <1>2

LEMMA BoardInit == Init => Board!Init
<1> SUFFICES ASSUME Init PROVE Board!Init
  OBVIOUS
<1>1. \A r \in Requests : BoardPhase(r) = "idle"
  BY DEF Init, BoardPhase, InFlight
<1>2. \A r \in Requests : VersionSeen(r) = None
  BY <1>1 DEF VersionSeen
<1>3. call = [r \in Requests |-> None]
  BY DEF Init
<1> QED  BY <1>1, <1>2, <1>3 DEF Init, Board!Init

\* A step of one handler moves one client of the board.
LEMMA OthersOnBoard ==
    ASSUME IInv, [Next]_vars, NEW q \in Requests, pc'[q] = pc[q]
    PROVE  BoardPhase(q)' = BoardPhase(q) /\ VersionSeen(q)' = VersionSeen(q)
<1>1. /\ call'[q] = call[q] /\ base'[q] = base[q] /\ snap'[q] = snap[q]
      /\ outcome'[q] = outcome[q]
      /\ (q \in won' <=> q \in won)
  BY Untouched
<1>2. BoardPhase(q)' = BoardPhase(q)
  BY <1>1 DEF BoardPhase, InFlight
<1> QED  BY <1>1, <1>2 DEF VersionSeen

LEMMA MovesOnBoard ==
    ASSUME IInv, [Next]_vars, NEW r \in Requests, NEW p, pc' = [pc EXCEPT ![r] = p],
           NEW to, BoardPhase(r)' = to
    PROVE  /\ Board!Goes(r, to)
           /\ \A q \in Requests \ {r} : VersionSeen(q)' = VersionSeen(q)
<1>1. \A q \in Requests \ {r} : pc'[q] = pc[q]
  BY DEF IInv, SuggestionTypeOK
<1>2. \A q \in Requests \ {r} : BoardPhase(q)' = BoardPhase(q) /\ VersionSeen(q)' = VersionSeen(q)
  BY <1>1, OthersOnBoard
<1> QED  BY <1>2 DEF Board!Goes

\* The phase of a handler under way.
LEMMA UnderWay ==
    ASSUME IInv, NEW r \in Requests, InFlight(r)
    PROVE  /\ BoardPhase(r) = IF r \in won THEN "applied"
                              ELSE IF pc[r] = "fetch" THEN "looked" ELSE "open"
           /\ pc[r] = "fetch" => r \notin won
           /\ call[r] \in Calls /\ call[r].op \in Ops /\ Target(r) \in Suggestions
           /\ outcome[r] = "none"
<1>1. pc[r] # "idle" /\ pc[r] # "done"
  BY DEF InFlight
<1> QED  BY <1>1, TargetIsThere, CallFields DEF BoardPhase, IInv, ControlInv, InFlight

\* The end of a request, answered with a version if it is an apply.
LEMMA EndsOnBoard ==
    ASSUME IInv, [Next]_vars, NEW r \in Requests, InFlight(r),
           NEW what \in {"ok", "refused", "conflict"}, Finish(r, what),
           UNCHANGED <<call, base, won>>, r \in won => snap'[r] = snap[r],
           call[r].op = "apply" => (what = "ok" <=> BoardPhase(r) \in {"applied", "looked"})
    PROVE  /\ Board!Goes(r, IF what = "ok" THEN "answered" ELSE what)
           /\ \A q \in Requests : VersionSeen(q)' = VersionSeen(q)
<1> USE DEF Finish
<1>1. pc'[r] = "done" /\ outcome'[r] = what
  BY DEF IInv, SuggestionTypeOK
<1>2. BoardPhase(r)' = IF what = "ok" THEN "answered" ELSE what
  BY <1>1 DEF BoardPhase, InFlight
<1>3. BoardPhase(r) \in {"applied", "looked", "open"}
  BY UnderWay
<1>4. VersionSeen(r)' = VersionSeen(r)
  BY <1>2, <1>3, UnderWay DEF VersionSeen
<1> QED  BY <1>2, <1>4, MovesOnBoard

\* A step that nobody outside sees.
LEMMA UnseenOnBoard ==
    ASSUME IInv, [Next]_vars, NEW r \in Requests, InFlight(r), r \notin won,
           NEW p \in Phases \ {"idle", "done", "fetch"}, Goto(r, p), pc[r] # "fetch",
           UNCHANGED <<status, feedback, version, active, call, won>>
    PROVE  UNCHANGED Board!vars
<1> USE DEF IInv, SuggestionTypeOK, Goto
<1>1. BoardPhase(r) = "open" /\ BoardPhase(r)' = "open"
  BY UnderWay DEF BoardPhase, InFlight
<1>2. VersionSeen(r)' = VersionSeen(r)
  BY <1>1 DEF VersionSeen
<1>3. \A q \in Requests \ {r} : pc'[q] = pc[q]
  OBVIOUS
<1>4. \A q \in Requests : BoardPhase(q)' = BoardPhase(q) /\ VersionSeen(q)' = VersionSeen(q)
  BY <1>1, <1>2, <1>3, OthersOnBoard
<1> QED  BY <1>4 DEF Board!vars

\* Handlers that fail or are lost, one or all.
LEMMA FailedOnBoard ==
    ASSUME IInv, [Next]_vars, NEW lost \in SUBSET {r \in Requests : InFlight(r)},
           NEW answers \in [Requests -> {"port", "reconcile", "lost"}],
           pc' = [r \in Requests |-> IF r \in lost THEN "done" ELSE pc[r]],
           outcome' = [r \in Requests |-> IF r \in lost THEN answers[r] ELSE outcome[r]],
           UNCHANGED <<status, feedback, version, active, call>>
    PROVE  Board!Next
<1>1. \A r \in lost : BoardPhase(r)' = "failed" /\ VersionSeen(r)' = None
  BY DEF BoardPhase, InFlight, VersionSeen
<1>2. \A r \in lost : BoardPhase(r) \in {"open", "looked", "applied"}
  BY UnderWay
<1>3. \A r \in Requests \ lost : BoardPhase(r)' = BoardPhase(r) /\ VersionSeen(r)' = VersionSeen(r)
  BY OthersOnBoard
<1>4. lost \in SUBSET {r \in Requests : BoardPhase(r) \in {"open", "looked", "applied"}}
  BY <1>2
<1>5. \A r \in Requests : /\ BoardPhase(r)' = IF r \in lost THEN "failed" ELSE BoardPhase(r)
                          /\ VersionSeen(r)' = IF r \in lost THEN None ELSE VersionSeen(r)
  BY <1>1, <1>3
<1>6. Board!Fail
  BY <1>4, <1>5 DEF Board!Fail
<1> QED  BY <1>6 DEF Board!Next

LEMMA FailsOnBoard ==
    ASSUME IInv, [Next]_vars, NEW r \in Requests, InFlight(r),
           NEW what \in {"port", "reconcile", "lost"}, Finish(r, what),
           UNCHANGED <<status, feedback, version, active, call>>
    PROVE  Board!Next
<1> DEFINE answers == [q \in Requests |-> what]
<1>1. /\ {r} \in SUBSET {q \in Requests : InFlight(q)}
      /\ answers \in [Requests -> {"port", "reconcile", "lost"}]
  OBVIOUS
<1>2. /\ pc' = [q \in Requests |-> IF q \in {r} THEN "done" ELSE pc[q]]
      /\ outcome' = [q \in Requests |-> IF q \in {r} THEN answers[q] ELSE outcome[q]]
  BY DEF Finish, IInv, SuggestionTypeOK
<1> HIDE DEF answers
<1> QED  BY <1>1, <1>2, FailedOnBoard

LEMMA RefusedOnBoard ==
    ASSUME IInv, [Next]_vars, NEW r \in Requests, InFlight(r), Finish(r, "refused"),
           r \notin won, pc[r] # "fetch",
           UNCHANGED <<status, feedback, version, active, call, base, won>>
    PROVE  Board!Next
<1>1. BoardPhase(r) = "open"
  BY UnderWay
<1>2. /\ Board!Goes(r, "refused")
      /\ \A q \in Requests : VersionSeen(q)' = VersionSeen(q)
  BY <1>1, EndsOnBoard
<1>3. Board!Refuse(r)
  BY <1>1, <1>2 DEF Board!Refuse
<1> QED  BY <1>3 DEF Board!Next

LEMMA TurnedDownOnBoard ==
    ASSUME IInv, [Next]_vars, NEW r \in Requests, InFlight(r), Finish(r, "conflict"),
           r \notin won, pc[r] # "fetch",
           UNCHANGED <<status, feedback, version, active, call, base, won>>,
           \/ /\ call[r].op \in {"accept", "reject"}
              /\ status[Target(r)] \notin {"proposed", Decision[call[r].op]}
           \/ call[r].op = "apply" /\ status[Target(r)] \notin {"accepted", "applied"}
           \/ call[r].op = "apply" /\ ~IsFresh(r)
    PROVE  Board!Next
<1>1. BoardPhase(r) = "open"
  BY UnderWay
<1>2. /\ Board!Goes(r, "conflict")
      /\ \A q \in Requests : VersionSeen(q)' = VersionSeen(q)
  BY <1>1, EndsOnBoard
<1>3. Board!Verdict = Decision
  BY DEF Board!Verdict, Decision
<1>4. Board!TurnDown(r)
  BY <1>1, <1>2, <1>3 DEF Board!TurnDown, Board!Asks, Board!Found, Board!Meets, Target, IsFresh
<1> QED  BY <1>4 DEF Board!Next

LEMMA AcknowledgedOnBoard ==
    ASSUME IInv, [Next]_vars, NEW r \in Requests, InFlight(r), Finish(r, "ok"),
           UNCHANGED <<status, feedback, version, active, call, base, won>>,
           r \in won => snap'[r] = snap[r],
           call[r].op \in {"accept", "reject"} => status[Target(r)] = Decision[call[r].op],
           call[r].op = "apply" => /\ status[Target(r)] = "applied"
                                   /\ r \in won \/ pc[r] = "fetch",
           call[r].op = "feedback" => NewFeedback(r) \in feedback
    PROVE  Board!Next
<1>1. BoardPhase(r) \in {"applied", "looked", "open"}
  BY UnderWay
<1>2. call[r].op = "apply" => BoardPhase(r) \in {"applied", "looked"}
  BY UnderWay
<1>3. /\ Board!Goes(r, "answered")
      /\ \A q \in Requests : VersionSeen(q)' = VersionSeen(q)
  BY <1>2, EndsOnBoard
<1>4. Board!Verdict = Decision
  BY DEF Board!Verdict, Decision
<1>5. BoardPhase(r) = "open" => ~Board!Asks(r, {"apply"})
  BY <1>2 DEF Board!Asks
<1>6. Board!Acknowledge(r)
  BY <1>1, <1>3, <1>4, <1>5 DEF Board!Acknowledge, Board!Asks, Board!Found, Board!Left,
                          Target, NewFeedback
<1> QED  BY <1>6 DEF Board!Next

LEMMA ArrivalOnBoard ==
    ASSUME IInv, [Next]_vars, NEW r \in Requests, Arrive(r) PROVE Board!Next
<1> USE DEF IInv, SuggestionTypeOK
<1>1. PICK c \in Calls : call' = [call EXCEPT ![r] = c]
  BY DEF Arrive
<1>2. /\ pc[r] = "idle" /\ r \notin won /\ pc' = [pc EXCEPT ![r] = "find"]
      /\ UNCHANGED <<status, feedback, version, active, won>>
  BY DEF Arrive, ControlInv, Goto, tables, page, history
<1>3. BoardPhase(r) = "idle" /\ BoardPhase(r)' = "open"
  BY <1>2 DEF BoardPhase, InFlight
<1>4. VersionSeen(r)' = VersionSeen(r)
  BY <1>3 DEF VersionSeen
<1>5. Board!Goes(r, "open") /\ \A q \in Requests : VersionSeen(q)' = VersionSeen(q)
  BY <1>2, <1>3, <1>4, MovesOnBoard
<1>6. Board!Arrive(r)
  BY <1>1, <1>2, <1>3, <1>5 DEF Board!Arrive
<1> QED  BY <1>6 DEF Board!Next

\* The UPDATE under its WHERE clause is the board's decision.
LEMMA DecisionOnBoard ==
    ASSUME IInv, [Next]_vars, NEW r \in Requests, Decide(r)
    PROVE  Board!Next \/ UNCHANGED Board!vars
<1> USE DEF IInv, SuggestionTypeOK
<1>1. /\ InFlight(r) /\ r \notin won /\ pc[r] = "decide" /\ Goto(r, "confirm")
      /\ call[r].op \in {"accept", "reject"}
      /\ UNCHANGED <<feedback, version, active, call>>
  BY DEF Decide, InFlight, ControlInv, page
<1>2. CASE IsProposed(r)
  <2>1. /\ status' = [status EXCEPT ![Target(r)] = Decision[call[r].op]]
        /\ won' = won \union {r} /\ pc' = [pc EXCEPT ![r] = "confirm"]
    BY <1>1, <1>2 DEF Decide, Goto
  <2>2. BoardPhase(r) = "open" /\ BoardPhase(r)' = "applied"
    BY <1>1, <2>1, UnderWay DEF BoardPhase, InFlight
  <2>3. VersionSeen(r)' = VersionSeen(r)
    BY <1>1 DEF VersionSeen
  <2>4. Board!Goes(r, "applied") /\ \A q \in Requests : VersionSeen(q)' = VersionSeen(q)
    BY <2>1, <2>2, <2>3, MovesOnBoard
  <2>5. Board!Verdict = Decision
    BY DEF Board!Verdict, Decision
  <2>6. Board!Decide(r)
    BY <1>1, <1>2, <2>1, <2>2, <2>4, <2>5
       DEF Board!Decide, Board!Asks, Board!Found, Board!Settles, Target, IsProposed
  <2> QED  BY <2>6 DEF Board!Next
<1>3. CASE ~IsProposed(r)
  <2>1. UNCHANGED <<status, won>>
    BY <1>3 DEF Decide
  <2> QED  BY <1>1, <2>1, UnseenOnBoard DEF Phases
<1> QED  BY <1>2, <1>3

\* The row is compared, Drive is called and the transaction is tried: what was
\* compared with the row holds in the step in which the pointer is as it was.
LEMMA ApplyOnBoard ==
    ASSUME IInv, [Next]_vars, NEW r \in Requests, Commit(r)
    PROVE  Board!Next
<1> USE DEF IInv, SuggestionTypeOK
<1>1. /\ InFlight(r) /\ r \notin won /\ pc[r] = "commit" /\ call[r].op = "apply"
      /\ UNCHANGED <<feedback, active, call, base, snap>>
      /\ snap[r] \in Versions /\ snap[r] > base[r]
      /\ Source[Target(r)] \in {None, base[r]} /\ call[r].expect \in {None, base[r]}
  BY DEF Commit, InFlight, ControlInv
<1>2. CASE PointerUnmoved(r) /\ IsAccepted(r)
  <2>1. /\ version' = snap[r] /\ status' = [status EXCEPT ![Target(r)] = "applied"]
        /\ won' = won \union {r} /\ pc' = [pc EXCEPT ![r] = "reload"]
    BY <1>2 DEF Commit, Goto, MovePointer
  <2>2. BoardPhase(r) = "open" /\ BoardPhase(r)' = "applied"
    BY <1>1, <2>1, UnderWay DEF BoardPhase, InFlight
  <2>3. VersionSeen(r)' = version'
    BY <1>1, <2>1, <2>2 DEF VersionSeen
  <2>4. /\ Board!Goes(r, "applied")
        /\ \A q \in Requests \ {r} : VersionSeen(q)' = VersionSeen(q)
    BY <2>1, <2>2, MovesOnBoard
  <2>5. Board!Meets(r) /\ active /\ version' \in {v \in Versions : v > version}
    BY <1>1, <1>2, <2>1 DEF Board!Meets, PointerUnmoved, Target
  <2>6. Board!Apply(r)
    BY <1>1, <1>2, <2>1, <2>2, <2>3, <2>4, <2>5
       DEF Board!Apply, Board!Asks, Board!Found, Board!Settles, Target, IsAccepted
  <2> QED  BY <2>6 DEF Board!Next
<1>3. CASE ~(PointerUnmoved(r) /\ IsAccepted(r))
  <2>1. Finish(r, "reconcile") /\ UNCHANGED <<status, version>>
    BY <1>3 DEF Commit
  <2> QED  BY <1>1, <2>1, FailsOnBoard
<1> QED  BY <1>2, <1>3

LEMMA CommentOnBoard ==
    ASSUME IInv, [Next]_vars, NEW r \in Requests, InsertFeedback(r)
    PROVE  Board!Next \/ UNCHANGED Board!vars
<1> USE DEF IInv, SuggestionTypeOK
<1>1. /\ InFlight(r) /\ r \notin won /\ pc[r] = "insert" /\ call[r].op = "feedback"
      /\ Goto(r, "again") /\ feedback' = feedback \union {NewFeedback(r)}
      /\ UNCHANGED <<status, version, active, call>>
  BY DEF InsertFeedback, InFlight, ControlInv, page
<1>2. CASE NewFeedback(r) \notin feedback
  <2>1. won' = won \union {r} /\ pc' = [pc EXCEPT ![r] = "again"]
    BY <1>1, <1>2 DEF InsertFeedback, Goto
  <2>2. BoardPhase(r) = "open" /\ BoardPhase(r)' = "applied"
    BY <1>1, <2>1, UnderWay DEF BoardPhase, InFlight
  <2>3. VersionSeen(r)' = VersionSeen(r)
    BY <1>1 DEF VersionSeen
  <2>4. Board!Goes(r, "applied") /\ \A q \in Requests : VersionSeen(q)' = VersionSeen(q)
    BY <2>1, <2>2, <2>3, MovesOnBoard
  <2>5. Board!Comment(r)
    BY <1>1, <1>2, <2>2, <2>4 DEF Board!Comment, Board!Asks, Board!Left, NewFeedback, Target
  <2> QED  BY <2>5 DEF Board!Next
<1>3. CASE NewFeedback(r) \in feedback
  <2>1. UNCHANGED <<won, feedback>>
    BY <1>1, <1>3 DEF InsertFeedback
  <2> QED  BY <1>1, <2>1, UnseenOnBoard DEF Phases
<1> QED  BY <1>2, <1>3

\* The row a second apply reads is the page while the request is under way.
LEMMA LookOnBoard ==
    ASSUME IInv, [Next]_vars, NEW r \in Requests, Reread(r)
    PROVE  Board!Next
<1> USE DEF IInv, SuggestionTypeOK
<1>1. /\ InFlight(r) /\ r \notin won /\ pc[r] = "reread" /\ call[r].op = "apply"
      /\ status[Target(r)] = "applied"
      /\ UNCHANGED <<status, feedback, version, active, call, snap, won>>
  BY DEF Reread, InFlight, ControlInv, SeenInv, tables, page, history
<1>2. CASE active
  <2>1. base' = [base EXCEPT ![r] = version] /\ pc' = [pc EXCEPT ![r] = "fetch"]
    BY <1>2 DEF Reread, Goto
  <2>2. BoardPhase(r) = "open" /\ BoardPhase(r)' = "looked"
    BY <1>1, <2>1, UnderWay DEF BoardPhase, InFlight
  <2>3. VersionSeen(r)' = version
    BY <1>1, <2>1, <2>2 DEF VersionSeen
  <2>4. /\ Board!Goes(r, "looked")
        /\ \A q \in Requests \ {r} : VersionSeen(q)' = VersionSeen(q)
    BY <2>1, <2>2, MovesOnBoard
  <2>5. Board!Look(r)
    BY <1>1, <1>2, <2>2, <2>3, <2>4 DEF Board!Look, Board!Asks, Board!Found, Target
  <2> QED  BY <2>5 DEF Board!Next
<1>3. CASE ~active
  <2>1. Finish(r, "refused") /\ UNCHANGED base
    BY <1>3 DEF Reread
  <2> QED  BY <1>1, <2>1, RefusedOnBoard
<1> QED  BY <1>2, <1>3

\* A decision is read again: it was made, or another was, or an apply came first.
LEMMA ConfirmedOnBoard ==
    ASSUME IInv, ReasonsInv, [Next]_vars, NEW r \in Requests, Confirm(r)
    PROVE  Board!Next
<1> USE DEF IInv
<1>1. /\ InFlight(r) /\ pc[r] = "confirm" /\ call[r].op \in {"accept", "reject"}
      /\ UNCHANGED <<status, feedback, version, active, call, base, snap, won>>
  BY DEF Confirm, InFlight, ControlInv, tables, page, history
<1>2. CASE status[Target(r)] = Decision[call[r].op]
  <2>1. Finish(r, "ok")
    BY <1>2 DEF Confirm
  <2> QED  BY <1>1, <1>2, <2>1, AcknowledgedOnBoard
<1>3. CASE status[Target(r)] # Decision[call[r].op]
  <2>1. Finish(r, "conflict")
    BY <1>3 DEF Confirm
  <2>2. CASE r \notin won
    BY <1>1, <1>3, <2>1, <2>2, TurnedDownOnBoard DEF ReasonsInv
  <2>3. CASE r \in won
    <3>1. call[r].op = "accept" /\ status[Target(r)] = "applied"
      BY <1>1, <1>3, <2>3 DEF WonInv, Decision
    <3>2. BoardPhase(r) = "applied"
      BY <1>1, <2>3, UnderWay
    <3>3. /\ Board!Goes(r, "conflict")
          /\ \A q \in Requests : VersionSeen(q)' = VersionSeen(q)
      BY <1>1, <2>1, <3>1, <3>2, EndsOnBoard
    <3>4. Board!Overtaken(r)
      BY <1>1, <3>1, <3>2, <3>3 DEF Board!Overtaken, Board!Asks, Board!Found, Target
    <3> QED  BY <3>4 DEF Board!Next
  <2> QED  BY <2>2, <2>3
<1> QED  BY <1>2, <1>3

\* The reads that end a request, or that nobody sees.
LEMMA ReadOnBoard ==
    ASSUME IInv, ReasonsInv, [Next]_vars, NEW r \in Requests, ReadStep(r)
    PROVE  Board!Next \/ UNCHANGED Board!vars
<1> USE DEF IInv
<1>1. /\ InFlight(r) /\ (pc[r] \notin {"confirm", "reload", "again"} => r \notin won)
      /\ UNCHANGED <<status, feedback, version, active, call, won>>
  BY ReadIsQuiet DEF InFlight, ControlInv
<1>2. CASE Refuse(r)
  <2>1. Finish(r, "refused") /\ pc[r] \in {"find", "page"} /\ UNCHANGED base
    BY <1>2 DEF Refuse
  <2> QED  BY <1>1, <2>1, RefusedOnBoard
<1>3. CASE FindToDecide(r)
  <2>1. pc[r] = "find" /\ call[r].op \in {"accept", "reject"} /\ UNCHANGED <<base, snap>>
    BY <1>3 DEF FindToDecide
  <2>2. \/ Goto(r, "decide")
        \/ status[Target(r)] = Decision[call[r].op] /\ Finish(r, "ok")
        \/ /\ status[Target(r)] \notin {"proposed", Decision[call[r].op]}
           /\ Finish(r, "conflict")
    BY <1>3 DEF FindToDecide
  <2> QED  BY <1>1, <2>1, <2>2, UnseenOnBoard, AcknowledgedOnBoard, TurnedDownOnBoard DEF Phases
<1>4. CASE Confirm(r)
  BY <1>4, ConfirmedOnBoard
<1>5. CASE FindToApply(r)
  <2>1. pc[r] = "find" /\ call[r].op = "apply" /\ UNCHANGED <<base, snap>>
    BY <1>5 DEF FindToApply
  <2>2. \/ Goto(r, "reread") \/ Goto(r, "page")
        \/ status[Target(r)] \notin {"applied", "accepted"} /\ Finish(r, "conflict")
    BY <1>5 DEF FindToApply
  <2> QED  BY <1>1, <2>1, <2>2, UnseenOnBoard, TurnedDownOnBoard DEF Phases
<1>6. CASE FindPage(r)
  <2>1. pc[r] = "page" /\ call[r].op = "apply" /\ UNCHANGED snap
    BY <1>6 DEF FindPage, ControlInv
  <2>2. \/ Goto(r, "drive")
        \/ ~IsFresh(r) /\ Finish(r, "conflict") /\ UNCHANGED base
        \/ Finish(r, "refused") /\ UNCHANGED base
    BY <1>6 DEF FindPage
  <2> QED  BY <1>1, <2>1, <2>2, UnseenOnBoard, TurnedDownOnBoard, RefusedOnBoard DEF Phases
<1>7. CASE DriveUpdate(r)
  <2>1. pc[r] = "drive" /\ (Goto(r, "commit") \/ Finish(r, "port"))
    BY <1>7 DEF DriveUpdate
  <2> QED  BY <1>1, <2>1, UnseenOnBoard, FailsOnBoard DEF Phases
<1>8. CASE Reload(r)
  <2>1. pc[r] = "reload" /\ call[r].op = "apply" /\ r \in won /\ UNCHANGED <<base, snap>>
    BY <1>8 DEF Reload, ControlInv
  <2>2. PICK m \in moves : m.by = r
    BY <2>1 DEF WonInv
  <2>3. status[Target(r)] = "applied"
    BY <1>1, <2>2, UnderWay DEF MovesInv, AppliedWithThePage, AppliedBy, Target
  <2>4. Finish(r, "ok")
    BY <1>8, <2>3 DEF Reload
  <2> QED  BY <1>1, <2>1, <2>3, <2>4, AcknowledgedOnBoard
<1>9. CASE Reread(r)
  BY <1>9, LookOnBoard
<1>10. CASE Fetch(r)
  <2>1. /\ pc[r] = "fetch" /\ call[r].op = "apply" /\ r \notin won /\ UNCHANGED base
        /\ status[Target(r)] = "applied"
        /\ Finish(r, "ok") \/ Finish(r, "port")
    BY <1>10 DEF Fetch, ControlInv, SeenInv
  <2> QED  BY <1>1, <2>1, AcknowledgedOnBoard, FailsOnBoard
<1>11. CASE FindToComment(r)
  <2>1. pc[r] = "find" /\ Goto(r, "lookup")
    BY <1>11 DEF FindToComment
  <2> QED  BY <1>1, <2>1, UnseenOnBoard DEF Phases
<1>12. CASE FindFeedback(r)
  <2>1. /\ pc[r] = "lookup" /\ call[r].op = "feedback" /\ UNCHANGED <<base, snap>>
        /\ \/ NewFeedback(r) \in feedback /\ Finish(r, "ok")
           \/ Goto(r, "insert")
    BY <1>12 DEF FindFeedback, ControlInv
  <2> QED  BY <1>1, <2>1, UnseenOnBoard, AcknowledgedOnBoard DEF Phases
<1>13. CASE FindFeedbackAgain(r)
  <2>1. /\ pc[r] = "again" /\ call[r].op = "feedback" /\ NewFeedback(r) \in feedback
        /\ Finish(r, "ok") /\ UNCHANGED <<base, snap>>
    BY <1>13 DEF FindFeedbackAgain, ControlInv, SeenInv
  <2> QED  BY <1>1, <2>1, AcknowledgedOnBoard
<1>14. CASE Lose(r)
  <2>1. Finish(r, "lost") \/ Finish(r, "reconcile")
    BY <1>14 DEF Lose
  <2> QED  BY <1>1, <2>1, FailsOnBoard
<1> QED
  BY <1>2, <1>3, <1>4, <1>5, <1>6, <1>7, <1>8, <1>9, <1>10, <1>11, <1>12, <1>13, <1>14
     DEF ReadStep

LEMMA StepsOnBoard == IInv /\ ReasonsInv /\ [Next]_vars => [Board!Next]_(Board!vars)
<1> SUFFICES ASSUME IInv, ReasonsInv, [Next]_vars PROVE Board!Next \/ UNCHANGED Board!vars
  OBVIOUS
<1>1. ASSUME NEW r \in Requests, Step(r) PROVE Board!Next \/ UNCHANGED Board!vars
  <2>1. Arrive(r) \/ Decide(r) \/ Commit(r) \/ InsertFeedback(r) \/ ReadStep(r)
    BY <1>1 DEF Step, ReadStep
  <2> QED
    BY <2>1, ArrivalOnBoard, DecisionOnBoard, ApplyOnBoard, CommentOnBoard, ReadOnBoard
<1>2. CASE Restart
  <2> DEFINE gone == {r \in Requests : InFlight(r)}
             answers == [r \in Requests |-> "lost"]
  <2>1. gone \in SUBSET {r \in Requests : InFlight(r)}
    OBVIOUS
  <2>2. /\ answers \in [Requests -> {"port", "reconcile", "lost"}]
        /\ pc' = [r \in Requests |-> IF r \in gone THEN "done" ELSE pc[r]]
        /\ outcome' = [r \in Requests |-> IF r \in gone THEN answers[r] ELSE outcome[r]]
        /\ UNCHANGED <<status, feedback, version, active, call>>
    BY <1>2 DEF Restart, tables, page
  <2> HIDE DEF gone, answers
  <2> QED  BY <2>1, <2>2, FailedOnBoard
<1>3. CASE PageAdvances \/ PageDeleted \/ UNCHANGED vars
  <2>1. UNCHANGED <<status, feedback, call, pc>>
    BY <1>3 DEF PageAdvances, PageDeleted, vars, tables
  <2>2. \A r \in Requests : BoardPhase(r)' = BoardPhase(r) /\ VersionSeen(r)' = VersionSeen(r)
    BY <2>1, OthersOnBoard
  <2>3. CASE UNCHANGED vars
    BY <2>1, <2>2, <2>3 DEF Board!vars, vars, page
  <2>4. CASE PageAdvances \/ PageDeleted
    <3>1. Board!Elsewhere
      BY <2>1, <2>2, <2>4 DEF Board!Elsewhere, PageAdvances, PageDeleted
    <3> QED  BY <3>1 DEF Board!Next
  <2> QED  BY <1>3, <2>3, <2>4
<1> QED  BY <1>1, <1>2, <1>3 DEF Next

(***************************************************************************)
(* For any number of requests, suggestions and versions: the handlers,     *)
(* interleaved with each other and with the page's other writers and lost  *)
(* at any step, are a board on which each request acts in one step between *)
(* its arrival and its answer, an apply compares the page in the step that *)
(* moves it, and a second apply is answered with a version the page had    *)
(* meanwhile.                                                              *)
(***************************************************************************)
THEOREM SuggestionsAreABoard == Spec => ImplementsBoard
<1>1. Init => ReasonsInv
  BY DEF Init, ReasonsInv
<1>2. IInv /\ ReasonsInv /\ [Next]_vars => ReasonsInv'
  BY ReasonsStep
<1> QED  BY SuggestionsInductive, BoardInit, <1>1, <1>2, StepsOnBoard, PTL
         DEF Spec, Board!Spec, ImplementsBoard
=============================================================================
