-------------------------------- MODULE AiJob --------------------------------
(***************************************************************************)
(* The AI jobs of one workspace and the requests and workers that create,  *)
(* claim, complete, fail and cancel them.  Nobody owns a job: whoever      *)
(* knows its id may send any of these, any number at once, and a handler   *)
(* awaits between the statement that reads the job and the one that        *)
(* changes it.  A job for the page pins the version the page was at        *)
(* through its row in canvas_ai_job_source.                                *)
(***************************************************************************)
EXTENDS Naturals, FiniteSets

CONSTANTS
    Requests,      \* the requests, each handled once
    Calls,         \* the commands a request may carry
    Keys,          \* an operator with one of its idempotency keys
    Payloads,      \* what a job asks for, as its payload hash tells it apart
    PagePayloads,  \* those whose target is the page
    Results,       \* the sets of suggestions a worker may hand in
    MaxVersion,    \* bound: the last version the page gets
    None

Ops == {"create", "claim", "complete", "fail", "cancel"}

Call == [op : Ops, key : Keys, payload : Payloads, result : Results]

Statuses == {"queued", "running", "succeeded", "failed", "canceled"}

\* canvas_ai_job.  A key names its job: the unique index lets it have one.
Job == [payload : Payloads, status : Statuses]

Versions == 1..MaxVersion

\* canvas_ai_job_source: its primary key is made of the version alone.
Source == [version : Versions, key : Keys]

\* canvas_ai_suggestion, with the version of the source it was made from.
Suggestion == [key : Keys, result : Results, source : Versions \union {None}]

ASSUME JobAssumption ==
    /\ Calls \subseteq Call
    /\ PagePayloads \subseteq Payloads
    /\ MaxVersion \in Nat \ {0}
    /\ None \notin Job \union Calls \union Versions

VARIABLES
    job,          \* the job of each key, or None
    sources,      \* canvas_ai_job_source
    suggestions,  \* canvas_ai_suggestion
    version,      \* the page's current Drive version
    active,       \* the page's lifecycle_status is 'active'
    pc,           \* where the handler of a request is
    call,         \* the command a request carries
    pinned,       \* the source version the handler holds, or None
    outcome,      \* what the request was answered
    answer,       \* the job returned with the answer "ok"
    won           \* history: the requests whose statement changed a job

tables == <<job, sources, suggestions>>
page == <<version, active>>
vars == <<tables, page, pc, call, pinned, outcome, answer, won>>

Phases == {"idle", "key", "target", "insert", "refind", "find", "pages",
           "confirm", "change", "settle", "recheck", "reload", "done"}

(***************************************************************************)
(* "refused"   malformed, or the workspace, page or job is not there       *)
(* "conflict"  turned down because of what the job or its key is           *)
(* "lost"      a statement failed, the handler was dropped with its        *)
(*             connection, or the process went down: nobody was told       *)
(***************************************************************************)
Outcomes == {"none", "ok", "refused", "conflict", "lost"}

AiTypeOK ==
    /\ job \in [Keys -> Job \union {None}]
    /\ sources \in SUBSET Source
    /\ suggestions \in SUBSET Suggestion
    /\ version \in Versions
    /\ active \in BOOLEAN
    /\ pc \in [Requests -> Phases]
    /\ call \in [Requests -> Calls \union {None}]
    /\ pinned \in [Requests -> Versions \union {None}]
    /\ outcome \in [Requests -> Outcomes]
    /\ answer \in [Requests -> Job \union {None}]
    /\ won \in SUBSET Requests

\* The job an earlier request made for the page as it is now.
Queued(p) == [payload |-> p, status |-> "queued"]

\* The workspace has no job yet, or one that was made for the page.
Init ==
    /\ \/ job = [k \in Keys |-> None] /\ sources = {}
       \/ \E k \in Keys, p \in PagePayloads :
            /\ job = [i \in Keys |-> IF i = k THEN Queued(p) ELSE None]
            /\ sources = {[version |-> 1, key |-> k]}
    /\ suggestions = {}
    /\ version = 1
    /\ active = TRUE
    /\ pc = [r \in Requests |-> "idle"]
    /\ call = [r \in Requests |-> None]
    /\ pinned = [r \in Requests |-> None]
    /\ outcome = [r \in Requests |-> "none"]
    /\ answer = [r \in Requests |-> None]
    /\ won = {}

InFlight(r) == pc[r] \notin {"idle", "done"}

JobOf(r) == job[call[r].key]

\* The statuses the UPDATE of an operation accepts in its WHERE clause.
From == [claim |-> {"queued"}, cancel |-> {"queued", "running"},
         fail |-> {"running"}, complete |-> {"running"}]

\* Mutant: the status is not the one the table's CHECK lists.
ToMisspelt == [claim |-> "running", cancel |-> "cancelled",
               fail |-> "failed", complete |-> "succeeded"]

\* The status it sets.
To == [claim |-> "running", cancel |-> "canceled",
       fail |-> "failed", complete |-> "succeeded"]

-----------------------------------------------------------------------------
Goto(r, phase) ==
    /\ pc' = [pc EXCEPT ![r] = phase]
    /\ UNCHANGED <<outcome, answer>>

Finish(r, what) ==
    /\ pc' = [pc EXCEPT ![r] = "done"]
    /\ outcome' = [outcome EXCEPT ![r] = what]
    /\ UNCHANGED answer

AnswerJob(r) ==
    /\ pc' = [pc EXCEPT ![r] = "done"]
    /\ outcome' = [outcome EXCEPT ![r] = "ok"]
    /\ answer' = [answer EXCEPT ![r] = JobOf(r)]

Arrive(r) ==
    /\ pc[r] = "idle"
    /\ \E c \in Calls :
         /\ call' = [call EXCEPT ![r] = c]
         /\ Goto(r, IF c.op = "create" THEN "key" ELSE "find")
    /\ UNCHANGED <<tables, page, pinned, won>>

\* Malformed input, no such workspace, a suggestion for a page that is not
\* a source of the job: grounds this module keeps no state for.
Refuse(r) ==
    /\ pc[r] \in {"key", "target", "find", "pages"}
    /\ Finish(r, "refused")
    /\ UNCHANGED <<tables, page, call, pinned, won>>

\* Mutant: the payload hash is not compared.
IsReplayByKey(r) == TRUE

IsReplay(r) == JobOf(r).payload = call[r].payload

\* create_ai_job, find_ai_job_by_idempotency_key.
FindKey(r) ==
    /\ pc[r] = "key"
    /\ \/ JobOf(r) = None /\ Goto(r, "target")
       \/ JobOf(r) # None /\ IsReplay(r) /\ AnswerJob(r)
       \/ JobOf(r) # None /\ ~IsReplay(r) /\ Finish(r, "conflict")
    /\ UNCHANGED <<tables, page, call, pinned, won>>

\* find_workspace and ai_job_sources_for_target.
FindTarget(r) ==
    /\ pc[r] = "target"
    /\ \/ /\ call[r].payload \notin PagePayloads
          /\ Goto(r, "insert")
          /\ UNCHANGED pinned
       \/ /\ call[r].payload \in PagePayloads
          /\ active
          /\ pinned' = [pinned EXCEPT ![r] = version]
          /\ Goto(r, "insert")
       \/ /\ call[r].payload \in PagePayloads
          /\ ~active
          /\ Finish(r, "refused")
          /\ UNCHANGED pinned
    /\ UNCHANGED <<tables, page, call, won>>

SourceRows(r) ==
    IF pinned[r] = None THEN {} ELSE {[version |-> pinned[r], key |-> call[r].key]}

\* The primary key of canvas_ai_job_source, which leaves the job out.
SourceIsFree(r) == \A s \in sources : s.version # pinned[r]

\* insert_ai_job: the job and its sources, or neither.
InsertJob(r) ==
    /\ pc[r] = "insert"
    /\ IF JobOf(r) = None /\ SourceIsFree(r)
       THEN /\ job' = [job EXCEPT ![call[r].key] = Queued(call[r].payload)]
            /\ sources' = sources \union SourceRows(r)
            /\ won' = won \union {r}
            /\ Goto(r, "reload")
       ELSE Goto(r, "refind") /\ UNCHANGED <<job, sources, won>>
    /\ UNCHANGED <<suggestions, page, call, pinned>>

\* A Conflict of insert_ai_job is taken for the same key's race.
FindKeyAgain(r) ==
    /\ pc[r] = "refind"
    /\ IF JobOf(r) # None /\ IsReplay(r) THEN AnswerJob(r) ELSE Finish(r, "conflict")
    /\ UNCHANGED <<tables, page, call, pinned, won>>

-----------------------------------------------------------------------------
\* Mutant: a claim that finds the job running is answered with it too.
IsDoneByAnyone(r) == JobOf(r).status = To[call[r].op]

\* A second cancel, and a second report of failure, are answered with the job.
IsDone(r) == call[r].op \in {"cancel", "fail"} /\ JobOf(r).status = To[call[r].op]

\* What the handler holds of the job's sources.
PinnedBy(k) ==
    IF \E s \in sources : s.key = k
    THEN (CHOOSE s \in sources : s.key = k).version ELSE None

\* find_ai_job; complete_ai_job lists the sources next, which never change.
FindJob(r) ==
    /\ pc[r] = "find"
    /\ \/ /\ JobOf(r) = None
          /\ Finish(r, "refused")
          /\ UNCHANGED pinned
       \/ /\ JobOf(r) # None
          /\ JobOf(r).status \in From[call[r].op]
          /\ IF call[r].op = "complete"
             THEN /\ pinned' = [pinned EXCEPT ![r] = PinnedBy(call[r].key)]
                  /\ Goto(r, "pages")
             ELSE Goto(r, "change") /\ UNCHANGED pinned
       \/ /\ JobOf(r) # None
          /\ JobOf(r).status \notin From[call[r].op]
          /\ IF IsDone(r) THEN AnswerJob(r) ELSE Finish(r, "conflict")
          /\ UNCHANGED pinned
    /\ UNCHANGED <<tables, page, call, won>>

\* Mutant: the UPDATE relies on the status read before.
StatusUnchecked(r) == TRUE

\* The WHERE clause of the UPDATE.
StatusAllows(r) == JobOf(r).status \in From[call[r].op]

SetStatus(r) ==
    job' = [job EXCEPT ![call[r].key].status = To[call[r].op]]

\* claim_ai_job, cancel_ai_job and fail_ai_job: compare and swap.
ChangeStatus(r) ==
    /\ pc[r] = "change"
    /\ IF StatusAllows(r)
       THEN /\ SetStatus(r)
            /\ won' = won \union {r}
            /\ Goto(r, "reload")
       ELSE /\ IF call[r].op = "fail" THEN Finish(r, "conflict") ELSE Goto(r, "recheck")
            /\ UNCHANGED <<job, won>>
    /\ UNCHANGED <<sources, suggestions, page, call, pinned>>

\* No row was changed: the job is read again to say why.
Recheck(r) ==
    /\ pc[r] = "recheck"
    /\ IF IsDone(r) THEN AnswerJob(r) ELSE Finish(r, "conflict")
    /\ UNCHANGED <<tables, page, call, pinned, won>>

-----------------------------------------------------------------------------
\* complete_ai_job, find_page for the page of each suggestion.
FindPages(r) ==
    /\ pc[r] = "pages"
    /\ IF active THEN Goto(r, "confirm") ELSE Finish(r, "refused")
    /\ UNCHANGED <<tables, page, call, pinned, won>>

\* The store's complete_ai_job reads the job once more.
ConfirmRunning(r) ==
    /\ pc[r] = "confirm"
    /\ IF JobOf(r).status = "running" THEN Goto(r, "settle") ELSE Finish(r, "conflict")
    /\ UNCHANGED <<tables, page, call, pinned, won>>

NewSuggestion(r) ==
    [key |-> call[r].key, result |-> call[r].result, source |-> pinned[r]]

\* The primary key of canvas_ai_suggestion.
SuggestionIsNew(r) ==
    \A s \in suggestions : ~(s.key = call[r].key /\ s.result = call[r].result)

\* Mutant: the suggestions outlive the transaction that is given up.
SettleLoosely(r) ==
    /\ pc[r] = "settle"
    /\ suggestions' = suggestions \union {NewSuggestion(r)}
    /\ IF StatusAllows(r)
       THEN SetStatus(r) /\ won' = won \union {r} /\ Goto(r, "reload")
       ELSE Finish(r, "conflict") /\ UNCHANGED <<job, won>>
    /\ UNCHANGED <<sources, page, call, pinned>>

\* One transaction: the suggestions and 'succeeded', or neither.
Settle(r) ==
    /\ pc[r] = "settle"
    /\ IF SuggestionIsNew(r) /\ StatusAllows(r)
       THEN /\ suggestions' = suggestions \union {NewSuggestion(r)}
            /\ SetStatus(r)
            /\ won' = won \union {r}
            /\ Goto(r, "reload")
       ELSE Finish(r, "conflict") /\ UNCHANGED <<job, suggestions, won>>
    /\ UNCHANGED <<sources, page, call, pinned>>

\* The statement that reads the job back for the answer.
Reload(r) ==
    /\ pc[r] = "reload"
    /\ AnswerJob(r)
    /\ UNCHANGED <<tables, page, call, pinned, won>>

-----------------------------------------------------------------------------
\* A statement fails, or the handler is dropped at an await: nothing more is
\* changed, and an open transaction is rolled back.
Lose(r) ==
    /\ InFlight(r)
    /\ Finish(r, "lost")
    /\ UNCHANGED <<tables, page, call, pinned, won>>

\* The process restarts: the handlers are lost, the database is not.
Restart ==
    /\ \E r \in Requests : InFlight(r)
    /\ pc' = [r \in Requests |-> IF InFlight(r) THEN "done" ELSE pc[r]]
    /\ outcome' = [r \in Requests |-> IF InFlight(r) THEN "lost" ELSE outcome[r]]
    /\ UNCHANGED <<tables, page, call, pinned, answer, won>>

\* What other requests do to the page (PageContent).
PageAdvances ==
    /\ active /\ version < MaxVersion
    /\ version' = version + 1
    /\ UNCHANGED <<tables, active, pc, call, pinned, outcome, answer, won>>

PageDeleted ==
    /\ active
    /\ active' = FALSE
    /\ UNCHANGED <<tables, version, pc, call, pinned, outcome, answer, won>>

Step(r) ==
    \/ Arrive(r) \/ Refuse(r)
    \/ FindKey(r) \/ FindTarget(r) \/ InsertJob(r) \/ FindKeyAgain(r)
    \/ FindJob(r) \/ ChangeStatus(r) \/ Recheck(r)
    \/ FindPages(r) \/ ConfirmRunning(r) \/ Settle(r) \/ Reload(r) \/ Lose(r)

Next == Restart \/ PageAdvances \/ PageDeleted \/ \E r \in Requests : Step(r)

Spec == Init /\ [][Next]_vars
-----------------------------------------------------------------------------
Winners(ops, k) == {r \in won : call[r].op \in ops /\ call[r].key = k}

StatusIs(k, S) == job[k] # None /\ job[k].status \in S

(***************************************************************************)
(* However many workers race, a job is claimed by one of them and ended by *)
(* one request: at most one claim takes effect, at most one of complete,   *)
(* fail and cancel does, and a job that ran was claimed (claim_ai_job's    *)
(* status='queued', "AI job is already running").                          *)
(***************************************************************************)
OneClaimOneEnd ==
    \A k \in Keys :
        /\ \A q, r \in Winners({"claim"}, k) : q = r
        /\ \A q, r \in Winners({"complete", "fail", "cancel"}, k) : q = r
        /\ StatusIs(k, {"running", "succeeded", "failed"}) => Winners({"claim"}, k) # {}

(***************************************************************************)
(* A job has suggestions exactly when it succeeded, all of them are those  *)
(* of the one completion that took effect, and they name the version the   *)
(* job's source pinned: a completion that lost to a cancel, a failure or   *)
(* another completion leaves none (complete_ai_job's transaction).         *)
(***************************************************************************)
SuggestionsComeWithSuccess ==
    /\ \A k \in Keys :
          StatusIs(k, {"succeeded"}) <=> \E s \in suggestions : s.key = k
    /\ \A s \in suggestions :
          /\ \E r \in Winners({"complete"}, s.key) : s.result = call[r].result
          /\ s.source = PinnedBy(s.key)
          /\ \A t \in suggestions : t.key = s.key => t = s

(***************************************************************************)
(* A create that is sent again with its key is answered with the job the   *)
(* first one made, a different request under that key is never answered    *)
(* with it, and at most one create makes the job however many race for it. *)
(***************************************************************************)
ReplayFindsItsJob ==
    /\ \A k \in Keys : \A q, r \in Winners({"create"}, k) : q = r
    /\ \A r \in Requests :
          outcome[r] = "ok" /\ call[r].op = "create" =>
              /\ answer[r].payload = call[r].payload
              /\ JobOf(r) # None /\ JobOf(r).payload = call[r].payload

(***************************************************************************)
(* The answer is true of the job: a claim, completion, failure or cancel   *)
(* is acknowledged only if the job got that status by this very request,   *)
(* or for the two that may be repeated has it; one that was turned down    *)
(* changed nothing.                                                        *)
(***************************************************************************)
AnswerMatchesJob ==
    \A r \in Requests :
        /\ outcome[r] = "ok" /\ call[r].op \in {"claim", "complete"} => r \in won
        /\ outcome[r] = "ok" /\ call[r].op \in {"complete", "fail", "cancel"} =>
              JobOf(r).status = To[call[r].op] /\ answer[r] = JobOf(r)
        /\ outcome[r] \in {"refused", "conflict"} => r \notin won

\* How far a request is for who sent it.
BoardPhase(r) ==
    CASE pc[r] = "idle" -> "idle"
      [] pc[r] = "done" -> IF outcome[r] = "ok" THEN "answered" ELSE outcome[r]
      [] InFlight(r) -> IF r \in won THEN "applied" ELSE "open"

Board == INSTANCE JobBoard WITH
    Clients <- Requests,
    board <- job,
    handed <- {[key |-> s.key, result |-> s.result] : s \in suggestions},
    phase <- [r \in Requests |-> BoardPhase(r)],
    request <- call,
    reply <- answer

(***************************************************************************)
(* The handlers, each of several statements with awaits between them,      *)
(* implement the board: a request takes effect once and between its        *)
(* arrival and its answer, one answered "ok" without taking effect found   *)
(* done what it asks for, and one that is turned down is turned down for a *)
(* reason that holds when it is told.                                      *)
(***************************************************************************)
ImplementsBoard == Board!Spec

(***************************************************************************)
(* What a Conflict says to who creates a job: "idempotency key was already *)
(* used for a different AI job request" (service.rs).  Two jobs for the    *)
(* page at one version collide in canvas_ai_job_source all the same.       *)
(***************************************************************************)
ConflictMeansKeyIsTaken ==
    \A r \in Requests :
        outcome[r] = "conflict" /\ call[r].op = "create" =>
            JobOf(r) # None /\ ~IsReplay(r)
=============================================================================
