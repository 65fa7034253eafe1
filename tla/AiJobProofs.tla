----------------------------- MODULE AiJobProofs -----------------------------
(***************************************************************************)
(* The safety of AiJob for every number of requests, keys and versions.    *)
(* The inductive invariant says where a handler can be (ControlInv), what  *)
(* the job still shows of every request that changed it (JobsInv), what    *)
(* the two tables beside it hold (SourcesInv, ResultsInv) and that an      *)
(* answer given stays true (AnswersInv).  From it, and from what a handler *)
(* remembers of a request that came to nothing (ReasonsInv), each step is  *)
(* one of JobBoard or none.                                                *)
(***************************************************************************)
EXTENDS AiJob, TLAPS

(***************************************************************************)
(* Every job for the page, and no other, has its source row, and a version *)
(* is pinned by one job: insert_ai_job writes both tables or neither.      *)
(***************************************************************************)
PageJobsHaveTheirSource ==
    /\ \A k \in Keys :
          (\E s \in sources : s.key = k)
             <=> (job[k] # None /\ job[k].payload \in PagePayloads)
    /\ \A s, t \in sources : s.key = t.key \/ s.version = t.version => s = t

(***************************************************************************)
(* A job moves only from queued to running, from running to an end, or     *)
(* from either to canceled, keeps its payload, and what has ended stays.   *)
(***************************************************************************)
JobsOnlyGoForward ==
    [][ \A k \in Keys : job'[k] # job[k] =>
          \/ job[k] = None /\ job'[k].status = "queued"
          \/ /\ job[k] # None /\ job'[k] # None
             /\ job'[k].payload = job[k].payload
             /\ <<job[k].status, job'[k].status>> \in
                  ({"queued"} \X {"running", "canceled"})
                     \union ({"running"} \X {"succeeded", "failed", "canceled"}) ]_job

\* The command a handler carries and the job it has seen, by its place.
ControlInv ==
    \A r \in Requests :
        /\ pc[r] = "idle" <=> call[r] = None
        /\ pc[r] = "done" <=> outcome[r] # "none"
        /\ pc[r] \in {"key", "target", "insert", "refind"} => call[r].op = "create"
        /\ pc[r] = "find" => call[r].op \in Ops \ {"create"}
        /\ pc[r] = "change" => call[r].op \in {"claim", "cancel", "fail"}
        /\ pc[r] = "recheck" => call[r].op \in {"claim", "cancel"}
        /\ pc[r] \in {"pages", "confirm", "settle"} => call[r].op = "complete"
        /\ pc[r] \in {"pages", "confirm", "settle", "change", "recheck", "reload"} =>
             JobOf(r) # None
        /\ pc[r] = "reload" => r \in won
        /\ r \in won => /\ pc[r] \in {"reload", "done"}
                        /\ outcome[r] \in {"none", "ok", "lost"}

\* What a request did to its job is still to be seen in the job.
JobsInv ==
    /\ \A r \in won :
         /\ JobOf(r) # None
         /\ call[r].op = "create" => JobOf(r).payload = call[r].payload
         /\ call[r].op = "claim" => JobOf(r).status # "queued"
         /\ call[r].op \in {"complete", "fail", "cancel"} =>
              JobOf(r).status = To[call[r].op]
    /\ \A q, r \in won :
         call[q].key = call[r].key /\ call[q].op = "create" /\ call[r].op = "create" => q = r
    /\ OneClaimOneEnd

\* The source a create is about to write.
SourcesInv ==
    /\ PageJobsHaveTheirSource
    /\ \A r \in Requests :
         /\ pc[r] \in {"idle", "key", "target"} => pinned[r] = None
         /\ pc[r] = "insert" => (pinned[r] # None <=> call[r].payload \in PagePayloads)

\* The source a completion holds is its job's.
ResultsInv ==
    /\ SuggestionsComeWithSuccess
    /\ \A r \in Requests : pc[r] \in {"pages", "confirm", "settle"} =>
                             pinned[r] = PinnedBy(call[r].key)

\* An answer was true when given and is true now.
AnswersInv ==
    \A r \in Requests : outcome[r] = "ok" =>
        /\ JobOf(r) # None
        /\ call[r].op = "create" => /\ answer[r].payload = call[r].payload
                                    /\ JobOf(r).payload = call[r].payload
        /\ call[r].op \in {"claim", "complete"} => r \in won
        /\ call[r].op \in {"complete", "fail", "cancel"} =>
             /\ JobOf(r).status = To[call[r].op]
             /\ answer[r] = JobOf(r)

\* The steps of a handler that read, or end it, and change no table.
ReadStep(r) ==
    \/ Refuse(r) \/ FindKey(r) \/ FindTarget(r) \/ FindKeyAgain(r)
    \/ FindJob(r) \/ Recheck(r) \/ FindPages(r) \/ ConfirmRunning(r)
    \/ Reload(r) \/ Lose(r)

IInv == AiTypeOK /\ ControlInv /\ JobsInv /\ SourcesInv /\ ResultsInv /\ AnswersInv
-----------------------------------------------------------------------------
LEMMA FromTo ==
    /\ From["claim"] = {"queued"} /\ From["cancel"] = {"queued", "running"}
    /\ From["fail"] = {"running"} /\ From["complete"] = {"running"}
    /\ To["claim"] = "running" /\ To["cancel"] = "canceled"
    /\ To["fail"] = "failed" /\ To["complete"] = "succeeded"
  BY DEF From, To

LEMMA JobFields ==
    ASSUME NEW j \in Job
    PROVE  /\ j # None
           /\ j.payload \in Payloads
           /\ j.status \in Statuses
           /\ \A s \in Statuses : [j EXCEPT !.status = s] \in Job
           /\ \A s \in Statuses : [j EXCEPT !.status = s].status = s
           /\ \A s \in Statuses : [j EXCEPT !.status = s].payload = j.payload
  BY JobAssumption DEF Job

LEMMA CallFields ==
    ASSUME NEW c \in Calls
    PROVE  /\ c # None
           /\ c.op \in Ops
           /\ c.key \in Keys
           /\ c.payload \in Payloads
           /\ c.result \in Results
  BY JobAssumption DEF Call

LEMMA QueuedIsJob ==
    ASSUME NEW p \in Payloads
    PROVE  /\ Queued(p) \in Job
           /\ Queued(p).payload = p
           /\ Queued(p).status = "queued"
  BY DEF Queued, Job, Statuses

LEMMA InitInv == Init => IInv
<1> SUFFICES ASSUME Init PROVE IInv
  OBVIOUS
<1> USE JobAssumption DEF Init
<1>1. AiTypeOK
  <2>1. \A p \in PagePayloads : Queued(p) \in Job
    BY QueuedIsJob
  <2> QED  BY <2>1 DEF AiTypeOK, Phases, Outcomes, Versions, Source
<1>2. ControlInv
  BY DEF ControlInv
<1>3. \A k \in Keys : StatusIs(k, Statuses) => StatusIs(k, {"queued"})
  BY QueuedIsJob DEF StatusIs
<1>4. JobsInv
  <2>1. \A k \in Keys : ~ StatusIs(k, {"running", "succeeded", "failed"})
    BY <1>3 DEF StatusIs, Statuses
  <2> QED  BY <2>1 DEF JobsInv, OneClaimOneEnd, Winners
<1>5. SourcesInv
  <2>1. \A p \in PagePayloads : Queued(p) # None /\ Queued(p).payload = p
    BY QueuedIsJob, JobFields
  <2>2. PageJobsHaveTheirSource
    <3>1. CASE job = [k \in Keys |-> None] /\ sources = {}
      BY <3>1 DEF PageJobsHaveTheirSource
    <3>2. ASSUME NEW k \in Keys, NEW p \in PagePayloads,
                 job = [i \in Keys |-> IF i = k THEN Queued(p) ELSE None],
                 sources = {[version |-> 1, key |-> k]}
          PROVE  PageJobsHaveTheirSource
      BY <2>1, <3>2 DEF PageJobsHaveTheirSource
    <3> QED  BY <3>1, <3>2
  <2> QED  BY <2>2 DEF SourcesInv
<1>6. ResultsInv
  BY <1>3 DEF ResultsInv, SuggestionsComeWithSuccess, StatusIs, Statuses
<1>7. AnswersInv
  BY DEF AnswersInv
<1> QED  BY <1>1, <1>2, <1>4, <1>5, <1>6, <1>7 DEF IInv

LEMMA TypeStep == IInv /\ [Next]_vars => AiTypeOK'
<1> SUFFICES ASSUME IInv, [Next]_vars PROVE AiTypeOK'
  OBVIOUS
<1> USE JobAssumption
    DEF IInv, AiTypeOK, Phases, Outcomes, tables, page, Goto, Finish, AnswerJob, JobOf
<1>1. ASSUME NEW r \in Requests, Arrive(r) PROVE AiTypeOK'
  BY <1>1 DEF Arrive
<1>2. ASSUME NEW r \in Requests, ReadStep(r) PROVE AiTypeOK'
  <2>1. pc[r] # "idle" => call[r] \in Calls /\ call[r].key \in Keys
    BY CallFields DEF ControlInv
  <2>2. CASE FindKey(r) \/ FindKeyAgain(r) \/ Recheck(r) \/ Reload(r)
    BY <2>1, <2>2 DEF FindKey, FindKeyAgain, Recheck, Reload, IsReplay, IsDone, ControlInv
  <2>3. CASE FindTarget(r) \/ FindPages(r) \/ ConfirmRunning(r) \/ Refuse(r) \/ Lose(r)
    BY <2>3 DEF FindTarget, FindPages, ConfirmRunning, Refuse, Lose
  <2>4. CASE FindJob(r)
    <3>1. PinnedBy(call[r].key) \in Versions \union {None}
      BY DEF PinnedBy, Source
    <3> QED  BY <2>1, <2>4, <3>1 DEF FindJob
  <2> QED  BY <1>2, <2>2, <2>3, <2>4 DEF ReadStep
<1>3. ASSUME NEW r \in Requests, InsertJob(r) PROVE AiTypeOK'
  <2>1. call[r] \in Calls /\ call[r].key \in Keys /\ Queued(call[r].payload) \in Job
    BY <1>3, CallFields, QueuedIsJob DEF InsertJob, ControlInv
  <2>2. SourceRows(r) \in SUBSET Source
    BY <2>1 DEF SourceRows, Source
  <2> QED  BY <1>3, <2>1, <2>2 DEF InsertJob
<1>4. ASSUME NEW r \in Requests, ChangeStatus(r) \/ Settle(r) PROVE AiTypeOK'
  <2>1. /\ call[r] \in Calls
        /\ call[r].key \in Keys
        /\ call[r].result \in Results
        /\ call[r].op \in {"claim", "cancel", "fail", "complete"}
        /\ job[call[r].key] \in Job
    BY <1>4, CallFields DEF ChangeStatus, Settle, ControlInv
  <2>2. To[call[r].op] \in Statuses
    BY <2>1, FromTo DEF Statuses
  <2>3. SetStatus(r) => job' \in [Keys -> Job \union {None}]
    BY <2>1, <2>2, JobFields DEF SetStatus
  <2>4. NewSuggestion(r) \in Suggestion
    BY <2>1 DEF NewSuggestion, Suggestion
  <2> QED  BY <1>4, <2>3, <2>4 DEF ChangeStatus, Settle
<1>5. CASE Restart
  BY <1>5 DEF Restart
<1>6. CASE PageAdvances \/ PageDeleted
  <2>1. version < MaxVersion => version + 1 \in Versions
    BY DEF Versions
  <2>2. version' \in Versions /\ active' \in BOOLEAN
    BY <1>6, <2>1 DEF PageAdvances, PageDeleted
  <2> QED  BY <1>6, <2>2 DEF PageAdvances, PageDeleted
<1>7. CASE UNCHANGED vars
  BY <1>7 DEF vars
<1> QED
  BY <1>1, <1>2, <1>3, <1>4, <1>5, <1>6, <1>7 DEF Next, Step, ReadStep

LEMMA ControlStep == IInv /\ [Next]_vars => ControlInv'
<1> SUFFICES ASSUME IInv, [Next]_vars PROVE ControlInv'
  OBVIOUS
<1> USE JobAssumption
    DEF IInv, AiTypeOK, Phases, Outcomes, tables, page, Goto, Finish, AnswerJob, JobOf,
        ControlInv
<1>1. ASSUME NEW r \in Requests, Arrive(r) PROVE ControlInv'
  <2>1. PICK c \in Calls :
          /\ call' = [call EXCEPT ![r] = c]
          /\ Goto(r, IF c.op = "create" THEN "key" ELSE "find")
    BY <1>1 DEF Arrive
  <2>2. c # None /\ c.op \in Ops
    BY CallFields
  <2> QED  BY <1>1, <2>1, <2>2 DEF Arrive
<1>2. ASSUME NEW r \in Requests, ReadStep(r) PROVE ControlInv'
  <2>1. CASE FindKey(r) \/ FindKeyAgain(r) \/ Reload(r)
    BY <2>1 DEF FindKey, FindKeyAgain, Reload
  <2>2. CASE FindTarget(r) \/ FindPages(r) \/ ConfirmRunning(r)
    BY <2>2 DEF FindTarget, FindPages, ConfirmRunning
  <2>3. CASE Refuse(r) \/ Lose(r) \/ Recheck(r)
    BY <2>3 DEF Refuse, Lose, InFlight, Recheck
  <2>4. CASE FindJob(r)
    BY <2>4 DEF FindJob, Ops
  <2> QED  BY <1>2, <2>1, <2>2, <2>3, <2>4 DEF ReadStep
<1>3. ASSUME NEW r \in Requests, InsertJob(r) PROVE ControlInv'
  <2>1. call[r] \in Calls /\ call[r].key \in Keys /\ Queued(call[r].payload) # None
    BY <1>3, CallFields, QueuedIsJob, JobFields DEF InsertJob
  <2>2. \A q \in Requests : pc[q] # "idle" => call[q].key \in Keys
    BY CallFields
  <2> QED  BY <1>3, <2>1, <2>2 DEF InsertJob
<1>4. ASSUME NEW r \in Requests, ChangeStatus(r) \/ Settle(r) PROVE ControlInv'
  <2>1. /\ call[r] \in Calls
        /\ call[r].key \in Keys
        /\ call[r].op \in {"claim", "cancel", "fail", "complete"}
        /\ job[call[r].key] \in Job
    BY <1>4, CallFields DEF ChangeStatus, Settle
  <2>2. To[call[r].op] \in Statuses
    BY <2>1, FromTo DEF Statuses
  <2>3. SetStatus(r) => \A k \in Keys : job[k] # None => job'[k] # None
    BY <2>1, <2>2, JobFields DEF SetStatus
  <2>4. \A q \in Requests : pc[q] # "idle" => call[q].key \in Keys
    BY CallFields
  <2>5. CASE ChangeStatus(r)
    BY <2>1, <2>3, <2>4, <2>5 DEF ChangeStatus
  <2>6. CASE Settle(r)
    BY <2>1, <2>3, <2>4, <2>6 DEF Settle
  <2> QED  BY <1>4, <2>5, <2>6
<1>5. CASE Restart
  BY <1>5 DEF Restart, InFlight
<1>6. CASE PageAdvances \/ PageDeleted
  BY <1>6 DEF PageAdvances, PageDeleted
<1>7. CASE UNCHANGED vars
  BY <1>7 DEF vars
<1> QED
  BY <1>1, <1>2, <1>3, <1>4, <1>5, <1>6, <1>7 DEF Next, Step, ReadStep

\* Where the status of a job can go in one step of a handler.
LEMMA StatusMoves ==
    ASSUME IInv, NEW r \in Requests, ChangeStatus(r) \/ Settle(r),
           StatusAllows(r), SetStatus(r)
    PROVE  /\ call[r] \in Calls
           /\ call[r].key \in Keys
           /\ call[r].op \in {"claim", "cancel", "fail", "complete"}
           /\ job[call[r].key] \in Job
           /\ job[call[r].key].status \in {"queued", "running"}
           /\ call[r].op \in {"complete", "fail"} =>
                job[call[r].key].status = "running"
           /\ call[r].op = "claim" => job[call[r].key].status = "queued"
           /\ To[call[r].op] \in Statuses
           /\ job'[call[r].key] \in Job
           /\ job'[call[r].key].status = To[call[r].op]
           /\ job'[call[r].key].payload = job[call[r].key].payload
           /\ \A k \in Keys : k # call[r].key => job'[k] = job[k]
           /\ r \notin won
<1> USE JobAssumption DEF IInv, AiTypeOK, JobOf, ControlInv
<1>1. /\ call[r] \in Calls
      /\ call[r].key \in Keys
      /\ call[r].op \in {"claim", "cancel", "fail", "complete"}
      /\ job[call[r].key] \in Job
      /\ r \notin won
  BY CallFields DEF ChangeStatus, Settle
<1>2. To[call[r].op] \in Statuses
  BY <1>1, FromTo DEF Statuses
<1>3. job[call[r].key].status \in From[call[r].op]
  BY DEF StatusAllows
<1>4. /\ job' = [job EXCEPT ![call[r].key] =
                   [job[call[r].key] EXCEPT !.status = To[call[r].op]]]
  BY DEF SetStatus
<1>5. /\ job'[call[r].key] = [job[call[r].key] EXCEPT !.status = To[call[r].op]]
      /\ \A k \in Keys : k # call[r].key => job'[k] = job[k]
  BY <1>1, <1>4
<1> QED  BY <1>1, <1>2, <1>3, <1>5, FromTo, JobFields

LEMMA JobsStep == IInv /\ [Next]_vars => JobsInv'
<1> SUFFICES ASSUME IInv, [Next]_vars PROVE JobsInv'
  OBVIOUS
<1> USE JobAssumption
    DEF IInv, AiTypeOK, Outcomes, tables, page, JobsInv, OneClaimOneEnd, Winners,
        StatusIs, JobOf
<1>1. ASSUME NEW r \in Requests, Arrive(r) PROVE JobsInv'
  <2>1. r \notin won
    BY <1>1 DEF Arrive, ControlInv
  <2> QED  BY <1>1, <2>1 DEF Arrive
<1>2. ASSUME NEW r \in Requests, ReadStep(r) PROVE JobsInv'
  <2>1. UNCHANGED <<job, call, won>>
    BY <1>2 DEF ReadStep, FindKey, FindTarget, FindKeyAgain, FindJob, Recheck, FindPages,
                ConfirmRunning, Reload, Refuse, Lose
  <2> QED  BY <2>1
<1>3. ASSUME NEW r \in Requests, InsertJob(r) PROVE JobsInv'
  <2>1. CASE JobOf(r) = None /\ SourceIsFree(r)
    <3>1. /\ call[r].key \in Keys
          /\ call[r].op = "create"
          /\ Queued(call[r].payload) \in Job
          /\ Queued(call[r].payload).payload = call[r].payload
          /\ Queued(call[r].payload).status = "queued"
      BY <1>3, CallFields, QueuedIsJob DEF InsertJob, ControlInv
    <3>2. /\ job' = [job EXCEPT ![call[r].key] = Queued(call[r].payload)]
          /\ won' = won \union {r}
          /\ UNCHANGED call
      BY <1>3, <2>1 DEF InsertJob
    <3>3. \A q \in won : call[q].key \in Keys /\ call[q].key # call[r].key
      BY <2>1, CallFields DEF ControlInv
    <3> QED  BY <3>1, <3>2, <3>3
  <2>2. CASE ~ (JobOf(r) = None /\ SourceIsFree(r))
    BY <1>3, <2>2 DEF InsertJob
  <2> QED  BY <2>1, <2>2
<1>4. ASSUME NEW r \in Requests, ChangeStatus(r) \/ Settle(r) PROVE JobsInv'
  <2>1. CASE UNCHANGED <<job, won>>
    BY <1>4, <2>1 DEF ChangeStatus, Settle
  <2>2. CASE StatusAllows(r) /\ SetStatus(r) /\ won' = won \union {r}
    <3>1. UNCHANGED call
      BY <1>4 DEF ChangeStatus, Settle
    <3>2. \A q \in won : call[q] \in Calls /\ call[q].key \in Keys /\ call[q].op \in Ops
      BY CallFields DEF ControlInv
    <3>3. /\ \A q \in won : call[q].key = call[r].key =>
                            call[q].op \notin {"complete", "fail", "cancel"}
          /\ call[r].op = "claim" =>
               \A q \in won : call[q].key = call[r].key => call[q].op # "claim"
      BY <1>4, <2>2, StatusMoves, FromTo
    <3>4. \A q \in won' : /\ job'[call'[q].key] # None
                          /\ call'[q].op = "create" =>
                               job'[call'[q].key].payload = call'[q].payload
                          /\ call'[q].op = "claim" =>
                               job'[call'[q].key].status # "queued"
                          /\ call'[q].op \in {"complete", "fail", "cancel"} =>
                               job'[call'[q].key].status = To[call'[q].op]
      BY <1>4, <2>2, <3>1, <3>2, <3>3, StatusMoves, FromTo, JobFields
    <3>5. \A k \in Keys : StatusIs(k, {"running", "succeeded", "failed"})' =>
                             \E q \in won' : call'[q].op = "claim" /\ call'[q].key = k
      <4> SUFFICES ASSUME NEW k \in Keys, StatusIs(k, {"running", "succeeded", "failed"})'
                   PROVE  \E q \in won' : call'[q].op = "claim" /\ call'[q].key = k
        OBVIOUS
      <4>1. CASE k = call[r].key
        BY <1>4, <2>2, <3>1, <4>1, StatusMoves, FromTo
      <4>2. CASE k # call[r].key
        BY <1>4, <2>2, <3>1, <4>2, StatusMoves
      <4> QED  BY <4>1, <4>2
    <3> QED  BY <1>4, <2>2, <3>1, <3>2, <3>3, <3>4, <3>5, StatusMoves
  <2> QED  BY <1>4, <2>1, <2>2 DEF ChangeStatus, Settle
<1>5. CASE Restart
  BY <1>5 DEF Restart
<1>6. CASE PageAdvances \/ PageDeleted
  BY <1>6 DEF PageAdvances, PageDeleted
<1>7. CASE UNCHANGED vars
  BY <1>7 DEF vars
<1> QED
  BY <1>1, <1>2, <1>3, <1>4, <1>5, <1>6, <1>7 DEF Next, Step, ReadStep

LEMMA SourcesStep == IInv /\ [Next]_vars => SourcesInv'
<1> SUFFICES ASSUME IInv, [Next]_vars PROVE SourcesInv'
  OBVIOUS
<1> USE JobAssumption
    DEF IInv, AiTypeOK, tables, page, Goto, Finish, AnswerJob, SourcesInv,
        PageJobsHaveTheirSource, JobOf
<1>1. ASSUME NEW r \in Requests, Arrive(r) PROVE SourcesInv'
  <2>1. pinned[r] = None
    BY <1>1 DEF Arrive, ControlInv
  <2> QED  BY <1>1, <2>1 DEF Arrive, Phases
<1>2. ASSUME NEW r \in Requests, ReadStep(r) PROVE SourcesInv'
  <2>1. CASE FindKey(r) \/ FindKeyAgain(r) \/ Recheck(r) \/ Reload(r)
    BY <2>1 DEF FindKey, FindKeyAgain, Recheck, Reload
  <2>2. CASE FindTarget(r)
    BY <2>2 DEF FindTarget
  <2>3. CASE FindJob(r)
    BY <2>3 DEF FindJob
  <2>4. CASE FindPages(r) \/ ConfirmRunning(r) \/ Refuse(r) \/ Lose(r)
    BY <2>4 DEF FindPages, ConfirmRunning, Refuse, Lose
  <2> QED  BY <1>2, <2>1, <2>2, <2>3, <2>4 DEF ReadStep
<1>3. ASSUME NEW r \in Requests, InsertJob(r) PROVE SourcesInv'
  <2>1. CASE JobOf(r) = None /\ SourceIsFree(r)
    <3>1. /\ call[r].key \in Keys
          /\ Queued(call[r].payload) # None
          /\ Queued(call[r].payload).payload = call[r].payload
      BY <1>3, CallFields, QueuedIsJob, JobFields DEF InsertJob, ControlInv
    <3>2. /\ job' = [job EXCEPT ![call[r].key] = Queued(call[r].payload)]
          /\ sources' = sources \union SourceRows(r)
          /\ pc' = [pc EXCEPT ![r] = "reload"]
          /\ UNCHANGED <<call, pinned>>
      BY <1>3, <2>1 DEF InsertJob
    <3>3. /\ \A s \in sources : s.key # call[r].key /\ s.version # pinned[r]
          /\ pinned[r] # None <=> call[r].payload \in PagePayloads
      BY <1>3, <2>1, <3>1 DEF SourceIsFree, InsertJob
    <3>4. CASE pinned[r] = None
      BY <3>1, <3>2, <3>3, <3>4 DEF SourceRows
    <3>5. CASE pinned[r] # None
      <4>1. sources' = sources \union {[version |-> pinned[r], key |-> call[r].key]}
        BY <3>2, <3>5 DEF SourceRows
      <4>2. \A k \in Keys : (\E s \in sources' : s.key = k)
                              <=> (job'[k] # None /\ job'[k].payload \in PagePayloads)
        <5> SUFFICES ASSUME NEW k \in Keys
                     PROVE  (\E s \in sources' : s.key = k)
                              <=> (job'[k] # None /\ job'[k].payload \in PagePayloads)
          OBVIOUS
        <5>1. CASE k = call[r].key
          <6>1. job'[k] # None /\ job'[k].payload = call[r].payload
            BY <3>1, <3>2, <5>1
          <6>2. call[r].payload \in PagePayloads
            BY <3>3, <3>5
          <6>3. \E s \in sources' : s.key = k
            BY <4>1, <5>1
          <6> QED  BY <6>1, <6>2, <6>3
        <5>2. CASE k # call[r].key
          <6>1. job'[k] = job[k]
            BY <3>2, <5>2
          <6>2. (\E s \in sources' : s.key = k) <=> \E s \in sources : s.key = k
            BY <4>1, <5>2
          <6> QED  BY <6>1, <6>2
        <5> QED  BY <5>1, <5>2
      <4>3. \A s, t \in sources' : s.key = t.key \/ s.version = t.version => s = t
        BY <3>3, <4>1
      <4> QED  BY <3>2, <4>2, <4>3
    <3> QED  BY <3>4, <3>5
  <2>2. CASE ~ (JobOf(r) = None /\ SourceIsFree(r))
    BY <1>3, <2>2 DEF InsertJob
  <2> QED  BY <2>1, <2>2
<1>4. ASSUME NEW r \in Requests, ChangeStatus(r) \/ Settle(r) PROVE SourcesInv'
  <2>1. /\ UNCHANGED <<sources, call, pinned>>
        /\ \A q \in Requests : pc'[q] \in {"idle", "key", "target", "insert"} =>
                                    pc'[q] = pc[q]
    BY <1>4 DEF ChangeStatus, Settle
  <2>2. \A k \in Keys : /\ job'[k] # None <=> job[k] # None
                        /\ job[k] # None => job'[k].payload = job[k].payload
    <3>1. CASE UNCHANGED job
      BY <3>1
    <3>2. CASE StatusAllows(r) /\ SetStatus(r)
      <4> SUFFICES ASSUME NEW k \in Keys
                   PROVE  /\ job'[k] # None <=> job[k] # None
                          /\ job[k] # None => job'[k].payload = job[k].payload
        OBVIOUS
      <4> QED  BY <1>4, <3>2, StatusMoves, JobFields
    <3> QED  BY <1>4, <3>1, <3>2 DEF ChangeStatus, Settle
  <2>3. PageJobsHaveTheirSource'
    BY <2>1, <2>2
  <2> QED  BY <2>1, <2>3
<1>5. CASE Restart
  BY <1>5 DEF Restart, InFlight
<1>6. CASE PageAdvances \/ PageDeleted
  BY <1>6 DEF PageAdvances, PageDeleted
<1>7. CASE UNCHANGED vars
  BY <1>7 DEF vars
<1> QED
  BY <1>1, <1>2, <1>3, <1>4, <1>5, <1>6, <1>7 DEF Next, Step, ReadStep

\* PinnedBy needs no choice: a job has at most one source.
LEMMA PinnedByIs ==
    ASSUME PageJobsHaveTheirSource
    PROVE  /\ \A s \in sources : PinnedBy(s.key) = s.version
           /\ \A k : (\A s \in sources : s.key # k) => PinnedBy(k) = None
<1>1. ASSUME NEW s \in sources PROVE PinnedBy(s.key) = s.version
  <2> DEFINE t == CHOOSE t \in sources : t.key = s.key
  <2>1. t \in sources /\ t.key = s.key
    OBVIOUS
  <2>2. t = s
    BY <2>1 DEF PageJobsHaveTheirSource
  <2> QED  BY <2>2 DEF PinnedBy
<1>2. ASSUME NEW k, \A s \in sources : s.key # k PROVE PinnedBy(k) = None
  BY <1>2 DEF PinnedBy
<1> QED  BY <1>1, <1>2

LEMMA PinnedByIsStable ==
    ASSUME IInv, [Next]_vars, NEW k \in Keys, job[k] # None
    PROVE  PinnedBy(k)' = PinnedBy(k)
<1>1. PageJobsHaveTheirSource /\ PageJobsHaveTheirSource'
  BY SourcesStep DEF IInv, SourcesInv
<1>2. CASE UNCHANGED sources
  BY <1>2 DEF PinnedBy
<1>3. ASSUME NEW r \in Requests, InsertJob(r), JobOf(r) = None
      PROVE  PinnedBy(k)' = PinnedBy(k)
  <2>1. call[r].key # k
    BY <1>3 DEF JobOf
  <2>2. \A s \in sources' : s.key = k => s \in sources
    BY <1>3, <2>1 DEF InsertJob, SourceRows
  <2>3. sources \subseteq sources'
    BY <1>3 DEF InsertJob
  <2>4. CASE \E s \in sources : s.key = k
    <3>1. PICK s \in sources : s.key = k
      BY <2>4
    <3>2. PinnedBy(k) = s.version
      BY <1>1, <3>1, PinnedByIs
    <3>3. s \in sources'
      BY <2>3
    <3>4. PinnedBy(k)' = s.version
      <4> DEFINE t == CHOOSE t \in sources' : t.key = k
      <4>1. t \in sources' /\ t.key = k
        BY <3>1, <3>3
      <4>2. t = s
        BY <1>1, <3>1, <3>3, <4>1 DEF PageJobsHaveTheirSource
      <4> QED  BY <3>1, <3>3, <4>2 DEF PinnedBy
    <3> QED  BY <3>2, <3>4
  <2>5. CASE \A s \in sources : s.key # k
    BY <2>2, <2>5 DEF PinnedBy
  <2> QED  BY <2>4, <2>5
<1> QED
  BY <1>2, <1>3
     DEF Next, Step, Arrive, Refuse, FindKey, FindTarget, InsertJob, FindKeyAgain, FindJob,
         ChangeStatus, Recheck, FindPages, ConfirmRunning, Settle, Reload, Lose, Restart,
         PageAdvances, PageDeleted, vars, tables

LEMMA ResultsStep == IInv /\ [Next]_vars => ResultsInv'
<1> SUFFICES ASSUME IInv, [Next]_vars PROVE ResultsInv'
  OBVIOUS
<1> USE JobAssumption DEF IInv, AiTypeOK
<1>1. \A k \in Keys : job[k] # None => PinnedBy(k)' = PinnedBy(k)
  BY PinnedByIsStable
<1>2. \A s \in suggestions : s.key \in Keys /\ job[s.key] # None
  BY DEF Suggestion, ResultsInv, SuggestionsComeWithSuccess, StatusIs
<1>3. \A q \in Requests : pc'[q] \in {"pages", "confirm", "settle"} =>
                             pinned'[q] = PinnedBy(call[q].key)'
  <2> SUFFICES ASSUME NEW q \in Requests, pc'[q] \in {"pages", "confirm", "settle"}
               PROVE  pinned'[q] = PinnedBy(call[q].key)'
    OBVIOUS
  <2>1. CASE /\ pc[q] \in {"pages", "confirm", "settle"}
             /\ pinned'[q] = pinned[q] /\ call'[q] = call[q]
    <3>1. call[q] \in Calls /\ call[q].key \in Keys /\ job[call[q].key] # None
      BY <2>1, CallFields DEF ControlInv, JobOf
    <3> QED  BY <1>1, <2>1, <3>1 DEF ResultsInv
  <2>2. CASE FindJob(q) /\ call[q].op = "complete" /\ pc'[q] = "pages"
    <3>1. call[q] \in Calls /\ call[q].key \in Keys /\ job[call[q].key] # None
      BY <2>2, CallFields DEF ControlInv, JobOf, FindJob, Goto, Finish, AnswerJob
    <3>2. pinned'[q] = PinnedBy(call[q].key) /\ call'[q] = call[q]
      BY <2>2 DEF FindJob, Goto, Finish, AnswerJob
    <3> QED  BY <1>1, <3>1, <3>2
  <2>3. \/ /\ pc[q] \in {"pages", "confirm", "settle"}
           /\ pinned'[q] = pinned[q] /\ call'[q] = call[q]
        \/ FindJob(q) /\ call[q].op = "complete" /\ pc'[q] = "pages"
    <3>1. ASSUME NEW r \in Requests, FindJob(r) \/ FindTarget(r) \/ Arrive(r)
          PROVE  <2>3!1 \/ <2>3!2
      BY <3>1 DEF FindJob, FindTarget, Arrive, Goto, Finish, AnswerJob
    <3>2. ASSUME NEW r \in Requests, Refuse(r) \/ FindKey(r) \/ FindKeyAgain(r) \/ Lose(r)
          PROVE  <2>3!1 \/ <2>3!2
      BY <3>2 DEF Refuse, FindKey, FindKeyAgain, Lose, Goto, Finish, AnswerJob
    <3>3. ASSUME NEW r \in Requests, InsertJob(r) \/ ChangeStatus(r) \/ Settle(r)
          PROVE  <2>3!1 \/ <2>3!2
      BY <3>3 DEF InsertJob, ChangeStatus, Settle, Goto, Finish
    <3>4. ASSUME NEW r \in Requests,
                 Recheck(r) \/ FindPages(r) \/ ConfirmRunning(r) \/ Reload(r)
          PROVE  <2>3!1 \/ <2>3!2
      BY <3>4 DEF Recheck, FindPages, ConfirmRunning, Reload, Goto, Finish, AnswerJob
    <3>5. CASE Restart \/ PageAdvances \/ PageDeleted \/ UNCHANGED vars
      BY <3>5 DEF Restart, InFlight, PageAdvances, PageDeleted, vars
    <3> QED  BY <3>1, <3>2, <3>3, <3>4, <3>5 DEF Next, Step
  <2> QED  BY <2>1, <2>2, <2>3
<1>4. SuggestionsComeWithSuccess'
  <2>1. CASE UNCHANGED <<job, suggestions, won>> /\ \A q \in won : call'[q] = call[q]
    BY <1>1, <1>2, <2>1
       DEF ResultsInv, SuggestionsComeWithSuccess, StatusIs, Winners
  <2>2. ASSUME NEW r \in Requests, InsertJob(r), JobOf(r) = None, SourceIsFree(r)
        PROVE  SuggestionsComeWithSuccess'
    <3>1. /\ call[r].key \in Keys
          /\ Queued(call[r].payload) # None
          /\ Queued(call[r].payload).status = "queued"
      BY <2>2, CallFields, QueuedIsJob, JobFields DEF InsertJob, ControlInv
    <3>2. /\ job' = [job EXCEPT ![call[r].key] = Queued(call[r].payload)]
          /\ won \subseteq won'
          /\ UNCHANGED <<suggestions, call>>
      BY <2>2 DEF InsertJob
    <3>3. \A s \in suggestions : s.key # call[r].key
      BY <1>2, <2>2 DEF JobOf
    <3>4. \A k \in Keys : StatusIs(k, {"succeeded"})' <=> \E s \in suggestions' : s.key = k
      BY <3>1, <3>2, <3>3 DEF ResultsInv, SuggestionsComeWithSuccess, StatusIs
    <3> QED
      BY <1>1, <1>2, <3>2, <3>4 DEF ResultsInv, SuggestionsComeWithSuccess, Winners
  <2>3. ASSUME NEW r \in Requests, ChangeStatus(r), StatusAllows(r)
        PROVE  SuggestionsComeWithSuccess'
    <3>1. /\ SetStatus(r)
          /\ won \subseteq won'
          /\ UNCHANGED <<suggestions, call>>
          /\ call[r].op \in {"claim", "cancel", "fail"}
      BY <2>3 DEF ChangeStatus, ControlInv
    <3>2. ~ StatusIs(call[r].key, {"succeeded"})
      BY <2>3, <3>1, StatusMoves DEF StatusIs
    <3>3. ~ StatusIs(call[r].key, {"succeeded"})'
      BY <2>3, <3>1, StatusMoves, FromTo DEF StatusIs
    <3>4. \A k \in Keys : StatusIs(k, {"succeeded"})' <=> StatusIs(k, {"succeeded"})
      BY <2>3, <3>1, <3>2, <3>3, StatusMoves DEF StatusIs
    <3> QED
      BY <1>1, <1>2, <3>1, <3>4 DEF ResultsInv, SuggestionsComeWithSuccess, Winners
  <2>4. ASSUME NEW r \in Requests, Settle(r), SuggestionIsNew(r), StatusAllows(r)
        PROVE  SuggestionsComeWithSuccess'
    <3>1. /\ SetStatus(r)
          /\ won' = won \union {r}
          /\ suggestions' = suggestions \union {NewSuggestion(r)}
          /\ UNCHANGED <<call, pinned>>
          /\ call[r].op = "complete"
          /\ pinned[r] = PinnedBy(call[r].key)
          /\ job[call[r].key] # None
      BY <2>4 DEF Settle, ControlInv, ResultsInv, JobOf
    <3>2. /\ NewSuggestion(r).key = call[r].key
          /\ NewSuggestion(r).result = call[r].result
          /\ NewSuggestion(r).source = pinned[r]
      BY DEF NewSuggestion
    <3>3. \A s \in suggestions : s.key # call[r].key
      BY <2>4, <3>1, StatusMoves DEF ResultsInv, SuggestionsComeWithSuccess, StatusIs
    <3>4. StatusIs(call[r].key, {"succeeded"})'
      BY <2>4, <3>1, StatusMoves, FromTo, JobFields DEF StatusIs
    <3>5. \A k \in Keys : StatusIs(k, {"succeeded"})' <=> \E s \in suggestions' : s.key = k
      <4> SUFFICES ASSUME NEW k \in Keys
                   PROVE  StatusIs(k, {"succeeded"})' <=> \E s \in suggestions' : s.key = k
        OBVIOUS
      <4>1. CASE k = call[r].key
        BY <3>1, <3>2, <3>4, <4>1
      <4>2. CASE k # call[r].key
        <5>1. StatusIs(k, {"succeeded"})' <=> StatusIs(k, {"succeeded"})
          BY <2>4, <3>1, <4>2, StatusMoves DEF StatusIs
        <5> QED  BY <3>1, <3>2, <4>2, <5>1 DEF ResultsInv, SuggestionsComeWithSuccess
      <4> QED  BY <4>1, <4>2
    <3>6. \A s \in suggestions' : \A t \in suggestions' : t.key = s.key => t = s
      BY <3>1, <3>2, <3>3 DEF ResultsInv, SuggestionsComeWithSuccess
    <3>7. \A s \in suggestions' : s.source = PinnedBy(s.key)'
      <4>1. call[r].key \in Keys
        BY <2>4, <3>1, StatusMoves
      <4> QED  BY <1>1, <1>2, <3>1, <3>2, <4>1 DEF ResultsInv, SuggestionsComeWithSuccess
    <3>8. \A s \in suggestions' : \E q \in Winners({"complete"}, s.key)' :
                                     s.result = call'[q].result
      BY <3>1, <3>2 DEF ResultsInv, SuggestionsComeWithSuccess, Winners
    <3> QED  BY <3>5, <3>6, <3>7, <3>8 DEF SuggestionsComeWithSuccess
  <2>5. ASSUME NEW r \in Requests, Step(r)
        PROVE  SuggestionsComeWithSuccess'
    <3>1. CASE Arrive(r)
      BY <2>1, <3>1 DEF Arrive, Goto, tables, ControlInv
    <3>2. CASE ReadStep(r)
      BY <2>1, <3>2 DEF ReadStep, FindKey, FindTarget, FindKeyAgain, FindJob, Recheck,
                        FindPages, ConfirmRunning, Reload, Refuse, Lose, tables
    <3>3. CASE InsertJob(r) \/ ChangeStatus(r) \/ Settle(r)
      BY <2>1, <2>2, <2>3, <2>4, <3>3 DEF InsertJob, ChangeStatus, Settle
    <3> QED  BY <2>5, <3>1, <3>2, <3>3 DEF Step, ReadStep
  <2>6. CASE Restart \/ PageAdvances \/ PageDeleted \/ UNCHANGED vars
    BY <2>1, <2>6 DEF Restart, PageAdvances, PageDeleted, vars, tables
  <2> QED  BY <2>5, <2>6 DEF Next
<1> QED  BY <1>3, <1>4 DEF ResultsInv

\* The statuses of what has ended, and of what is there.
LEMMA JobsStay ==
    ASSUME IInv, [Next]_vars, NEW k \in Keys, job[k] # None
    PROVE  /\ job'[k] # None
           /\ job'[k].payload = job[k].payload
           /\ job[k].status \in {"succeeded", "failed", "canceled"} => job'[k] = job[k]
           /\ job'[k] # job[k] =>
                <<job[k].status, job'[k].status>> \in
                  ({"queued"} \X {"running", "canceled"})
                     \union ({"running"} \X {"succeeded", "failed", "canceled"})
<1> USE JobAssumption DEF IInv, AiTypeOK
<1>1. CASE job'[k] = job[k]
  BY <1>1
<1>2. ASSUME NEW r \in Requests, InsertJob(r), JobOf(r) = None
      PROVE  job'[k] = job[k]
  BY <1>2 DEF InsertJob, JobOf
<1>3. ASSUME NEW r \in Requests, ChangeStatus(r) \/ Settle(r), StatusAllows(r), SetStatus(r)
      PROVE  /\ job'[k] # None
             /\ job'[k].payload = job[k].payload
             /\ job[k].status \in {"succeeded", "failed", "canceled"} => job'[k] = job[k]
             /\ job'[k] # job[k] =>
                  <<job[k].status, job'[k].status>> \in
                    ({"queued"} \X {"running", "canceled"})
                       \union ({"running"} \X {"succeeded", "failed", "canceled"})
  <2>1. CASE k = call[r].key
    <3>1. /\ call[r].op = "claim" => job[k].status = "queued" /\ job'[k].status = "running"
          /\ call[r].op = "complete" =>
               job[k].status = "running" /\ job'[k].status = "succeeded"
          /\ call[r].op = "fail" => job[k].status = "running" /\ job'[k].status = "failed"
          /\ call[r].op = "cancel" => /\ job[k].status \in {"queued", "running"}
                                      /\ job'[k].status = "canceled"
      BY <1>3, <2>1, StatusMoves, FromTo
    <3>2. /\ call[r].op \in {"claim", "cancel", "fail", "complete"}
          /\ job'[k] # None /\ job'[k].payload = job[k].payload
      BY <1>3, <2>1, StatusMoves, JobFields
    <3> QED  BY <3>1, <3>2
  <2>2. CASE k # call[r].key
    BY <1>3, <2>2, StatusMoves
  <2> QED  BY <2>1, <2>2
<1>4. \/ job'[k] = job[k]
      \/ \E r \in Requests : InsertJob(r) /\ JobOf(r) = None
      \/ \E r \in Requests : /\ ChangeStatus(r) \/ Settle(r)
                             /\ StatusAllows(r) /\ SetStatus(r)
  BY DEF Next, Step, Arrive, Refuse, FindKey, FindTarget, InsertJob, FindKeyAgain, FindJob,
         ChangeStatus, Recheck, FindPages, ConfirmRunning, Settle, Reload, Lose, Restart,
         PageAdvances, PageDeleted, vars, tables
<1> QED  BY <1>1, <1>2, <1>3, <1>4

LEMMA AnswersStep == IInv /\ [Next]_vars => AnswersInv'
<1> SUFFICES ASSUME IInv, [Next]_vars, NEW q \in Requests, outcome'[q] = "ok"
             PROVE  /\ job'[call'[q].key] # None
                    /\ call'[q].op = "create" =>
                         /\ answer'[q].payload = call'[q].payload
                         /\ job'[call'[q].key].payload = call'[q].payload
                    /\ call'[q].op \in {"claim", "complete"} => q \in won'
                    /\ call'[q].op \in {"complete", "fail", "cancel"} =>
                         /\ job'[call'[q].key].status = To[call'[q].op]
                         /\ answer'[q] = job'[call'[q].key]
  BY DEF AnswersInv, JobOf
<1> USE JobAssumption DEF IInv, AiTypeOK
<1>1. CASE outcome[q] = "ok"
  <2>1. /\ pc[q] = "done"
        /\ call[q] \in Calls
        /\ call[q].key \in Keys
    BY <1>1, CallFields DEF ControlInv
  <2>2. /\ call'[q] = call[q]
        /\ answer'[q] = answer[q]
        /\ q \in won => q \in won'
    <3>1. ASSUME NEW r \in Requests, r # q, Step(r)
          PROVE  call'[q] = call[q] /\ answer'[q] = answer[q] /\ (q \in won => q \in won')
      BY <3>1 DEF Step, Arrive, Refuse, FindKey, FindTarget, InsertJob, FindKeyAgain, FindJob,
                  ChangeStatus, Recheck, FindPages, ConfirmRunning, Settle, Reload, Lose,
                  Goto, Finish, AnswerJob
    <3>2. ~ Step(q)
      BY <2>1 DEF Step, Arrive, Refuse, FindKey, FindTarget, InsertJob, FindKeyAgain, FindJob,
                  ChangeStatus, Recheck, FindPages, ConfirmRunning, Settle, Reload, Lose,
                  InFlight
    <3>3. CASE Restart \/ PageAdvances \/ PageDeleted \/ UNCHANGED vars
      BY <3>3 DEF Restart, PageAdvances, PageDeleted, vars
    <3> QED  BY <3>1, <3>2, <3>3 DEF Next
  <2>3. job[call[q].key] # None
    BY <1>1 DEF AnswersInv, JobOf
  <2>4. call[q].op \in {"complete", "fail", "cancel"} =>
          JobOf(q).status \in {"succeeded", "failed", "canceled"}
    BY <1>1, FromTo DEF AnswersInv
  <2>5. /\ job'[call[q].key] # None
        /\ job'[call[q].key].payload = job[call[q].key].payload
        /\ job[call[q].key].status \in {"succeeded", "failed", "canceled"} =>
             job'[call[q].key] = job[call[q].key]
    BY <2>1, <2>3, JobsStay
  <2> QED
    BY <1>1, <2>1, <2>2, <2>3, <2>4, <2>5 DEF AnswersInv, JobOf
<1>2. CASE outcome[q] # "ok"
  <2>1. /\ FindKey(q) \/ FindKeyAgain(q) \/ FindJob(q) \/ Recheck(q) \/ Reload(q)
        /\ AnswerJob(q)
    <3>1. ASSUME NEW r \in Requests, r # q, Step(r) PROVE outcome'[q] = outcome[q]
      BY <3>1 DEF Step, Arrive, Refuse, FindKey, FindTarget, InsertJob, FindKeyAgain, FindJob,
                  ChangeStatus, Recheck, FindPages, ConfirmRunning, Settle, Reload, Lose,
                  Goto, Finish, AnswerJob
    <3>2. CASE Restart \/ PageAdvances \/ PageDeleted \/ UNCHANGED vars
      BY <1>2, <3>2 DEF Restart, PageAdvances, PageDeleted, vars
    <3>3. CASE Step(q)
      BY <1>2, <3>3 DEF Step, Arrive, Refuse, FindKey, FindTarget, InsertJob, FindKeyAgain,
                  FindJob, ChangeStatus, Recheck, FindPages, ConfirmRunning, Settle, Reload,
                  Lose, Goto, Finish
    <3> QED  BY <1>2, <3>1, <3>2, <3>3 DEF Next
  <2>2. /\ UNCHANGED <<job, call, won>>
        /\ answer'[q] = JobOf(q)
    BY <2>1 DEF FindKey, FindKeyAgain, FindJob, Recheck, Reload, AnswerJob, tables
  <2>3. call[q] \in Calls /\ call[q].op \in Ops
    BY <2>1, CallFields DEF FindKey, FindKeyAgain, FindJob, Recheck, Reload, ControlInv
  <2>4. CASE FindKey(q) \/ FindKeyAgain(q)
    BY <1>2, <2>1, <2>2, <2>4 DEF FindKey, FindKeyAgain, IsReplay, JobOf, ControlInv, Goto, Finish
  <2>5. CASE FindJob(q) \/ Recheck(q)
    <3>1. IsDone(q) /\ JobOf(q) # None
      BY <1>2, <2>1, <2>5 DEF FindJob, Recheck, ControlInv, Goto, Finish
    <3> QED  BY <2>2, <3>1 DEF IsDone, JobOf
  <2>6. CASE Reload(q)
    <3>1. q \in won /\ JobOf(q) # None
      BY <2>6 DEF Reload, ControlInv
    <3> QED  BY <2>2, <2>3, <3>1 DEF JobsInv, JobOf
  <2> QED  BY <2>1, <2>4, <2>5, <2>6
<1> QED  BY <1>1, <1>2

LEMMA StepInv == IInv /\ [Next]_vars => IInv'
  BY TypeStep, ControlStep, JobsStep, SourcesStep, ResultsStep, AnswersStep DEF IInv
-----------------------------------------------------------------------------
\* The invariant holds of every behaviour of the handlers.
THEOREM JobsInductive == Spec => []IInv
<1>1. Init => IInv
  BY InitInv
<1>2. IInv /\ [Next]_vars => IInv'
  BY StepInv
<1> QED  BY <1>1, <1>2, PTL DEF Spec

\* The tables and handlers keep their types, the CHECK of the status with them.
THEOREM JobTypes == Spec => []AiTypeOK
<1>1. IInv => AiTypeOK
  BY DEF IInv
<1> QED  BY <1>1, JobsInductive, PTL

\* However many workers there are, one claims a job and one request ends it.
THEOREM ClaimIsExclusive == Spec => []OneClaimOneEnd
<1>1. IInv => OneClaimOneEnd
  BY DEF IInv, JobsInv
<1> QED  BY <1>1, JobsInductive, PTL

\* Suggestions are there exactly when the completion took effect.
THEOREM CompletionIsAtomic == Spec => []SuggestionsComeWithSuccess
<1>1. IInv => SuggestionsComeWithSuccess
  BY DEF IInv, ResultsInv
<1> QED  BY <1>1, JobsInductive, PTL

\* A page job and its source row are written together or not at all.
THEOREM CreationIsAtomic == Spec => []PageJobsHaveTheirSource
<1>1. IInv => PageJobsHaveTheirSource
  BY DEF IInv, SourcesInv
<1> QED  BY <1>1, JobsInductive, PTL

\* Creating a job is idempotent in its key.
THEOREM CreationIsIdempotent == Spec => []ReplayFindsItsJob
<1>1. IInv => ReplayFindsItsJob
  BY DEF IInv, JobsInv, AnswersInv, ReplayFindsItsJob, Winners
<1> QED  BY <1>1, JobsInductive, PTL

\* What a worker or a client is told of a job stays true.
THEOREM JobAnswersAreTrue == Spec => []AnswerMatchesJob
<1>1. IInv => AnswerMatchesJob
  <2> SUFFICES ASSUME IInv, NEW r \in Requests
               PROVE  /\ outcome[r] = "ok" /\ call[r].op \in {"claim", "complete"} => r \in won
                      /\ outcome[r] = "ok" /\ call[r].op \in {"complete", "fail", "cancel"} =>
                            JobOf(r).status = To[call[r].op] /\ answer[r] = JobOf(r)
                      /\ outcome[r] \in {"refused", "conflict"} => r \notin won
    BY DEF AnswerMatchesJob
  <2> QED  BY DEF IInv, AnswersInv, ControlInv
<1> QED  BY <1>1, JobsInductive, PTL

\* No step takes a job back, and what has ended stays as it is.
THEOREM JobsMoveForward == Spec => JobsOnlyGoForward
<1>1. IInv /\ [Next]_vars =>
        [ \A k \in Keys : job'[k] # job[k] =>
            \/ job[k] = None /\ job'[k].status = "queued"
            \/ /\ job[k] # None /\ job'[k] # None
               /\ job'[k].payload = job[k].payload
               /\ <<job[k].status, job'[k].status>> \in
                    ({"queued"} \X {"running", "canceled"})
                       \union ({"running"} \X {"succeeded", "failed", "canceled"}) ]_job
  <2> SUFFICES ASSUME IInv, [Next]_vars, NEW k \in Keys, job[k] = None, job'[k] # None
               PROVE  job'[k].status = "queued"
    BY JobsStay
  <2> USE DEF IInv, AiTypeOK
  <2>1. ASSUME NEW r \in Requests, InsertJob(r), job' # job PROVE job'[k].status = "queued"
    <3>1. call[r].key \in Keys /\ Queued(call[r].payload).status = "queued"
      BY <2>1, CallFields, QueuedIsJob DEF InsertJob, ControlInv
    <3> QED  BY <2>1, <3>1 DEF InsertJob
  <2>2. ASSUME NEW r \in Requests, ChangeStatus(r) \/ Settle(r), StatusAllows(r), SetStatus(r)
        PROVE  FALSE
    <3>1. k # call[r].key
      BY <2>2, StatusMoves, JobFields
    <3> QED  BY <2>2, <3>1, StatusMoves
  <2> QED
    BY <2>1, <2>2
       DEF Next, Step, Arrive, Refuse, FindKey, FindTarget, InsertJob, FindKeyAgain, FindJob,
           ChangeStatus, Recheck, FindPages, ConfirmRunning, Settle, Reload, Lose, Restart,
           PageAdvances, PageDeleted, vars, tables
<1> QED  BY <1>1, JobsInductive, PTL DEF Spec, JobsOnlyGoForward

-----------------------------------------------------------------------------
\* The handlers implement the board.

\* A handler that is about to turn its request down has its reason still.
ReasonsInv ==
    \A r \in Requests :
        /\ pc[r] = "recheck" => JobOf(r).status \notin From[call[r].op]
        /\ pc[r] = "refind" =>
             \/ JobOf(r) # None
             \/ call[r].payload \in PagePayloads /\ \E s \in sources : s.version = pinned[r]

LEMMA ReasonsStep == IInv /\ ReasonsInv /\ [Next]_vars => ReasonsInv'
<1> SUFFICES ASSUME IInv, ReasonsInv, [Next]_vars, NEW q \in Requests
             PROVE  /\ pc'[q] = "recheck" => JobOf(q)'.status \notin From[call'[q].op]
                    /\ pc'[q] = "refind" =>
                         \/ JobOf(q)' # None
                         \/ /\ call'[q].payload \in PagePayloads
                            /\ \E s \in sources' : s.version = pinned'[q]
  BY DEF ReasonsInv
<1> USE JobAssumption DEF IInv, AiTypeOK
<1>1. /\ sources \subseteq sources'
      /\ pc'[q] \in {"recheck", "refind"} =>
           /\ call'[q] = call[q] /\ pinned'[q] = pinned[q]
           /\ \/ pc[q] = pc'[q]
              \/ ChangeStatus(q) /\ ~StatusAllows(q) /\ pc'[q] = "recheck"
              \/ InsertJob(q) /\ (JobOf(q) # None \/ ~SourceIsFree(q)) /\ pc'[q] = "refind"
  <2>1. ASSUME NEW r \in Requests, Step(r), r # q
        PROVE  /\ sources \subseteq sources' /\ pc'[q] = pc[q]
               /\ call'[q] = call[q] /\ pinned'[q] = pinned[q]
    <3>1. CASE Arrive(r) \/ InsertJob(r) \/ ChangeStatus(r) \/ Settle(r)
      BY <2>1, <3>1 DEF Arrive, InsertJob, ChangeStatus, Settle, tables, Goto, Finish
    <3>2. CASE ReadStep(r)
      BY <2>1, <3>2 DEF ReadStep, FindKey, FindTarget, FindKeyAgain, FindJob, Recheck,
             FindPages, ConfirmRunning, Reload, Refuse, Lose, tables, Goto, Finish, AnswerJob
    <3> QED  BY <2>1, <3>1, <3>2 DEF Step, ReadStep
  <2>2. CASE Step(q)
    <3>1. CASE Arrive(q) \/ Settle(q)
      BY <3>1 DEF Arrive, Settle, tables, Goto, Finish
    <3>2. CASE InsertJob(q) \/ ChangeStatus(q)
      BY <3>2 DEF InsertJob, ChangeStatus, Goto, Finish
    <3>3. CASE ReadStep(q)
      BY <3>3 DEF ReadStep, FindKey, FindTarget, FindKeyAgain, FindJob, Recheck,
             FindPages, ConfirmRunning, Reload, Refuse, Lose, tables, Goto, Finish, AnswerJob
    <3> QED  BY <2>2, <3>1, <3>2, <3>3 DEF Step, ReadStep
  <2>3. CASE Restart \/ PageAdvances \/ PageDeleted \/ UNCHANGED vars
    BY <2>3 DEF Restart, PageAdvances, PageDeleted, vars, tables, InFlight
  <2> QED  BY <2>1, <2>2, <2>3 DEF Next
<1>2. ASSUME pc'[q] = "recheck" PROVE JobOf(q)'.status \notin From[call'[q].op]
  <2>1. CASE pc[q] = "recheck"
    <3> DEFINE k == call[q].key
    <3>1. /\ call[q] \in Calls /\ k \in Keys /\ call[q].op \in {"claim", "cancel"}
          /\ job[k] # None /\ job[k].status \notin From[call[q].op]
      BY <2>1, CallFields DEF ControlInv, ReasonsInv, JobOf
    <3>2. job[k].status \in Statuses
      BY <3>1, JobFields
    <3>3. /\ job[k].status \in {"succeeded", "failed", "canceled"} => job'[k] = job[k]
          /\ job'[k] # job[k] =>
               <<job[k].status, job'[k].status>> \in
                 ({"queued"} \X {"running", "canceled"})
                    \union ({"running"} \X {"succeeded", "failed", "canceled"})
      BY <3>1, JobsStay
    <3>4. job'[k].status \notin From[call[q].op]
      BY <3>1, <3>2, <3>3, FromTo DEF Statuses
    <3> QED  BY <1>1, <1>2, <3>4 DEF JobOf
  <2>2. CASE ChangeStatus(q) /\ ~StatusAllows(q)
    BY <2>2 DEF ChangeStatus, StatusAllows, JobOf
  <2> QED  BY <1>1, <1>2, <2>1, <2>2
<1>3. ASSUME pc'[q] = "refind"
      PROVE  \/ JobOf(q)' # None
             \/ /\ call'[q].payload \in PagePayloads
                /\ \E s \in sources' : s.version = pinned'[q]
  <2>1. CASE pc[q] = "refind"
    <3>1. call[q] \in Calls /\ call[q].key \in Keys
      BY <2>1, CallFields DEF ControlInv
    <3>2. CASE JobOf(q) # None
      BY <1>1, <1>3, <3>1, <3>2, JobsStay DEF JobOf
    <3>3. CASE JobOf(q) = None
      BY <1>1, <1>3, <2>1, <3>3 DEF ReasonsInv
    <3> QED  BY <3>2, <3>3
  <2>2. CASE InsertJob(q) /\ JobOf(q) # None
    BY <2>2 DEF InsertJob, JobOf
  <2>3. CASE InsertJob(q) /\ ~SourceIsFree(q)
    <3>1. PICK s \in sources : s.version = pinned[q]
      BY <2>3 DEF SourceIsFree
    <3>2. pinned[q] # None
      BY <3>1 DEF Source
    <3>3. call[q].payload \in PagePayloads
      BY <2>3, <3>2 DEF InsertJob, SourcesInv
    <3> QED  BY <1>1, <1>3, <3>1, <3>3
  <2> QED  BY <1>1, <1>3, <2>1, <2>2, <2>3
<1> QED  BY <1>2, <1>3

LEMMA BoardInit == Init => Board!Init
<1> SUFFICES ASSUME Init PROVE Board!Init
  OBVIOUS
<1>1. job \in [Keys -> {Board!Queued(p) : p \in Payloads} \union {None}]
  BY JobAssumption DEF Init, Queued, Board!Queued
<1>2. {[key |-> s.key, result |-> s.result] : s \in suggestions} = {}
  BY DEF Init
<1>3. \A r \in Requests : BoardPhase(r) = "idle"
  BY DEF Init, BoardPhase, InFlight
<1>4. call = [r \in Requests |-> None] /\ answer = [r \in Requests |-> None]
  BY DEF Init
<1> QED  BY <1>1, <1>2, <1>3, <1>4 DEF Board!Init

\* A step of one handler moves one client of the board.
LEMMA MovesOnBoard ==
    ASSUME NEW r \in Requests, NEW from, NEW to,
           BoardPhase(r) = from, BoardPhase(r)' = to,
           \A q \in Requests \ {r} :
             pc'[q] = pc[q] /\ outcome'[q] = outcome[q] /\ (q \in won' <=> q \in won)
    PROVE  Board!Move(r, from, to)
<1>1. \A q \in Requests \ {r} : BoardPhase(q)' = BoardPhase(q)
  BY DEF BoardPhase, InFlight
<1> QED  BY <1>1 DEF Board!Move

\* The end of a request that took no effect.
LEMMA EndsOnBoard ==
    ASSUME IInv, NEW r \in Requests, InFlight(r), r \notin won,
           NEW what \in Outcomes \ {"none"},
           pc' = [pc EXCEPT ![r] = "done"], outcome' = [outcome EXCEPT ![r] = what],
           UNCHANGED won
    PROVE  Board!Move(r, "open", IF what = "ok" THEN "answered" ELSE what)
<1> USE DEF IInv, AiTypeOK
<1>1. BoardPhase(r) = "open"
  BY DEF BoardPhase, InFlight
<1>2. BoardPhase(r)' = IF what = "ok" THEN "answered" ELSE what
  BY DEF BoardPhase, InFlight
<1>3. \A q \in Requests \ {r} :
        pc'[q] = pc[q] /\ outcome'[q] = outcome[q] /\ (q \in won' <=> q \in won)
  OBVIOUS
<1> QED  BY <1>1, <1>2, <1>3, MovesOnBoard

\* A step that nobody outside sees.
LEMMA UnseenOnBoard ==
    ASSUME IInv, NEW r \in Requests, InFlight(r),
           NEW phase \in Phases \ {"idle", "done"}, Goto(r, phase),
           UNCHANGED <<job, suggestions, call, won>>
    PROVE  UNCHANGED Board!vars
<1> USE DEF IInv, AiTypeOK, Goto
<1>1. \A q \in Requests : BoardPhase(q)' = BoardPhase(q)
  BY DEF BoardPhase, InFlight
<1> QED  BY <1>1 DEF Board!vars

LEMMA RefusedOnBoard ==
    ASSUME IInv, NEW r \in Requests, InFlight(r), r \notin won, Finish(r, "refused"),
           UNCHANGED <<job, suggestions, call, won>>
    PROVE  Board!Next
<1>1. Board!Move(r, "open", "refused")
  BY EndsOnBoard DEF Finish, Outcomes
<1>2. Board!Refuse(r)
  BY <1>1 DEF Board!Refuse, Finish
<1> QED  BY <1>2 DEF Board!Next

LEMMA TurnedDownOnBoard ==
    ASSUME IInv, NEW r \in Requests, InFlight(r), r \notin won, Finish(r, "conflict"),
           UNCHANGED <<job, suggestions, call, won>>,
           \/ call[r].op = "create" /\ JobOf(r) # None /\ ~IsReplay(r)
           \/ /\ call[r].op = "create" /\ call[r].payload \in PagePayloads
              /\ \E k \in Keys \ {call[r].key} : job[k] # None /\ job[k].payload \in PagePayloads
           \/ /\ call[r].op \in {"claim", "cancel", "fail", "complete"}
              /\ JobOf(r) # None /\ JobOf(r).status \notin From[call[r].op]
    PROVE  Board!Next
<1>1. Board!Move(r, "open", "conflict")
  BY EndsOnBoard DEF Finish, Outcomes
<1>2. DOMAIN Board!Before = {"claim", "cancel", "fail", "complete"} /\ Board!Before = From
  BY DEF Board!Before, From
<1>3. Board!TurnDown(r)
  BY <1>1, <1>2 DEF Board!TurnDown, Board!Asks, Board!Wanted, Board!IsForPage, Finish, JobOf,
                    IsReplay
<1> QED  BY <1>3 DEF Board!Next

LEMMA RepeatedOnBoard ==
    ASSUME IInv, NEW r \in Requests, InFlight(r), r \notin won, AnswerJob(r),
           UNCHANGED <<job, suggestions, call, won>>, JobOf(r) # None,
           (call[r].op = "create" /\ IsReplay(r)) \/ IsDone(r)
    PROVE  Board!Next
<1>1. Board!Move(r, "open", "answered")
  BY EndsOnBoard DEF AnswerJob, Outcomes
<1>2. Board!After = To
  BY DEF Board!After, To
<1>3. Board!Repeat(r)
  BY <1>1, <1>2 DEF Board!Repeat, Board!Asks, Board!Wanted, AnswerJob, JobOf, IsReplay, IsDone
<1> QED  BY <1>3 DEF Board!Next

\* Handlers that are lost, one or all.
LEMMA LostOnBoard ==
    ASSUME IInv, NEW lost \in SUBSET {r \in Requests : InFlight(r)},
           pc' = [r \in Requests |-> IF r \in lost THEN "done" ELSE pc[r]],
           outcome' = [r \in Requests |-> IF r \in lost THEN "lost" ELSE outcome[r]],
           UNCHANGED <<job, suggestions, call, answer, won>>
    PROVE  Board!Next
<1> USE DEF IInv, AiTypeOK
<1>1. \A r \in lost : BoardPhase(r) \in {"open", "applied"} /\ BoardPhase(r)' = "lost"
  BY DEF BoardPhase, InFlight
<1>2. \A r \in Requests \ lost : BoardPhase(r)' = BoardPhase(r)
  BY DEF BoardPhase, InFlight
<1>3. lost \in SUBSET {r \in Requests : BoardPhase(r) \in {"open", "applied"}}
  BY <1>1
<1>4. \A r \in Requests : BoardPhase(r)' = IF r \in lost THEN "lost" ELSE BoardPhase(r)
  BY <1>1, <1>2
<1>5. Board!Lose
  BY <1>3, <1>4 DEF Board!Lose
<1> QED  BY <1>5 DEF Board!Next

LEMMA ArrivalOnBoard == ASSUME IInv, NEW r \in Requests, Arrive(r) PROVE Board!Next
<1> USE DEF IInv, AiTypeOK
<1>1. PICK c \in Calls : /\ call' = [call EXCEPT ![r] = c]
                         /\ Goto(r, IF c.op = "create" THEN "key" ELSE "find")
  BY DEF Arrive
<1>2. BoardPhase(r) = "idle" /\ r \notin won
  BY DEF Arrive, BoardPhase, InFlight, ControlInv
<1>3. BoardPhase(r)' = "open" /\ UNCHANGED <<job, suggestions, answer, won>>
  BY <1>1, <1>2 DEF Arrive, BoardPhase, InFlight, Goto, tables
<1>4. \A q \in Requests \ {r} :
        pc'[q] = pc[q] /\ outcome'[q] = outcome[q] /\ (q \in won' <=> q \in won)
  BY <1>1, <1>3 DEF Goto
<1>5. Board!Move(r, "idle", "open")
  BY <1>2, <1>3, <1>4, MovesOnBoard
<1>6. Board!Arrive(r)
  BY <1>1, <1>3, <1>5 DEF Board!Arrive
<1> QED  BY <1>6 DEF Board!Next

LEMMA CreationOnBoard ==
    ASSUME IInv, NEW r \in Requests, InsertJob(r)
    PROVE  Board!Next \/ UNCHANGED Board!vars
<1> USE DEF IInv, AiTypeOK
<1>1. /\ InFlight(r) /\ r \notin won /\ call[r].op = "create" /\ pc[r] = "insert"
      /\ call[r].key \in Keys
  BY CallFields DEF InsertJob, InFlight, ControlInv
<1>2. CASE JobOf(r) = None /\ SourceIsFree(r)
  <2>1. /\ job' = [job EXCEPT ![call[r].key] = Queued(call[r].payload)]
        /\ won' = won \union {r} /\ pc' = [pc EXCEPT ![r] = "reload"]
        /\ UNCHANGED <<suggestions, call, outcome, answer>>
    BY <1>2 DEF InsertJob, Goto
  <2>2. BoardPhase(r) = "open" /\ BoardPhase(r)' = "applied"
    BY <1>1, <2>1 DEF BoardPhase, InFlight
  <2>3. Board!Move(r, "open", "applied")
    BY <2>1, <2>2, MovesOnBoard
  <2>4. Board!Create(r)
    BY <1>1, <1>2, <2>1, <2>3
       DEF Board!Create, Board!Asks, Board!Wanted, Board!Queued, Queued, JobOf
  <2> QED  BY <2>4 DEF Board!Next
<1>3. CASE ~(JobOf(r) = None /\ SourceIsFree(r))
  <2>1. Goto(r, "refind") /\ UNCHANGED <<job, suggestions, call, won>>
    BY <1>3 DEF InsertJob
  <2> QED  BY <1>1, <2>1, UnseenOnBoard DEF Phases
<1> QED  BY <1>2, <1>3

\* The UPDATE under its WHERE clause is the change of the board's job.
LEMMA ChangeOnBoard ==
    ASSUME IInv, NEW r \in Requests, ChangeStatus(r) \/ Settle(r)
    PROVE  Board!Next \/ UNCHANGED Board!vars
<1> USE DEF IInv, AiTypeOK
<1>1. /\ InFlight(r) /\ r \notin won /\ JobOf(r) # None /\ call[r] \in Calls
      /\ call[r].op \in {"claim", "cancel", "fail", "complete"}
      /\ pc[r] = "change" => call[r].op # "complete"
      /\ pc[r] = "settle" => call[r].op = "complete"
  BY DEF ChangeStatus, Settle, InFlight, ControlInv
<1>2. DOMAIN Board!Before = {"claim", "cancel", "fail", "complete"}
      /\ Board!Before = From /\ Board!After = To
  BY DEF Board!Before, Board!After, From, To
<1> DEFINE results == {[key |-> s.key, result |-> s.result] : s \in suggestions}
<1>3. ASSUME StatusAllows(r), SetStatus(r), won' = won \union {r}, Goto(r, "reload"),
             UNCHANGED call,
             results' = IF call[r].op = "complete"
                        THEN results \union {[key |-> call[r].key, result |-> call[r].result]}
                        ELSE results
      PROVE  Board!Next
  <2>1. BoardPhase(r) = "open" /\ BoardPhase(r)' = "applied"
    BY <1>1, <1>3 DEF BoardPhase, InFlight, Goto, ControlInv
  <2>2. Board!Move(r, "open", "applied")
    BY <1>3, <2>1, MovesOnBoard DEF Goto
  <2>3. /\ Board!Asks(r, DOMAIN Board!Before) /\ Board!Wanted(r) # None
        /\ Board!Wanted(r).status \in Board!Before[call[r].op]
    BY <1>1, <1>2, <1>3 DEF Board!Asks, Board!Wanted, JobOf, StatusAllows
  <2>4. job' = [job EXCEPT ![call[r].key].status = Board!After[call[r].op]]
    BY <1>2, <1>3 DEF SetStatus
  <2>5. Board!Change(r)
    BY <1>3, <2>2, <2>3, <2>4 DEF Board!Change, Board!Asks, Goto
  <2> QED  BY <2>5 DEF Board!Next
<1>4. CASE ChangeStatus(r) /\ StatusAllows(r)
  <2>1. /\ SetStatus(r) /\ won' = won \union {r} /\ Goto(r, "reload")
        /\ UNCHANGED <<suggestions, call>> /\ call[r].op # "complete"
    BY <1>1, <1>4 DEF ChangeStatus
  <2>2. results' = results
    BY <2>1
  <2> HIDE DEF results
  <2> QED  BY <1>3, <1>4, <2>1, <2>2
<1>5. CASE ChangeStatus(r) /\ ~StatusAllows(r)
  <2>1. UNCHANGED <<job, suggestions, call, won>>
    BY <1>5 DEF ChangeStatus
  <2>2. CASE call[r].op = "fail"
    <3>1. Finish(r, "conflict") /\ JobOf(r).status \notin From[call[r].op]
      BY <1>5, <2>2 DEF ChangeStatus, StatusAllows
    <3> QED  BY <1>1, <2>1, <3>1, TurnedDownOnBoard
  <2>3. CASE call[r].op # "fail"
    <3>1. Goto(r, "recheck")
      BY <1>5, <2>3 DEF ChangeStatus
    <3> QED  BY <1>1, <2>1, <3>1, UnseenOnBoard DEF Phases
  <2> QED  BY <2>2, <2>3
<1>6. CASE Settle(r) /\ SuggestionIsNew(r) /\ StatusAllows(r)
  <2>1. /\ SetStatus(r) /\ won' = won \union {r} /\ Goto(r, "reload") /\ UNCHANGED call
        /\ suggestions' = suggestions \union {NewSuggestion(r)}
        /\ call[r].op = "complete"
    BY <1>1, <1>6 DEF Settle
  <2>2. results' = results \union {[key |-> call[r].key, result |-> call[r].result]}
    <3>1. /\ NewSuggestion(r).key = call[r].key
          /\ NewSuggestion(r).result = call[r].result
      BY DEF NewSuggestion
    <3> QED  BY <2>1, <3>1
  <2> HIDE DEF results
  <2> QED  BY <1>3, <1>6, <2>1, <2>2
<1>7. CASE Settle(r) /\ ~(SuggestionIsNew(r) /\ StatusAllows(r))
  <2>1. Finish(r, "conflict") /\ UNCHANGED <<job, suggestions, call, won>>
    BY <1>7 DEF Settle
  <2>2. JobOf(r).status \notin From[call[r].op]
    <3>1. CASE ~StatusAllows(r)
      BY <3>1 DEF StatusAllows
    <3>2. CASE ~SuggestionIsNew(r)
      <4>1. PICK s \in suggestions : s.key = call[r].key
        BY <3>2 DEF SuggestionIsNew
      <4>2. JobOf(r).status = "succeeded"
        BY <1>1, <4>1, CallFields DEF ResultsInv, SuggestionsComeWithSuccess, StatusIs, JobOf
      <4> QED  BY <1>1, <4>2, FromTo
    <3> QED  BY <1>7, <3>1, <3>2
  <2> QED  BY <1>1, <2>1, <2>2, TurnedDownOnBoard
<1> QED  BY <1>4, <1>5, <1>6, <1>7

\* The steps that read: a request ends, or nobody sees them.
LEMMA ReadOnBoard ==
    ASSUME IInv, ReasonsInv, NEW r \in Requests, ReadStep(r)
    PROVE  Board!Next \/ UNCHANGED Board!vars
<1> USE DEF IInv, AiTypeOK
<1>1. InFlight(r) /\ (pc[r] # "reload" => r \notin won) /\ call[r] \in Calls
  BY DEF ReadStep, Refuse, FindKey, FindTarget, FindKeyAgain, FindJob, Recheck, FindPages,
         ConfirmRunning, Reload, Lose, InFlight, ControlInv
<1>2. ~Lose(r) => UNCHANGED <<job, suggestions, call, won>>
  BY DEF ReadStep, Refuse, FindKey, FindTarget, FindKeyAgain, FindJob, Recheck, FindPages,
         ConfirmRunning, Reload, tables
<1>3. CASE Refuse(r) \/ FindTarget(r) \/ FindPages(r)
  <2>1. r \notin won /\ UNCHANGED <<job, suggestions, call, won>>
    BY <1>1, <1>3 DEF Refuse, FindTarget, FindPages, tables
  <2>2. \/ Finish(r, "refused")
        \/ \E phase \in Phases \ {"idle", "done"} : Goto(r, phase)
    BY <1>3 DEF Refuse, FindTarget, FindPages, Phases
  <2> QED  BY <1>1, <2>1, <2>2, RefusedOnBoard, UnseenOnBoard
<1>4. CASE FindKey(r) \/ FindKeyAgain(r)
  <2>1. /\ r \notin won /\ UNCHANGED <<job, suggestions, call, won>>
        /\ call[r].op = "create"
    BY <1>1, <1>4 DEF FindKey, FindKeyAgain, tables, ControlInv
  <2>2. CASE JobOf(r) # None /\ IsReplay(r)
    <3>1. AnswerJob(r)
      BY <1>4, <2>2 DEF FindKey, FindKeyAgain
    <3> QED  BY <1>1, <2>1, <2>2, <3>1, RepeatedOnBoard
  <2>3. CASE JobOf(r) # None /\ ~IsReplay(r)
    <3>1. Finish(r, "conflict")
      BY <1>4, <2>3 DEF FindKey, FindKeyAgain
    <3> QED  BY <1>1, <2>1, <2>3, <3>1, TurnedDownOnBoard
  <2>4. CASE FindKey(r) /\ JobOf(r) = None
    <3>1. Goto(r, "target")
      BY <2>4 DEF FindKey
    <3> QED  BY <1>1, <2>1, <3>1, UnseenOnBoard DEF Phases
  <2>5. CASE FindKeyAgain(r) /\ JobOf(r) = None
    <3>1. Finish(r, "conflict")
      BY <2>5 DEF FindKeyAgain
    <3>2. PICK s \in sources : s.version = pinned[r] /\ call[r].payload \in PagePayloads
      BY <2>5 DEF FindKeyAgain, ReasonsInv
    <3>3. s.key \in Keys /\ job[s.key] # None /\ job[s.key].payload \in PagePayloads
      BY <3>2 DEF Source, SourcesInv, PageJobsHaveTheirSource
    <3>4. s.key # call[r].key
      BY <2>5, <3>3 DEF JobOf
    <3> QED  BY <1>1, <2>1, <3>1, <3>2, <3>3, <3>4, TurnedDownOnBoard
  <2> QED  BY <1>4, <2>2, <2>3, <2>4, <2>5
<1>5. CASE FindJob(r) \/ Recheck(r) \/ ConfirmRunning(r)
  <2>1. /\ r \notin won /\ UNCHANGED <<job, suggestions, call, won>>
        /\ call[r].op \in {"claim", "cancel", "fail", "complete"}
        /\ ~FindJob(r) => JobOf(r) # None
    BY <1>1, <1>5 DEF FindJob, Recheck, ConfirmRunning, tables, ControlInv, Ops
  <2>2. \/ Finish(r, "refused")
        \/ \E phase \in Phases \ {"idle", "done"} : Goto(r, phase)
        \/ AnswerJob(r) /\ IsDone(r) /\ JobOf(r) # None
        \/ /\ Finish(r, "conflict") /\ JobOf(r) # None
           /\ JobOf(r).status \notin From[call[r].op]
    <3>1. CASE FindJob(r)
      BY <3>1 DEF FindJob, Phases
    <3>2. CASE Recheck(r)
      BY <2>1, <3>2 DEF Recheck, ReasonsInv, FindJob
    <3>3. CASE ConfirmRunning(r)
      <4>1. From[call[r].op] = {"running"}
        BY <3>3, FromTo DEF ConfirmRunning, ControlInv
      <4> QED  BY <2>1, <3>3, <4>1 DEF ConfirmRunning, FindJob, Phases
    <3> QED  BY <1>5, <3>1, <3>2, <3>3
  <2> QED  BY <1>1, <2>1, <2>2, RefusedOnBoard, UnseenOnBoard, RepeatedOnBoard, TurnedDownOnBoard
<1>6. CASE Reload(r)
  <2>1. /\ AnswerJob(r) /\ UNCHANGED <<job, suggestions, call, won>> /\ r \in won
    BY <1>6 DEF Reload, tables, ControlInv
  <2>2. BoardPhase(r) = "applied" /\ BoardPhase(r)' = "answered"
    BY <1>1, <2>1 DEF BoardPhase, InFlight, AnswerJob
  <2>3. Board!Move(r, "applied", "answered")
    BY <2>1, <2>2, MovesOnBoard DEF AnswerJob
  <2>4. Board!Acknowledge(r)
    BY <2>1, <2>3 DEF Board!Acknowledge, Board!Wanted, AnswerJob, JobOf
  <2> QED  BY <2>4 DEF Board!Next
<1>7. CASE Lose(r)
  <2>1. /\ {r} \in SUBSET {q \in Requests : InFlight(q)}
        /\ pc' = [q \in Requests |-> IF q \in {r} THEN "done" ELSE pc[q]]
        /\ outcome' = [q \in Requests |-> IF q \in {r} THEN "lost" ELSE outcome[q]]
        /\ UNCHANGED <<job, suggestions, call, answer, won>>
    BY <1>7 DEF Lose, Finish, tables
  <2> QED  BY <2>1, LostOnBoard
<1> QED  BY <1>3, <1>4, <1>5, <1>6, <1>7 DEF ReadStep

LEMMA StepsOnBoard == IInv /\ ReasonsInv /\ [Next]_vars => [Board!Next]_(Board!vars)
<1> SUFFICES ASSUME IInv, ReasonsInv, [Next]_vars PROVE Board!Next \/ UNCHANGED Board!vars
  OBVIOUS
<1>1. ASSUME NEW r \in Requests, Step(r) PROVE Board!Next \/ UNCHANGED Board!vars
  <2>1. Arrive(r) \/ InsertJob(r) \/ ChangeStatus(r) \/ Settle(r) \/ ReadStep(r)
    BY <1>1 DEF Step, ReadStep
  <2> QED  BY <2>1, ArrivalOnBoard, CreationOnBoard, ChangeOnBoard, ReadOnBoard
<1>2. CASE Restart
  <2>1. {r \in Requests : InFlight(r)} \in SUBSET {r \in Requests : InFlight(r)}
    OBVIOUS
  <2>2. UNCHANGED <<job, suggestions, call, answer, won>>
    BY <1>2 DEF Restart, tables
  <2> QED  BY <1>2, <2>1, <2>2, LostOnBoard DEF Restart
<1>3. CASE PageAdvances \/ PageDeleted \/ UNCHANGED vars
  <2>1. UNCHANGED <<job, suggestions, call, answer, won, pc, outcome>>
    BY <1>3 DEF PageAdvances, PageDeleted, vars, tables
  <2>2. \A r \in Requests : BoardPhase(r)' = BoardPhase(r)
    BY <2>1 DEF BoardPhase, InFlight
  <2> QED  BY <2>1, <2>2 DEF Board!vars
<1> QED  BY <1>1, <1>2, <1>3 DEF Next

(***************************************************************************)
(* For any number of requests, keys and workers: the handlers of the five  *)
(* operations, interleaved at every await and lost at any of them, are a   *)
(* board on which each request acts in one step between its arrival and    *)
(* its answer.                                                             *)
(***************************************************************************)
THEOREM JobsAreABoard == Spec => ImplementsBoard
<1>1. Init => ReasonsInv
  BY DEF Init, ReasonsInv
<1>2. IInv /\ ReasonsInv /\ [Next]_vars => ReasonsInv'
  BY ReasonsStep
<1> QED  BY JobsInductive, BoardInit, <1>1, <1>2, StepsOnBoard, PTL
         DEF Spec, Board!Spec, ImplementsBoard
=============================================================================
