--------------------------- MODULE SuggestionBoard ---------------------------
(***************************************************************************)
(* What the suggestions for a page promise to who decides on them, with no *)
(* handlers, no Drive and nothing between a comparison and the write it is *)
(* for: a decision, an apply and a feedback each take effect in one step,  *)
(* at most once and between the request's arrival and its answer.  The     *)
(* apply compares the suggestion, its source and the caller's expectation  *)
(* with the page in the very step that moves the page.                     *)
(***************************************************************************)
EXTENDS Naturals

CONSTANTS Clients, Calls, Suggestions, Source, Versions, None

VARIABLES
    status,   \* the status of each suggestion
    left,     \* the feedback left
    version,  \* the page's version
    active,   \* the page is there
    phase,    \* how far each client's request is
    request,  \* what each client asks for
    seen      \* the version each apply is answered with

vars == <<status, left, version, active, phase, request, seen>>

Init ==
    /\ status \in [Suggestions -> {"proposed", "accepted"}]
    /\ left = {}
    /\ version \in Versions
    /\ active = TRUE
    /\ phase = [c \in Clients |-> "idle"]
    /\ request = [c \in Clients |-> None]
    /\ seen = [c \in Clients |-> None]

Verdict == [accept |-> "accepted", reject |-> "rejected"]

Asks(c, ops) == request[c].op \in ops

Found(c) == status[request[c].suggestion]

Left(c) == [suggestion |-> request[c].suggestion, note |-> request[c].note]

\* The page is as the suggestion and the caller suppose.
Meets(c) ==
    /\ Source[request[c].suggestion] \in {None, version}
    /\ request[c].expect \in {None, version}

Goes(c, to) == phase' = [phase EXCEPT ![c] = to]

Settles(c, s) == status' = [status EXCEPT ![request[c].suggestion] = s]

Arrive(c) ==
    /\ phase[c] = "idle"
    /\ \E k \in Calls : request' = [request EXCEPT ![c] = k]
    /\ Goes(c, "open")
    /\ UNCHANGED <<status, left, version, active, seen>>

Decide(c) ==
    /\ phase[c] = "open" /\ Asks(c, {"accept", "reject"}) /\ Found(c) = "proposed"
    /\ Settles(c, Verdict[request[c].op])
    /\ Goes(c, "applied")
    /\ UNCHANGED <<left, version, active, request, seen>>

Apply(c) ==
    /\ phase[c] = "open" /\ Asks(c, {"apply"}) /\ Found(c) = "accepted"
    /\ active /\ Meets(c)
    /\ version' \in {v \in Versions : v > version}
    /\ Settles(c, "applied")
    /\ Goes(c, "applied")
    /\ seen' = [seen EXCEPT ![c] = version']
    /\ UNCHANGED <<left, active, request>>

Comment(c) ==
    /\ phase[c] = "open" /\ Asks(c, {"feedback"}) /\ Left(c) \notin left
    /\ left' = left \union {Left(c)}
    /\ Goes(c, "applied")
    /\ UNCHANGED <<status, version, active, request, seen>>

\* The page with a suggestion that is applied already.
Look(c) ==
    /\ phase[c] = "open" /\ Asks(c, {"apply"}) /\ Found(c) = "applied" /\ active
    /\ Goes(c, "looked")
    /\ seen' = [seen EXCEPT ![c] = version]
    /\ UNCHANGED <<status, left, version, active, request>>

\* What was decided, applied or left is there when it is acknowledged, by this
\* request or by another that asked for the same.
Acknowledge(c) ==
    /\ phase[c] \in {"applied", "looked", "open"}
    /\ phase[c] = "open" => ~Asks(c, {"apply"})
    /\ Asks(c, {"accept", "reject"}) => Found(c) = Verdict[request[c].op]
    /\ Asks(c, {"apply"}) => Found(c) = "applied"
    /\ Asks(c, {"feedback"}) => Left(c) \in left
    /\ Goes(c, "answered")
    /\ UNCHANGED <<status, left, version, active, request, seen>>

\* An acceptance is not acknowledged once the suggestion is applied.
Overtaken(c) ==
    /\ phase[c] = "applied" /\ Asks(c, {"accept"}) /\ Found(c) = "applied"
    /\ Goes(c, "conflict")
    /\ UNCHANGED <<status, left, version, active, request, seen>>

TurnDown(c) ==
    /\ phase[c] = "open"
    /\ \/ /\ Asks(c, {"accept", "reject"})
          /\ Found(c) \notin {"proposed", Verdict[request[c].op]}
       \/ Asks(c, {"apply"}) /\ Found(c) \notin {"accepted", "applied"}
       \/ Asks(c, {"apply"}) /\ ~Meets(c)
    /\ Goes(c, "conflict")
    /\ UNCHANGED <<status, left, version, active, request, seen>>

Refuse(c) ==
    /\ phase[c] = "open"
    /\ Goes(c, "refused")
    /\ UNCHANGED <<status, left, version, active, request, seen>>

\* Some of the requests under way fail and may have taken effect or not.
Fail ==
    /\ \E lost \in SUBSET {c \in Clients : phase[c] \in {"open", "looked", "applied"}} :
         /\ phase' = [c \in Clients |-> IF c \in lost THEN "failed" ELSE phase[c]]
         /\ seen' = [c \in Clients |-> IF c \in lost THEN None ELSE seen[c]]
    /\ UNCHANGED <<status, left, version, active, request>>

\* The page is others' too.
Elsewhere ==
    /\ active
    /\ \/ version' \in {v \in Versions : v > version} /\ UNCHANGED active
       \/ active' = FALSE /\ UNCHANGED version
    /\ UNCHANGED <<status, left, phase, request, seen>>

Next ==
    \/ Fail \/ Elsewhere
    \/ \E c \in Clients :
         \/ Arrive(c) \/ Decide(c) \/ Apply(c) \/ Comment(c) \/ Look(c)
         \/ Acknowledge(c) \/ Overtaken(c) \/ TurnDown(c) \/ Refuse(c)

Spec == Init /\ [][Next]_vars
=============================================================================
