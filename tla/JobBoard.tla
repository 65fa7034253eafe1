------------------------------ MODULE JobBoard ------------------------------
(***************************************************************************)
(* What the AI jobs of a workspace promise to who sends requests for them, *)
(* with no handlers and no rows: every request takes effect in one step,   *)
(* at most once and between its arrival and its answer; one that is        *)
(* refused or turned down took none, and is turned down only while the     *)
(* board gives a reason to; one that was lost may have taken effect or     *)
(* not.                                                                    *)
(***************************************************************************)
CONSTANTS Clients, Calls, Keys, Payloads, PagePayloads, None

VARIABLES
    board,    \* the job of each key, or None
    handed,   \* the results handed in, each for a key
    phase,    \* how far each client's request is
    request,  \* what each client asks for
    reply     \* the job each client was answered with

vars == <<board, handed, phase, request, reply>>

Queued(p) == [payload |-> p, status |-> "queued"]

Init ==
    /\ board \in [Keys -> {Queued(p) : p \in Payloads} \union {None}]
    /\ handed = {}
    /\ phase = [c \in Clients |-> "idle"]
    /\ request = [c \in Clients |-> None]
    /\ reply = [c \in Clients |-> None]

\* The statuses a job may have when it is asked for, and the one it gets.
Before == [claim |-> {"queued"}, cancel |-> {"queued", "running"},
           fail |-> {"running"}, complete |-> {"running"}]

After == [claim |-> "running", cancel |-> "canceled",
          fail |-> "failed", complete |-> "succeeded"]

Move(c, from, to) ==
    /\ phase[c] = from
    /\ phase' = [phase EXCEPT ![c] = to]

Asks(c, ops) == request[c].op \in ops

Wanted(c) == board[request[c].key]

Arrive(c) ==
    /\ Move(c, "idle", "open")
    /\ \E k \in Calls : request' = [request EXCEPT ![c] = k]
    /\ UNCHANGED <<board, handed, reply>>

Create(c) ==
    /\ Move(c, "open", "applied")
    /\ Asks(c, {"create"}) /\ Wanted(c) = None
    /\ board' = [board EXCEPT ![request[c].key] = Queued(request[c].payload)]
    /\ UNCHANGED <<handed, request, reply>>

Change(c) ==
    /\ Move(c, "open", "applied")
    /\ Asks(c, DOMAIN Before) /\ Wanted(c) # None
    /\ Wanted(c).status \in Before[request[c].op]
    /\ board' = [board EXCEPT ![request[c].key].status = After[request[c].op]]
    /\ handed' = IF Asks(c, {"complete"})
                 THEN handed \union {[key |-> request[c].key, result |-> request[c].result]}
                 ELSE handed
    /\ UNCHANGED <<request, reply>>

\* The job as it is by then: others may have changed it since.
Acknowledge(c) ==
    /\ Move(c, "applied", "answered")
    /\ reply' = [reply EXCEPT ![c] = Wanted(c)]
    /\ UNCHANGED <<board, handed, request>>

\* What is asked for is done already.
Repeat(c) ==
    /\ Move(c, "open", "answered")
    /\ Wanted(c) # None
    /\ \/ Asks(c, {"create"}) /\ Wanted(c).payload = request[c].payload
       \/ Asks(c, {"cancel", "fail"}) /\ Wanted(c).status = After[request[c].op]
    /\ reply' = [reply EXCEPT ![c] = Wanted(c)]
    /\ UNCHANGED <<board, handed, request>>

Refuse(c) == Move(c, "open", "refused") /\ UNCHANGED <<board, handed, request, reply>>

IsForPage(k) == board[k] # None /\ board[k].payload \in PagePayloads

\* The key has another job, or the page has another key's, or the job does not
\* have a status it can be asked for with.
TurnDown(c) ==
    /\ Move(c, "open", "conflict")
    /\ \/ /\ Asks(c, {"create"}) /\ Wanted(c) # None
          /\ Wanted(c).payload # request[c].payload
       \/ /\ Asks(c, {"create"}) /\ request[c].payload \in PagePayloads
          /\ \E k \in Keys \ {request[c].key} : IsForPage(k)
       \/ /\ Asks(c, DOMAIN Before) /\ Wanted(c) # None
          /\ Wanted(c).status \notin Before[request[c].op]
    /\ UNCHANGED <<board, handed, request, reply>>

\* Some of the requests under way are lost, all at once when the service stops.
Lose ==
    /\ \E lost \in SUBSET {c \in Clients : phase[c] \in {"open", "applied"}} :
         phase' = [c \in Clients |-> IF c \in lost THEN "lost" ELSE phase[c]]
    /\ UNCHANGED <<board, handed, request, reply>>

Next ==
    \/ Lose
    \/ \E c \in Clients :
         \/ Arrive(c) \/ Create(c) \/ Change(c) \/ Acknowledge(c)
         \/ Repeat(c) \/ Refuse(c) \/ TurnDown(c)

Spec == Init /\ [][Next]_vars
=============================================================================
