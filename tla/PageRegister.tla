---------------------------- MODULE PageRegister ----------------------------
(***************************************************************************)
(* What a page's content promises its clients, with no Drive and no rows:  *)
(* a register of Drive versions that can be installed once, swapped by a   *)
(* client for a newer version only if it still holds the version that      *)
(* client saw after its request began, and removed once.  Each request     *)
(* takes effect at most once, between its invocation and its answer; an    *)
(* acknowledged write did take effect; a read returns a version that was   *)
(* current while the read was under way; a failed request may have taken   *)
(* effect or not.                                                          *)
(***************************************************************************)
EXTENDS Naturals

CONSTANTS Clients, Versions, Number, None

VARIABLES
    state,    \* "absent", "active" or "removed"
    current,  \* the version the register holds
    phase,    \* how far each client's request is
    seen      \* the version each client saw

vars == <<state, current, phase, seen>>

Init ==
    /\ \/ state = "absent" /\ current = None
       \/ state = "active" /\ current \in Versions
    /\ phase = [c \in Clients |-> "idle"]
    /\ seen = [c \in Clients |-> None]

Move(c, from, to) ==
    /\ phase[c] = from
    /\ phase' = [phase EXCEPT ![c] = to]

Invoke(c) == Move(c, "idle", "open") /\ UNCHANGED <<state, current, seen>>

\* The client sees the current version.
Sample(c) ==
    /\ Move(c, "open", "sampled")
    /\ state = "active"
    /\ seen' = [seen EXCEPT ![c] = current]
    /\ UNCHANGED <<state, current>>

Install(c) ==
    /\ Move(c, "open", "applied")
    /\ state = "absent"
    /\ state' = "active"
    /\ current' \in Versions
    /\ UNCHANGED seen

Swap(c) ==
    /\ Move(c, "sampled", "applied")
    /\ state = "active"
    /\ current = seen[c]
    /\ current' \in {v \in Versions : Number[v] > Number[current]}
    /\ UNCHANGED <<state, seen>>

Remove(c) ==
    /\ Move(c, "sampled", "applied")
    /\ state = "active"
    /\ state' = "removed"
    /\ UNCHANGED <<current, seen>>

ReturnSeen(c) == Move(c, "sampled", "returned") /\ UNCHANGED <<state, current, seen>>

Acknowledge(c) == Move(c, "applied", "acknowledged") /\ UNCHANGED <<state, current, seen>>

\* Some of the requests under way fail, all at once when the service stops.
Fail ==
    /\ \E lost \in SUBSET {c \in Clients : phase[c] \in {"open", "sampled", "applied"}} :
         phase' = [c \in Clients |-> IF c \in lost THEN "failed" ELSE phase[c]]
    /\ UNCHANGED <<state, current, seen>>

Next ==
    \/ Fail
    \/ \E c \in Clients :
         \/ Invoke(c) \/ Sample(c) \/ Install(c) \/ Swap(c) \/ Remove(c)
         \/ ReturnSeen(c) \/ Acknowledge(c)

Spec == Init /\ [][Next]_vars
=============================================================================
