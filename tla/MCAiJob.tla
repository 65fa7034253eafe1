------------------------------- MODULE MCAiJob -------------------------------
(***************************************************************************)
(* Three requests are enough for two to race to create a job, and for one  *)
(* that is there to be claimed and ended while the third races either.     *)
(* Two keys make two jobs; the second is only created.  One payload is for *)
(* the page, the other for the workspace.                                  *)
(***************************************************************************)
EXTENDS AiJob, TLC

CONSTANTS r1, r2, r3, k1, k2, p1, p2, s1, s2

MCRequests == {r1, r2, r3}

MCCall(op, k, p, s) == [op |-> op, key |-> k, payload |-> p, result |-> s]

MCCreates == {MCCall("create", k1, p1, s1), MCCall("create", k1, p2, s1),
              MCCall("create", k2, p1, s1)}

MCEnds == {MCCall("complete", k1, p1, s1), MCCall("complete", k1, p1, s2)}
              \union {MCCall(op, k1, p1, s1) : op \in {"claim", "fail", "cancel"}}

MCCalls == MCCreates \union MCEnds

Symmetry == Permutations(MCRequests)
=============================================================================
