--------------------------- MODULE MCAiSuggestion ---------------------------
(***************************************************************************)
(* Three requests: an apply with a decision and another apply, or two of   *)
(* anything with a third that follows.  One suggestion was made from the   *)
(* page's first version, the other from no version of it.                  *)
(***************************************************************************)
EXTENDS AiSuggestion, TLC

CONSTANTS r1, r2, r3, s1, s2, n1

MCRequests == {r1, r2, r3}
MCSource == s1 :> 1 @@ s2 :> None

Command(op, s, expect, note) ==
    [op |-> op, suggestion |-> s, expect |-> expect, note |-> note]

MCCalls ==
    {Command(op, s1, None, n1) : op \in {"accept", "reject", "apply", "feedback"}}
    \union {Command("apply", s2, None, n1), Command("apply", s2, 2, n1)}

Symmetry == Permutations(Requests)
=============================================================================
