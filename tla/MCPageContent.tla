--------------------------- MODULE MCPageContent ---------------------------
(***************************************************************************)
(* Three requests on one page, over every answer an open Drive port can    *)
(* give with three version ids, two nodes and two kinds of content.        *)
(***************************************************************************)
EXTENDS PageContent, TLC

CONSTANTS r1, r2, r3, v1, v2, v3, n1, n2, m1, m2, b1

MCRequests == {r1, r2, r3}
MCVersionIds == {v1, v2, v3}
MCVersionNo == v1 :> 1 @@ v2 :> 2 @@ v3 :> 3

Command(op, expect, meta) ==
    [op |-> op, expect |-> expect, source |-> None, meta |-> meta, body |-> None]

MCCalls ==
    {Command("create", None, m1), Command("update", None, None),
     Command("update", v1, None), Command("restore", v2, None),
     Command("read", None, None), Command("delete", None, None)}

MCNodes == {n1, n2}

Symmetry == Permutations(MCRequests) \union Permutations(MCNodes)
=============================================================================
