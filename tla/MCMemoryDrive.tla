--------------------------- MODULE MCMemoryDrive ---------------------------
(***************************************************************************)
(* Three requests on one page over the in-memory Drive: enough for two     *)
(* writers under the same number and a reader or a restore after them.  A  *)
(* delete never comes to the adapter and is left to MCPageContent.         *)
(***************************************************************************)
EXTENDS MemoryDrive, TLC

CONSTANTS r1, r2, r3, n1, m1, m2, b0, b1, b2

MCRequests == {r1, r2, r3}
MCMaxVersion == 4
MCVersionIds == 1..MCMaxVersion
MCVersionNo == [v \in MCVersionIds |-> v]

Command(op, expect, source, body, meta) ==
    [op |-> op, expect |-> expect, source |-> source, meta |-> meta, body |-> body]

MCCalls ==
    {Command("create", None, None, b1, m1), Command("create", None, None, b2, m2),
     Command("update", None, None, b1, None), Command("update", 1, None, b2, m2),
     Command("restore", None, 1, None, None), Command("restore", 2, 2, None, None),
     Command("read", None, None, None, None)}

Symmetry == Permutations(MCRequests)
=============================================================================
