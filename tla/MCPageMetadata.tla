--------------------------- MODULE MCPageMetadata ---------------------------
(***************************************************************************)
(* Three requests on a page that is in the trash and on a folder.          *)
(***************************************************************************)
EXTENDS PageMetadata, TLC

CONSTANTS r1, r2, r3, p1, p2, a, b

MCRequests == {r1, r2, r3}

MCInitial ==
    [p \in {p1, p2} |->
        [version |-> 1, title |-> a, archive |-> IF p = p1 THEN "archived" ELSE "active",
         parent |-> None, pointer |-> 1, active |-> TRUE]]

Nothing == [title |-> Keep, archive |-> Keep, parent |-> Keep]

Command(op, p, patch, expect, cursor, text) ==
    [op |-> op, page |-> p, patch |-> patch, expect |-> expect,
     cursor |-> cursor, text |-> text]

\* "remote" is an update that expects nothing, after a look at its cursor.
MCCalls ==
    {Command("update", p1, [Nothing EXCEPT !.title = b, !.parent = p2], 1, None, FALSE),
     Command("update", p1, Nothing, 1, None, FALSE),
     Command("upsert", p1, [Nothing EXCEPT !.title = b], None, 1, TRUE),
     Command("remote", p1, [Nothing EXCEPT !.archive = "active"], None, None, FALSE),
     Command("suggestion", p1, Nothing, None, 1, TRUE),
     Command("purge", p1, Nothing, None, None, FALSE),
     Command("purge", p2, Nothing, None, None, FALSE)}

MCUpserts == {c \in MCCalls : c.op = "upsert"}

Symmetry == Permutations(MCRequests)
=============================================================================
