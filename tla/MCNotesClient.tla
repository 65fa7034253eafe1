--------------------------- MODULE MCNotesClient ---------------------------
(***************************************************************************)
(* The client is opened twice over a list that begins as a collection with *)
(* a chapter; the user acts four times: a template and its two chapters    *)
(* with one act more, or any others.                                       *)
(***************************************************************************)
EXTENDS NotesClient

MCDefaults == <<[id |-> 1, parent |-> None, coll |-> TRUE],
                [id |-> 2, parent |-> 1, coll |-> FALSE]>>
=============================================================================
