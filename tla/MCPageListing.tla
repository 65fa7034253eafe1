--------------------------- MODULE MCPageListing ---------------------------
(***************************************************************************)
(* Three rows, so that a walk by ones or twos has rows on both sides of it *)
(* when another moves, and two seconds, so that stamps tie and differ.     *)
(* The page size 0 and the one above the greatest are refused.             *)
(***************************************************************************)
EXTENDS PageListing

MCIds == 1..3
MCMaxPageSize == 2
MCSizes == 0..(MCMaxPageSize + 1)
=============================================================================
