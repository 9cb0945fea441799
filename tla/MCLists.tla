------------------------------ MODULE MCLists ------------------------------
(***************************************************************************)
(* An instance of Lists for TLC: two lists, and four elements of which two *)
(* are equal to cmp.                                                       *)
(***************************************************************************)
EXTENDS Lists

Four == 1..4
Ranks == <<1, 2, 2, 3>>
=============================================================================
