------------------------------ MODULE MCPaging ------------------------------
(***************************************************************************)
(* An instance of Paging for TLC: directories of 8 entries, so that memory *)
(* has 8 pages: the first MB is page 0, the image pages 1 to 4.            *)
(***************************************************************************)
EXTENDS Paging

\* Page 1, which has no table; the page after the image and the last of its
\* table; the first page of the table that follows.
Users == {1, 46, 47, 48}
\* Two of these, and the pages through which the kernel sees the tables of
\* pages 46 and 48 and the directory.
Kept == {46, 47, 61, 62, 63}
=============================================================================
