---------------------------- MODULE MCKernelHeap ----------------------------
(***************************************************************************)
(* Instances of KernelHeap for TLC.  The slabs are the smallest that the   *)
(* assertions of the boot code allow, so that the reserves run low often.  *)
(***************************************************************************)
EXTENDS KernelHeap

\* Slabs of one object, which skip the list of partial slabs, in three pages
\* where the slabs of the reserves take one; and slabs of two objects.
TwoKinds == {Kind(1, 3), Kind(2, 1)}
=============================================================================
