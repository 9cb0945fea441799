-------------------------- MODULE MCPhysicalPages --------------------------
(* Instances of PhysicalPages for TLC. *)
EXTENDS PhysicalPages
=============================================================================
