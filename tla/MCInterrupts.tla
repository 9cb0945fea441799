---------------------------- MODULE MCInterrupts ----------------------------
(***************************************************************************)
(* Instances of Interrupts for TLC.                                        *)
(***************************************************************************)
EXTENDS Interrupts

\* 0xC010A000, and 0x110000.
KtssAddress == Word(49168, 40960)
StackAddress == Word(17, 0)
=============================================================================
