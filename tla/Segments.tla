------------------------------ MODULE Segments ------------------------------
(***************************************************************************)
(* The tables of arch/x86/gdt.c, idt.c and tss.c as gdt_init, idt_init and *)
(* tss_init fill them, the context of a user task of cpu_context.c, and    *)
(* what the processor, which is outside the repository, makes of them.     *)
(*                                                                         *)
(* A word of 32 bits is its halves [hi, lo]; a byte of flags is the set of *)
(* its bits, so that | and the + of distinct flags are unions.             *)
(***************************************************************************)
EXTENDS Integers, Sequences, FiniteSets

CONSTANTS Ktss,           \* the address of ktss
          KernelStackPa   \* _kernel_stack_pa, the top of the boot stack

HalfSize == 65536
Half == 0..(HalfSize - 1)
Words == [hi : Half, lo : Half]
Word(h, l) == [hi |-> h, lo |-> l]
KernelSpace == Word(49152, 0)

\* The linker script: both are in the image, under 2 MB.
ASSUME AddressAssumption ==
    /\ Ktss \in Words /\ Ktss.hi \in {49168, 49169} /\ Ktss.lo % 4096 = 0
    /\ KernelStackPa \in Words /\ KernelStackPa.hi \in {16, 17}

Plus(a, b) ==
    LET l == a.lo + b.lo
    IN Word((a.hi + b.hi + (l \div HalfSize)) % HalfSize, l % HalfSize)
Bits(n) == {k \in 0..7 : (n \div 2^k) % 2 = 1}
----------------------------------------------------------------------------
(***************************************************************************)
(* Segments.                                                               *)
(***************************************************************************)
KernelCsIndex == 1
KernelDsIndex == 2
UserCsIndex   == 3
UserDsIndex   == 4
TssIndex      == 5

\* A selector: index << 3, with the privilege level it asks for.
KernelCs == KernelCsIndex * 8
KernelDs == KernelDsIndex * 8
UserCs   == UserCsIndex * 8 + 3
UserDs   == UserDsIndex * 8 + 3

\* flags1 and flags2 of gdt.h
CodeXR == {4, 3} \cup {1}
DataRW == {4} \cup {1}
TssSegment == {3, 0}
Dpl3 == {6, 5}
Present == {7}
Flat32 == {6} \cup {7}

NbrGdtEntries == 16
GdtLimit == NbrGdtEntries * 8 - 1
NullDescriptor == [limit0 |-> 0, base0 |-> 0, base16 |-> 0,
                   flags1 |-> {}, flags2 |-> {}, base24 |-> 0]

\* set_gdt_entry.  It takes 8 bits of limit >> 16 for the low 4 of flags2.
SetGdtEntry(gdt, n, base, limit, flags1, flags2) ==
    IF n >= NbrGdtEntries THEN gdt
    ELSE [gdt EXCEPT ![n] =
            [limit0 |-> limit.lo, base0 |-> base.lo, base16 |-> base.hi % 256,
             flags1 |-> flags1, flags2 |-> flags2 \cup Bits(limit.hi % 256),
             base24 |-> base.hi \div 256]]

\* Mutant of Segment: the DPL of user segments is forgotten.
SegmentDpl0(gdt, n, flags1) ==
    SetGdtEntry(gdt, n, Word(0, 0), Word(15, HalfSize - 1), flags1 \ Dpl3, Flat32)

\* A code or data segment of gdt_init: all of memory.
Segment(gdt, n, flags1) ==
    SetGdtEntry(gdt, n, Word(0, 0), Word(15, HalfSize - 1), flags1, Flat32)

\* gdt_init
KernelGdt ==
    LET zero == [n \in 0..(NbrGdtEntries - 1) |-> NullDescriptor]
        s1 == SetGdtEntry(zero, 0, Word(0, 0), Word(0, 0), {}, {})
        s2 == Segment(s1, KernelCsIndex, CodeXR \cup Present)
        s3 == Segment(s2, KernelDsIndex, DataRW \cup Present)
        s4 == Segment(s3, UserCsIndex, CodeXR \cup Present \cup Dpl3)
    IN Segment(s4, UserDsIndex, DataRW \cup Present \cup Dpl3)

SizeofTss == 104 + 8192

\* The unused fields of ktss are zero and left out.
ZeroTss == [ss0 |-> 0, esp0 |-> Word(0, 0), iomapbase |-> 0,
            iomap |-> [i \in 0..8191 |-> {}]]

\* Mutant of TssInit: the structure is cleared after the loop.
TssInitCleared ==
    [ZeroTss EXCEPT !.ss0 = KernelDs, !.esp0 = Plus(KernelStackPa, KernelSpace),
                    !.iomapbase = 104]

\* tss_init.  What it passes for the size is the end of ktss.
TssInit ==
    [ZeroTss EXCEPT !.ss0 = KernelDs, !.esp0 = Plus(KernelStackPa, KernelSpace),
                    !.iomapbase = 104, !.iomap = [i \in DOMAIN @ |-> 0..7]]
Gdt == SetGdtEntry(KernelGdt, TssIndex, Ktss, Plus(Ktss, Word(0, SizeofTss)),
                   TssSegment \cup Present \cup Dpl3, {})

\* load_tss
TaskRegister == IF TssIndex <= NbrGdtEntries THEN TssIndex * 8 ELSE 0
----------------------------------------------------------------------------
(***************************************************************************)
(* Gates.                                                                  *)
(***************************************************************************)
SyscallVector == 128
NbrIdtEntries == 256

\* idt.h: types 6 and 7, 32 bits.
IdtInterrupt == {2, 1}
IdtTrap      == {2, 1, 0}
Idt32B       == {3}

\* set_idt_entry; the offset is that of the stub of vector n.
SetIdtEntry(idt, n, selector, flags2) ==
    IF n >= NbrIdtEntries THEN idt
    ELSE [idt EXCEPT ![n] = [selector |-> selector, stub |-> n, flags2 |-> flags2]]

\* set_trap_gate, and mutant of SetIntrGate.
SetTrapGate(idt, n) == SetIdtEntry(idt, n, KernelCs, IdtTrap \cup Present \cup Idt32B)

SetIntrGate(idt, n) ==
    SetIdtEntry(idt, n, KernelCs, IdtInterrupt \cup Present \cup Idt32B)

\* The type is IDT_INTERRUPT here too.
SetSystemGate(idt, n) ==
    SetIdtEntry(idt, n, KernelCs, IdtInterrupt \cup Dpl3 \cup Present \cup Idt32B)

\* idt_init: an iteration of its loop sets the entry of its own vector.
Vectors == 0..(NbrIdtEntries - 1)
ZeroIdt == [n \in Vectors |-> [selector |-> 0, stub |-> 0, flags2 |-> {}]]
Idt ==
    LET all == [n \in Vectors |-> SetIntrGate(ZeroIdt, n)[n]]
        s3  == SetSystemGate(all, 3)
        s4  == SetSystemGate(s3, 4)
        s5  == SetSystemGate(s4, 5)
    IN SetSystemGate(s5, SyscallVector)
IdtLimit == NbrIdtEntries * 8 - 1
----------------------------------------------------------------------------
(***************************************************************************)
(* The context of a task.                                                  *)
(***************************************************************************)
\* Mutant of UserContext: the task may not be interrupted.
UserContextMasked == [cs |-> UserCs, ss |-> UserDs, intr |-> FALSE, iopl |-> 0]

\* user_context_init; general registers are left out.
UserContext == [cs |-> UserCs, ss |-> UserDs, intr |-> TRUE, iopl |-> 0]
----------------------------------------------------------------------------
(***************************************************************************)
(* The processor.                                                          *)
(***************************************************************************)
Rpl(selector) == selector % 4
Bit(flags, k) == IF k \in flags THEN 1 ELSE 0
Dpl(flags) == Bit(flags, 5) + 2 * Bit(flags, 6)

\* The descriptor a selector names; a null one when it is past the limit.
Descriptor(selector) ==
    IF selector \div 8 \in DOMAIN Gdt /\ selector + 7 - Rpl(selector) <= GdtLimit
    THEN Gdt[selector \div 8] ELSE NullDescriptor
Limit(d) == d.limit0 + HalfSize * (Bit(d.flags2, 0) + 2 * Bit(d.flags2, 1)
                                   + 4 * Bit(d.flags2, 2) + 8 * Bit(d.flags2, 3))

\* A segment for code or the stack at level cpl: it must cover all of memory,
\* since addresses are those of a flat model.
Covers(d) == Limit(d) = 16 * HalfSize - 1 /\ 7 \in d.flags2
             /\ <<d.base0, d.base16, d.base24>> = <<0, 0, 0>>
CodeAt(selector, cpl) ==
    LET d == Descriptor(selector)
    IN {7, 4, 3} \subseteq d.flags1 /\ Dpl(d.flags1) = cpl /\ Covers(d)
StackAt(selector, cpl) ==
    LET d == Descriptor(selector)
    IN /\ {7, 4, 1} \subseteq d.flags1 /\ 3 \notin d.flags1
       /\ Rpl(selector) = cpl /\ Dpl(d.flags1) = cpl /\ Covers(d)

\* The TSS that the task register names is available and holds ss0 and esp0.
TaskState ==
    LET d == Descriptor(TaskRegister)
    IN /\ d.flags1 \cap (0..4) = TssSegment /\ 7 \in d.flags1 /\ Limit(d) >= 103
       /\ <<d.base0, d.base16, d.base24>> = <<Ktss.lo, Ktss.hi % 256, Ktss.hi \div 256>>

\* Level cpl may come to the handler of v: the gate and, when the level
\* changes, the stack of the TSS, which has to be in the kernel's space.
GateDpl(v) == Dpl(Idt[v].flags2)
Masks(v) == 0 \notin Idt[v].flags2
Enters(v, cpl) ==
    /\ v * 8 + 7 <= IdtLimit /\ 7 \in Idt[v].flags2 /\ Idt[v].stub = v
    /\ CodeAt(Idt[v].selector, 0)
    /\ cpl > 0 => /\ TaskState /\ StackAt(TssInit.ss0, 0)
                  /\ TssInit.esp0.hi >= KernelSpace.hi

\* iret to a context.
Returns(c) ==
    CodeAt(c.cs, Rpl(c.cs)) /\ (Rpl(c.cs) > 0 => StackAt(c.ss, Rpl(c.cs)))

\* The bit of the I/O map that a port of one byte needs clear.
PortAllowed(port) ==
    LET at == TssInit.iomapbase + port \div 8
    IN /\ at + 1 <= Limit(Descriptor(TaskRegister))
       /\ at - 104 \in DOMAIN TssInit.iomap
       /\ port % 8 \notin TssInit.iomap[at - 104]
=============================================================================
