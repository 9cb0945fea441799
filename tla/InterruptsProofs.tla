-------------------------- MODULE InterruptsProofs --------------------------
(***************************************************************************)
(* What the descriptors mean to the processor, and the safety of           *)
(* interrupts for any lines, clients, devices, exceptions and programs,    *)
(* and any depth of nesting.                                               *)
(***************************************************************************)
EXTENDS Interrupts, FiniteSetTheorems, WellFoundedInduction, TLAPS

----------------------------------------------------------------------------
(***************************************************************************)
(* What the processor makes of the tables, for every address of the TSS    *)
(* and of the kernel's stack, every vector and every port.                 *)
(***************************************************************************)
\* The two addresses of the linker script, in halves of 16 bits.
LEMMA Addresses ==
    /\ HalfSize \in Nat /\ HalfSize > 255
    /\ Ktss.lo \in Nat /\ Ktss.lo < HalfSize /\ Ktss.lo % 4096 = 0
    /\ KernelStackPa.lo \in Nat /\ KernelStackPa.lo < HalfSize
    /\ KernelStackPa.hi \in {16, 17}
<1>1. HalfSize \in Nat /\ HalfSize > 255
  BY DEF HalfSize
<1> QED
  BY <1>1, AddressAssumption DEF Words, Half

\* The bits of the nibbles that the descriptors are written with.
LEMMA LowBits == Bits(15) = {0, 1, 2, 3} /\ Bits(0) = {}
<1>1. \A k \in 0..7 : k = 0 \/ k = 1 \/ k = 2 \/ k = 3 \/ k = 4 \/ k = 5 \/ k = 6 \/ k = 7
  OBVIOUS
<1>2. /\ (15 \div 2^0) % 2 = 1 /\ (15 \div 2^1) % 2 = 1 /\ (15 \div 2^2) % 2 = 1
      /\ (15 \div 2^3) % 2 = 1 /\ (15 \div 2^4) % 2 # 1 /\ (15 \div 2^5) % 2 # 1
      /\ (15 \div 2^6) % 2 # 1 /\ (15 \div 2^7) % 2 # 1
  OBVIOUS
<1>3. /\ (0 \div 2^0) % 2 # 1 /\ (0 \div 2^1) % 2 # 1 /\ (0 \div 2^2) % 2 # 1
      /\ (0 \div 2^3) % 2 # 1 /\ (0 \div 2^4) % 2 # 1 /\ (0 \div 2^5) % 2 # 1
      /\ (0 \div 2^6) % 2 # 1 /\ (0 \div 2^7) % 2 # 1
  OBVIOUS
<1>4. 0 \in 0..7 /\ 1 \in 0..7 /\ 2 \in 0..7 /\ 3 \in 0..7
  OBVIOUS
<1>5. Bits(15) = {0, 1, 2, 3}
  BY <1>1, <1>2, <1>4, Zenon DEF Bits
<1>6. Bits(0) = {}
  BY <1>1, <1>3, Zenon DEF Bits
<1> QED
  BY <1>5, <1>6

\* The four selectors, their levels and the entries they choose.
LEMMA Selectors ==
    /\ KernelCs = 8 /\ KernelDs = 16 /\ UserCs = 27 /\ UserDs = 35
    /\ Rpl(KernelCs) = 0 /\ Rpl(KernelDs) = 0 /\ Rpl(UserCs) = 3 /\ Rpl(UserDs) = 3
    /\ KernelCs \div 8 = 1 /\ KernelDs \div 8 = 2 /\ UserCs \div 8 = 3 /\ UserDs \div 8 = 4
BY DEF KernelCs, KernelDs, UserCs, UserDs, Rpl, KernelCsIndex, KernelDsIndex, UserCsIndex,
       UserDsIndex

\* A flat segment, as set_gdt_entry stores it.
Flat(flags1) == [limit0 |-> HalfSize - 1, base0 |-> 0, base16 |-> 0, flags1 |-> flags1,
                 flags2 |-> Flat32 \cup Bits(15), base24 |-> 0]

\* gdt_set_segment writes a flat segment with the flags it is given.
LEMMA SegmentSet ==
    ASSUME NEW gdt, NEW n \in 0..15, NEW flags1
    PROVE  Segment(gdt, n, flags1) = [gdt EXCEPT ![n] = Flat(flags1)]
<1>1. 15 % 256 = 15 /\ 0 % 256 = 0 /\ 0 \div 256 = 0 /\ ~(n >= 16)
  OBVIOUS
<1> QED
  BY <1>1 DEF Segment, SetGdtEntry, Flat, Word, NbrGdtEntries

\* The four segments of gdt_init and the TSS of tss_init are where the
\* selectors look for them.
LEMMA GdtEntries ==
    /\ DOMAIN Gdt = 0..15
    /\ Gdt[1] = Flat(CodeXR \cup Present) /\ Gdt[2] = Flat(DataRW \cup Present)
    /\ Gdt[3] = Flat(CodeXR \cup Present \cup Dpl3)
    /\ Gdt[4] = Flat(DataRW \cup Present \cup Dpl3)
    /\ LET size == Plus(Ktss, Word(0, SizeofTss))
       IN Gdt[5] = [limit0 |-> size.lo, base0 |-> Ktss.lo, base16 |-> Ktss.hi % 256,
                    flags1 |-> TssSegment \cup Present \cup Dpl3,
                    flags2 |-> Bits(size.hi % 256), base24 |-> Ktss.hi \div 256]
<1> DEFINE zero == [n \in 0..15 |-> NullDescriptor]
           s1 == SetGdtEntry(zero, 0, Word(0, 0), Word(0, 0), {}, {})
           s2 == [zero EXCEPT ![1] = Flat(CodeXR \cup Present)]
           s3 == [s2 EXCEPT ![2] = Flat(DataRW \cup Present)]
           s4 == [s3 EXCEPT ![3] = Flat(CodeXR \cup Present \cup Dpl3)]
<1>1. KernelGdt = [s4 EXCEPT ![4] = Flat(DataRW \cup Present \cup Dpl3)]
  <2>1. s1 = zero
    <3>1. 0 % 256 = 0 /\ 0 \div 256 = 0
      OBVIOUS
    <3>2. \A gdt : SetGdtEntry(gdt, 0, Word(0, 0), Word(0, 0), {}, {})
                     = [gdt EXCEPT ![0] = NullDescriptor]
      <4>1. {} \cup Bits(0) = {} /\ ~(0 >= 16)
        BY LowBits
      <4> QED
        BY <3>1, <4>1 DEF SetGdtEntry, Word, NullDescriptor, NbrGdtEntries
    <3>3. s1 = [zero EXCEPT ![0] = NullDescriptor]
      BY <3>2
    <3> QED
      BY <3>3
  <2>2. 1 \in 0..15 /\ 2 \in 0..15 /\ 3 \in 0..15 /\ 4 \in 0..15
    OBVIOUS
  <2>6. zero = [n \in 0..(NbrGdtEntries - 1) |-> NullDescriptor]
    BY DEF NbrGdtEntries
  <2> HIDE DEF zero, s1, s2, s3, s4
  <2>7. KernelGdt = Segment(Segment(Segment(Segment(zero, 1, CodeXR \cup Present),
                        2, DataRW \cup Present), 3, CodeXR \cup Present \cup Dpl3),
                        4, DataRW \cup Present \cup Dpl3)
    BY <2>1, <2>6 DEF KernelGdt, KernelCsIndex, KernelDsIndex, UserCsIndex, UserDsIndex, s1
  <2>8. Segment(zero, 1, CodeXR \cup Present) = s2
    BY <2>2, SegmentSet, Zenon DEF s2
  <2>9. Segment(s2, 2, DataRW \cup Present) = s3
    BY <2>2, SegmentSet, Zenon DEF s3
  <2>10. Segment(s3, 3, CodeXR \cup Present \cup Dpl3) = s4
    BY <2>2, SegmentSet, Zenon DEF s4
  <2>11. Segment(s4, 4, DataRW \cup Present \cup Dpl3)
           = [s4 EXCEPT ![4] = Flat(DataRW \cup Present \cup Dpl3)]
    BY <2>2, SegmentSet, Zenon
  <2> QED
    BY <2>7, <2>8, <2>9, <2>10, <2>11
<1>2. /\ DOMAIN KernelGdt = 0..15
      /\ KernelGdt[1] = Flat(CodeXR \cup Present) /\ KernelGdt[2] = Flat(DataRW \cup Present)
      /\ KernelGdt[3] = Flat(CodeXR \cup Present \cup Dpl3)
      /\ KernelGdt[4] = Flat(DataRW \cup Present \cup Dpl3)
  BY <1>1
<1> DEFINE size == Plus(Ktss, Word(0, SizeofTss))
<1>3. Gdt = [KernelGdt EXCEPT ![5] =
              [limit0 |-> size.lo, base0 |-> Ktss.lo, base16 |-> Ktss.hi % 256,
               flags1 |-> TssSegment \cup Present \cup Dpl3,
               flags2 |-> Bits(size.hi % 256), base24 |-> Ktss.hi \div 256]]
  BY DEF Gdt, SetGdtEntry, TssIndex, NbrGdtEntries
<1> QED
  BY <1>2, <1>3

\* A flat segment covers the whole address space.
LEMMA FlatCovers ==
    ASSUME NEW flags1 PROVE Covers(Flat(flags1))
<1>1. /\ Flat(flags1).limit0 = HalfSize - 1 /\ {0, 1, 2, 3, 7} \subseteq Flat(flags1).flags2
      /\ Flat(flags1).base0 = 0 /\ Flat(flags1).base16 = 0 /\ Flat(flags1).base24 = 0
  BY LowBits DEF Flat, Flat32
<1>2. \A k \in {0, 1, 2, 3} : Bit(Flat(flags1).flags2, k) = 1
  BY <1>1 DEF Bit
<1>3. Limit(Flat(flags1)) = (HalfSize - 1) + HalfSize * (1 + 2 * 1 + 4 * 1 + 8 * 1)
  BY <1>1, <1>2 DEF Limit
<1>4. Limit(Flat(flags1)) = 16 * HalfSize - 1
  BY <1>3, Addresses
<1> QED
  BY <1>1, <1>4 DEF Covers

\* The kernel's code and stack are good for level 0, the program's for 3.
LEMMA SegmentsFit ==
    /\ CodeAt(KernelCs, 0) /\ StackAt(KernelDs, 0)
    /\ CodeAt(UserCs, 3) /\ StackAt(UserDs, 3)
<1>1. /\ Descriptor(KernelCs) = Gdt[1] /\ Descriptor(KernelDs) = Gdt[2]
      /\ Descriptor(UserCs) = Gdt[3] /\ Descriptor(UserDs) = Gdt[4]
  BY Selectors, GdtEntries DEF Descriptor, GdtLimit, NbrGdtEntries
<1> QED
  BY <1>1, Selectors, GdtEntries, FlatCovers
  DEF CodeAt, StackAt, Flat, Dpl, Bit, CodeXR, DataRW, Present, Dpl3

\* Whatever the address of ktss, the limit that tss_init takes for its size
\* still covers ss0 and esp0.
LEMMA TssFits == TaskState
<1> DEFINE size == Plus(Ktss, Word(0, SizeofTss))
<1>1. Descriptor(TaskRegister) = Gdt[5]
  BY GdtEntries DEF Descriptor, TaskRegister, TssIndex, NbrGdtEntries, GdtLimit, Rpl
<1>2. size.lo \in Nat /\ size.lo >= 103
  <2>1. size.lo = (Ktss.lo + 8296) % 65536
    BY DEF Plus, Word, SizeofTss, HalfSize
  <2>2. \A x \in Nat : x < 65536 /\ x % 4096 = 0 => (x + 8296) % 65536 >= 103
    OBVIOUS
  <2>3. \A x \in Nat : (x + 8296) % 65536 \in Nat
    OBVIOUS
  <2> QED
    BY <2>1, <2>2, <2>3, Addresses DEF HalfSize
<1>3. Limit(Gdt[5]) >= 103
  <2> DEFINE b == Bit(Gdt[5].flags2, 0) + 2 * Bit(Gdt[5].flags2, 1)
                  + 4 * Bit(Gdt[5].flags2, 2) + 8 * Bit(Gdt[5].flags2, 3)
  <2>1. b \in Nat
    BY DEF Bit
  <2>2. Limit(Gdt[5]) = size.lo + HalfSize * b
    BY GdtEntries DEF Limit
  <2> HIDE DEF b, size
  <2>3. HalfSize * b \in Nat
    BY <2>1, Addresses
  <2> QED
    BY <1>2, <2>2, <2>3
<1> QED
  BY <1>1, <1>3, GdtEntries DEF TaskState, TssSegment, Present, Dpl3

\* The kernel's stack lies in the kernel's space.
LEMMA StackTop == Plus(KernelStackPa, KernelSpace).hi >= KernelSpace.hi
<1>1. \A x \in Nat : x < 65536 => (x + 0) \div 65536 = 0
  OBVIOUS
<1>2. (KernelStackPa.lo + 0) \div HalfSize = 0
  BY <1>1, Addresses DEF HalfSize
<1>3. /\ (16 + 49152 + 0) % 65536 >= 49152
      /\ (17 + 49152 + 0) % 65536 >= 49152
  OBVIOUS
<1>4. (KernelStackPa.hi + 49152 + 0) % HalfSize >= 49152
  BY <1>3, Addresses DEF HalfSize
<1> QED
  BY <1>2, <1>4 DEF Plus, Word, KernelSpace

\* Every entry of the IDT is an interrupt gate of the kernel's code to the
\* stub of its vector, open to programs for four vectors.
LEMMA IdtEntries ==
    ASSUME NEW v \in Vectors
    PROVE  /\ Idt[v].selector = KernelCs /\ Idt[v].stub = v
           /\ Masks(v) /\ 7 \in Idt[v].flags2
           /\ GateDpl(v) = IF v \in {3, 4, 5, SyscallVector} THEN 3 ELSE 0
<1> DEFINE Intr(n) == [selector |-> KernelCs, stub |-> n,
                       flags2 |-> IdtInterrupt \cup Present \cup Idt32B]
           Sys(n) == [selector |-> KernelCs, stub |-> n,
                      flags2 |-> IdtInterrupt \cup Dpl3 \cup Present \cup Idt32B]
           all == [n \in Vectors |-> SetIntrGate(ZeroIdt, n)[n]]
<1>1. Vectors = 0..255 /\ {3, 4, 5, SyscallVector} \subseteq Vectors /\ SyscallVector = 128
  BY DEF Vectors, NbrIdtEntries, SyscallVector
<1>2. \A n \in Vectors : SetIntrGate(ZeroIdt, n)[n] = Intr(n)
  <2>1. \A n \in Vectors : ~(n >= NbrIdtEntries)
    BY DEF Vectors, NbrIdtEntries
  <2> QED
    BY <2>1 DEF SetIntrGate, SetIdtEntry, ZeroIdt
<1>3. all = [n \in Vectors |-> Intr(n)]
  BY <1>2
<1>4. \A idt, n : n \in Vectors => SetSystemGate(idt, n) = [idt EXCEPT ![n] = Sys(n)]
  BY <1>1 DEF SetSystemGate, SetIdtEntry, NbrIdtEntries
<1> DEFINE t3 == [all EXCEPT ![3] = Sys(3)]
           t4 == [t3 EXCEPT ![4] = Sys(4)]
           t5 == [t4 EXCEPT ![5] = Sys(5)]
<1>5. Idt = [t5 EXCEPT ![SyscallVector] = Sys(SyscallVector)]
  <2>1. Idt = SetSystemGate(SetSystemGate(SetSystemGate(SetSystemGate(all, 3), 4), 5),
                            SyscallVector)
    BY Zenon DEF Idt
  <2>2. 3 \in Vectors /\ 4 \in Vectors /\ 5 \in Vectors /\ SyscallVector \in Vectors
    BY <1>1
  <2> HIDE DEF all, Sys, t3, t4, t5
  <2>3. SetSystemGate(all, 3) = t3
    BY <1>4, <2>2, Zenon DEF t3
  <2>4. SetSystemGate(t3, 4) = t4
    BY <1>4, <2>2, Zenon DEF t4
  <2>5. SetSystemGate(t4, 5) = t5
    BY <1>4, <2>2, Zenon DEF t5
  <2>6. SetSystemGate(t5, SyscallVector) = [t5 EXCEPT ![SyscallVector] = Sys(SyscallVector)]
    BY <1>4, <2>2, ZenonT(40)
  <2> QED
    BY <2>1, <2>3, <2>4, <2>5, <2>6
<1>6. Idt[v] = IF v \in {3, 4, 5, SyscallVector} THEN Sys(v) ELSE Intr(v)
  BY <1>1, <1>3, <1>5, ZenonT(40)
<1>7. CASE v \in {3, 4, 5, SyscallVector}
  BY <1>6, <1>7 DEF Masks, GateDpl, Dpl, Bit, IdtInterrupt, Present, Idt32B, Dpl3
<1>8. CASE v \notin {3, 4, 5, SyscallVector}
  BY <1>6, <1>8 DEF Masks, GateDpl, Dpl, Bit, IdtInterrupt, Present, Idt32B
<1> QED
  BY <1>7, <1>8

\* The processor comes to the handler of any vector, from the kernel and from
\* a program, at every address the linker may give to the TSS and the stack.
THEOREM EveryVectorEnters ==
    ASSUME NEW v \in Vectors, NEW cpl \in {0, 3}
    PROVE  Enters(v, cpl)
<1>1. v * 8 + 7 <= IdtLimit
  BY DEF Vectors, IdtLimit, NbrIdtEntries
<1> QED
  BY <1>1, IdtEntries, SegmentsFit, TssFits, StackTop DEF Enters, TssInit

\* It returns to the kernel and to a program that was interrupted, and to the
\* context of a new program.
THEOREM ContextsReturn ==
    /\ Returns(UserContext)
    /\ \A c : c.cs = KernelCs \/ (c.cs = UserCs /\ c.ss = UserDs) => Returns(c)
BY SegmentsFit, Selectors DEF Returns, UserContext

\* The I/O map denies a program every port.
THEOREM NoPortAllowed ==
    ASSUME NEW port \in Half PROVE ~PortAllowed(port)
<1>1. \A i \in DOMAIN TssInit.iomap : TssInit.iomap[i] = 0..7
  <2> DEFINE map == [i \in 0..8191 |-> {}]
  <2>1. ZeroTss = [ss0 |-> 0, esp0 |-> Word(0, 0), iomapbase |-> 0, iomap |-> map]
    BY Zenon DEF ZeroTss
  <2> HIDE DEF map
  <2>2. TssInit.iomap = [i \in DOMAIN map |-> 0..7]
    BY <2>1 DEF TssInit
  <2> QED
    BY <2>2
<1>2. port \in Nat
  BY Addresses DEF Half
<1>3. port % 8 \in 0..7
  BY <1>2
<1> QED
  BY <1>1, <1>3 DEF PortAllowed

----------------------------------------------------------------------------
(***************************************************************************)
(* Interrupts.                                                             *)
(***************************************************************************)

\* Vectors, request lines and vectors of faults and traps, as numbers.
LEMMA VectorFacts ==
    /\ Vectors = 0..255 /\ Lines \subseteq (0..15) \ {2} /\ ClientLines \subseteq 0..15
    /\ Faults \subseteq 0..31 /\ Traps \subseteq 0..255 /\ UserTraps \subseteq 0..255
BY LinesAssumption, VectorsAssumption DEF Vectors, NbrIdtEntries

\* A line of the two controllers and its vector determine each other (interrupts.c).
LEMMA LineFacts ==
    ASSUME NEW i \in 0..15
    PROVE  /\ PicOf(i) \in {Master, Slave} /\ PicLine(i) \in 0..7
           /\ VectorOf(i) \in 32..47 /\ VectorOf(i) \in 0..255 /\ IrqOf(VectorOf(i)) = i
           /\ IsIrq(VectorOf(i))
           /\ i < 8 => PicOf(i) = Master /\ PicLine(i) = i
           /\ i >= 8 => PicOf(i) = Slave /\ PicLine(i) = i - 8
BY DEF PicOf, PicLine, VectorOf, IrqOf, IsIrq

\* The first of the lines of a set.
LEMMA MinOfBits ==
    ASSUME NEW S \in SUBSET Nat, S # {}
    PROVE  Min(S) \in S /\ \A x \in S : Min(S) <= x
<1>1. PICK x \in S : \A y \in S : ~(<<y, x>> \in OpToRel(<, Nat))
  BY NatLessThanWellFounded, WFMin
<1>2. \A y \in S : ~(y < x)
  BY <1>1 DEF OpToRel
<1>3. \A y \in S : x <= y
  BY <1>2
<1> QED
  BY <1>3 DEF Min

\* One context more on the stack.
LEMMA PushSeq ==
    ASSUME NEW S, NEW s \in Seq(S), NEW f \in S, NEW t, t = <<f>> \o s
    PROVE  /\ t \in Seq(S) /\ t # <<>> /\ Len(t) = Len(s) + 1 /\ Len(s) \in Nat
           /\ Head(t) = f /\ t[1] = f
           /\ \A j \in 1..Len(s) : t[j + 1] = s[j]
<1>1. <<f>> \in Seq(S) /\ Len(<<f>>) = 1 /\ Len(s) \in Nat
  OBVIOUS
<1> QED
  BY <1>1

\* One less.
LEMMA PopSeq ==
    ASSUME NEW S, NEW s \in Seq(S), s # <<>>
    PROVE  /\ Tail(s) \in Seq(S) /\ Len(Tail(s)) = Len(s) - 1 /\ Len(s) \in Nat \ {0}
           /\ Head(s) = s[1] /\ s[1] \in S
           /\ \A j \in 1..(Len(s) - 1) : Tail(s)[j] = s[j + 1]
OBVIOUS

\* The processor and the stub together push two words besides what the
\* processor always pushes.
LEMMA CodeFits ==
    \A v : /\ ErrorCode(v) + StubPushes(v) = 2
           /\ ErrorCode(v) \in {0, 1}
           /\ ErrorCode(v) = 0 => StubPushes(v) = 2
BY DEF ErrorCode, StubPushes

\* A program and the kernel are told apart by the selector in cs.
LEMMA ModeFacts ==
    ASSUME TypeOK
    PROVE  /\ UserMode <=> cs = UserCs
           /\ Rpl(cs) \in {0, 3} /\ KernelCs # UserCs
           /\ stack \in Seq(Context) /\ sp \in Nat /\ DOMAIN stack = 1..Len(stack)
           /\ Len(stack) \in Nat
BY Selectors DEF TypeOK, UserMode

\* The context that an interrupt saves.
Saved(v) == [vector |-> v, at |-> "dispatch", intr |-> intr, iopl |-> iopl,
             cs |-> cs, ss |-> IF UserMode THEN UserDs ELSE KernelDs,
             sp |-> IF UserMode THEN 0 ELSE sp]

\* What entering the handler of a vector saves, and where the stack goes.
LEMMA InterruptEnters ==
    ASSUME TypeOK, NEW v \in 0..255, NEW code, Interrupt(v, code)
    PROVE  /\ stack' = <<Saved(v)>> \o stack
           /\ sp' = (IF UserMode THEN 2 ELSE sp) + 3 + code + StubPushes(v) + SavedRegisters
           /\ intr' = FALSE /\ cs' = KernelCs /\ UNCHANGED <<iopl, cause>>
<1>1. v \in Vectors /\ Rpl(cs) \in {0, 3}
  BY VectorFacts, ModeFacts, Zenon
<1>2. Enters(v, Rpl(cs)) /\ Masks(v) /\ Idt[v].selector = KernelCs
  BY <1>1, EveryVectorEnters, IdtEntries, Zenon
<1> QED
  BY <1>2 DEF Interrupt, Saved

\* What an interrupt saves is a context.
LEMMA SavedType ==
    ASSUME TypeOK, NEW v \in 0..255 PROVE Saved(v) \in Context
BY DEF TypeOK, Saved, Context, Places

\* The contexts after an interrupt: the new one on top of the others.
LEMMA StackPushed ==
    ASSUME TypeOK, NEW v \in 0..255, NEW code, Interrupt(v, code)
    PROVE  /\ stack' \in Seq(Context) /\ stack' # <<>> /\ Len(stack') = Len(stack) + 1
           /\ DOMAIN stack' = 1..(Len(stack) + 1)
           /\ stack'[1] = Saved(v) /\ Head(stack') = Saved(v)
           /\ \A j \in DOMAIN stack' : j # 1 => j - 1 \in DOMAIN stack /\ stack'[j] = stack[j - 1]
<1>1. stack' = <<Saved(v)>> \o stack /\ stack \in Seq(Context) /\ Saved(v) \in Context
  BY InterruptEnters, SavedType, ModeFacts, Zenon
<1>2. /\ stack' \in Seq(Context) /\ stack' # <<>> /\ Len(stack') = Len(stack) + 1
      /\ stack'[1] = Saved(v) /\ Head(stack') = Saved(v) /\ Len(stack) \in Nat
      /\ \A j \in 1..Len(stack) : stack'[j + 1] = stack[j]
  <2> DEFINE f == Saved(v)
  <2> HIDE DEF f
  <2>1. stack' = <<f>> \o stack /\ stack \in Seq(Context) /\ f \in Context
    BY <1>1 DEF f
  <2>2. /\ stack' \in Seq(Context) /\ stack' # <<>> /\ Len(stack') = Len(stack) + 1
        /\ stack'[1] = f /\ Head(stack') = f /\ Len(stack) \in Nat
        /\ \A j \in 1..Len(stack) : stack'[j + 1] = stack[j]
    BY <2>1, PushSeq
  <2> QED
    BY <2>2 DEF f
<1>3. DOMAIN stack' = 1..(Len(stack) + 1) /\ DOMAIN stack = 1..Len(stack)
  BY <1>1, <1>2
<1>4. ASSUME NEW j \in DOMAIN stack', j # 1
      PROVE  j - 1 \in DOMAIN stack /\ stack'[j] = stack[j - 1]
  <2>1. j - 1 \in 1..Len(stack) /\ (j - 1) + 1 = j
    BY <1>2, <1>3, <1>4
  <2> QED
    BY <1>2, <1>3, <2>1
<1> QED
  BY <1>2, <1>3, <1>4

\* What an interrupt leaves of the invariant, whatever it interrupts.
LEMMA InterruptStack ==
    ASSUME TypeOK, StackInv, StackBalanced, NEW v \in 0..255, NEW code \in {0, 1},
           code + StubPushes(v) = 2, IsIrq(v) => stack = <<>>, Interrupt(v, code)
    PROVE  /\ stack' \in Seq(Context) /\ sp' \in Nat /\ StackInv' /\ StackBalanced'
           /\ intr' = FALSE /\ cs' = KernelCs /\ UNCHANGED <<iopl, cause>>
           /\ ~UserMode'
<1>1. /\ sp' = (IF UserMode THEN 2 ELSE sp) + 3 + code + StubPushes(v) + SavedRegisters
      /\ intr' = FALSE /\ cs' = KernelCs /\ UNCHANGED <<iopl, cause>>
  BY InterruptEnters, Zenon
<1>2. StubPushes(v) \in {1, 2} /\ KernelCs # UserCs /\ Rpl(KernelCs) = 0 /\ Rpl(UserCs) = 3
  BY Selectors DEF StubPushes
<1>3. sp \in Nat /\ Len(stack) \in Nat /\ DOMAIN stack = 1..Len(stack)
      /\ (stack = <<>> <=> Len(stack) = 0) /\ (UserMode <=> cs = UserCs)
  <2>1. stack \in Seq(Context)
    BY ModeFacts
  <2> QED
    BY <2>1, ModeFacts
<1>4. UserMode => stack = <<>>
  BY <1>2, <1>3 DEF StackInv
<1>5. ~UserMode'
  BY <1>1, <1>2 DEF UserMode
<1>6. sp' = Saved(v).sp + ContextWords(Saved(v)) /\ sp' \in Nat
  <2>1. CASE UserMode
    BY <1>1, <1>2, <1>3, <2>1, SMTT(30) DEF Saved, ContextWords, SavedRegisters
  <2>2. CASE ~UserMode
    <3>1. Rpl(cs) = 0
      BY <1>2, <1>3, <2>2 DEF TypeOK
    <3> QED
      BY <1>1, <1>2, <1>3, <2>2, <3>1, SMTT(30) DEF Saved, ContextWords, SavedRegisters
  <2> QED
    BY <2>1, <2>2
<1>7. /\ stack' \in Seq(Context) /\ stack' # <<>> /\ Len(stack') = Len(stack) + 1
      /\ DOMAIN stack' = 1..(Len(stack) + 1)
      /\ stack'[1] = Saved(v) /\ Head(stack') = Saved(v)
      /\ \A j \in DOMAIN stack' : j # 1 => j - 1 \in DOMAIN stack /\ stack'[j] = stack[j - 1]
  BY StackPushed
<1>8. StackInv'
  <2> SUFFICES ASSUME NEW j \in DOMAIN stack'
               PROVE  /\ stack'[j].cs = UserCs
                            => stack'[j].ss = UserDs /\ stack'[j].intr /\ stack'[j].iopl = 0
                      /\ j # Len(stack') => /\ ~stack'[j].intr /\ stack'[j].cs = KernelCs
                                           /\ ~IsIrq(stack'[j].vector)
    BY <1>1, <1>5 DEF StackInv
  <2>1. CASE j = 1
    BY <1>3, <1>7, <2>1 DEF Saved, StackInv
  <2>2. CASE j # 1
    <3>1. j - 1 \in DOMAIN stack /\ stack'[j] = stack[j - 1]
      BY <1>7, <2>2
    <3>2. j # Len(stack') => j - 1 # Len(stack)
      BY <1>3, <1>7
    <3> QED
      BY <3>1, <3>2 DEF StackInv
  <2> QED
    BY <2>1, <2>2
<1>9. StackBalanced'
  <2>1. sp' = Head(stack').sp + ContextWords(Head(stack'))
    BY <1>6, <1>7
  <2>2. ASSUME NEW j \in DOMAIN stack'
        PROVE  stack'[j].sp = IF j = Len(stack') THEN 0
                              ELSE stack'[j+1].sp + ContextWords(stack'[j+1])
    <3>1. CASE j = 1
      <4>1. CASE stack = <<>>
        BY <1>3, <1>7, <3>1, <4>1 DEF Saved, StackBalanced
      <4>2. CASE stack # <<>>
        <5>1. j # Len(stack') /\ j + 1 = 2 /\ 2 \in DOMAIN stack' /\ stack'[2] = stack[1]
          <6>1. 2 \in DOMAIN stack' /\ 2 # 1 /\ 2 - 1 = 1
            BY <1>3, <1>7, <4>2
          <6> QED
            BY <1>3, <1>7, <3>1, <4>2, <6>1
        <5>2. Head(stack) = stack[1]
          <6>1. stack \in Seq(Context)
            BY ModeFacts
          <6> QED
            BY <4>2, <6>1, PopSeq
        <5>3. Saved(v).sp = stack[1].sp + ContextWords(stack[1])
          BY <1>4, <4>2, <5>2 DEF Saved, StackBalanced, Top
        <5> QED
          BY <1>7, <3>1, <5>1, <5>3
      <4> QED
        BY <4>1, <4>2
    <3>2. CASE j # 1
      <4>1. j - 1 \in DOMAIN stack /\ stack'[j] = stack[j - 1]
        BY <1>7, <3>2
      <4>2. j = Len(stack') <=> j - 1 = Len(stack)
        BY <1>3, <1>7
      <4>3. j # Len(stack') => stack'[j+1] = stack[(j - 1) + 1]
        <5>1. SUFFICES ASSUME j # Len(stack') PROVE stack'[j+1] = stack[j]
          BY <1>7
        <5>2. j + 1 \in DOMAIN stack' /\ j + 1 # 1 /\ (j + 1) - 1 = j
          BY <1>3, <1>7, <5>1
        <5> QED
          BY <1>7, <5>2
      <4> QED
        BY <4>1, <4>2, <4>3 DEF StackBalanced
    <3> QED
      BY <3>1, <3>2
  <2> QED
    BY <1>7, <2>1, <2>2 DEF StackBalanced, Top
<1> QED
  BY <1>1, <1>5, <1>6, <1>7, <1>8, <1>9, Zenon

\* An exception or an int leaves the request lines to their handlers.
LEMMA InterruptLines ==
    ASSUME TypeOK, ServiceInv, TimerInv, NEW v \in 0..255, NEW code, ~IsIrq(v),
           Interrupt(v, code), UNCHANGED <<irr, isr, raised, handlers, ticks>>
    PROVE  ServiceInv' /\ TimerInv'
<1>1. /\ DOMAIN stack' = 1..(Len(stack) + 1) /\ stack'[1] = Saved(v)
      /\ \A j \in DOMAIN stack' : j # 1 => j - 1 \in DOMAIN stack /\ stack'[j] = stack[j - 1]
  BY StackPushed
<1>2. DOMAIN stack = 1..Len(stack) /\ Len(stack) \in Nat
  BY ModeFacts
<1>3. \A i \in 0..15 : stack'[1].vector # VectorOf(i)
  <2>1. stack'[1].vector = v
    BY <1>1 DEF Saved
  <2> QED
    BY <2>1, LineFacts
<1>4. \A i \in 0..15 : \A j \in DOMAIN stack' : Handling(j, i)' => Handling(j - 1, i)
  BY <1>1, <1>3 DEF Handling
<1>5. \A i \in 0..15 : \A j \in DOMAIN stack : Handling(j, i) => Handling(j + 1, i)'
  <2> SUFFICES ASSUME NEW i \in 0..15, NEW j \in DOMAIN stack, Handling(j, i)
               PROVE  Handling(j + 1, i)'
    OBVIOUS
  <2>1. j + 1 \in DOMAIN stack' /\ j + 1 # 1 /\ (j + 1) - 1 = j
    BY <1>1, <1>2
  <2>2. stack'[j + 1] = stack[j]
    BY <1>1, <2>1
  <2> QED
    BY <2>1, <2>2 DEF Handling
<1>6. ServiceInv'
  BY <1>1, <1>4 DEF ServiceInv, Handling
<1>7. (\E j \in DOMAIN stack' : Handling(j, 0)') <=> (\E j \in DOMAIN stack : Handling(j, 0))
  BY <1>4, <1>5 DEF Handling
<1>8. TimerInv'
  BY <1>7 DEF TimerInv
<1> QED
  BY <1>6, <1>8

\* An interrupt that no device asked for keeps the invariant.
LEMMA InterruptInv ==
    ASSUME InterruptsInv, NEW v \in 0..255, NEW code \in {0, 1}, ~IsIrq(v),
           code + StubPushes(v) = 2, Interrupt(v, code),
           imr' \in [{Master, Slave} -> SUBSET (0..7)],
           UNCHANGED <<irr, isr, raised, handlers, ticks>>
    PROVE  InterruptsInv'
<1> USE DEF InterruptsInv
<1>1. /\ stack' \in Seq(Context) /\ sp' \in Nat /\ StackInv' /\ StackBalanced'
      /\ intr' = FALSE /\ cs' = KernelCs /\ UNCHANGED <<iopl, cause>>
  BY InterruptStack
<1>2. TypeOK'
  BY <1>1 DEF TypeOK
<1>3. ServiceInv' /\ TimerInv'
  BY InterruptLines
<1> QED
  BY <1>1, <1>2, <1>3 DEF NeverResets

\* The kernel starts with an empty stack and nothing requested.
LEMMA InitInv == Init => InterruptsInv
<1> SUFFICES ASSUME Init PROVE InterruptsInv
  OBVIOUS
<1> USE DEF Init
<1>1. KernelCs # UserCs /\ Rpl(KernelCs) = 0
  BY Selectors
<1>2. TypeOK
  <2>1. raised \in 0..TickRange-1 /\ ticks \in 0..TickRange-1 /\ handlers \subseteq 0..255
    BY BoundsAssumption DEF VectorOf
  <2>2. /\ imr \in [{Master, Slave} -> SUBSET (0..7)]
        /\ irr \in [{Master, Slave} -> SUBSET (0..7)]
        /\ isr \in [{Master, Slave} -> SUBSET (0..7)]
    OBVIOUS
  <2>3. stack \in Seq(Context)
    OBVIOUS
  <2>4. iopl \in 0..3 /\ sp \in Nat
    OBVIOUS
  <2>5. intr \in BOOLEAN /\ cs \in {KernelCs, UserCs} /\ cause \in {"none", "panic", "reset"}
    BY Zenon
  <2> QED
    BY <2>1, <2>2, <2>3, <2>4, <2>5, Zenon DEF TypeOK
<1>3. StackInv /\ StackBalanced
  BY <1>1 DEF StackInv, StackBalanced, UserMode
<1>4. ServiceInv
  BY DEF ServiceInv
<1>5. TimerInv
  BY DEF TimerInv, Handling, Master, Slave
<1> QED
  BY <1>2, <1>3, <1>4, <1>5 DEF InterruptsInv, NeverResets

\* A count that wraps, of a request or of a tick, keeps what the timer's
\* requests, the ticks and the pending requests have to do with each other.
LEMMA TickArithmetic ==
    /\ \A n \in 0..TickRange-1 : Incremented(n) \in 0..TickRange-1
    /\ \A n, t \in 0..TickRange-1 : \A a, b \in {0, 1} :
          t + a + b \in {n, n + TickRange} =>
             /\ a = 0 => t + 1 + b \in {Incremented(n), Incremented(n) + TickRange}
             /\ b = 1 => Incremented(t) + a + 0 \in {n, n + TickRange}
BY BoundsAssumption DEF Incremented

\* Requests that a device adds to those that wait.
LEMMA RaiseInv ==
    ASSUME InterruptsInv, NEW i \in Lines, Raise(i)
    PROVE  InterruptsInv'
<1> USE DEF InterruptsInv
<1>1. /\ i \in 0..15 /\ i # 2 /\ PicOf(i) \in {Master, Slave} /\ PicLine(i) \in 0..7
      /\ PicLine(i) \notin irr[PicOf(i)]
  BY VectorFacts, LineFacts, ZenonT(60) DEF Raise
<1>2. /\ raised' = IF i = 0 THEN Incremented(raised) ELSE raised
      /\ irr' = [irr EXCEPT ![PicOf(i)] = irr[PicOf(i)] \cup {PicLine(i)}]
      /\ UNCHANGED <<imr, isr, intr, iopl, cs, stack, sp, handlers, ticks, cause>>
  BY DEF Raise, cpu, mode
<1>3. TypeOK'
  <2>1. raised' \in 0..TickRange-1
    BY <1>2, TickArithmetic DEF TypeOK
  <2>2. irr' \in [{Master, Slave} -> SUBSET (0..7)]
    BY <1>1, <1>2, SMTT(30) DEF TypeOK
  <2> QED
    BY <1>2, <2>1, <2>2 DEF TypeOK
<1>4. StackInv' /\ StackBalanced' /\ ServiceInv' /\ NeverResets'
  BY <1>2 DEF StackInv, StackBalanced, ServiceInv, NeverResets, Handling, UserMode, Top
<1>5. TimerInv'
  <2>0. irr'[Master] = IF i < 8 THEN irr[Master] \cup {i} ELSE irr[Master]
    <3>1. Master # Slave /\ irr \in [{Master, Slave} -> SUBSET (0..7)]
      BY DEF TypeOK, Master, Slave
    <3>2. CASE i < 8
      BY <1>1, <1>2, <3>1, <3>2, LineFacts
    <3>3. CASE ~(i < 8)
      <4>1. i >= 8
        BY <1>1, <3>3
      <4> QED
        BY <1>1, <1>2, <3>1, <3>3, <4>1, LineFacts
    <3> QED
      BY <3>2, <3>3
  <2>1. Cascade \notin irr'[Master]
    BY <1>1, <2>0 DEF TimerInv, Cascade
  <2>2. \A j \in DOMAIN stack : Handling(j, 0)' <=> Handling(j, 0)
    BY <1>2 DEF Handling
  <2>3. 0 \in irr'[Master] <=> 0 \in irr[Master] \/ i = 0
    BY <1>1, <2>0
  <2>4. i = 0 => 0 \notin irr[Master]
    BY <1>1, LineFacts
  <2>5. ASSUME i = 0, 0 \in Lines PROVE TimerInv'
    <3> DEFINE b == IF \E j \in DOMAIN stack : Handling(j, 0) THEN 1 ELSE 0
    <3>1. ticks + 0 + b \in {raised, raised + TickRange}
      BY <2>4, <2>5 DEF TimerInv
    <3>2. b' = b
      BY <1>2, <2>2
    <3>3. b \in {0, 1}
      OBVIOUS
    <3> HIDE DEF b
    <3>4. ticks + 1 + b \in {Incremented(raised), Incremented(raised) + TickRange}
      BY <3>1, <3>3, TickArithmetic DEF TypeOK
    <3>5. ticks' + 1 + b' \in {raised', raised' + TickRange}
      BY <1>2, <2>5, <3>2, <3>4
    <3> QED
      BY <1>2, <2>1, <2>3, <2>5, <3>5 DEF TimerInv, b
  <2>6. ASSUME ~(i = 0 /\ 0 \in Lines) PROVE TimerInv'
    BY <1>2, <2>1, <2>2, <2>3, <2>6 DEF TimerInv
  <2> QED
    BY <2>5, <2>6
<1> QED
  BY <1>3, <1>4, <1>5

\* The line that the processor is given: it waits, and comes before all that
\* its controller serves, and before the cascade line if it is the slave's.
LEMMA SelectedLine ==
    ASSUME TypeOK, TimerInv, Presented(Master) # {}
    PROVE  LET i == Selected
           IN /\ i \in 0..15 /\ PicLine(i) \in irr[PicOf(i)]
              /\ \A s \in isr[PicOf(i)] : PicLine(i) < s
              /\ \A s \in isr[Master] : (IF i >= 8 THEN Cascade ELSE i) < s
<1> DEFINE first == Min(Presented(Master))
           second == Min(Presented(Slave))
<1>1. \A p \in {Master, Slave} : irr[p] \subseteq 0..7 /\ imr[p] \subseteq 0..7
                                 /\ isr[p] \subseteq 0..7
  BY DEF TypeOK
<1>2. Cascade \in 0..7 /\ Slave # Master
  BY DEF Cascade, Slave, Master
<1>3. Presented(Master) \subseteq Nat /\ Presented(Slave) \subseteq Nat
  BY <1>1, <1>2 DEF Presented
<1>4. first \in Presented(Master)
  BY <1>3, MinOfBits
<1>5. first \in 0..7 /\ \A s \in isr[Master] : first < s
  BY <1>1, <1>2, <1>4 DEF Presented
<1>6. CASE first = Cascade
  <2>1. \E r \in irr[Slave] \ imr[Slave] : \A s \in isr[Slave] : r < s
    BY <1>2, <1>4, <1>6 DEF Presented, TimerInv
  <2>2. Presented(Slave) # {}
    BY <1>2, <2>1 DEF Presented
  <2>3. second \in Presented(Slave)
    BY <1>3, <2>2, MinOfBits
  <2>4. second \in 0..7 /\ second \in irr[Slave] /\ \A s \in isr[Slave] : second < s
    BY <1>1, <1>2, <2>3 DEF Presented
  <2>5. Selected = 8 + second
    BY <1>6 DEF Selected
  <2>6. Selected \in 0..15 /\ Selected >= 8 /\ Selected - 8 = second
    BY <2>4, <2>5
  <2> QED
    BY <1>5, <1>6, <2>4, <2>6, LineFacts
<1>7. CASE first # Cascade
  <2>1. Selected = first
    BY <1>7 DEF Selected
  <2>2. first \in irr[Master]
    BY <1>4, <1>7 DEF Presented
  <2>3. Selected \in 0..15 /\ Selected < 8 /\ ~(Selected >= 8)
    BY <1>5, <2>1
  <2> QED
    BY <1>5, <2>1, <2>2, <2>3, LineFacts
<1> QED
  BY <1>6, <1>7

\* A request is accepted with nothing on the stack, so that its context is the
\* only one, and its line the first in service.
LEMMA AcceptIrqInv == InterruptsInv /\ AcceptIrq => InterruptsInv'
<1> SUFFICES ASSUME InterruptsInv, AcceptIrq PROVE InterruptsInv'
  OBVIOUS
<1> DEFINE i == Selected
           m == IF i >= 8 THEN Cascade ELSE i
           v == VectorOf(i)
<1> USE DEF InterruptsInv
<1>1. /\ i \in 0..15 /\ PicLine(i) \in irr[PicOf(i)]
      /\ \A s \in isr[PicOf(i)] : PicLine(i) < s
      /\ \A s \in isr[Master] : m < s
  BY SelectedLine DEF AcceptIrq
<1>2. stack = <<>> /\ intr
  BY DEF AcceptIrq, StackInv
<1>3. /\ Interrupt(v, 0)
      /\ irr' = [irr EXCEPT ![PicOf(i)] = irr[PicOf(i)] \ {PicLine(i)}]
      /\ isr' = [p \in {Master, Slave} |->
                   IF p = Master THEN isr[p] \cup {m}
                   ELSE IF i >= 8 THEN isr[p] \cup {PicLine(i)} ELSE isr[p]]
      /\ UNCHANGED <<imr, raised, handlers, ticks>>
  BY DEF AcceptIrq
<1>4. /\ PicOf(i) \in {Master, Slave} /\ PicLine(i) \in 0..7 /\ v \in 32..47 /\ v \in 0..255
      /\ i < 8 => PicOf(i) = Master /\ PicLine(i) = i
      /\ i >= 8 => PicOf(i) = Slave /\ PicLine(i) = i - 8
      /\ m \in 0..7
  BY <1>1, LineFacts DEF Cascade
<1>5. 0 + StubPushes(v) = 2
  BY <1>4 DEF StubPushes
<1> HIDE DEF v, m, i
<1>6. /\ stack' \in Seq(Context) /\ sp' \in Nat /\ StackInv' /\ StackBalanced'
      /\ intr' = FALSE /\ cs' = KernelCs /\ UNCHANGED <<iopl, cause>>
  BY <1>2, <1>3, <1>4, <1>5, InterruptStack
<1>7. DOMAIN stack' = {1} /\ stack'[1] = Saved(v)
  <2>1. DOMAIN stack' = 1..(Len(stack) + 1) /\ stack'[1] = Saved(v)
    BY <1>3, <1>4, StackPushed
  <2> QED
    BY <1>2, <2>1
<1>8. TypeOK'
  <2>1. irr' \in [{Master, Slave} -> SUBSET (0..7)]
    BY <1>3 DEF TypeOK
  <2>2. isr' \in [{Master, Slave} -> SUBSET (0..7)]
    BY <1>3, <1>4 DEF TypeOK
  <2> QED
    BY <1>3, <1>6, <2>1, <2>2 DEF TypeOK
<1>9. Master # Slave
  BY DEF Master, Slave
<1>10. ServiceInv'
  <2> SUFFICES ASSUME NEW k \in 0..15, Handling(1, k)'
               PROVE  /\ PicLine(k) \in isr'[PicOf(k)]
                      /\ \A s \in isr'[PicOf(k)] : PicLine(k) <= s
    BY <1>7 DEF ServiceInv
  <2>1. VectorOf(k) = VectorOf(i)
    BY <1>7 DEF Handling, Saved, v
  <2>2. k = i
    BY <1>1, <2>1 DEF VectorOf
  <2>3. \A p \in {Master, Slave} : isr[p] \subseteq 0..7
    BY DEF TypeOK
  <2>4. CASE i < 8
    <3>1. isr'[Master] = isr[Master] \cup {i}
      BY <1>1, <1>3, <1>4, <2>4 DEF m
    <3> QED
      BY <1>1, <1>4, <2>2, <2>3, <2>4, <3>1
  <2>5. CASE i >= 8
    <3>1. isr'[Slave] = isr[Slave] \cup {PicLine(i)}
      BY <1>1, <1>3, <1>9, <2>5
    <3> QED
      BY <1>1, <1>4, <2>2, <2>3, <2>5, <3>1
  <2> QED
    BY <1>1, <2>4, <2>5
<1>11. TimerInv'
  <2>1. Handling(1, 0)' <=> i = 0
    <3>1. stack'[1].vector = VectorOf(i) /\ stack'[1].at = "dispatch"
      BY <1>7 DEF Saved, v
    <3> QED
      BY <1>1, <1>7, <3>1 DEF Handling, VectorOf
  <2>2. ~\E j \in DOMAIN stack : Handling(j, 0)
    BY <1>2 DEF Handling
  <2>3. irr'[Master] = IF i < 8 THEN irr[Master] \ {i} ELSE irr[Master]
    <3>1. irr \in [{Master, Slave} -> SUBSET (0..7)]
      BY DEF TypeOK
    <3>2. CASE i < 8
      BY <1>1, <1>3, <1>4, <1>9, <3>1, <3>2
    <3>3. CASE i >= 8
      BY <1>1, <1>3, <1>4, <1>9, <3>1, <3>3
    <3> QED
      BY <1>1, <3>2, <3>3
  <2>4. i = 0 => 0 \in irr[Master]
    BY <1>1, <1>4
  <2>5. ticks \in Nat
    BY BoundsAssumption DEF TypeOK
  <2> QED
    BY <1>1, <1>3, <1>7, <2>1, <2>2, <2>3, <2>4, <2>5 DEF TimerInv
<1> QED
  BY <1>6, <1>8, <1>10, <1>11 DEF NeverResets

\* A fault of the processor interrupts whatever runs.
LEMMA FaultInv ==
    ASSUME InterruptsInv, NEW v \in Faults, Fault(v)
    PROVE  InterruptsInv'
<1>1. v \in 0..255 /\ ~IsIrq(v)
  BY VectorFacts DEF IsIrq
<1>2. ErrorCode(v) \in {0, 1} /\ ErrorCode(v) + StubPushes(v) = 2
  BY CodeFits
<1>3. /\ Interrupt(v, ErrorCode(v)) /\ UNCHANGED <<irr, isr, raised, handlers, ticks>>
      /\ imr' \in [{Master, Slave} -> SUBSET (0..7)]
  BY DEF Fault, pics, InterruptsInv, TypeOK
<1> QED
  BY <1>1, <1>2, <1>3, InterruptInv

\* An int of the kernel, or one that a program may call or gets a general
\* protection for.
LEMMA SoftwareInterruptInv ==
    ASSUME InterruptsInv, NEW v \in 0..255, SoftwareInterrupt(v), UserMode \/ v \in Traps,
           UNCHANGED <<pics, raised, handlers, ticks>>
    PROVE  InterruptsInv'
<1>1. Rpl(cs) = IF UserMode THEN 3 ELSE 0
  BY Selectors DEF InterruptsInv, TypeOK, UserMode
<1>2. UNCHANGED <<irr, isr, raised, handlers, ticks>>
      /\ imr' \in [{Master, Slave} -> SUBSET (0..7)]
  BY Zenon DEF pics, InterruptsInv, TypeOK
<1>3. GateDpl(v) = IF v \in {3, 4, 5, SyscallVector} THEN 3 ELSE 0
  BY VectorFacts, IdtEntries, Zenon
<1>4. CASE Rpl(cs) <= GateDpl(v)
  <2>1. ~IsIrq(v) /\ ErrorCode(v) = 0
    <3>1. CASE UserMode
      BY <1>1, <1>3, <1>4, <3>1 DEF IsIrq, ErrorCode, SyscallVector
    <3>2. CASE ~UserMode
      BY <3>2, TrapsAssumption
    <3> QED
      BY <3>1, <3>2
  <2>2. 0 + StubPushes(v) = 2 /\ Interrupt(v, 0)
    BY <1>4, <2>1, CodeFits DEF SoftwareInterrupt
  <2> QED
    BY <1>2, <2>1, <2>2, InterruptInv
<1>5. CASE ~(Rpl(cs) <= GateDpl(v))
  <2>1. ~IsIrq(13) /\ 1 + StubPushes(13) = 2 /\ 13 \in 0..255
    BY DEF IsIrq, StubPushes
  <2>2. Interrupt(13, 1)
    BY <1>5 DEF SoftwareInterrupt
  <2> QED
    BY <1>2, <2>1, <2>2, InterruptInv
<1> QED
  BY <1>4, <1>5

\* The dispatcher and the handlers change where the context on top is.
LEMMA StackContinues ==
    ASSUME TypeOK, StackInv, StackBalanced, stack # <<>>, NEW place \in Places, Continue(place),
           UNCHANGED <<mode, sp>>
    PROVE  /\ stack' \in Seq(Context) /\ stack' # <<>> /\ DOMAIN stack' = DOMAIN stack
           /\ Len(stack') = Len(stack) /\ 1 \in DOMAIN stack /\ Head(stack') = stack'[1]
           /\ stack[1] = Top /\ stack'[1] = [Top EXCEPT !.at = place]
           /\ Top \in Context
           /\ \A j \in DOMAIN stack : j # 1 => stack'[j] = stack[j]
           /\ StackInv' /\ StackBalanced'
<1>1. stack \in Seq(Context)
  BY ModeFacts
<1>2. /\ Tail(stack) \in Seq(Context) /\ Len(Tail(stack)) = Len(stack) - 1
      /\ Len(stack) \in Nat \ {0} /\ Top = stack[1] /\ stack[1] \in Context
      /\ \A j \in 1..(Len(stack) - 1) : Tail(stack)[j] = stack[j + 1]
  BY <1>1, PopSeq DEF Top
<1> DEFINE f == [Top EXCEPT !.at = place]
<1>3. f \in Context
  BY <1>2 DEF Context
<1>4. /\ stack' \in Seq(Context) /\ stack' # <<>> /\ Len(stack') = Len(stack)
      /\ Head(stack') = f /\ stack'[1] = f
      /\ \A j \in 1..(Len(stack) - 1) : stack'[j + 1] = Tail(stack)[j]
  <2> DEFINE s == Tail(stack)
  <2>1. stack' = <<f>> \o s
    BY DEF Continue
  <2>2. s \in Seq(Context)
    BY <1>2
  <2> HIDE DEF f, s
  <2>3. /\ stack' \in Seq(Context) /\ stack' # <<>> /\ Len(stack') = Len(s) + 1
        /\ Head(stack') = f /\ stack'[1] = f
        /\ \A j \in 1..Len(s) : stack'[j + 1] = s[j]
    BY <1>3, <2>1, <2>2, PushSeq
  <2> QED
    BY <1>2, <2>3 DEF s
<1>5. DOMAIN stack' = 1..Len(stack) /\ DOMAIN stack = 1..Len(stack)
  BY <1>1, <1>4
<1>6. ASSUME NEW j \in DOMAIN stack, j # 1 PROVE stack'[j] = stack[j]
  <2>1. j - 1 \in 1..(Len(stack) - 1) /\ (j - 1) + 1 = j
    BY <1>2, <1>5, <1>6
  <2> QED
    BY <1>2, <1>4, <2>1
<1>7. ASSUME NEW j \in DOMAIN stack
      PROVE  /\ stack'[j].vector = stack[j].vector /\ stack'[j].intr = stack[j].intr
             /\ stack'[j].iopl = stack[j].iopl /\ stack'[j].cs = stack[j].cs
             /\ stack'[j].ss = stack[j].ss /\ stack'[j].sp = stack[j].sp
  BY <1>2, <1>4, <1>6 DEF Context
<1>8. StackInv'
  BY <1>4, <1>5, <1>7 DEF StackInv, UserMode, mode
<1>9. StackBalanced'
  <2>1. \A j \in DOMAIN stack : ContextWords(stack'[j]) = ContextWords(stack[j])
    BY <1>7 DEF ContextWords
  <2>2. sp' = Head(stack').sp + ContextWords(Head(stack'))
    <3>1. 1 \in DOMAIN stack /\ Head(stack') = stack'[1]
      BY <1>2, <1>4, <1>5
    <3>2. sp = stack[1].sp + ContextWords(stack[1])
      BY <1>2 DEF StackBalanced
    <3> QED
      BY <1>7, <2>1, <3>1, <3>2
  <2>3. ASSUME NEW j \in DOMAIN stack'
        PROVE  stack'[j].sp = IF j = Len(stack') THEN 0
                              ELSE stack'[j+1].sp + ContextWords(stack'[j+1])
    <3>1. j # Len(stack) => j + 1 \in DOMAIN stack
      BY <1>2, <1>5
    <3> QED
      BY <1>4, <1>5, <1>7, <2>1, <3>1 DEF StackBalanced
  <2> QED
    BY <1>4, <2>2, <2>3 DEF StackBalanced, Top
<1> QED
  BY <1>2, <1>4, <1>5, <1>6, <1>8, <1>9

\* A step that gives the top context another place, and no line of the
\* controllers a new state.
LEMMA ContinueInv ==
    ASSUME InterruptsInv, stack # <<>>, NEW place \in Places, Continue(place),
           UNCHANGED <<pics, raised, mode, sp, handlers, ticks, cause>>,
           place # "dispatch", place = "handler" => Top.at = "dispatch",
           Top.vector = VectorOf(0) =>
              (Top.at \in {"dispatch", "handler"} <=> place = "handler")
    PROVE  InterruptsInv'
<1> USE DEF InterruptsInv
<1>1. /\ stack' \in Seq(Context) /\ stack' # <<>> /\ DOMAIN stack' = DOMAIN stack
      /\ 1 \in DOMAIN stack /\ stack[1] = Top /\ stack'[1] = [Top EXCEPT !.at = place]
      /\ Top \in Context
      /\ \A j \in DOMAIN stack : j # 1 => stack'[j] = stack[j]
      /\ StackInv' /\ StackBalanced'
  BY StackContinues
<1>2. /\ UNCHANGED <<imr, irr, isr, raised, intr, iopl, cs, sp, handlers, ticks, cause>>
  BY DEF pics, mode
<1>3. TypeOK'
  BY <1>1, <1>2 DEF TypeOK
<1>4. stack'[1].at = place /\ stack'[1].vector = stack[1].vector
  BY <1>1 DEF Context
<1>5. \A i \in 0..15 : \A j \in DOMAIN stack : Handling(j, i)' => Handling(j, i)
  BY <1>1, <1>4 DEF Handling
<1>6. \A j \in DOMAIN stack : Handling(j, 0)' <=> Handling(j, 0)
  BY <1>1, <1>4 DEF Handling
<1>7. ServiceInv' /\ TimerInv'
  BY <1>1, <1>2, <1>5, <1>6 DEF ServiceInv, TimerInv
<1> QED
  BY <1>1, <1>2, <1>3, <1>7 DEF NeverResets

\* interrupt_dispatcher looks the vector up in the table of handlers.
LEMMA DispatchInv == InterruptsInv /\ Dispatch => InterruptsInv'
<1> SUFFICES ASSUME InterruptsInv, Dispatch PROVE InterruptsInv'
  OBVIOUS
<1>1. stack # <<>> /\ Top.at = "dispatch"
  BY DEF Dispatch, At
<1>2. CASE Top.vector \notin handlers /\ Top.vector # 3 /\ Top.vector <= 31
  <2>1. /\ UNCHANGED <<imr, irr, isr, raised, iopl, cs, stack, sp, handlers, ticks>>
        /\ intr' = FALSE /\ cause' = "panic"
    BY <1>2 DEF Dispatch, pics
  <2> USE DEF InterruptsInv
  <2>2. TypeOK'
    BY <2>1 DEF TypeOK
  <2>3. cs = KernelCs /\ ~UserMode /\ ~UserMode'
    BY <1>1, <2>1, Selectors DEF StackInv, UserMode
  <2>4. StackInv'
    BY <2>1, <2>3 DEF StackInv
  <2>5. StackBalanced' /\ ServiceInv' /\ TimerInv' /\ NeverResets'
    BY <2>1 DEF StackBalanced, ServiceInv, TimerInv, NeverResets, Handling, Top
  <2> QED
    BY <2>2, <2>4, <2>5
<1>3. CASE ~(Top.vector \notin handlers /\ Top.vector # 3 /\ Top.vector <= 31)
  <2> DEFINE place == IF Top.vector = 3 THEN "breakpoint"
                      ELSE IF Top.vector \in handlers THEN "handler" ELSE "return"
  <2>1. place \in Places /\ place # "dispatch"
    BY DEF Places
  <2>2. Continue(place) /\ UNCHANGED <<pics, raised, mode, sp, handlers, ticks, cause>>
    BY <1>3 DEF Dispatch, mode
  <2>3. Top.vector = VectorOf(0) => place = "handler"
    BY DEF InterruptsInv, TimerInv, VectorOf
  <2> HIDE DEF place
  <2> QED
    BY <1>1, <2>1, <2>2, <2>3, ContinueInv
<1> QED
  BY <1>2, <1>3

\* The loop of the breakpoint ends.
LEMMA EnterPressedInv == InterruptsInv /\ EnterPressed => InterruptsInv'
BY ContinueInv DEF EnterPressed, At, Places

\* The handler of an exception or a trap returns.
LEMMA HandleOtherInv == InterruptsInv /\ HandleOther => InterruptsInv'
<1> SUFFICES ASSUME InterruptsInv, HandleOther PROVE InterruptsInv'
  OBVIOUS
<1>1. Top.vector # VectorOf(0)
  BY LineFacts DEF HandleOther
<1> QED
  BY <1>1, ContinueInv DEF HandleOther, At, Places

\* The handler of a request line runs with its context alone on the stack,
\* and its line first in service: the end of interrupt is its own.
LEMMA HandledLine ==
    ASSUME InterruptsInv, At("handler"), IsIrq(Top.vector)
    PROVE  LET i == IrqOf(Top.vector)
           IN /\ i \in 0..15 /\ Top.vector = VectorOf(i) /\ Top.vector \in 32..47
              /\ DOMAIN stack = {1} /\ Len(stack) = 1 /\ Handling(1, i)
              /\ PicLine(i) \in isr[PicOf(i)]
              /\ EndOfInterrupt(i) = [isr EXCEPT ![PicOf(i)] = @ \ {PicLine(i)}]
<1> DEFINE i == IrqOf(Top.vector)
<1> USE DEF InterruptsInv
<1>1. i \in 0..15 /\ Top.vector = VectorOf(i) /\ Top.vector \in 32..47
  BY DEF IrqOf, IsIrq, VectorOf
<1>2. Top = stack[1] /\ 1 \in DOMAIN stack /\ stack \in Seq(Context)
  <2>1. stack \in Seq(Context) /\ stack # <<>>
    BY ModeFacts DEF At
  <2> QED
    BY <2>1, PopSeq DEF Top
<1>3. Len(stack) = 1 /\ DOMAIN stack = {1}
  <2>1. 1 = Len(stack)
    BY <1>2 DEF StackInv
  <2> QED
    BY <1>2, <2>1
<1>4. Handling(1, i)
  BY <1>1, <1>2 DEF Handling, At
<1>5. PicLine(i) \in isr[PicOf(i)] /\ \A s \in isr[PicOf(i)] : PicLine(i) <= s
  BY <1>1, <1>2, <1>4 DEF ServiceInv
<1>6. Min(isr[PicOf(i)] \cup {8}) = PicLine(i)
  <2>1. PicOf(i) \in {Master, Slave} /\ PicLine(i) \in 0..7
    BY <1>1, LineFacts
  <2>2. isr[PicOf(i)] \cup {8} \in SUBSET Nat /\ isr[PicOf(i)] \cup {8} # {}
    BY <2>1 DEF TypeOK
  <2> DEFINE S == isr[PicOf(i)] \cup {8}
             x == Min(S)
  <2>3. x \in S /\ \A y \in S : x <= y
    BY <2>2, MinOfBits
  <2>4. PicLine(i) \in S /\ \A y \in S : PicLine(i) <= y
    BY <1>5, <2>1
  <2>5. x \in Nat /\ PicLine(i) \in Nat
    BY <2>1, <2>2, <2>3
  <2> HIDE DEF S, x
  <2>6. x = PicLine(i)
    BY <2>3, <2>4, <2>5
  <2> QED
    BY <2>6 DEF S, x
<1> QED
  BY <1>1, <1>3, <1>4, <1>5, <1>6 DEF EndOfInterrupt

\* The handler of a request line counts the tick, if it is the timer's, and acknowledges.
LEMMA HandleIrqInv == InterruptsInv /\ HandleIrq => InterruptsInv'
<1> SUFFICES ASSUME InterruptsInv, HandleIrq PROVE InterruptsInv'
  OBVIOUS
<1> DEFINE i == IrqOf(Top.vector)
<1> USE DEF InterruptsInv
<1>1. /\ i \in 0..15 /\ Top.vector = VectorOf(i) /\ Top.vector \in 32..47
      /\ DOMAIN stack = {1} /\ Handling(1, i) /\ stack # <<>>
      /\ isr' = [isr EXCEPT ![PicOf(i)] = @ \ {PicLine(i)}]
  BY HandledLine DEF HandleIrq, At
<1>2. /\ ticks' = TickOf(Top.vector) /\ Continue("return")
      /\ UNCHANGED <<imr, irr, raised, mode, sp, handlers, cause>>
  BY DEF HandleIrq
<1> HIDE DEF i
<1>3. /\ stack' \in Seq(Context) /\ stack' # <<>> /\ DOMAIN stack' = {1}
      /\ stack'[1] = [Top EXCEPT !.at = "return"] /\ Top \in Context
      /\ StackInv' /\ StackBalanced'
  BY <1>1, <1>2, StackContinues DEF Places
<1>4. \A k \in 0..15 : ~Handling(1, k)'
  BY <1>3 DEF Handling, Context
<1>5. /\ ticks' = IF i = 0 THEN Incremented(ticks) ELSE ticks
      /\ ticks' \in 0..TickRange-1
  BY <1>1, <1>2, TickArithmetic DEF TickOf, VectorOf, TypeOK
<1>6. TypeOK'
  <2>1. isr' \in [{Master, Slave} -> SUBSET (0..7)]
    <3>1. isr \in [{Master, Slave} -> SUBSET (0..7)] /\ PicOf(i) \in {Master, Slave}
      BY <1>1, LineFacts DEF TypeOK
    <3>2. isr' = [isr EXCEPT ![PicOf(i)] = isr[PicOf(i)] \ {PicLine(i)}]
      BY <1>1
    <3> QED
      BY <3>1, <3>2
  <2> QED
    BY <1>2, <1>3, <1>5, <2>1 DEF TypeOK, mode
<1>7. ServiceInv'
  BY <1>3, <1>4 DEF ServiceInv
<1>8. TimerInv'
  <2>1. (\E j \in DOMAIN stack : Handling(j, 0)) <=> i = 0
    <3>1. stack[1].vector = VectorOf(i)
      BY <1>1 DEF Handling
    <3> QED
      BY <1>1, <3>1 DEF Handling, VectorOf
  <2>2. ~\E j \in DOMAIN stack' : Handling(j, 0)'
    BY <1>3, <1>4
  <2>3. ASSUME i = 0, 0 \in Lines PROVE TimerInv'
    <3> DEFINE a == IF 0 \in irr[Master] THEN 1 ELSE 0
    <3>1. ticks + a + 1 \in {raised, raised + TickRange} /\ a \in {0, 1}
      BY <2>1, <2>3 DEF TimerInv
    <3>2. a' = a
      BY <1>2
    <3> HIDE DEF a
    <3>3. Incremented(ticks) + a + 0 \in {raised, raised + TickRange}
      BY <3>1, TickArithmetic DEF TypeOK
    <3>4. ticks' + a' + 0 \in {raised', raised' + TickRange}
      BY <1>2, <1>5, <2>3, <3>2, <3>3
    <3> QED
      BY <1>2, <2>2, <2>3, <3>4 DEF TimerInv, a
  <2>4. ASSUME ~(i = 0 /\ 0 \in Lines) PROVE TimerInv'
    BY <1>2, <1>5, <2>1, <2>2, <2>4 DEF TimerInv
  <2> QED
    BY <2>3, <2>4
<1> QED
  BY <1>2, <1>3, <1>6, <1>7, <1>8 DEF NeverResets

\* A return finds what the interrupt left: the stack, and a fit context.
LEMMA Restored ==
    ASSUME InterruptsInv, ContextRestore
    PROVE  /\ stack \in Seq(Context) /\ stack # <<>> /\ Top = stack[1] /\ Top \in Context
           /\ Top.at = "return" /\ stack' = Tail(stack) /\ sp' = Top.sp
           /\ intr' = Top.intr /\ iopl' = Top.iopl /\ cs' = Top.cs
           /\ UNCHANGED <<imr, irr, isr, raised, handlers, ticks, cause>>
           /\ stack' \in Seq(Context) /\ DOMAIN stack = 1..Len(stack)
           /\ DOMAIN stack' = 1..(Len(stack) - 1) /\ Len(stack') = Len(stack) - 1
           /\ Len(stack) \in Nat \ {0}
           /\ \A j \in DOMAIN stack' : j + 1 \in DOMAIN stack /\ stack'[j] = stack[j + 1]
<1> USE DEF InterruptsInv
<1>1. stack \in Seq(Context) /\ stack # <<>> /\ Top.at = "return"
  BY ModeFacts DEF ContextRestore, At
<1>2. /\ Tail(stack) \in Seq(Context) /\ Len(Tail(stack)) = Len(stack) - 1
      /\ Len(stack) \in Nat \ {0} /\ Top = stack[1] /\ stack[1] \in Context
      /\ \A j \in 1..(Len(stack) - 1) : Tail(stack)[j] = stack[j + 1]
  BY <1>1, PopSeq DEF Top
<1>3. DOMAIN stack = 1..Len(stack) /\ 1 \in DOMAIN stack
  BY <1>1, <1>2
<1>4. Top.cs \in {KernelCs, UserCs} /\ (Top.cs = UserCs => Top.ss = UserDs)
  BY <1>2, <1>3 DEF StackInv, Context
<1>5. Returns(Top)
  BY <1>4, ContextsReturn
<1>6. /\ stack' = Tail(stack) /\ sp' = sp - ContextWords(Top)
      /\ intr' = Top.intr /\ iopl' = Top.iopl /\ cs' = Top.cs
      /\ UNCHANGED <<imr, irr, isr, raised, handlers, ticks, cause>>
  BY <1>5 DEF ContextRestore, Iret, pics
<1>7. sp' = Top.sp
  <2>1. sp = Top.sp + ContextWords(Top)
    BY <1>1 DEF StackBalanced
  <2>2. Top.sp \in Nat /\ ContextWords(Top) \in Nat
    BY <1>2 DEF Context, ContextWords, SavedRegisters
  <2> QED
    BY <1>6, <2>1, <2>2
<1>8. DOMAIN stack' = 1..(Len(stack) - 1)
  BY <1>2, <1>6
<1>9. ASSUME NEW j \in DOMAIN stack' PROVE j + 1 \in DOMAIN stack /\ stack'[j] = stack[j + 1]
  BY <1>2, <1>3, <1>6, <1>8
<1> QED
  BY <1>1, <1>2, <1>3, <1>6, <1>7, <1>8, <1>9

\* The return to the interrupted context (context_restore).
LEMMA ContextRestoreInv == InterruptsInv /\ ContextRestore => InterruptsInv'
<1> SUFFICES ASSUME InterruptsInv, ContextRestore PROVE InterruptsInv'
  OBVIOUS
<1> USE DEF InterruptsInv
<1>1. /\ stack \in Seq(Context) /\ stack # <<>> /\ Top = stack[1] /\ Top \in Context
      /\ Top.at = "return" /\ stack' = Tail(stack) /\ sp' = Top.sp
      /\ intr' = Top.intr /\ iopl' = Top.iopl /\ cs' = Top.cs
      /\ UNCHANGED <<imr, irr, isr, raised, handlers, ticks, cause>>
      /\ stack' \in Seq(Context) /\ DOMAIN stack = 1..Len(stack)
      /\ DOMAIN stack' = 1..(Len(stack) - 1) /\ Len(stack') = Len(stack) - 1
      /\ Len(stack) \in Nat \ {0}
      /\ \A j \in DOMAIN stack' : j + 1 \in DOMAIN stack /\ stack'[j] = stack[j + 1]
  BY Restored
<1>2. 1 \in DOMAIN stack /\ (stack' = <<>> <=> Len(stack) = 1)
  <2>1. stack' \in Seq(Context)
    BY <1>1
  <2>2. stack' = <<>> <=> Len(stack') = 0
    BY <2>1
  <2> QED
    BY <1>1, <2>2
<1>3. TypeOK'
  BY <1>1 DEF TypeOK, Context
<1>4. StackInv'
  <2>1. stack' # <<>> => ~intr' /\ cs' = KernelCs
    BY <1>1, <1>2 DEF StackInv
  <2>2. UserMode' => intr' /\ iopl' = 0
    <3>1. UserMode' => Top.cs = UserCs
      BY <1>1, Selectors DEF UserMode, Context
    <3> QED
      BY <1>1, <1>2, <3>1 DEF StackInv
  <2>3. ASSUME NEW j \in DOMAIN stack'
        PROVE  /\ stack'[j].cs = UserCs
                    => stack'[j].ss = UserDs /\ stack'[j].intr /\ stack'[j].iopl = 0
               /\ j # Len(stack') => /\ ~stack'[j].intr /\ stack'[j].cs = KernelCs
                                    /\ ~IsIrq(stack'[j].vector)
    <3>1. j + 1 \in DOMAIN stack /\ stack'[j] = stack[j + 1]
      BY <1>1
    <3>2. j # Len(stack') => j + 1 # Len(stack)
      BY <1>1
    <3> QED
      BY <3>1, <3>2 DEF StackInv
  <2> QED
    BY <2>1, <2>2, <2>3 DEF StackInv
<1>5. StackBalanced'
  <2>1. sp' = IF stack' = <<>> THEN 0 ELSE Head(stack').sp + ContextWords(Head(stack'))
    <3>1. sp' = IF 1 = Len(stack) THEN 0 ELSE stack[1+1].sp + ContextWords(stack[1+1])
      BY <1>1, <1>2 DEF StackBalanced
    <3>2. stack' # <<>> => Head(stack') = stack[1+1]
      <4>1. stack' # <<>> => 1 \in DOMAIN stack' /\ Head(stack') = stack'[1]
        BY <1>1, <1>2
      <4> QED
        BY <1>1, <4>1
    <3> QED
      BY <1>2, <3>1, <3>2
  <2>2. ASSUME NEW j \in DOMAIN stack'
        PROVE  stack'[j].sp = IF j = Len(stack') THEN 0
                              ELSE stack'[j+1].sp + ContextWords(stack'[j+1])
    <3>1. j + 1 \in DOMAIN stack /\ stack'[j] = stack[j + 1]
      BY <1>1
    <3>2. j = Len(stack') <=> j + 1 = Len(stack)
      BY <1>1
    <3>3. j # Len(stack') => stack'[j+1] = stack[(j + 1) + 1]
      <4>1. j # Len(stack') => j + 1 \in DOMAIN stack'
        BY <1>1
      <4> QED
        BY <1>1, <4>1
    <3> QED
      BY <3>1, <3>2, <3>3 DEF StackBalanced
  <2> QED
    BY <2>1, <2>2 DEF StackBalanced, Top
<1>6. \A i \in 0..15 : \A j \in DOMAIN stack' : Handling(j, i)' => Handling(j + 1, i)
  BY <1>1 DEF Handling
<1>7. \A j \in DOMAIN stack : Handling(j, 0) => j - 1 \in DOMAIN stack' /\ Handling(j - 1, 0)'
  <2> SUFFICES ASSUME NEW j \in DOMAIN stack, Handling(j, 0)
               PROVE  j - 1 \in DOMAIN stack' /\ Handling(j - 1, 0)'
    OBVIOUS
  <2>1. j # 1
    BY <1>1 DEF Handling
  <2>2. j - 1 \in DOMAIN stack' /\ (j - 1) + 1 = j
    BY <1>1, <2>1
  <2>3. stack'[j - 1] = stack[j]
    BY <1>1, <2>2
  <2> QED
    BY <2>2, <2>3 DEF Handling
<1>8. ServiceInv'
  BY <1>1, <1>6 DEF ServiceInv
<1>9. (\E j \in DOMAIN stack' : Handling(j, 0)') <=> (\E j \in DOMAIN stack : Handling(j, 0))
  BY <1>1, <1>6, <1>7
<1>10. TimerInv'
  BY <1>1, <1>9 DEF TimerInv
<1> QED
  BY <1>1, <1>3, <1>4, <1>5, <1>8, <1>10, ZenonT(60) DEF NeverResets

\* A step with nothing on the stack, before and after, that leaves the
\* requests alone: main has any mode of the kernel, a program its own.
LEMMA OutsideInv ==
    ASSUME InterruptsInv, TypeOK', stack = <<>>, stack' = <<>>, sp' \in {0, sp},
           UserMode' => intr' /\ iopl' = 0, handlers \subseteq handlers',
           UNCHANGED <<irr, isr, raised, ticks, cause>>
    PROVE  InterruptsInv'
<1> USE DEF InterruptsInv
<1>1. DOMAIN stack = {} /\ DOMAIN stack' = {}
  OBVIOUS
<1>2. StackInv' /\ StackBalanced'
  BY <1>1 DEF StackInv, StackBalanced
<1>3. ServiceInv'
  BY <1>1 DEF ServiceInv
<1>4. TimerInv'
  BY <1>1 DEF TimerInv
<1> QED
  BY <1>2, <1>3, <1>4 DEF NeverResets

\* irq_enable clears a bit of a mask.
LEMMA IrqEnableInv ==
    ASSUME InterruptsInv, NEW i \in ClientLines, IrqEnable(i)
    PROVE  InterruptsInv'
<1>1. /\ stack = <<>> /\ ~UserMode /\ PicOf(i) \in {Master, Slave}
      /\ imr' = [imr EXCEPT ![PicOf(i)] = imr[PicOf(i)] \ {PicLine(i)}]
      /\ UNCHANGED <<irr, isr, raised, intr, iopl, cs, stack, sp, handlers, ticks, cause>>
  BY VectorFacts, LineFacts DEF IrqEnable, Client, cpu, mode
<1>2. imr' \in [{Master, Slave} -> SUBSET (0..7)]
  BY <1>1 DEF InterruptsInv, TypeOK
<1>3. TypeOK' /\ ~UserMode'
  BY <1>1, <1>2 DEF InterruptsInv, TypeOK, UserMode
<1> QED
  BY <1>1, <1>3, OutsideInv

\* irq_disable sets a bit of a mask.
LEMMA IrqDisableInv ==
    ASSUME InterruptsInv, NEW i \in ClientLines, IrqDisable(i)
    PROVE  InterruptsInv'
<1>1. /\ stack = <<>> /\ ~UserMode /\ PicOf(i) \in {Master, Slave} /\ PicLine(i) \in 0..7
      /\ imr' = [imr EXCEPT ![PicOf(i)] = imr[PicOf(i)] \cup {PicLine(i)}]
      /\ UNCHANGED <<irr, isr, raised, intr, iopl, cs, stack, sp, handlers, ticks, cause>>
  BY VectorFacts, LineFacts DEF IrqDisable, Client, cpu, mode
<1>2. imr' \in [{Master, Slave} -> SUBSET (0..7)]
  BY <1>1 DEF InterruptsInv, TypeOK
<1>3. TypeOK' /\ ~UserMode'
  BY <1>1, <1>2 DEF InterruptsInv, TypeOK, UserMode
<1> QED
  BY <1>1, <1>3, OutsideInv

\* set_interrupt_handler writes an entry of the table.
LEMMA SetInterruptHandlerInv ==
    ASSUME InterruptsInv, NEW v \in 0..255, SetInterruptHandler(v)
    PROVE  InterruptsInv'
<1>1. /\ stack = <<>> /\ ~UserMode /\ handlers' = handlers \cup {v}
      /\ UNCHANGED <<imr, irr, isr, raised, intr, iopl, cs, stack, sp, ticks, cause>>
  BY DEF SetInterruptHandler, Client, cpu, mode, pics
<1>2. TypeOK' /\ ~UserMode'
  BY <1>1 DEF InterruptsInv, TypeOK, UserMode
<1> QED
  BY <1>1, <1>2, OutsideInv

\* The interrupt flag is set or cleared with nothing on the stack.
LEMMA FlagInv == InterruptsInv /\ (Sti \/ Cli) => InterruptsInv'
<1> SUFFICES ASSUME InterruptsInv, Sti \/ Cli PROVE InterruptsInv'
  OBVIOUS
<1>1. /\ stack = <<>> /\ ~UserMode /\ intr' \in BOOLEAN
      /\ UNCHANGED <<imr, irr, isr, raised, iopl, cs, stack, sp, handlers, ticks, cause>>
  BY DEF Sti, Cli, Client, pics
<1>2. TypeOK' /\ ~UserMode'
  BY <1>1 DEF InterruptsInv, TypeOK, UserMode
<1> QED
  BY <1>1, <1>2, OutsideInv

\* A trap of the kernel, as a software interrupt.
LEMMA TrapInv ==
    ASSUME InterruptsInv, NEW v \in Traps, Trap(v)
    PROVE  InterruptsInv'
BY VectorFacts, SoftwareInterruptInv DEF Trap

\* cpu_context_load starts a program on an empty stack.
LEMMA CpuContextLoadInv == InterruptsInv /\ CpuContextLoad => InterruptsInv'
<1> SUFFICES ASSUME InterruptsInv, CpuContextLoad PROVE InterruptsInv'
  OBVIOUS
<1>1. Returns(UserContext)
  BY ContextsReturn
<1>2. /\ stack = <<>> /\ stack' = <<>> /\ sp' = 0
      /\ intr' = TRUE /\ iopl' = 0 /\ cs' = UserCs
      /\ UNCHANGED <<imr, irr, isr, raised, handlers, ticks, cause>>
  BY <1>1 DEF CpuContextLoad, Client, Iret, UserContext, pics
<1>3. TypeOK'
  BY <1>2 DEF InterruptsInv, TypeOK
<1> QED
  BY <1>2, <1>3, OutsideInv

\* What a program may not do is a general protection.
LEMMA ProtectionInv ==
    ASSUME InterruptsInv, Interrupt(13, 1), UNCHANGED <<pics, raised, handlers, ticks>>
    PROVE  InterruptsInv'
<1>1. /\ UNCHANGED <<irr, isr, raised, handlers, ticks>>
      /\ imr' \in [{Master, Slave} -> SUBSET (0..7)]
  BY DEF pics, InterruptsInv, TypeOK
<1>2. ~IsIrq(13) /\ 1 + StubPushes(13) = 2 /\ 13 \in 0..255
  BY DEF IsIrq, StubPushes
<1> QED
  BY <1>1, <1>2, InterruptInv

\* Neither its privilege nor the I/O map lets a program do it.
LEMMA UserProtected ==
    ASSUME InterruptsInv, UserMode
    PROVE  /\ ~(iopl >= Rpl(cs)) /\ stack = <<>> /\ intr /\ iopl = 0 /\ cs = UserCs
           /\ UserCli => Interrupt(13, 1) /\ UNCHANGED <<pics, raised, handlers, ticks>>
           /\ UserOutb => Interrupt(13, 1) /\ UNCHANGED <<pics, raised, handlers, ticks>>
<1>1. cs = UserCs /\ iopl = 0 /\ intr /\ KernelCs # UserCs
  BY ModeFacts DEF InterruptsInv, StackInv
<1>2. Rpl(cs) = 3
  BY <1>1, Selectors
<1>3. ~(iopl >= Rpl(cs)) /\ stack = <<>>
  BY <1>1, <1>2 DEF InterruptsInv, StackInv
<1>4. ~PortAllowed(UserPort)
  BY PortAssumption, NoPortAllowed
<1> QED
  BY <1>1, <1>3, <1>4 DEF UserCli, UserOutb, pics

\* A program's steps: port, trap, privileged instruction.
LEMMA UserInv == InterruptsInv /\ User => InterruptsInv'
<1> SUFFICES ASSUME InterruptsInv, User PROVE InterruptsInv'
  OBVIOUS
<1>1. UserMode
  BY DEF User, UserCli, UserOutb, UserInt, Program
<1>2. CASE UserCli \/ UserOutb
  BY <1>1, <1>2, UserProtected, ProtectionInv
<1>3. CASE \E v \in UserTraps : UserInt(v)
  BY <1>1, <1>3, VectorFacts, SoftwareInterruptInv DEF UserInt
<1> QED
  BY <1>2, <1>3 DEF User

\* The kernel's own calls: handlers, masks and the flag.
LEMMA DriverInv == InterruptsInv /\ Driver => InterruptsInv'
<1> SUFFICES ASSUME InterruptsInv, Driver PROVE InterruptsInv'
  OBVIOUS
<1>1. CASE \E i \in Lines : SetInterruptHandler(VectorOf(i))
  BY <1>1, VectorFacts, LineFacts, SetInterruptHandlerInv
<1>2. CASE \E i \in ClientLines : IrqEnable(i)
  BY <1>2, IrqEnableInv
<1>3. CASE Sti
  BY <1>3, FlagInv
<1>4. CASE \E v \in Traps : Trap(v)
  BY <1>4, TrapInv
<1>5. CASE SetInterruptHandler(13)
  <2>1. 13 \in 0..255
    OBVIOUS
  <2> QED
    BY <1>5, <2>1, SetInterruptHandlerInv
<1>6. CASE CpuContextLoad
  BY <1>6, CpuContextLoadInv
<1> QED
  BY <1>1, <1>2, <1>3, <1>4, <1>5, <1>6 DEF Driver

\* Every step keeps the invariant: one case for each disjunct of Next.
LEMMA StepInv == InterruptsInv /\ [Next]_vars => InterruptsInv'
<1> SUFFICES ASSUME InterruptsInv, [Next]_vars PROVE InterruptsInv'
  OBVIOUS
<1>1. CASE UNCHANGED vars
  <2>1. UNCHANGED <<imr, irr, isr, raised, intr, iopl, cs, stack, sp, handlers, ticks, cause>>
    BY <1>1 DEF vars, pics, cpu, mode
  <2> QED
    BY <2>1 DEF InterruptsInv, TypeOK, StackInv, StackBalanced, ServiceInv, TimerInv,
                NeverResets, Handling, UserMode, Top
<1>2. CASE Cpu
  BY <1>2, AcceptIrqInv, DispatchInv, HandleIrqInv, HandleOtherInv, ContextRestoreInv DEF Cpu
<1>3. CASE AnyClient
  <2>1. CASE Driver
    BY <2>1, DriverInv
  <2>2. CASE EnterPressed
    BY <2>2, EnterPressedInv
  <2>3. CASE Cli
    BY <2>3, FlagInv
  <2>4. CASE CpuContextLoad
    BY <2>4, CpuContextLoadInv
  <2>5. CASE \E v \in Traps \cup Faults : SetInterruptHandler(v)
    <3>1. Traps \cup Faults \subseteq 0..255
      BY VectorFacts
    <3> QED
      BY <2>5, <3>1, SetInterruptHandlerInv
  <2>6. CASE \E i \in ClientLines : IrqEnable(i) \/ IrqDisable(i)
    BY <2>6, IrqEnableInv, IrqDisableInv
  <2>7. CASE \E v \in Traps : Trap(v)
    BY <2>7, TrapInv
  <2>8. CASE \E v \in Faults : Fault(v)
    BY <2>8, FaultInv
  <2> QED
    BY <1>3, <2>1, <2>2, <2>3, <2>4, <2>5, <2>6, <2>7, <2>8 DEF AnyClient
<1>4. CASE User
  BY <1>4, UserInv
<1>5. CASE Devices
  BY <1>5, RaiseInv DEF Devices
<1> QED
  BY <1>1, <1>2, <1>3, <1>4, <1>5 DEF Next, Stopped

\* The invariant that the rest follows from: every gate masks interrupts, so
\* that only the context at the bottom of the stack was interrupted with the
\* flag set, and only the one on it serves a request line.
THEOREM InterruptsInvariant == Spec => []InterruptsInv
<1>1. Init => InterruptsInv
  BY InitInv
<1>2. InterruptsInv /\ [Next]_vars => InterruptsInv'
  BY StepInv
<1> QED
  BY <1>1, <1>2, PTL DEF Spec

\* The registers and the saved contexts have their types.
THEOREM InterruptsTypeCorrect == Spec => []TypeOK
<1>1. InterruptsInv => TypeOK
  BY DEF InterruptsInv
<1> QED
  BY <1>1, InterruptsInvariant, PTL

\* Handlers of request lines never nest, however deep exceptions do.
THEOREM HandlersDoNotNest == Spec => []IrqsDoNotNest
<1>1. InterruptsInv => IrqsDoNotNest
  <2> SUFFICES ASSUME InterruptsInv PROVE IrqsDoNotNest
    OBVIOUS
  <2>1. \A j \in DOMAIN stack : stack # <<>>
    OBVIOUS
  <2> QED
    BY <2>1 DEF InterruptsInv, StackInv, IrqsDoNotNest
<1> QED
  BY <1>1, InterruptsInvariant, PTL

\* What remains of a number below twice the range of pit_tick.
LEMMA TickRemainder ==
    \A n \in 0..TickRange-1 : n % TickRange = n /\ (n + TickRange) % TickRange = n
BY BoundsAssumption

\* Every request of the timer that the controller latched is counted, waits,
\* or is at its handler, and is so once; pit_tick wraps, whatever its range.
THEOREM NoTickIsLost == Spec => []TicksMatchRequests
<1>1. InterruptsInv => TicksMatchRequests
  <2> SUFFICES ASSUME InterruptsInv, 0 \in Lines PROVE TicksMatchRequests
    BY DEF TicksMatchRequests
  <2> DEFINE A == irr[Master] \cap {0}
             B == {j \in DOMAIN stack : /\ stack[j].vector = VectorOf(0)
                                        /\ stack[j].at \in {"dispatch", "handler"}}
  <2>1. Cardinality(A) = IF 0 \in irr[Master] THEN 1 ELSE 0
    <3>1. A = IF 0 \in irr[Master] THEN {0} ELSE {}
      OBVIOUS
    <3> QED
      BY <3>1, FS_EmptySet, FS_Singleton
  <2>2. B = {j \in DOMAIN stack : Handling(j, 0)}
    BY DEF Handling
  <2>3. B \subseteq {Len(stack)}
    <3>1. IsIrq(VectorOf(0))
      BY LineFacts
    <3> QED
      BY <3>1 DEF InterruptsInv, StackInv
  <2>4. Cardinality(B) = IF \E j \in DOMAIN stack : Handling(j, 0) THEN 1 ELSE 0
    <3>1. B = IF \E j \in DOMAIN stack : Handling(j, 0) THEN {Len(stack)} ELSE {}
      BY <2>2, <2>3
    <3> QED
      BY <3>1, FS_EmptySet, FS_Singleton
  <2> HIDE DEF A, B
  <2>5. ticks + Cardinality(A) + Cardinality(B) \in {raised, raised + TickRange}
    BY <2>1, <2>4 DEF InterruptsInv, TimerInv
  <2>6. raised \in 0..TickRange-1
    BY DEF InterruptsInv, TypeOK
  <2>7. raised = (ticks + Cardinality(A) + Cardinality(B)) % TickRange
    BY <2>5, <2>6, TickRemainder
  <2> QED
    BY <2>7 DEF TicksMatchRequests, A, B
<1> QED
  BY <1>1, InterruptsInvariant, PTL

\* Each return finds the stack where the interrupt found it.
THEOREM StackStaysBalanced == Spec => []StackBalanced
<1>1. InterruptsInv => StackBalanced
  BY DEF InterruptsInv
<1> QED
  BY <1>1, InterruptsInvariant, PTL

\* The processor comes to every handler, and back: it never resets.
THEOREM KernelNeverResets == Spec => []NeverResets
<1>1. InterruptsInv => NeverResets
  BY DEF InterruptsInv
<1> QED
  BY <1>1, InterruptsInvariant, PTL
-----------------------------------------------------------------------------
\* A client, main or a program, runs with nothing on the stack.
LEMMA ClientsOutside ==
    Driver \/ Cli \/ CpuContextLoad \/ User
    \/ (\E v \in Traps \cup Faults : SetInterruptHandler(v))
    \/ (\E i \in ClientLines : IrqEnable(i) \/ IrqDisable(i))
    \/ (\E v \in Traps : Trap(v))
        => Running /\ stack = <<>>
BY DEF Driver, Sti, Cli, CpuContextLoad, User, SetInterruptHandler, IrqEnable, IrqDisable,
       Trap, UserCli, UserOutb, UserInt, Client, Program

\* At the handler of a line, the step to its return is its end of interrupt.
LEMMA AckStep ==
    ASSUME InterruptsInv, Next, NEW i \in Lines, At("handler"), Top.vector = VectorOf(i),
           Len(stack') = Len(stack), Head(stack').at = "return"
    PROVE  /\ PicLine(i) \in isr[PicOf(i)]
           /\ isr' = [isr EXCEPT ![PicOf(i)] = @ \ {PicLine(i)}]
<1>1. i \in 0..15 /\ IsIrq(Top.vector) /\ IrqOf(Top.vector) = i
  <2>1. i \in 0..15
    BY VectorFacts
  <2> QED
    BY <2>1, LineFacts, Zenon
<1>2. Len(stack) \in Nat
  BY ModeFacts DEF InterruptsInv
<1>3. ~AcceptIrq
  <2> SUFFICES ASSUME AcceptIrq PROVE FALSE
    OBVIOUS
  <2>1. Selected \in 0..15 /\ Interrupt(VectorOf(Selected), 0)
    BY SelectedLine DEF AcceptIrq, InterruptsInv
  <2>2. VectorOf(Selected) \in 0..255
    BY <2>1, LineFacts, ZenonT(60)
  <2>3. Len(stack') = Len(stack) + 1
    BY <2>1, <2>2, StackPushed DEF InterruptsInv
  <2> QED
    BY <1>2, <2>3
<1>4. ~\E v \in Faults : Fault(v)
  <2> SUFFICES ASSUME NEW v \in Faults, Fault(v) PROVE FALSE
    OBVIOUS
  <2>1. v \in 0..255 /\ Interrupt(v, ErrorCode(v))
    BY VectorFacts DEF Fault
  <2>2. Len(stack') = Len(stack) + 1
    BY <2>1, StackPushed DEF InterruptsInv
  <2> QED
    BY <1>2, <2>2
<1>5. stack # <<>> /\ Top.at = "handler" /\ Running /\ stack' # stack
  BY DEF At, Top
<1>6. ~Devices /\ ~Stopped
  BY <1>5 DEF Devices, Raise, Stopped, vars, cpu
<1>7. ~Dispatch /\ ~HandleOther /\ ~ContextRestore /\ ~EnterPressed
  BY <1>1, <1>5 DEF Dispatch, HandleOther, ContextRestore, EnterPressed, At
<1>8. HandleIrq
  BY <1>3, <1>4, <1>5, <1>6, <1>7, ClientsOutside DEF Next, Cpu, AnyClient
<1> QED
  BY <1>1, <1>8, HandledLine DEF HandleIrq

\* The end of interrupt that names no line ends the line just handled.
THEOREM AckEndsItsLine == Spec => AckReleasesOwnLine
<1>1. InterruptsInv /\ [Next]_vars =>
        [\A i \in Lines :
            /\ At("handler") /\ Top.vector = VectorOf(i)
            /\ Len(stack') = Len(stack) /\ Head(stack').at = "return"
            => /\ PicLine(i) \in isr[PicOf(i)]
               /\ isr' = [isr EXCEPT ![PicOf(i)] = @ \ {PicLine(i)}]]_vars
  BY AckStep
<1> QED
  BY <1>1, InterruptsInvariant, PTL DEF Spec, AckReleasesOwnLine

\* What a step of a program is, or of a device or the processor while it runs.
LEMMA InterruptConfines ==
    ASSUME InterruptsInv, UserMode, NEW v \in 0..255, NEW code, Interrupt(v, code),
           \A i \in 0..15 : v = VectorOf(i) => PicLine(i) \in isr'[PicOf(i)] \ isr[PicOf(i)]
    PROVE  /\ stack' # <<>> /\ Rpl(cs') = 0 /\ Len(stack') = 1
           /\ \A i \in 0..15 : stack'[1].vector = VectorOf(i) =>
                 PicLine(i) \in isr'[PicOf(i)] \ isr[PicOf(i)]
<1>1. stack = <<>>
  BY UserProtected
<1>2. stack' # <<>> /\ Len(stack') = Len(stack) + 1 /\ stack'[1] = Saved(v)
  BY StackPushed DEF InterruptsInv
<1>3. cs' = KernelCs
  BY InterruptEnters, Zenon DEF InterruptsInv
<1>4. Saved(v).vector = v
  BY DEF Saved
<1>5. Len(stack') = 1
  BY <1>1, <1>2
<1> QED
  BY <1>2, <1>3, <1>4, <1>5, Selectors

\* A step of a program leaves the masks; the program goes on as it was, or a handler is
\* entered, which for a request has its line in service.
LEMMA UserStep ==
    ASSUME InterruptsInv, [Next]_vars, UserMode
    PROVE  /\ imr' = imr
           /\ IF stack' = <<>>
              THEN <<cs, intr, iopl>>' = <<UserCs, TRUE, 0>>
              ELSE /\ Rpl(cs') = 0 /\ Len(stack') = 1
                   /\ \A i \in 0..15 : stack'[1].vector = VectorOf(i) =>
                         PicLine(i) \in isr'[PicOf(i)] \ isr[PicOf(i)]
<1>1. stack = <<>> /\ cs = UserCs /\ intr = TRUE /\ iopl = 0
  BY UserProtected DEF InterruptsInv, TypeOK
<1>2. CASE UNCHANGED <<imr, stack, cs, intr, iopl>>
  BY <1>1, <1>2
<1>3. CASE \E v \in 0..255, code \in {0, 1} :
              ~IsIrq(v) /\ Interrupt(v, code) /\ UNCHANGED imr
  <2>1. PICK v \in 0..255, code \in {0, 1} :
              ~IsIrq(v) /\ Interrupt(v, code) /\ UNCHANGED imr
    BY <1>3
  <2>2. \A i \in 0..15 : v # VectorOf(i)
    BY <2>1, LineFacts, Zenon
  <2> QED
    BY <2>1, <2>2, InterruptConfines, Zenon
<1>4. CASE AcceptIrq
  <2> DEFINE k == Selected
  <2>1. /\ k \in 0..15 /\ \A s \in isr[PicOf(k)] : PicLine(k) < s
        /\ Interrupt(VectorOf(k), 0) /\ UNCHANGED imr
        /\ isr' = [p \in {Master, Slave} |->
                     IF p = Master THEN isr[p] \cup {IF k >= 8 THEN Cascade ELSE k}
                     ELSE IF k >= 8 THEN isr[p] \cup {PicLine(k)} ELSE isr[p]]
    BY <1>4, SelectedLine DEF AcceptIrq, InterruptsInv
  <2> HIDE DEF k
  <2>2. VectorOf(k) \in 0..255 /\ PicLine(k) \in 0..7 /\ Master # Slave
    BY <2>1, LineFacts DEF Master, Slave
  <2>3. PicLine(k) \notin isr[PicOf(k)]
    BY <2>1, <2>2
  <2>4. PicLine(k) \in isr'[PicOf(k)]
    BY <2>1, <2>2, LineFacts
  <2>5. \A i \in 0..15 : VectorOf(k) = VectorOf(i) => i = k
    BY <2>1 DEF VectorOf
  <2> QED
    BY <2>1, <2>2, <2>3, <2>4, <2>5, InterruptConfines, Zenon
<1>5. ~Client
  BY DEF Client
<1>6. CASE UserCli \/ UserOutb
  <2>1. Interrupt(13, 1) /\ UNCHANGED imr
    BY <1>6, UserProtected DEF pics
  <2>2. 13 \in 0..255 /\ 1 \in {0, 1} /\ ~IsIrq(13)
    BY DEF IsIrq
  <2> QED
    BY <1>3, <2>1, <2>2
<1>7. CASE \E v \in UserTraps : UserInt(v)
  <2>1. PICK v \in UserTraps : UserInt(v)
    BY <1>7
  <2>2. SoftwareInterrupt(v) /\ UNCHANGED imr /\ v \in 0..255
    BY <2>1, VectorFacts DEF UserInt, pics
  <2>3. CASE Rpl(cs) <= GateDpl(v)
    <3>1. v \in {3, 4, 5, SyscallVector}
      <4>1. GateDpl(v) = IF v \in {3, 4, 5, SyscallVector} THEN 3 ELSE 0
        BY <2>2, VectorFacts, IdtEntries, Zenon
      <4>2. Rpl(cs) = 3
        BY <1>1, Selectors
      <4> QED
        BY <2>3, <4>1, <4>2
    <3>2. ~IsIrq(v) /\ Interrupt(v, 0) /\ 0 \in {0, 1}
      BY <2>2, <2>3, <3>1 DEF IsIrq, SyscallVector, SoftwareInterrupt
    <3> QED
      BY <1>3, <2>2, <3>2, Zenon
  <2>4. CASE ~(Rpl(cs) <= GateDpl(v))
    <3>1. Interrupt(13, 1) /\ 13 \in 0..255 /\ 1 \in {0, 1} /\ ~IsIrq(13)
      BY <2>2, <2>4 DEF IsIrq, SoftwareInterrupt
    <3> QED
      BY <1>3, <2>2, <3>1
  <2> QED
    BY <2>3, <2>4
<1>8. CASE \E v \in Faults : Fault(v)
  <2>1. PICK v \in Faults : Fault(v)
    BY <1>8
  <2>2. /\ v \in 0..255 /\ ~IsIrq(v) /\ ErrorCode(v) \in {0, 1}
        /\ Interrupt(v, ErrorCode(v)) /\ UNCHANGED imr
    BY <2>1, VectorFacts, CodeFits DEF IsIrq, Fault, pics
  <2> QED
    BY <1>3, <2>2
<1>9. CASE Devices \/ Stopped \/ UNCHANGED vars
  BY <1>2, <1>9 DEF Devices, Raise, Stopped, vars, cpu, mode, pics
<1>10. ~(Dispatch \/ HandleIrq \/ HandleOther \/ ContextRestore \/ EnterPressed)
  BY <1>1 DEF Dispatch, HandleIrq, HandleOther, ContextRestore, EnterPressed, At
<1>11. ~(Driver \/ Cli \/ CpuContextLoad)
  BY <1>5 DEF Driver, Sti, Cli, CpuContextLoad, SetInterruptHandler, IrqEnable, Trap
<1>12. /\ ~\E v \in Traps \cup Faults : SetInterruptHandler(v)
       /\ ~\E i \in ClientLines : IrqEnable(i) \/ IrqDisable(i)
       /\ ~\E v \in Traps : Trap(v)
  BY <1>5 DEF SetInterruptHandler, IrqEnable, IrqDisable, Trap
<1> QED
  BY <1>4, <1>6, <1>7, <1>8, <1>9, <1>10, <1>11, <1>12, Zenon DEF Next, Cpu, AnyClient, User

\* A program changes no mask and no flag, and comes to the kernel at level 0
\* only: whatever it executes, and whatever devices do meanwhile.
THEOREM ProgramsAreConfined == Spec => UserConfined
<1>1. InterruptsInv /\ [Next]_vars =>
        [UserMode =>
           /\ imr' = imr
           /\ IF stack' = <<>>
              THEN <<cs, intr, iopl>>' = <<UserCs, TRUE, 0>>
              ELSE /\ Rpl(cs') = 0 /\ Len(stack') = 1
                   /\ \A i \in 0..15 : stack'[1].vector = VectorOf(i) =>
                         PicLine(i) \in isr'[PicOf(i)] \ isr[PicOf(i)]]_vars
  BY UserStep
<1> QED
  BY <1>1, InterruptsInvariant, PTL DEF Spec, UserConfined
=============================================================================
