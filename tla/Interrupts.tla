----------------------------- MODULE Interrupts -----------------------------
(***************************************************************************)
(* The path of an interrupt: the two cascaded 8259A controllers as         *)
(* arch/x86/8259a.c programs them, the gates of Segments, the entry stubs  *)
(* of isr_entry.S, interrupt_dispatcher, a handler that ends with irq_ack  *)
(* as pit_irq_handler does, and the return of cpu_context_switch.S.  It    *)
(* starts in the kernel or, once cpu_context_load has run, in a program    *)
(* in user mode that executes whatever it likes.                           *)
(*                                                                         *)
(* The controllers, the processor's interrupt flag and the devices are     *)
(* outside the repository: fully nested mode, non-specific end of          *)
(* interrupt, requests latched until they are acknowledged.  Clients are   *)
(* the drivers and the main program of the kernel.  At this commit main    *)
(* enables line 0 and halts with interrupts off, so this is the interface  *)
(* these files offer to a kernel that executes sti().                      *)
(***************************************************************************)
EXTENDS Segments, FiniteSetsExt

CONSTANTS
    Lines,        \* the request lines that have a device
    ClientLines,  \* the lines that clients enable
    Faults,       \* the exceptions that instructions raise
    Traps,        \* the vectors the kernel calls with int
    UserTraps,    \* the vectors programs call with int
    UserPort,     \* a port programs write to
    TickRange,    \* the values pit_tick takes, 2^32 in the code
    MaxNest       \* bound on exceptions within handlers

ASSUME LinesAssumption ==
    Lines \subseteq (0..15) \ {2} /\ ClientLines \subseteq 0..15
ASSUME VectorsAssumption ==
    Faults \subseteq 0..31 /\ Traps \cup UserTraps \subseteq 0..255
ASSUME PortAssumption == UserPort \in Half
ASSUME BoundsAssumption == TickRange \in Nat /\ TickRange > 1 /\ MaxNest \in Nat

VARIABLES
    imr, irr, isr,  \* masked, requested and in-service lines, by controller
    raised,         \* the requests the timer has made, counted as pit_tick counts
    intr, iopl,     \* the interrupt flag and I/O privilege level of eflags
    cs,             \* the selector of the code in execution
    handlers,       \* the vectors whose interrupts_handlers is not NULL
    ticks,          \* pit_tick
    stack,          \* the contexts saved on the kernel's stack, last first
    sp,             \* the words on that stack above main, or below esp0
    cause           \* why the kernel stopped

pics == <<imr, irr, isr>>
mode == <<intr, iopl, cs>>
cpu  == <<mode, stack, sp>>
vars == <<pics, raised, cpu, handlers, ticks, cause>>

Master == 1
Slave  == 2
Cascade == 2   \* ICW3: the slave is on line 2 of the master

Running == cause = "none"
Top == Head(stack)
At(place) == Running /\ stack # <<>> /\ Top.at = place
----------------------------------------------------------------------------
(***************************************************************************)
(* The controllers.                                                        *)
(***************************************************************************)
\* Mutant of PicLine: the lines of the slave are not renumbered.
PicLineFlat(i) == i

\* Which controller a line is on, and its bit there.
PicOf(i)   == IF i >= 8 THEN Slave ELSE Master
PicLine(i) == IF i >= 8 THEN i - 8 ELSE i

\* ICW2 maps the lines to the vectors that follow the exceptions.
VectorOf(i) == 32 + i
IrqOf(v)    == v - 32
IsIrq(v)    == v \in 32..47

\* The requests a controller presents: unmasked, and of a higher priority
\* than all that is in service.  The slave's are seen on the cascade line.
Presented(p) ==
    LET requests == IF p = Master /\ irr[Slave] \ imr[Slave] # {}
                       /\ \E r \in irr[Slave] \ imr[Slave] : \A s \in isr[Slave] : r < s
                    THEN irr[p] \cup {Cascade} ELSE irr[p]
    IN {r \in requests \ imr[p] : \A s \in isr[p] : r < s}

\* The line that the processor's acknowledge cycle selects.
Selected == IF Min(Presented(Master)) = Cascade
            THEN 8 + Min(Presented(Slave)) ELSE Min(Presented(Master))

\* Mutant of EndOfInterrupt: the master is always the one told.
EndAtMaster(i) == [isr EXCEPT ![Master] = @ \ {Min(@ \cup {8})}]

\* irq_ack: the controller of the line clears its first in-service bit.
EndOfInterrupt(i) == [isr EXCEPT ![PicOf(i)] = @ \ {Min(@ \cup {8})}]

\* pit_tick is a uint32_t and wraps.
Incremented(n) == IF n = TickRange - 1 THEN 0 ELSE n + 1

\* A device requests an interrupt, which is latched.
Raise(i) ==
    /\ PicLine(i) \notin irr[PicOf(i)]
    /\ raised' = IF i = 0 THEN Incremented(raised) ELSE raised
    /\ irr' = [irr EXCEPT ![PicOf(i)] = @ \cup {PicLine(i)}]
    /\ UNCHANGED <<imr, isr, cpu, handlers, ticks, cause>>
----------------------------------------------------------------------------
(***************************************************************************)
(* Entry and return.                                                       *)
(***************************************************************************)
UserMode == Rpl(cs) > 0

\* The error code that the processor pushes for some exceptions.  An int
\* instruction pushes none.
ErrorCode(v) == IF v \in {8, 10, 11, 12, 13, 14, 17} THEN 1 ELSE 0

\* Mutant of StubPushes: the alignment check pushes a null error code too.
StubPushesTwice(v) == IF v \in {8, 10, 11, 12, 13, 14} THEN 1 ELSE 2

\* The stub pushes the vector, after a null error code if its macro is
\* ISR_NOEC; cpu_context_save pushes the registers of pusha and four segments.
StubPushes(v) == IF v \in {8, 10, 11, 12, 13, 14, 17} THEN 1 ELSE 2
SavedRegisters == 8 + 4

\* struct Cpu_context, and struct User_context when the level changed.
ContextWords(c) == SavedRegisters + 2 + 3 + (IF Rpl(c.cs) > 0 THEN 2 ELSE 0)

\* Without a fit descriptor for the handler or its stack, the processor
\* cannot report that either, and resets the machine.
Reset == cause' = "reset" /\ UNCHANGED cpu

\* What the kernel calls with int is not what a device or the processor calls:
\* no request is at the line of such a vector, and no error code on the stack.
ASSUME TrapsAssumption == \A v \in Traps : ~IsIrq(v) /\ ErrorCode(v) = 0

\* The processor comes to the stub of v: it pushes eflags, cs and eip, from
\* user mode ss and esp before them, on the stack of the TSS.  The context
\* remembers where it found the stack.
Interrupt(v, code) ==
    IF ~Enters(v, Rpl(cs)) THEN Reset
    ELSE /\ stack' = <<[vector |-> v, at |-> "dispatch", intr |-> intr, iopl |-> iopl,
                        cs |-> cs, ss |-> IF UserMode THEN UserDs ELSE KernelDs,
                        sp |-> IF UserMode THEN 0 ELSE sp]>> \o stack
         /\ sp' = (IF UserMode THEN 2 ELSE sp) + 3 + code + StubPushes(v) + SavedRegisters
         /\ intr' = (intr /\ ~Masks(v)) /\ cs' = Idt[v].selector
         /\ UNCHANGED <<iopl, cause>>

\* int v, and what needs a privilege: a general protection if it is refused.
SoftwareInterrupt(v) == IF Rpl(cs) <= GateDpl(v) THEN Interrupt(v, 0) ELSE Interrupt(13, 1)

\* The processor accepts the request the controllers present.
AcceptIrq ==
    /\ Running /\ intr /\ Presented(Master) # {}
    /\ LET i == Selected
           m == IF i >= 8 THEN Cascade ELSE i
       IN /\ Interrupt(VectorOf(i), 0)
          /\ irr' = [irr EXCEPT ![PicOf(i)] = @ \ {PicLine(i)}]
          /\ isr' = [p \in {Master, Slave} |->
                       IF p = Master THEN isr[p] \cup {m}
                       ELSE IF i >= 8 THEN isr[p] \cup {PicLine(i)} ELSE isr[p]]
    /\ UNCHANGED <<imr, raised, handlers, ticks>>

\* An instruction, of a handler or a program too, raises an exception.
Fault(v) ==
    /\ Running /\ Len(stack) < MaxNest
    /\ Interrupt(v, ErrorCode(v))
    /\ UNCHANGED <<pics, raised, handlers, ticks>>
----------------------------------------------------------------------------
(***************************************************************************)
(* interrupt_dispatcher and the handlers.                                  *)
(***************************************************************************)
Continue(place) == stack' = <<[Top EXCEPT !.at = place]>> \o Tail(stack)

\* Vector 3 never reaches the table of handlers; an exception without a
\* handler stops the kernel; another vector without one is ignored, a request
\* line is then not acknowledged.
Dispatch ==
    /\ At("dispatch")
    /\ IF Top.vector \notin handlers /\ Top.vector # 3 /\ Top.vector <= 31
       THEN cause' = "panic" /\ intr' = FALSE /\ UNCHANGED stack
       ELSE /\ Continue(IF Top.vector = 3 THEN "breakpoint"
                        ELSE IF Top.vector \in handlers THEN "handler" ELSE "return")
            /\ UNCHANGED <<intr, cause>>
    /\ UNCHANGED <<pics, raised, handlers, ticks, iopl, cs, sp>>

\* The loop of the breakpoint ends when somebody presses Enter.
EnterPressed ==
    /\ At("breakpoint") /\ Continue("return")
    /\ UNCHANGED <<pics, raised, mode, sp, handlers, ticks, cause>>

\* Mutant of TickOf: the tick is not counted.
TickLost(v) == ticks
TickOf(v) == IF v = VectorOf(0) THEN Incremented(ticks) ELSE ticks

\* pit_irq_handler, and any driver's handler of a line.
HandleIrq ==
    /\ At("handler") /\ IsIrq(Top.vector)
    /\ ticks' = TickOf(Top.vector)
    /\ isr' = EndOfInterrupt(IrqOf(Top.vector))
    /\ Continue("return")
    /\ UNCHANGED <<imr, irr, raised, mode, sp, handlers, cause>>

HandleOther ==
    /\ At("handler") /\ ~IsIrq(Top.vector)
    /\ Continue("return")
    /\ UNCHANGED <<pics, raised, mode, sp, handlers, ticks, cause>>

\* iret to a context, whose interrupt flag it takes back.
Iret(c) == intr' = c.intr /\ iopl' = c.iopl /\ cs' = c.cs

\* __cpu_context_restore pops the registers, drops two words, and iret pops
\* three, or five on the way to user mode.
ContextRestore ==
    /\ At("return")
    /\ IF ~Returns(Top) THEN Reset
       ELSE /\ stack' = Tail(stack) /\ sp' = sp - ContextWords(Top)
            /\ Iret(Top) /\ UNCHANGED cause
    /\ UNCHANGED <<pics, raised, handlers, ticks>>
----------------------------------------------------------------------------
(***************************************************************************)
(* The clients: main and what it calls, outside any handler.               *)
(***************************************************************************)
Client == Running /\ stack = <<>> /\ ~UserMode

IrqEnable(i) ==
    /\ Client
    /\ imr' = [imr EXCEPT ![PicOf(i)] = @ \ {PicLine(i)}]
    /\ UNCHANGED <<irr, isr, raised, cpu, handlers, ticks, cause>>

IrqDisable(i) ==
    /\ Client
    /\ imr' = [imr EXCEPT ![PicOf(i)] = @ \cup {PicLine(i)}]
    /\ UNCHANGED <<irr, isr, raised, cpu, handlers, ticks, cause>>

SetInterruptHandler(v) ==
    /\ Client /\ handlers' = handlers \cup {v}
    /\ UNCHANGED <<pics, raised, cpu, ticks, cause>>

Sti == /\ Client /\ intr' = TRUE
       /\ UNCHANGED <<pics, raised, iopl, cs, stack, sp, handlers, ticks, cause>>
Cli == /\ Client /\ intr' = FALSE
       /\ UNCHANGED <<pics, raised, iopl, cs, stack, sp, handlers, ticks, cause>>

\* The int instruction.
Trap(v) == Client /\ SoftwareInterrupt(v) /\ UNCHANGED <<pics, raised, handlers, ticks>>

\* cpu_context_load of a context that user_context_init made.  It does not
\* return: from here on the kernel's stack is used from esp0.
CpuContextLoad ==
    /\ Client
    /\ IF ~Returns(UserContext) THEN Reset
       ELSE Iret(UserContext) /\ sp' = 0 /\ UNCHANGED <<stack, cause>>
    /\ UNCHANGED <<pics, raised, handlers, ticks>>
----------------------------------------------------------------------------
(***************************************************************************)
(* A program in user mode.                                                 *)
(***************************************************************************)
Program == Running /\ stack = <<>> /\ UserMode

UserInt(v) == Program /\ SoftwareInterrupt(v) /\ UNCHANGED <<pics, raised, handlers, ticks>>

\* cli.
UserCli ==
    /\ Program
    /\ IF iopl >= Rpl(cs)
       THEN intr' = FALSE /\ UNCHANGED <<iopl, cs, stack, sp, cause>>
       ELSE Interrupt(13, 1)
    /\ UNCHANGED <<pics, raised, handlers, ticks>>

\* outb of 0xFF to the port, where a controller takes its mask.
UserOutb ==
    /\ Program
    /\ IF iopl >= Rpl(cs) \/ PortAllowed(UserPort)
       THEN /\ imr' = [imr EXCEPT ![Master] = IF UserPort = 33 THEN 0..7 ELSE @]
            /\ UNCHANGED <<cpu, cause>>
       ELSE Interrupt(13, 1) /\ UNCHANGED imr
    /\ UNCHANGED <<irr, isr, raised, handlers, ticks>>

\* After idt_init, pic_8259a_init (every line masked, nothing in service) and
\* pit_init, before irq_enable(0).
Init ==
    /\ imr = [p \in {Master, Slave} |-> 0..7]
    /\ irr = [p \in {Master, Slave} |-> {}]
    /\ isr = [p \in {Master, Slave} |-> {}]
    /\ intr = FALSE /\ iopl = 0 /\ cs = KernelCs /\ stack = <<>> /\ sp = 0
    /\ handlers = {VectorOf(0)} /\ raised = 0 /\ ticks = 0 /\ cause = "none"

Cpu == AcceptIrq \/ Dispatch \/ HandleIrq \/ HandleOther \/ ContextRestore

\* A kernel whose drivers set their handler before they enable their line, and
\* which has a handler for what programs may not do before it runs one.
Driver == \/ \E i \in Lines : SetInterruptHandler(VectorOf(i))
          \/ \E i \in ClientLines :
                (i \in Lines => VectorOf(i) \in handlers) /\ IrqEnable(i)
          \/ Sti
          \/ \E v \in Traps \ {3} : Trap(v)
          \/ SetInterruptHandler(13)
          \/ 13 \in handlers /\ CpuContextLoad

User == UserCli \/ UserOutb \/ \E v \in UserTraps : UserInt(v)

Devices == \E i \in Lines : Raise(i)

\* Clients of any discipline, and exceptions.
AnyClient == \/ Driver \/ EnterPressed \/ Cli \/ CpuContextLoad
             \/ \E v \in Traps \cup Faults : SetInterruptHandler(v)
             \/ \E i \in ClientLines : IrqEnable(i) \/ IrqDisable(i)
             \/ \E v \in Traps : Trap(v)
             \/ \E v \in Faults : Fault(v)

Stopped == ~Running /\ UNCHANGED vars

Next       == Cpu \/ AnyClient \/ User \/ Devices \/ Stopped
NextDriver == Cpu \/ Driver \/ User \/ Devices

Spec == Init /\ [][Next]_vars
\* The processor keeps executing, and looks at its interrupt line between any
\* two instructions, so that clients and programs that trap for ever do not
\* hide a request.
FairDriver == Init /\ [][NextDriver]_vars /\ WF_vars(Cpu) /\ SF_vars(AcceptIrq)
----------------------------------------------------------------------------
(***************************************************************************)
(* Properties.                                                             *)
(***************************************************************************)
Places == {"dispatch", "handler", "breakpoint", "return"}
Context == [vector : 0..255, at : Places, intr : BOOLEAN, iopl : 0..3,
            cs : {KernelCs, UserCs}, ss : {KernelDs, UserDs}, sp : Nat]

\* The registers of the controllers and the contexts on the stack.
TypeOK ==
    /\ imr \in [{Master, Slave} -> SUBSET (0..7)]
    /\ irr \in [{Master, Slave} -> SUBSET (0..7)]
    /\ isr \in [{Master, Slave} -> SUBSET (0..7)]
    /\ intr \in BOOLEAN /\ iopl \in 0..3 /\ cs \in {KernelCs, UserCs}
    /\ handlers \subseteq 0..255 /\ sp \in Nat
    /\ raised \in 0..TickRange-1 /\ ticks \in 0..TickRange-1
    /\ stack \in Seq(Context)
    /\ cause \in {"none", "panic", "reset"}

\* "An interrupt gate masks interrupts when called": handlers of request
\* lines never nest, not even when a handler is itself interrupted by an
\* exception that has a handler and returns.
IrqsDoNotNest ==
    /\ \A j, k \in DOMAIN stack :
          IsIrq(stack[j].vector) /\ IsIrq(stack[k].vector) => j = k
    /\ (\E j \in DOMAIN stack : IsIrq(stack[j].vector)) => ~intr

\* irq_ack sends an end of interrupt that names no line, so it relies on the
\* order of service: what it clears is always the line just handled.
AckReleasesOwnLine ==
    [][\A i \in Lines :
         /\ At("handler") /\ Top.vector = VectorOf(i)
         /\ Len(stack') = Len(stack) /\ Head(stack').at = "return"
         => /\ PicLine(i) \in isr[PicOf(i)]
            /\ isr' = [isr EXCEPT ![PicOf(i)] = @ \ {PicLine(i)}]]_vars

\* No tick is lost and none is counted twice: every request of the timer that
\* the master latched is counted in pit_tick, waiting, or at its handler.
TicksMatchRequests ==
    0 \in Lines =>
        raised = (ticks + Cardinality(irr[Master] \cap {0})
                  + Cardinality({j \in DOMAIN stack :
                        /\ stack[j].vector = VectorOf(0)
                        /\ stack[j].at \in {"dispatch", "handler"}})) % TickRange

\* Whatever interrupts what, each saved context has the layout of struct
\* Cpu_context, or struct User_context, with or without an error code from the
\* processor, so that each return finds the stack where the interrupt found
\* it, and a program the kernel's stack empty again each time.
StackBalanced ==
    /\ sp = IF stack = <<>> THEN 0 ELSE Top.sp + ContextWords(Top)
    /\ \A j \in DOMAIN stack :
          stack[j].sp = IF j = Len(stack) THEN 0
                        ELSE stack[j+1].sp + ContextWords(stack[j+1])

\* The descriptors, the gates, the TSS and the contexts fit: the processor
\* always comes to the handler of what happens, and back.
NeverResets == cause # "reset"

\* "The process must not have the right to perform critical operations", and
\* "must be interruptible": whatever a program executes, the controllers' masks
\* and the interrupt flag stay as they are; it comes to the kernel at level 0
\* only, and to the handler of a request line only when a device asked; and
\* it finds its own privileges when it continues.
UserConfined ==
    [][UserMode =>
         /\ imr' = imr
         /\ IF stack' = <<>>
            THEN <<cs, intr, iopl>>' = <<UserCs, TRUE, 0>>
            ELSE /\ Rpl(cs') = 0 /\ Len(stack') = 1
                 /\ \A i \in 0..15 : stack'[1].vector = VectorOf(i) =>
                       PicLine(i) \in isr'[PicOf(i)] \ isr[PicOf(i)]]_vars

(***************************************************************************)
(* The inductive invariant.  All gates mask interrupts, so only the context *)
(* at the bottom of the stack can be a program's, or saved with interrupts  *)
(* on, or a request line's.                                                *)
(***************************************************************************)
\* The contexts on the stack; the one at the bottom is the last.
StackInv ==
    /\ stack # <<>> => ~intr /\ cs = KernelCs
    /\ UserMode => intr /\ iopl = 0
    /\ \A j \in DOMAIN stack :
          /\ stack[j].cs = UserCs => stack[j].ss = UserDs /\ stack[j].intr /\ stack[j].iopl = 0
          /\ j # Len(stack) => /\ ~stack[j].intr /\ stack[j].cs = KernelCs
                               /\ ~IsIrq(stack[j].vector)

\* A line that is being handled is the first of those its controller serves.
Handling(j, i) == /\ j \in DOMAIN stack /\ stack[j].vector = VectorOf(i)
                  /\ stack[j].at \in {"dispatch", "handler"}
ServiceInv ==
    \A i \in 0..15 : \A j \in DOMAIN stack : Handling(j, i) =>
        /\ PicLine(i) \in isr[PicOf(i)]
        /\ \A s \in isr[PicOf(i)] : PicLine(i) <= s

\* The master requests nothing on the cascade line itself.
TimerInv ==
    /\ VectorOf(0) \in handlers /\ Cascade \notin irr[Master]
    /\ 0 \in Lines =>
          ticks + (IF 0 \in irr[Master] THEN 1 ELSE 0)
                + (IF \E j \in DOMAIN stack : Handling(j, 0) THEN 1 ELSE 0)
          \in {raised, raised + TickRange}

InterruptsInv == /\ TypeOK /\ StackInv /\ StackBalanced /\ ServiceInv /\ TimerInv
                 /\ NeverResets

\* The order in which the two controllers serve the lines: the slave's come
\* where the cascade is.
Rank(i) == IF i >= 8 THEN 8 * Cascade + PicLine(i) ELSE 8 * i

\* A request the processor should come to: of a line that a client enabled,
\* with the cascade if it is the slave's.
Waiting(i) == /\ intr /\ PicLine(i) \in irr[PicOf(i)] \ imr[PicOf(i)]
              /\ i >= 8 => Cascade \notin imr[Master]

Handled(i) == At("return") /\ Top.vector = VectorOf(i)

\* The master still serves the cascade, and no line of the slave is handled.
CascadeLeft == /\ Cascade \in isr[Master]
               /\ \A k \in 8..15 : \A j \in DOMAIN stack : ~Handling(j, k)

\* An enabled line that has a handler is served, every time it asks, unless
\* lines of higher priority are served again and again: the timer always is,
\* and nothing a program in user mode or a trap does keeps any line waiting.
\* One more exception is the code's own: irq_ack of a line of the slave ends
\* the service at the slave only, the master serves the cascade from then on,
\* and only lines 0 and 1 have a higher priority than that.
EnabledIrqServed ==
    \A i \in Lines :
        \/ Waiting(i) ~> (Handled(i) \/ (Rank(i) >= Rank(8) /\ CascadeLeft))
        \/ []<>(\E k \in Lines : Rank(k) < Rank(i) /\ Handled(k))
=============================================================================
