# atros in TLA+

atros is a small x86 kernel: it boots through multiboot, sets up paging,
segments, interrupts and a timer, builds its memory allocators and halts. This
directory holds TLA+ models of the parts with state worth checking, the TLC
configurations that check them, and TLAPS proofs about the allocator of
physical pages, the lists of `list.h`, the kernel heap, paging, and the
path of an interrupt. Paths below are relative to `src/` of the repository.

## The system

Everything runs on one processor, in the kernel, from one flow of control.
`main` executes a fixed sequence of initialisations with interrupts off,
enables the timer's line and executes `cli; hlt`: at this commit nothing calls
`sti`, no thread exists, no program runs in user mode and no page is ever
released. The models describe what the files offer to callers that respect
their interfaces, which is more than `main` uses today; where that matters it
is said below.

| Component | State | Operations | Used by |
|---|---|---|---|
| Physical pages, `kernel/mm/physical_pages.c` | a descriptor per page, a circular list of free and one of used blocks for each order | boot cut of memory, `ppage_block_alloc`, `ppages_alloc`, `ppage_ref`/`unref`, `ppage_block_free`, `ppages_set_slab` | slabs |
| Lists, `include/kernel/list.h` | the links inside the elements | macros on simple, double and circular lists | all allocators |
| Slabs, `kernel/mm/slab.c` | caches of objects with lists of free, partial and full slabs | `objs_cache_create`, `objs_cache_alloc`, `objs_cache_free` (panics) | virtual pages, future kernel objects |
| Virtual pages, `kernel/mm/virtual_pages.c` | lists of free and used regions | `vregion_alloc` | slabs |
| Paging, `arch/x86/paging.c`, `arch/x86/boot/head.S` | page directory and tables, CR3, the TLB | `paging_boot_init`, `map_page(s)`, `set_pde`, `virt_to_phys_addr` | slabs |
| Interrupts, `8259a.c`, `idt.c`, `isr_entry.S`, `interrupts.c`, `pit.c`, `cpu_context_switch.S` | masks and in-service lines, gates, table of handlers, saved contexts, `pit_tick` | enable, disable, acknowledge, dispatch, return | drivers |
| Segments and tasks, `gdt.c`, `idt.c`, `tss.c`, `cpu_context.c` | descriptors, gates, the TSS with its map of I/O ports, the context of a task | set up at boot; read by the processor at every interrupt and return | interrupts |
| Address spaces, `mmu.c` | none yet | `mmu_context_load` (stops the kernel), bodies commented out | nobody |
| C library and console, `libc/*.c`, `kprintf.c`, `panic.c` | a static buffer, the cursor, the screen | formatting, copying, scrolling | everywhere |
| Boot information, `bootloader_info.c` | none | prints | boot |
| Threads, processes, scheduler | none | headers | nobody |

### How the components interact

- A slab is a Slab object, a Vregion object and pages. The Slab object comes
  from a cache of slabs, whose slabs need regions; the Vregion object from a
  cache of regions, whose slabs need Slab objects. Two reserves of two objects
  each, and two refill functions that call each other, break the circle.
- The pages come from the page allocator and are mapped through the recursive
  entry of the page directory; when memory is exhausted it stops the kernel.
- Page tables are changed through themselves, so every change goes through
  translations that earlier changes may have made stale.
- A request line goes through a controller, perhaps through a second one, the
  interrupt flag, a gate, a stub, the dispatcher and a handler; the
  acknowledgement has to undo what the controllers did on the way in.
- From user mode the processor reads, on every interrupt, what `gdt.c`, `idt.c`
  and `tss.c` encoded bit by bit at boot: which gate, which stack, which ports.

### What is hard here

Long sequences of legal calls (a block split while it sits on a list, a
release much later), mutual recursion that lives on reserves, arithmetic at
the ends of ranges and at powers of two, nested interrupts whose service order
has to match their priorities, descriptors whose mistakes show only when a
program is interrupted, elements that carry stale links from list to list,
stale cached translations, and buffers that a number or a text just fills. PROJECT.json
lists each hazard at its line with the properties that would catch it.

### What makes each component correct

- Physical pages: blocks in clients' hands never overlap and never touch the
  kernel; no page is lost; lists stay lists; a request fails only when no block
  is big enough; a block is released by its last user.
- Lists: links agree in both directions; no macro follows NULL; to their users
  they are sequences.
- Kernel heap: the reserves suffice; counters, slabs and regions agree; nothing
  leaks; regions partition the window; every slab is mapped to pages of its
  own; calls end.
- Interrupts: no nesting of lines; each acknowledgement releases its own line;
  no tick is lost; the stack is balanced; enabled lines are served while nothing of
  higher priority keeps the processor.
- Segments and tasks: the processor always finds fit descriptors and a kernel
  stack; a program changes nothing but itself and can always be interrupted.
- Paging: the kernel stays mapped while tables change under it; page tables can
  be reached; no stale translation; NULL is invalid.
- Console: a call prints its text, cut at the end of the buffer, and writes
  nothing after it, except by the formats named below; the screen shows the last rows printed.

## The modules

| Module | Models | Notes |
|---|---|---|
| `CList` | the circular lists of `list.h` that the page allocator uses | a list is a head and two link functions; an operation that follows NULL yields a fault |
| `LinkedLists` | the other macros of `list.h`: simple, double, circular | extends `CList` |
| `Lists` | clients that move elements between lists | extends `LinkedLists` |
| `ElementLists` | what lists are to their users: sequences | abstract; implemented by `Lists` |
| `PhysicalPages` | `physical_pages.c` | extends `CList` |
| `PageGrants` | what an allocator of pages promises | abstract; implemented by `PhysicalPages` and by `KernelHeap` |
| `KernelHeap` | `slab.c` and `virtual_pages.c` together | one call stack, because they call each other |
| `Segments` | `gdt.c`, `tss.c`, the gates of `idt.c`, the context of a task of `cpu_context.c` | the processor's reading of them is external |
| `Interrupts` | the path of an interrupt, from the kernel or from a program | extends `Segments`; controllers and processor are external |
| `Paging` | `paging.c`, the tables of `head.S`, what is compiled of `mmu.c` | processor and TLB are external |
| `AddressSpace` | what paging promises its users | abstract; implemented by `Paging` |
| `Console` | `kprintf.c`, `stdarg.c`, `memmove` and `memset` of `string.c` | |
| `CListProofs`, `ListsProofs`, `PhysicalPagesProofs`, `KernelHeapProofs`, `HeapMemoryProofs`, `PagingProofs`, `InterruptsProofs`, `ConsoleProofs` | the theorems about the module they are named for, and their proofs | see "The proofs" |
| `MC*` | instances for TLC | |

### PhysicalPages

One variable per field of `Ppage` (`head`, `order`, `count`, `slab`, `prev`,
`next`), the two arrays of lists, and the call in progress: `pc`, the order
asked for (`req`), the order the recursion has reached (`cur`) and the block in
hand (`blk`). Recursion down and up `_ppage_block_alloc` is `SearchBigger`,
`TakeHead`, `Split`, `AllocReturns`, one step each; `MergeOrRelease` is one
iteration of the loop of `_ppage_block_free`; boot is one block per step.
`grant` and `refs` are the clients' own record of what they were given: the
properties compare it with the descriptors. A KASSERT, `panic()` or access
through NULL is `Halt`, after which nothing happens. `mapping`, never set, is
left out, and uninitialised descriptors are not read before they are set.

Three specifications share the actions. `SpecAlloc`: boot, allocation,
marking of slabs, which is all the kernel does at this commit. `SpecApi`: the
whole interface. `SpecNoSplit`: the whole interface when only blocks are
allocated that need no splitting; the release path is right there and wrong
elsewhere, see the divergences.

### LinkedLists, Lists and ElementLists

Each macro of `list.h` is an operator on a record of the list variable and the
two link functions. The loops are `Walk`, a function of the number of steps.
`Lists` gives every macro to clients that keep its interface: an element is
inserted when it is on no list and deleted from the list it is on, an ordered
insertion goes into a sorted list. The links of an element hold anything before
it is first inserted, and what the last list left in them afterwards. All lists
are of one kind, chosen at the start, because an element has the links of one.
`ElementLists` knows sequences only, and the refinement reads them from the
links; `last` makes the element taken and the length returned part of it.

### KernelHeap

Caches are records of counters and lists of slabs, regions are pairs, and the
call stack is a sequence of frames, because `objs_cache_alloc`, `create_slab`,
`vregion_alloc` and the two refill functions nest in every combination. `Init`
is the state in which `objs_cache_boot_init` calls `virtual_page_boot_init`;
the objects in use are counted, and named by their rank. The regions of
`virtual_pages.c` sit in sequences; `tailV` is what the last element of the
free list is linked to, since `vregion_init` leaves it unset.

Clients create caches as the assertions of `objs_cache_init` ask (`slab.c:377`): of
objects that have a size and fit their slab; the models do not break those.

The memory of a slab composes three components: `create_slab` and the refill
functions ask `ppages_alloc` for a block (`granted`, rounded up to a power of
two, with the slab each page is marked with), `map_pages` to map it at the
region (`mapped`, the one table of the window) and then write to it; each is a
step of its own. Which free block the page allocator picks is the business of
`PhysicalPages`, and how an entry gets into the table that of `Paging`; here a
block is a new one and an entry is written. That blocks are disjoint and that
mapped pages are visible at once is what those modules show.

### Interrupts

Each controller is three sets of lines: masked, requested, in service. A saved
context is a record on `stack`; `sp` counts the words really pushed by the
processor, the stub and `cpu_context_save`, so that unbalanced stubs show. The
dispatcher's branches are the places of a context: handler, breakpoint, return;
what it prints, of a system call for one, is left out.
Every driver's handler does what `pit_irq_handler` does, end with `irq_ack`.

`Segments` builds the tables as the code does, field by field, with bits that
spill where the code lets them: `Gdt`, `Idt` and `TssInit` are the states after
`gdt_init`, `idt_init` and `tss_init`. Its last part is the processor: which
segment a selector means, whether a gate may be called, where the stack of a
handler is, whether a port is open. `Interrupts` asks it at every entry and
return; where a descriptor does not fit the machine resets, `cause = "reset"`.
`CpuContextLoad` starts a program from `user_context_init`'s context; from then
on the kernel's stack is used from `esp0`, so `sp` starts at zero there, and an
entry that changes level pushes two words more. The program executes `int`,
`cli` and `outb` to the master's mask at will, and raises exceptions.

### Paging

`mem` holds the entries of every table by frame. The kernel's accesses to
tables go through `Translate`: what the TLB kept if anything, the walk
otherwise. `Keep` and `Drop` let the TLB cache any present translation of a
watched page at any time. `map_pages` runs in three steps per page (tests,
entry, `invlpg`). The instruction `invlpg` is modelled, not the reload of CR3:
the Makefile builds for i686. Entries are frames or nothing; flags other than
the present bit play no part, and PAGE_GLOBAL has no effect since no code sets
CR4.PGE. 4 MB pages stop the kernel, as in the code, and the branch of
`virt_to_phys_addr` for them (`paging.c:204`) is left out, since no entry has the flag.

`MmuContextLoad` is a client's switch of address space, to no context, to one
without a directory, or to one that the client filled itself, since
`mmu_context_create` returns NULL. The copying in `preserve_kernel_space` is
commented out at this commit, so it answers FALSE and every load stops the
kernel before CR3 is changed; with any other answer the kernel would go on in a
directory that does not map it.

### Console

A call of `kprintf` formats in one step (`Vsnprintf`, a recursion over the items
of the format) and prints one character per step (`PrintChar`). `memory` is the
static buffer and the bytes that follow it, so that a write past the end shows;
it keeps what earlier calls left. `paper` records every row ever printed, as if
nothing scrolled away, and `TextOf` says what a call should print. Items are
characters and conversions with their arguments; the attribute byte of a cell
is left out. The loops are recursive functions of the
number of iterations: `memmove` copies one cell at a time in the order the code
does, `LowFirst` divides until nothing is left or the room is used up. Arithmetic
on `size_t` is modulo `Word`: the room left is unsigned, and wraps when more than
`BufSize` bytes were written.

`Chars` are the values of a byte. Clients print any format. `Handled` names those
that the code handles, by each item that is read: no number exactly as
wide as the room left (see `console_number`), and no character after a text
that filled the buffer, which `vsnprintf` writes past the end, since its
loop counts the characters of the format and not those written (`stdarg.c:82`).
`OverrunsExactly` says that these and only these write past the buffer. What lies
there is other variables, the cursor of `kprintf` among them, so the model stops
after such a call: its memory is seen, what would be printed is undefined.

## The runs

| Run | Specification | Shows | Bounds |
|---|---|---|---|
| `pages_alloc` | `FairAlloc` | no overlap (`NoOverlap`); kernel pages kept; free lists are rings of the free blocks; no page lost; fails only when exhausted; the inductive invariant `PagesInv`, which contains the type invariant; `PageGrants` implemented; boot and calls end | 28 pages in five ranges, four orders |
| `pages_no_split` | `SpecNoSplit` | used lists are rings; descriptors agree with what clients hold; granting and returning implemented | 15 pages, four orders, slabs of one page, two references |
| `heap` | `FairSpec` | the inductive invariant `MemoryInv`, which contains `HeapInv` and the type invariant; reserves hold; no re-entry; counters, slabs, regions agree; nothing leaks; every slab is backed by mapped pages of its own; `PageGrants` implemented by virtual pages; calls end | window of 11 pages after three at boot, slabs of 4 and 6 objects, one client cache: one object in three pages, or two in one |
| `irq_any_client` | `Spec` | the inductive invariant `InterruptsInv`; lines do not nest; an acknowledgement releases its own line; ticks match requests; stack balanced; the processor never resets; a program is confined | lines 0 and 8, requests without end, `pit_tick` of two values, three nested contexts by exceptions; the program calls vectors 32 and 128 and writes port 33 |
| `irq_served` | `FairDriver` | an enabled line is served each time it asks, whatever a program does, unless lines before it are served without end or the cascade was left in service | lines 0, 3, 8 and 9, requests without end; exceptions only through a program's refused instructions |
| `lists` | `Spec` | the inductive invariant `ListsInv`: each list is a chain of its elements, and no NULL is followed; links agree in both directions; `ElementLists` implemented | two lists, four elements of which two are equal, each of the three kinds, all links NULL or all to one element at first |
| `paging` | `Spec` | the inductive invariant `PagingInv`; kernel mapped and its tables reachable, also after a refused load of another directory; TLB coherent, `virt_to_phys_addr` right; `AddressSpace` implemented, so that NULL stays invalid | directories and tables of 8 entries, TLB of two entries |
| `console` | `Spec` | the inductive invariant `ConsoleInv`, which contains the type invariant: cursor on the screen, printing stops before the end of the buffer; the screen shows the last rows; the buffer holds the text; bytes after the buffer are written by exactly the formats that are not handled | two calls of up to four items or nine characters, 3 by 3 cells, buffer of 8, words of 6 bits |
| `pages_used_rings`, `pages_merge_all`, `heap_wild_link`, `console_number` | | find the divergences below | smaller |

Why the bounds are enough:

- Pages: with four orders a request can split one, two and three times; the two
  free ranges start and end off the alignment of the biggest block, so that
  boot cuts blocks of every order at both ends. `MaxRefs = 2` separates
  the last release from an earlier one.
- Heap: slabs have the fewest objects that boot's own assertion
  (`slab.c:353`) allows, so both reserves are refilled several times before the
  window is used up, in every nesting; client slabs of one object go straight
  from free to full, those of two through partial, and regions of three pages
  meet remainders that are too small. Slabs of three pages get blocks of four, so that what
  is granted, mapped and used differ.
- Interrupts: line 0 has the highest priority of the master and line 8 of the
  slave; with clients that mask and unmask the cascade, requests of both
  overlap in all orders. Requests are latched, so that endless ones keep the states
  finite; `pit_tick` and the requests of the timer are counted modulo
  `TickRange`, 2^32 in the code: two values show a tick that is lost or counted
  twice, and the theorem is for any range. For service, line 3 comes after the slave's 8
  and 9, and those after line 0. The exceptions with an error code (13, 17) and the
  traps without (3, 128) nest in handlers. Contexts nest up to `MaxNest`, and a
  request may nest below, since gates mask. Vector 32 is that
  of line 0, which a program must not reach; 128 is the one it may; port 33 is
  the master's mask.  Any other port is refused by the same map.
- Paging: eight entries leave room for the first megabyte, the image with its
  four tables, and three pages of clients, one of which becomes a table. Runs
  of pages cross the end of a table into one that is present and one that is
  not. Two TLB entries make one stale while another translates the table.
- Lists: four elements make a first, a last and two between them; with two lists
  an element moves between lists that both have others; two equal elements separate
  "smaller" from "not greater".
- Console: three rows make the rows that scroll overlap; a tab wraps from two of
  the three columns; two texts of up to seven characters scroll several times, and
  the second finds the remains of the first in the buffer. Eight bytes hold the
  widest numeral of 6 bits with its prefix, exactly, which is the boundary; two texts and
  a character fill them to the last, and what follows finds the room wrapped around.

Deadlock is checked except in the runs of `Console`: the number of calls is
bounded there, so the model stops when they are used up, or after a call that
overran the buffer.

### Fairness

- `FairAlloc`, `FairSpec`: weak fairness of the steps of the call in progress,
  never of a client's next call. The processor executes the one flow of
  control there is.
- `FairDriver`: weak fairness of the processor within handlers, strong fairness
  of `AcceptIrq`: between two instructions the processor looks at its
  interrupt line, so a client that traps again and again (its gate masks, its
  return unmasks) cannot hide a request for ever, and neither can a program
  that does. Devices, clients and programs have no fairness. Nothing keeps devices
  from asking for ever either, and `EnabledIrqServed` does not assume so: a line may
  wait if lines of higher priority are served infinitely often, which never happens
  to the timer. Once a line of the slave was handled, `irq_ack` has left the cascade in
  service at the master, and only lines 0 and 1 are promised anything. A program is run
  only when the general protection exception has a handler: without one its
  first refused instruction stops the kernel. Drivers set a handler before they enable a line, as `main`
  does; a request without handler is never acknowledged by the dispatcher. A
  breakpoint is left out there: it waits for a key with interrupts masked.

## Divergences

Each is a run that TLC must find violated.

- `pages_used_rings`: a split pushes a block on the used list of its new order
  while it is still on that of the old (`physical_pages.c:314`), so used lists
  stop being circular lists. Releases then follow stale links, and blocks
  end up on lists of other orders: a client that returns what it was given can
  stop the kernel at `physical_pages.c:340`.
- `pages_merge_all`: `find_buddy` is a conjunction where the buddy is the
  exclusive or (`physical_pages.h:55`); released halves stay apart.
- `heap_wild_link`: `vregion_init` does not set `next`; the last free region is
  linked to whatever its object held.
- `console_number`: `u_to_nstr` writes the terminator of a number of exactly `n`
  characters at `str[n]` (`stdarg.c:206`), where its comment leaves only NUL.

Two more are part of what passing runs show. `OverrunsExactly` (`console`): a
character after a text that filled the buffer is written past it (`stdarg.c:82`), and
the room of a text after that wraps around (`stdarg.c:61`). `EnabledIrqServed`
(`irq_served`): `irq_ack` of a slave's line ends the service at the slave only
(`8259a.c:45`), so the cascade stays in service at the master, and lines 3 to 7 and the
slave's are not served again; no doc or comment says otherwise.

Smaller ones seen while modelling, not checked by a run of their own:
`irq_enable` of a slave's line leaves the cascade of the master masked, so the
line stays silent until somebody enables line 2 (`8259a.c:80`);
`vregion_cmp` has the sign that makes `list_insert_ordered` sort downwards,
while boot checks ascending order (`virtual_pages.c:27` and `168`);
`_ppage_block_alloc` and `create_slab` stop the kernel where their comments
say NULL is returned (`physical_pages.c:287`, `slab.c:124`); a "system gate"
is an interrupt gate, not the trap gate of its comment (`idt.c:118`);
`paging_boot_init` maps the first megabyte and the image, not the first 4 MB
of its comment (`paging.c:352`), and, unlike `head.S:83`, it does map the page
at KERNEL_SPACE, for which `virt_to_phys_addr` returns 0, its NULL;
`set_gdt_entry` keeps eight bits of `limit >> 16` where the descriptor has four,
and `tss_init` passes the address of the TSS's end as its limit (`tss.c:44`):
the bits that spill happen to do no harm, as `NeverResets` shows for an image in
the first two megabytes; `load_tss` accepts one index past the end of the table
(`tss.c:79`); an exception of a program that has no handler stops the whole
kernel; `pit_set_frequency` cuts its divisor to 16 bits, so that less than 19 Hz
gives another frequency (`pit.c:58`); `list_insert_ordered` walks off the end of
a list whose elements all come before the new one (`list.h:89`); `dlist_pop_head`,
`dlist_delete_el`, `dlist_length` and `clist_search_el` do not compile when used;
the refill functions print a TODO instead of calling `ppages_set_slab`
(`slab.c:607` and `637`), so the pages of their slabs carry no mark and the check
on release (`physical_pages.c:345`) would not refuse them; `mmu_context_load`
stops the kernel for every context; and the modules that
`kernel.h:27` draws beside the image are not kept from the page allocator.

## The proofs

A theorem `X` below that names a property `P` is `Spec => []P` (`[][P]_vars`
for an action property), for every value of the constants that satisfies the
named assumptions. The invariants named `...Inv` are inductive: TLC checks each
on a run, and the proof has one lemma per action that preserves it.

| Module | Theorem | Property |
|---|---|---|
| `PhysicalPagesProofs` (of `SpecAlloc`) | `PagesInvariant`, `TypeCorrect` | `PagesInv`, `TypeOK` |
| | `NoDoubleAllocation`, `KernelMemorySafe` | `NoOverlap`, `KernelMemoryKept` |
| | `NoNullLink` | `NeverFaults` |
| | `FreeListsStayRings` | `FreeListsAreRings` |
| | `NoPageIsLost`, `NoEarlyExhaustion` | `NoPageLost`, `FailsOnlyWhenExhausted` |
| | `DescriptorsMatchClients` | `DescriptorsAgree`, while nothing is released |
| | `AllocatorImplementsGrants` | `ImplementsGrants` |
| `PhysicalPagesProofs` (of `SpecNoSplit`, given `BuddiesReserved`) | `NoSplitInvariant` | `NoSplitInv`, which contains `TypeOK` |
| | `UsedListsStayRings`, `ReleasesKeepFreeRings` | `UsedListsAreRings`, `FreeListsAreRings` |
| | `ReferencesMatchClients` | `DescriptorsAgree`, with releases |
| | `ReleasesSucceed`, `ReleasesNeverMerge` | a release is refused for a slab only; the loop never merges |
| | `ReleasesImplementReturns` | `ImplementsReturns` |
| `KernelHeapProofs` | `HeapInvariant` | `HeapInv` |
| | `ReservesSuffice`, `RefillsDoNotNest` | `ReservesHold`, `NoReentry` |
| | `CountersAgreeWithLists`, `NoObjectIsLost` | `CountsAgree`, `ObjectsAccounted` |
| | `RegionsMakeUpTheWindow` | `RegionsPartition` |
| | `HeapImplementsGrants` | `ImplementsGrants` |
| `HeapMemoryProofs` (of `KernelHeap`) | `MemoryInvariant` | `MemoryInv`, which contains `HeapInv` |
| | `SlabsHaveTheirMemory` | `SlabsBacked` |
| `ListsProofs` | `ListsInvariant` | `ListsInv`, which contains `TypeOK` |
| | `ListsLinkedBothWays` | `LinkedBothWays` |
| | `ListsImplementElementLists` | `ImplementsElementLists` |
| `PagingProofs` | `PagingInvariant`, `PagingTypeCorrect` | `PagingInv`, `TypeOK` |
| | `KernelAlwaysMapped`, `TlbNeverStale` | `KernelStaysMapped`, `TlbCoherent` |
| | `VirtToPhysExact` | `VirtToPhysAgrees` |
| | `PagingImplementsAddressSpace` | `ImplementsAddressSpace` |
| `InterruptsProofs` (of `Segments`) | `EveryVectorEnters`, `ContextsReturn`, `NoPortAllowed` | facts about the tables: entries, returns, ports |
| `InterruptsProofs` (of `Interrupts`) | `InterruptsInvariant`, `InterruptsTypeCorrect` | `InterruptsInv`, `TypeOK` |
| | `HandlersDoNotNest`, `NoTickIsLost` | `IrqsDoNotNest`, `TicksMatchRequests` |
| | `StackStaysBalanced`, `KernelNeverResets` | `StackBalanced`, `NeverResets` |
| | `AckEndsItsLine`, `ProgramsAreConfined` | `AckReleasesOwnLine`, `UserConfined` |
| `ConsoleProofs` | `ConsoleInvariant`, `ConsoleTypeCorrect` | `ConsoleInv`, `TypeOK` |
| | `ScreenShowsLastRows` | `ScreenShowsEnd` |
| | `BufferHoldsItsText`, `BufferNeverOverrun` | `BufferHoldsText`, one direction of `OverrunsExactly` |

`CListProofs` holds the lemmas about the circular lists that the others cite.

### Physical pages

Assumptions: the order of the boundaries of the image (the linker script),
NULL is not a page number, at least one order, and `PowerAssumption`, the two
facts about powers of two the provers cannot derive: 2^o is a positive integer
and doubles with o.

The difficulty is that the used lists really are corrupted by splits, and
their links share the fields `prev` and `next` with the free lists. `ListsInv`
therefore says two unequal things about links: each free list is one ring of
exactly the free blocks of its order (`IsRing`), while the links of used blocks
are only known to stay inside the used blocks (`LinksInside`). Pushing on a used
list can then write only links of used blocks, and popping a free list only
those of its order. That a list is one ring, and not two, is a statement about reachability,
made without recursion: a subset that has the first node and the next of each of
its nodes is the whole list (`Reaches`). The lemmas `PushTailRing`, `PopHeadRing` and `PushTailInside` of
`CListProofs` are about any set of nodes and any links.

`BlocksInv` says that heads are apart, lie before boot's cursor and, when free,
in free memory; `CallInv` ties the block in hand to the order reached;
`ClientInv` ties clients' grants to descriptors. Three more parts say what is
not lost: `CoverInv`, that the memory boot has gone through is cut into blocks
without a gap; `OwnedInv`, that each used block is a client's, the call's, or
the kernel's; `SearchInv`, that the orders a call has gone past have no free
block. Overlap and kernel safety follow from `BlocksInv` and `ClientInv`, no
page lost from `CoverInv` and `OwnedInv`, exhaustion from `SearchInv`. For the
refinement, `AllocReturns` is the abstract grant and every other step stutters
or stops.

Releases are proved for clients whose allocations split no block (`SpecNoSplit`);
after a split they are wrong, see the divergences. `NoSplitInv` says of
the used lists what `ListsInv` says of the free ones, that each is one ring, and
has `BlocksInv` and `ClientInv` in common with allocation. Outside a release it
implies `AllocInv` (`NoSplitAlloc`), so the lemmas of boot and allocation serve
again. What is new: a block leaves the middle of a used ring (`DeleteElKeeps`); while it is
released it is in no list (`InFlight`); and a release looks for a slab's
mark on the first page of the block only, which is enough because `MarksInv` says that a
block with a mark anywhere has one there.

The merging loop calls for a hypothesis. `find_buddy` answers page 0 or page
2^order, whatever the block, and the loop would merge a free block there with any other
of its order, or with itself. `BuddiesReserved` says that boot sets none of these pages
free, which the script of the linker ensures: with the orders below
`MAX_PPAGE_BLOCK_ORDER - 1` they lie in the first megabyte or are its end, where the image
starts. The same fact is `ReleasesNeverMerge`: the loop merges nothing, ever.

### Lists

Assumptions: NULL is neither an element nor a list, the elements are finitely
many and have ranks (`ElemsAssumption`).

`LinkedBothWays` speaks of walks, which the macros' loops compute step by step;
`ListsInv` says the same of sets, so that it can be proved of pointer writes. A
simple list is an injective chain of which no part that is closed under `next`
leaves an element out (`Runs`); a double list adds that `prev` is the inverse; a
circular one is the ring of `CList`. Each macro has a lemma about any elements and
any links: no fault, the links of other elements as they were (`Left`), and a list of
one element more or less. One lemma for all calls (`DoneKeeps`) then keeps
the other lists. Rings need one fact more, that they can be entered anywhere
(`RingFromAnywhere`): an ordered insertion and a deletion in the middle are
those at the head of the ring seen from that element.

Two macros walk, and so does the client who looks for the element before
the one it deletes. `WalkVisits` says that a walk along a chain visits each element once,
in the order of the links, and stops. The provers have no induction over data,
but the library's well-foundedness of `<` gives a least counterexample
(`LeastOf`), and that is enough: for the first step that leaves the list or
returns to an element, the step before it is already one. That an ordered
insertion finds its place is then that some element of the list stops it: for a simple list the
client's promise, for a circular one the macro's own test of the last element.

The refinement needs the sequence that a walk spells before and after a
call, over two different link functions. Any sequence that starts at the head and follows the
links to their end is the one `Walk` computes (`WalkIs`), so it is enough
to exhibit one: the sequence before with the element put in after the node
whose link was written (`InsertedVisits`) or taken out of it (`RemovedVisits`). Each
macro's pointer writes are one of these cases (its lemma ends in `Spelled`). The
place of an ordered insertion is the first element that stops the macro's
loop, and since the list is sorted that is the abstract place (`SortedPlace`). That a
call leaves every other list as it was (`OthersKept`) is proved with `ListsInv`.

### Kernel heap

Assumptions: the window starts above the three pages that boot has used and is not
empty (`WindowAssumption`), the caches of clients have objects and pages
(`KindsAssumption`), slabs of the boot caches have as many objects as the boot code
asserts (`ReserveAssumption`), and `PowerAssumption`, that there is a power of two
to which a slab's pages are rounded up.

The question is whether two reserves of two objects each are enough, when a
refill needs objects of the other reserve and may be entered from within
the other's refill. `HeapInv` answers it for any number of caches, slabs and calls,
without induction over the stack: it is about the top frame and those below it.

- `StackInv`: which call may be below which, and where in its body (`MayCall`); above
  a refill there are only the other refill and the search for a region. So
  the stack never holds a refill twice (`NoReentry`).
- `ReserveInv`: what is left in both reserves at each place of the top call,
  depending on who called it (`SlabsAtRefill`, `RegionsAtRefill`). It is a table of
  a dozen lines, and the heart of the argument: each call subtracts what
  it takes, each refill adds a slab's objects, and the least entry is one.
- `CountsAgree` and `SlabsInv`: the counters of each cache say what its slabs
  hold, each slab is in the list of its state, and each Slab object in use is a
  slab or in the hands of one call (`Pending`). One lemma for taking an object from a cache and one
  for adding a slab serve all the steps that do so.
- `CachesInv`: the objects of the three boot caches in use are the slabs, the
  regions and the caches.
- `RegionsInv`: at most one region is free, it ends where the window ends, and
  the used ones cover everything below it (`Frontier`) without overlap. The free
  list can never be searched in vain among remainders, since no region is released.
- `GotInv`: the region in the hands of a call is no slab's.

The refinement maps a region to a block that is as long as itself; only
`RegionFits` grants, every other step stutters.

`HeapMemoryProofs` goes on to the memory of slabs, where three things meet: the block
of `ppages_alloc`, the region and the page table. That every slab is backed is
not inductive: a slab is written several calls after its region was asked for.
`MemoryInv` adds to `HeapInv`

- `LengthsInv`: a search is for as many pages as the slabs of the cache that its
  caller is refilling have, and the region found is that long. `_vregion_alloc`
  does not know the cache, so this is about a frame and the one below it
  (`Calls`); each move is proved once, for every pair of calls on the stack.
- `BlocksInv`: the block just granted is marked with no slab and mapped nowhere
  until the region found is mapped to it, page after page; every mapped page
  is a slab's or of the region in hand.

`GotInv` and the partition of the window give the rest: mapping the region found
leaves the pages of all slabs as they are, so no page is mapped twice, and
`initialize_slab` never meets a page that is not there.

### Paging

Assumptions: a directory has room for the kernel's entry, the recursive one and one
below (`SizeAssumption`); the image and the first megabyte fit in one table
and the boot tables are distinct frames of the image (`ImageAssumption`, from the
linker script); what clients map is neither (`ClientAssumption`).

`BootInv` says how far each of the three mappings the kernel runs on is set up;
`TablesInv` that the directory holds every table once, itself at `RecPde`, and
no client's table at the kernel's entry; `CallInv` that the call in progress
stays in clients' pages; `TlbInv` that the TLB is stale for one page at most,
while its `invlpg` is due. The tables are written through translations: that a
write lands in the table it is meant for (`MapSetPteWalk` and its like) follows
from `TlbInv` for the recursive pages, which no client can change.

### Segments and interrupts

Assumptions: the TSS and the kernel's stack lie in the second megabyte, where the
linker script puts the image (`AddressAssumption`); the vectors a program may raise
as traps are no request's and push no error code (`TrapsAssumption`); the
program's port is a port (`PortAssumption`).

The first part of `InterruptsProofs` evaluates the descriptors: the bits of the selectors, limits
and gates that the processor reads are what it needs, whatever the addresses.
The second needs of it that every vector enters and every context
returns. `StackInv` says that only the context at the bottom can have been saved with
the interrupt flag set, by a request or in a program, which bounds the nesting of
lines at one for stacks of any depth; `ServiceInv` that a line being handled is the first its
controller serves, so that an unspecific end of interrupt releases it;
`TimerInv` accounts for each tick, with one wrap of `pit_tick` at most between
requests and ticks (`TickArithmetic`). `StackBalanced` relates each context to the
one below it and so is inductive with the rest.

### Console

Assumptions: the screen has a cell, the buffer fits in memory and its size in a
`size_t` (`SizesAssumption`); the characters that the code names are characters
(`CharsAssumption`); clients print sequences of items whose numbers are values of a
word (`FormatsAssumption`).

The loops are recursive functions; that each satisfies its equation is proved by
least counterexample (`QuotientsIs`, `FormattedIs`, `SaidIs`, `CopiesIs`,
`HighFirstIs`), since a function that is one step longer can always be written
down. `LowFirstFacts` says what the do-while loop leaves: all digits, if there is room
for as many as the numeral has, or a value that is not 0. From there `ConvertFits` and
`ConvertTooWide` follow the two exits of `u_to_nstr` through prefix, sign and
reversal; `Handled` excludes just the case between them, of which `console_number`
is the counterexample. For formats that are not handled only the types are kept
(`UToNstrType` to `VsnprintfType`): they put characters anywhere in the memory. `PutItemWrites` carries `Wrote`, "the
buffer holds what has been said so far and nothing behind it has changed", over
one item, and `FormattedIsSaid` over the format.

The screen is a matter of indices: `CellsApart` says that rows and columns determine
their cell, `MemmoveFacts` that the copy upwards never reads a cell it has
written, `CursorMoves` that a character advances by one line at most, because a new
line starts in column 0, so that scrolling once suffices. `ScreenShowsEnd` is then
inductive with the types. The buffer needs more than its two properties: that the
index stays within the text follows from the terminator behind it, so `ConsoleInv`
says that the text is shorter than the buffer.

### What is only model-checked

- Liveness (`CallsEnd`, `CallEnds`, `EnabledIrqServed`): the provers do not
  handle fairness and ENABLED.
- That each format `Handled` excludes does write past the buffer, the other
  direction of `OverrunsExactly`; `BufferNeverOverrun` is the one clients rely on.

## Not modelled

- Releases in combination with splits are modelled (`SpecApi`) but only to show
  the divergences: beyond the corruption of the used lists the code has no
  meaningful guarantee to state.
- `strncpy`, `memcpy`, the bit operations, `panic`'s message (its text is passed
  to `kprintf` as a format), the dumps.
- CPUID and multiboot parsing (`cpucheck.c`, `bootloader_info.c`): printed once,
  never read by a later operation. The loads of segment registers of
  `gdt_flush`, which give what the descriptors already give.
- Threads, processes, the scheduler: headers only. The bodies of `mmu.c` that
  are commented out, and `mmu_init`, which nobody calls.
- `pit_set_frequency` (the timer of the model ticks at any time),
  `vpage_unmap`, `vregion_merge` and `free_obj_from_slab`: an empty body or no
  caller.
- The heap does not contain the page allocator and the page tables but what
  they promise it; see `KernelHeap` above.

## Plan

The models are as complete as the code at this commit allows, and every safety
property that a run checks is a theorem, `OverrunsExactly` in one direction. What is left:

1. When the code grows (threads, processes, a scheduler, releases of regions and
   slabs), model it on the modules above: a release after a split once
   `physical_pages.c:314` moves a block from one used list to the other, and
   `SpecApi` then takes the place of `SpecAlloc` and `SpecNoSplit` in the proofs.
2. Liveness stays with TLC until the provers handle ENABLED.
