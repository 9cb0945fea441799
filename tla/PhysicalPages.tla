--------------------------- MODULE PhysicalPages ---------------------------
(***************************************************************************)
(* The allocator of physical pages, kernel/mm/physical_pages.c: blocks of  *)
(* 2^order contiguous pages, one ring of free and one ring of used blocks  *)
(* for each order, splitting on allocation and merging on release.         *)
(*                                                                         *)
(* Memory is cut into blocks at boot, in five ranges.  A call that loops   *)
(* or recurses advances by one iteration per step; pc says where it is.    *)
(* The kernel runs one call at a time with interrupts off, so at "idle" the*)
(* next client call is chosen.  The variables grant and refs belong to the *)
(* clients: the block orders they were given and the references they hold. *)
(***************************************************************************)
EXTENDS Integers, FiniteSets, CList

CONSTANTS
    MaxOrder,    \* MAX_PPAGE_BLOCK_ORDER: orders are 0 .. MaxOrder-1
    LastPpn,     \* last_ppn; first_ppn is 0 (main.c)
    MBPages,     \* paddr_to_ppn(1*MB)
    BootStart,   \* paddr_to_ppn(boot_pa_start)
    KernelEnd,   \* first page after the image; the linker script aligns it
    DescrPages,  \* pages taken at boot by the array of descriptors
    SlabSizes,   \* the numbers of pages of the slabs that clients set up
    MaxRefs      \* bound on the references a client takes on one block

ASSUME MaxOrderAssumption == MaxOrder \in Nat \ {0}
ASSUME PowerAssumption ==
    \A o \in 0..MaxOrder : 2^o \in Nat \ {0} /\ 2^(o+1) = 2^o + 2^o
ASSUME LayoutAssumption ==
    /\ LastPpn \in Nat /\ MBPages \in Nat /\ BootStart \in Nat
    /\ KernelEnd \in Nat /\ DescrPages \in Nat /\ MaxRefs \in Nat
    /\ MBPages <= BootStart /\ BootStart <= KernelEnd
    /\ SlabSizes \subseteq Nat \ {0}
ASSUME NullAssumption == NULL \notin Int

VARIABLES
    head, order, count, slab,  \* the fields of the Ppage descriptors ...
    prev, next,                \* ... and their links
    freeList, usedList,        \* free_ppages_blocks_clists, used_...
    pc, req, cur, blk,         \* the call in progress and its locals
    range, cursor,             \* progress of physical_page_boot_init
    cause,                     \* why the kernel stopped
    grant, refs                \* the clients

links   == <<prev, next>>
lists   == <<freeList, usedList>>
bootvars == <<range, cursor>>
clients == <<grant, refs>>
vars == <<head, order, count, slab, links, lists, pc, req, cur, blk,
          bootvars, cause, clients>>

Ppn    == 0..LastPpn
Orders == 0..(MaxOrder - 1)
Causes == {"none", "nomem", "toobig", "bootmem", "fault", "unref",
           "head", "order", "count", "slab"}

\* The pages of the block of order o that starts at p.
Block(p, o) == p .. (p + 2^o - 1)

Held == {p \in Ppn : refs[p] > 0}
FreeHeads(o) == {p \in Ppn : head[p] /\ count[p] = 0 /\ order[p] = o}

\* A KASSERT, a panic() or an access through NULL: the kernel stops for good
\* in panic()'s loop, with the rest of the state as it was.
Halt(why) ==
    /\ pc' = "halted" /\ cause' = why
    /\ UNCHANGED <<head, order, count, slab, links, lists, req, cur, blk,
                   bootvars, clients>>

Halted == pc = "halted" /\ UNCHANGED vars
----------------------------------------------------------------------------
(***************************************************************************)
(* Boot.  The descriptors are uninitialised memory until their range is    *)
(* set and nothing reads one before; their initial values are arbitrary.   *)
(***************************************************************************)
Init ==
    /\ head = [p \in Ppn |-> FALSE] /\ order = [p \in Ppn |-> 0]
    /\ count = [p \in Ppn |-> 0] /\ slab = [p \in Ppn |-> FALSE]
    /\ prev = [p \in Ppn |-> NULL] /\ next = [p \in Ppn |-> NULL]
    /\ freeList = [o \in Orders |-> NULL] /\ usedList = [o \in Orders |-> NULL]
    /\ pc = "start" /\ req = 0 /\ cur = 0 /\ blk = 0
    /\ range = 1 /\ cursor = 0 /\ cause = "none"
    /\ grant = [p \in Ppn |-> 0] /\ refs = [p \in Ppn |-> 0]

\* _boot_first_free_ppn after the descriptors were allocated.
BootFirstFree == KernelEnd + DescrPages

\* _boot_physical_pages_alloc, called once for the array of descriptors.
BootPagesAlloc ==
    /\ pc = "start"
    /\ IF BootFirstFree - 1 <= LastPpn
       THEN /\ pc' = "boot"
            /\ UNCHANGED <<head, order, count, slab, links, lists, req, cur,
                           blk, bootvars, cause, clients>>
       ELSE Halt("bootmem")

\* Mutant of RangeFree: the pages of the descriptors are set free too.
RangeFreeDescr == {2, 4, 5}

\* The last page and the status of the five ranges of
\* physical_page_boot_init; each range starts where the previous one ended.
RangeLast == <<MBPages - 1, BootStart - 1, KernelEnd - 1,
               BootFirstFree - 1, LastPpn>>
RangeFree == {2, 5}

\* Mutant of Fits: a block may run one page past its range.
FitsPastEnd(p, o, last)  == p % 2^o = 0 /\ p + 2^o - 2 <= last

\* is_buddy_block and the test on the end of the range.
Fits(p, o, last) == p % 2^o = 0 /\ p + 2^o - 1 <= last

\* One iteration of _range_ppages_set_status: the biggest block that starts
\* at the cursor.  Only the first page of a block is linked.
BootBlock ==
    /\ pc = "boot" /\ cursor <= RangeLast[range]
    /\ \E o \in Orders :
        LET free   == range \in RangeFree
            inside == Block(cursor, o) \ {cursor}
            Clear(f) == [p \in Ppn |-> IF p \in inside THEN NULL ELSE f[p]]
            r == PushTail(Ring(IF free THEN freeList[o] ELSE usedList[o],
                               prev, next), cursor)
        IN /\ Fits(cursor, o, RangeLast[range])
           /\ \A b \in Orders : b > o => ~Fits(cursor, b, RangeLast[range])
           /\ IF r.fault THEN Halt("fault") ELSE
              /\ head' = [p \in Ppn |-> IF p \in inside THEN FALSE
                                        ELSE p = cursor \/ head[p]]
              /\ order' = [p \in Ppn |-> IF p \in Block(cursor, o)
                                         THEN o ELSE order[p]]
              /\ count' = [p \in Ppn |-> IF p \in Block(cursor, o)
                                         THEN IF free THEN 0 ELSE 1
                                         ELSE count[p]]
              /\ slab' = [p \in Ppn |-> p \notin Block(cursor, o) /\ slab[p]]
              /\ prev' = [p \in Ppn |-> IF p \in inside THEN NULL
                                        ELSE r.prev[p]]
              /\ next' = [p \in Ppn |-> IF p \in inside THEN NULL
                                        ELSE r.next[p]]
              /\ freeList' = IF free THEN [freeList EXCEPT ![o] = r.list]
                                     ELSE freeList
              /\ usedList' = IF free THEN usedList
                                     ELSE [usedList EXCEPT ![o] = r.list]
              /\ cursor' = cursor + 2^o
              /\ UNCHANGED <<pc, req, cur, blk, range, cause, clients>>

BootNextRange ==
    /\ pc = "boot" /\ cursor > RangeLast[range]
    /\ IF range < 5 THEN range' = range + 1 /\ pc' = pc
                    ELSE range' = range /\ pc' = "idle"
    /\ UNCHANGED <<head, order, count, slab, links, lists, req, cur, blk,
                   cursor, cause, clients>>
----------------------------------------------------------------------------
(***************************************************************************)
(* Allocation.  _ppage_block_alloc calls itself with order+1 until a free  *)
(* list is not empty, and splits on the way back.                          *)
(***************************************************************************)
Call(o) ==
    /\ pc' = "search" /\ req' = o /\ cur' = o
    /\ UNCHANGED <<head, order, count, slab, links, lists, blk, bootvars,
                   cause, clients>>

\* ppage_block_alloc, and ppage_alloc for order 0.
BlockAlloc(o) == pc = "idle" /\ Call(o)

\* ppages_alloc.  Between 2^(MaxOrder-1) and 2^MaxOrder pages its loop ends
\* with order = MaxOrder, which _ppage_block_alloc refuses.
IsOrderFor(n, o) ==
    /\ o < MaxOrder => n <= 2^o
    /\ \A b \in Orders : b < o => n > 2^b

PpagesAlloc(n) ==
    /\ pc = "idle"
    /\ IF n >= 2^MaxOrder
       THEN Halt("toobig")
       ELSE \E o \in 0..MaxOrder : IsOrderFor(n, o) /\ Call(o)

\* Mutant of AllocFails: the biggest order is not searched.
AllocFailsEarly ==
    /\ pc = "search" /\ cur >= MaxOrder - 1
    /\ Halt("nomem")

\* KASSERT(order < MAX_PPAGE_BLOCK_ORDER) at the bottom of the recursion.
AllocFails ==
    /\ pc = "search" /\ cur = MaxOrder
    /\ Halt("nomem")

\* Mutant of SearchBigger: the recursive call has the same order.
SearchSameOrder ==
    /\ pc = "search" /\ cur < MaxOrder /\ freeList[cur] = NULL
    /\ UNCHANGED vars

SearchBigger ==
    /\ pc = "search" /\ cur < MaxOrder /\ freeList[cur] = NULL
    /\ cur' = cur + 1
    /\ UNCHANGED <<head, order, count, slab, links, lists, pc, req, blk,
                   bootvars, cause, clients>>

\* The free list of order cur has a block: pop it, push it on the used list.
TakeHead ==
    /\ pc = "search" /\ cur < MaxOrder /\ freeList[cur] # NULL
    /\ LET el == freeList[cur]
           r  == PopHead(Ring(freeList[cur], prev, next))
           u  == PushTail(Ring(usedList[cur], r.prev, r.next), el)
       IN IF r.fault \/ u.fault THEN Halt("fault") ELSE
          /\ freeList' = [freeList EXCEPT ![cur] = r.list]
          /\ usedList' = [usedList EXCEPT ![cur] = u.list]
          /\ prev' = u.prev /\ next' = u.next
          /\ count' = [count EXCEPT ![el] = 1]
          /\ blk' = el /\ pc' = "split"
          /\ UNCHANGED <<head, order, slab, req, cur, bootvars, cause, clients>>

\* The recursion returned a block of order cur: its upper half becomes a free
\* block and the block itself is pushed on the used list of the lower order.
\* It is not taken off the used list of order cur.
Split ==
    /\ pc = "split" /\ cur > req
    /\ LET o  == cur - 1
           up == blk + 2^o
           f  == PushTail(Ring(freeList[o], prev, next), up)
           u  == PushTail(Ring(usedList[o], f.prev, f.next), blk)
       IN IF up > LastPpn \/ f.fault \/ u.fault THEN Halt("fault") ELSE
          /\ head' = [head EXCEPT ![up] = TRUE]
          /\ order' = [order EXCEPT ![up] = o, ![blk] = @ - 1]
          /\ count' = [count EXCEPT ![up] = 0]
          /\ freeList' = [freeList EXCEPT ![o] = f.list]
          /\ usedList' = [usedList EXCEPT ![o] = u.list]
          /\ prev' = u.prev /\ next' = u.next
          /\ cur' = o
          /\ UNCHANGED <<slab, pc, req, blk, bootvars, cause, clients>>

AllocReturns ==
    /\ pc = "split" /\ cur = req
    /\ pc' = "idle"
    /\ grant' = [grant EXCEPT ![blk] = req]
    /\ refs' = [refs EXCEPT ![blk] = 1]
    /\ UNCHANGED <<head, order, count, slab, links, lists, req, cur, blk,
                   bootvars, cause>>
----------------------------------------------------------------------------
(***************************************************************************)
(* The other calls of a client, on a block it holds.                       *)
(***************************************************************************)
\* ppages_set_slab on the first n pages of the block.
PpagesSetSlab(p, n) ==
    /\ pc = "idle" /\ p \in Held /\ n <= 2^grant[p]
    /\ slab' = [q \in Ppn |-> q \in p .. (p + n - 1) \/ slab[q]]
    /\ UNCHANGED <<head, order, count, links, lists, pc, req, cur, blk,
                   bootvars, cause, clients>>

\* Mutant of PpageRef: the reference is not counted.
PpageRefUncounted(p) ==
    /\ pc = "idle" /\ p \in Held /\ refs[p] < MaxRefs
    /\ refs' = [refs EXCEPT ![p] = @ + 1]
    /\ UNCHANGED <<head, order, count, slab, links, lists, pc, req, cur, blk,
                   bootvars, cause, grant>>

PpageRef(p) ==
    /\ pc = "idle" /\ p \in Held /\ refs[p] < MaxRefs
    /\ count' = [count EXCEPT ![p] = @ + 1]
    /\ refs' = [refs EXCEPT ![p] = @ + 1]
    /\ UNCHANGED <<head, order, slab, links, lists, pc, req, cur, blk,
                   bootvars, cause, grant>>

\* _ppage_block_free up to its loop.
FreeBlock(p, o) ==
    LET r == DeleteEl(Ring(usedList[o], prev, next), p) IN
    CASE ~head[p]      -> Halt("head")
      [] head[p] /\ order[p] # o -> Halt("order")
      [] head[p] /\ order[p] = o /\ count[p] # 1 -> Halt("count")
      [] head[p] /\ order[p] = o /\ count[p] = 1 /\ slab[p] -> Halt("slab")
      [] OTHER ->
         IF r.fault THEN Halt("fault") ELSE
         /\ usedList' = [usedList EXCEPT ![o] = r.list]
         /\ prev' = r.prev /\ next' = r.next
         /\ count' = [count EXCEPT ![p] = 0]
         /\ refs' = [refs EXCEPT ![p] = 0]
         /\ blk' = p /\ cur' = o /\ pc' = "merge"
         /\ UNCHANGED <<head, order, slab, freeList, req, bootvars, cause,
                        grant>>

\* ppage_block_free and ppage_free: the client returns the block it was
\* given, with the order it asked for.
BlockFree(p) ==
    /\ pc = "idle" /\ p \in Held /\ refs[p] = 1
    /\ FreeBlock(p, grant[p])

PpageUnref(p) ==
    /\ pc = "idle" /\ p \in Held
    /\ IF count[p] > 1
       THEN /\ count' = [count EXCEPT ![p] = @ - 1]
            /\ refs' = [refs EXCEPT ![p] = @ - 1]
            /\ UNCHANGED <<head, order, slab, links, lists, pc, req, cur, blk,
                           bootvars, cause, grant>>
       ELSE IF count[p] = 1 THEN FreeBlock(p, order[p])
       ELSE Halt("unref")

\* find_buddy: a conjunction with the bit of the order, where the partner of
\* a block is the exclusive or.
FindBuddy(p, o) == IF (p \div 2^o) % 2 = 1 THEN 2^o ELSE 0

\* One iteration of the loop of _ppage_block_free, or its end.  The ppn of
\* the merged block is the conjunction of the two, that is the buddy's.
MergeOrRelease ==
    /\ pc = "merge"
    /\ LET buddy == FindBuddy(blk, order[blk])
           d == DeleteEl(Ring(freeList[cur], prev, next), buddy)
           f == PushTail(Ring(freeList[cur], prev, next), blk)
       IN IF cur < MaxOrder - 1 /\ count[buddy] = 0 /\ head[buddy]
             /\ order[buddy] = cur
          THEN IF d.fault THEN Halt("fault") ELSE
               /\ freeList' = [freeList EXCEPT ![cur] = d.list]
               /\ prev' = d.prev /\ next' = d.next
               /\ head' = [head EXCEPT ![blk] = FALSE, ![buddy] = TRUE]
               /\ order' = [order EXCEPT ![buddy] = cur + 1]
               /\ cur' = cur + 1 /\ blk' = buddy
               /\ UNCHANGED <<count, slab, usedList, pc, req, bootvars, cause,
                              clients>>
          ELSE IF f.fault THEN Halt("fault") ELSE
               /\ freeList' = [freeList EXCEPT ![cur] = f.list]
               /\ prev' = f.prev /\ next' = f.next
               /\ pc' = "idle"
               /\ UNCHANGED <<head, order, count, slab, usedList, req, cur,
                              blk, bootvars, cause, clients>>
----------------------------------------------------------------------------
Boot == BootPagesAlloc \/ BootBlock \/ BootNextRange

AllocStep == AllocFails \/ SearchBigger \/ TakeHead \/ Split \/ AllocReturns

\* What the kernel asks of the allocator at this commit: it never returns a
\* page.
Allocate == \/ \E o \in Orders : BlockAlloc(o)
            \/ \E n \in 0..2^MaxOrder : PpagesAlloc(n)

UseBlock == \E p \in Ppn : \E n \in SlabSizes : PpagesSetSlab(p, n)

\* The rest of the interface.
Release == \E p \in Ppn : PpageRef(p) \/ BlockFree(p) \/ PpageUnref(p)

NextAlloc == Boot \/ AllocStep \/ Allocate \/ UseBlock \/ Halted
NextApi   == NextAlloc \/ Release \/ MergeOrRelease

SpecAlloc == Init /\ [][NextAlloc]_vars
SpecApi   == Init /\ [][NextApi]_vars

\* Clients that only ask for an order of which a free block exists, so that
\* no block is ever split.
NextNoSplit ==
    \/ Boot \/ TakeHead \/ AllocReturns
    \/ \E o \in Orders : freeList[o] # NULL /\ BlockAlloc(o)
    \/ UseBlock \/ Release \/ MergeOrRelease \/ Halted
SpecNoSplit == Init /\ [][NextNoSplit]_vars
----------------------------------------------------------------------------
(***************************************************************************)
(* Properties.                                                             *)
(***************************************************************************)
\* The shape of the allocator's state and of the call in progress.
TypeOK ==
    /\ head \in [Ppn -> BOOLEAN] /\ slab \in [Ppn -> BOOLEAN]
    /\ order \in [Ppn -> Orders] /\ count \in [Ppn -> Nat]
    /\ prev \in [Ppn -> Ppn \cup {NULL}] /\ next \in [Ppn -> Ppn \cup {NULL}]
    /\ freeList \in [Orders -> Ppn \cup {NULL}]
    /\ usedList \in [Orders -> Ppn \cup {NULL}]
    /\ pc \in {"start", "boot", "idle", "search", "split", "merge", "halted"}
    /\ req \in 0..MaxOrder /\ cur \in 0..MaxOrder /\ blk \in Ppn
    /\ range \in 1..5 /\ cursor \in 0..(LastPpn + 1) /\ cause \in Causes
    /\ grant \in [Ppn -> Orders] /\ refs \in [Ppn -> Nat]

\* Two blocks in the hands of clients never share a page, and neither does
\* the block an allocation is cutting: what ppage_block_alloc returns belongs
\* to nobody else.
Apart(p, o, q, b) == p + 2^o <= q \/ q + 2^b <= p

NoOverlap ==
    /\ \A p, q \in Held : p # q => Apart(p, grant[p], q, grant[q])
    /\ pc = "split" => \A p \in Held : Apart(p, grant[p], blk, cur)

\* A client is never given a page of the first megabyte, of the kernel image
\* or of the descriptors, nor a page past the end of memory: its block lies
\* in one of the two ranges that boot sets free.
InFreeMemory(p, o) ==
    \/ MBPages <= p /\ p + 2^o <= BootStart
    \/ BootFirstFree <= p /\ p + 2^o - 1 <= LastPpn

KernelMemoryKept == \A p \in Held : InFreeMemory(p, grant[p])

\* The allocator implements PageGrants: a block appears in a client's hands
\* as one whole run of free memory that nobody holds, and leaves as a whole.
Grantable == {p \in Ppn : (MBPages <= p /\ p < BootStart) \/ BootFirstFree <= p}

RunSize == [p \in Ppn |-> IF refs[p] > 0 THEN 2^grant[p] ELSE 0]

Grants == INSTANCE PageGrants WITH
    Pages <- Ppn, Grantable <- Grantable, Lengths <- {2^o : o \in Orders},
    size <- RunSize, stopped <- (pc = "halted")

ImplementsGrants  == Grants!GrantSpec
ImplementsReturns == Grants!Spec

\* Between two steps of a call the ring of each free list holds exactly the
\* free blocks of its order (the block being released is in no ring).
InFlight == IF pc = "merge" THEN {blk} ELSE {}

FreeListsAreRings ==
    \A o \in Orders : IsRing(freeList[o], prev, next, FreeHeads(o) \ InFlight)

\* The same of the used lists, which _ppage_block_free trusts when it unlinks
\* a block from the list of its order.
UsedHeads(o) == {p \in Ppn : head[p] /\ count[p] > 0 /\ order[p] = o}

UsedListsAreRings ==
    \A o \in Orders : IsRing(usedList[o], prev, next, UsedHeads(o))

\* No page is lost: between calls every page that boot found free lies in
\* exactly one block, and that block is free or is held with its full order.
NoPageLost ==
    pc = "idle" =>
        \A q \in Ppn : InFreeMemory(q, 0) =>
            LET own == {p \in Ppn : head[p] /\ q \in Block(p, order[p])} IN
            /\ Cardinality(own) = 1
            /\ \A p \in own : count[p] = 0 \/ (p \in Held /\ grant[p] = order[p])

\* The recursion stops the kernel for want of memory only if no free block is
\* big enough for the request.
FailsOnlyWhenExhausted ==
    cause = "nomem" =>
        \A p \in Ppn : head[p] /\ count[p] = 0 => order[p] < req

\* Releases merge "as much as possible": between calls two halves of one
\* bigger block are never both free.
NoFreeBuddies ==
    pc = "idle" =>
        \A o \in 0..(MaxOrder - 2) : \A p \in FreeHeads(o) :
            p % 2^(o+1) = 0 => p + 2^o \notin FreeHeads(o)

\* The descriptors agree with what clients hold, so a block is released by its
\* last user and not before; and a page that backs a slab stays in the hands of
\* the client that asked for it: KASSERT(block->slab == NULL) refuses to
\* release it, and nobody else finds the mark.
DescriptorsAgree ==
    /\ \A p \in Held : count[p] = refs[p] /\ order[p] = grant[p]
    /\ \A q \in Ppn : slab[q] => \E p \in Held : q \in Block(p, grant[p])

\* No operation on a list dereferences NULL while pages are only allocated,
\* although the used lists are corrupted by then.
NeverFaults == cause # "fault"

(***************************************************************************)
(* The inductive invariant of SpecAlloc.  The used rings lose their shape  *)
(* when a block is split, so of them it only keeps that their links lead   *)
(* from used blocks to used blocks: pushing on a used list then leaves the *)
(* links of the free blocks alone.                                         *)
(***************************************************************************)
Used == {p \in Ppn : head[p] /\ count[p] > 0}

\* Boot goes through the ranges without a gap.
BootInv ==
    /\ pc \in {"boot", "idle", "search", "split"} => BootFirstFree - 1 <= LastPpn
    /\ pc = "start" => range = 1 /\ cursor = 0
    /\ pc = "boot" => /\ cursor <= RangeLast[range] + 1
                      /\ range > 1 => cursor > RangeLast[range - 1]

\* The blocks do not overlap and lie in the part of memory boot has set up.
BlocksInv ==
    /\ \A p, q \in Ppn : head[p] /\ head[q] /\ p < q => p + 2^order[p] <= q
    /\ \A p \in Ppn : head[p] => p + 2^order[p] <= cursor
    /\ \A p \in Ppn : head[p] /\ count[p] = 0 => InFreeMemory(p, order[p])

ListsInv ==
    /\ \A o \in Orders : /\ IsRing(freeList[o], prev, next, FreeHeads(o))
                         /\ usedList[o] \in Used \cup {NULL}
    /\ LinksInside(prev, next, Used)

ClientInv ==
    \A p \in Held : p \in Used /\ order[p] = grant[p] /\ InFreeMemory(p, grant[p])

CallInv ==
    /\ pc # "merge"
    /\ pc \in {"search", "split"} => req <= cur
    /\ pc = "split" => /\ cur < MaxOrder /\ blk \in Used \ Held
                       /\ order[blk] = cur /\ InFreeMemory(blk, cur)

AllocInv == /\ TypeOK /\ BootInv /\ BlocksInv /\ ListsInv /\ ClientInv
            /\ CallInv /\ NeverFaults

(***************************************************************************)
(* What more is known of the pages: the part of memory that boot has set   *)
(* up is cut into blocks, each of which is free, a client's, the call's, or *)
(* the kernel's for good; and the orders that a call has searched have no  *)
(* free block.                                                             *)
(***************************************************************************)
CoverInv ==
    /\ \A q \in Ppn : q < cursor => \E p \in Ppn : head[p] /\ q \in Block(p, order[p])
    /\ pc \in {"idle", "search", "split"} => cursor > LastPpn

OwnedInv ==
    /\ \A p \in Used : \/ p \in Held \/ (pc = "split" /\ p = blk)
                       \/ \A q \in Block(p, order[p]) : ~InFreeMemory(q, 0)
    /\ pc = "split" => count[blk] = 1

SearchInv ==
    /\ pc = "search" => \A o \in Orders : req <= o /\ o < cur => freeList[o] = NULL
    /\ cause # "none" => pc = "halted"

PagesInv == /\ AllocInv /\ CoverInv /\ OwnedInv /\ SearchInv
            /\ DescriptorsAgree /\ FailsOnlyWhenExhausted

\* Boot sets up every range and ends, and so does every allocation, in spite of
\* its recursion over the orders.
CallsEnd ==
    /\ <>(pc \notin {"start", "boot"})
    /\ pc = "search" ~> pc \in {"idle", "halted"}

\* The processor keeps executing the call in progress.
FairAlloc   == SpecAlloc /\ WF_vars(Boot \/ AllocStep)
=============================================================================
