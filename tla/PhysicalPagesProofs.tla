------------------------ MODULE PhysicalPagesProofs ------------------------
(***************************************************************************)
(* The safety of the allocator for every memory layout and every number of *)
(* orders: of clients that only allocate, as the kernel does, and of those *)
(* that release too but never split a block.                               *)
(***************************************************************************)
EXTENDS PhysicalPages, CListProofs, FiniteSetTheorems

USE DEF Orders, Ppn

\* NULL is no page number.
LEMMA NullNotPpn == NULL \notin Ppn
BY NullAssumption

\* Powers of two that a block has as its size.
LEMMA Sizes ==
    ASSUME NEW o \in 0..MaxOrder
    PROVE  2^o \in Nat /\ 2^o > 0 /\ 2^(o+1) = 2^o + 2^o
BY PowerAssumption

\* The boundaries of the image and of memory, as numbers in order.
LEMMA LayoutFacts ==
    /\ LastPpn \in Nat /\ MBPages \in Nat /\ BootStart \in Nat
    /\ KernelEnd \in Nat /\ DescrPages \in Nat /\ MaxOrder \in Nat
    /\ BootFirstFree \in Nat /\ KernelEnd <= BootFirstFree
    /\ MBPages <= BootStart /\ BootStart <= KernelEnd
BY LayoutAssumption, MaxOrderAssumption DEF BootFirstFree

\* Each range of physical_page_boot_init ends before the next one.
LEMMA RangeOrder ==
    ASSUME BootFirstFree - 1 <= LastPpn, NEW i \in 1..5
    PROVE  /\ RangeLast[i] \in Int /\ RangeLast[i] <= LastPpn
           /\ RangeLast[1] = MBPages - 1 /\ RangeLast[4] = BootFirstFree - 1
           /\ RangeLast[2] = BootStart - 1
           /\ i < 5 => RangeLast[i] <= RangeLast[i+1]
<1>1. /\ RangeLast[1] = MBPages - 1 /\ RangeLast[2] = BootStart - 1
      /\ RangeLast[3] = KernelEnd - 1 /\ RangeLast[4] = BootFirstFree - 1
      /\ RangeLast[5] = LastPpn
  BY DEF RangeLast
<1>2. i = 1 \/ i = 2 \/ i = 3 \/ i = 4 \/ i = 5
  OBVIOUS
<1> QED
  BY <1>1, <1>2, LayoutFacts

\* Before boot there is no block and no call.
LEMMA InitInv == Init => AllocInv
<1> SUFFICES ASSUME Init PROVE AllocInv
  OBVIOUS
<1> USE LayoutFacts, NullNotPpn DEF Init
<1>1. TypeOK
  BY MaxOrderAssumption DEF TypeOK, Causes
<1>2. BootInv
  BY DEF BootInv
<1>3. BlocksInv
  BY DEF BlocksInv
<1>4. ListsInv
  BY DEF ListsInv, IsRing, LinksInside, FreeHeads, Used
<1>5. ClientInv /\ CallInv /\ NeverFaults
  BY DEF ClientInv, CallInv, NeverFaults, Held
<1> QED
  BY <1>1, <1>2, <1>3, <1>4, <1>5 DEF AllocInv

\* The state the invariants about blocks, lists and clients depend on.
heap == <<head, order, count, slab, prev, next, freeList, usedList, grant, refs>>

\* A step that leaves descriptors and lists alone keeps what is said of them.
LEMMA HeapUnchanged ==
    ASSUME TypeOK, BlocksInv, ListsInv, ClientInv, UNCHANGED heap, UNCHANGED cursor
    PROVE  BlocksInv' /\ ListsInv' /\ ClientInv'
<1>1. Used' = Used /\ \A o \in Orders : FreeHeads(o)' = FreeHeads(o)
  BY DEF heap, Used, FreeHeads
<1>2. BlocksInv' /\ ClientInv'
  BY <1>1 DEF heap, BlocksInv, ClientInv, Held, InFreeMemory, BootFirstFree
<1>3. ListsInv'
  BY <1>1 DEF heap, ListsInv, LinksInside
<1> QED
  BY <1>2, <1>3

\* A stopped kernel keeps the invariant, whatever stopped it.
LEMMA HaltInv ==
    ASSUME AllocInv, NEW why \in Causes \ {"fault"}, Halt(why)
    PROVE  AllocInv'
<1>1. BlocksInv' /\ ListsInv' /\ ClientInv'
  BY HeapUnchanged DEF AllocInv, Halt, heap, links, lists, bootvars, clients
<1>2. TypeOK'
  BY DEF AllocInv, Halt, TypeOK, links, lists, bootvars, clients, Causes
<1>3. BootInv' /\ CallInv' /\ NeverFaults'
  BY DEF AllocInv, Halt, BootInv, CallInv, NeverFaults, bootvars
<1> QED
  BY <1>1, <1>2, <1>3 DEF AllocInv

\* Boot places the descriptors after the image.
LEMMA BootPagesAllocInv == AllocInv /\ BootPagesAlloc => AllocInv'
<1> SUFFICES ASSUME AllocInv, BootPagesAlloc PROVE AllocInv'
  OBVIOUS
<1>1. CASE BootFirstFree - 1 <= LastPpn
  <2> USE <1>1 DEF AllocInv, BootPagesAlloc, links, lists, bootvars, clients
  <2>1. BlocksInv' /\ ListsInv' /\ ClientInv'
    BY HeapUnchanged DEF heap
  <2>2. TypeOK'
    BY DEF TypeOK
  <2>3. BootInv'
    BY LayoutFacts DEF BootInv, RangeLast, BootFirstFree
  <2>4. CallInv' /\ NeverFaults'
    BY DEF CallInv, NeverFaults
  <2> QED
    BY <2>1, <2>2, <2>3, <2>4
<1>2. CASE ~(BootFirstFree - 1 <= LastPpn)
  BY <1>2, HaltInv DEF BootPagesAlloc, Causes
<1> QED
  BY <1>1, <1>2

\* Boot goes on to the next range of memory, free or used.
LEMMA BootNextRangeInv == AllocInv /\ BootNextRange => AllocInv'
<1> SUFFICES ASSUME AllocInv, BootNextRange PROVE AllocInv'
  OBVIOUS
<1> USE DEF AllocInv, BootNextRange, links, lists, bootvars, clients
<1>1. BlocksInv' /\ ListsInv' /\ ClientInv'
  BY HeapUnchanged DEF heap
<1>2. TypeOK'
  BY DEF TypeOK
<1>3. BootInv'
  <2>1. BootFirstFree - 1 <= LastPpn /\ range \in 1..5 /\ cursor \in Nat
    BY LayoutFacts DEF BootInv, TypeOK
  <2>2. CASE range < 5
    <3>1. range + 1 \in 2..5 /\ (range + 1) - 1 = range
      BY <2>1, <2>2
    <3>2. /\ RangeLast[range] \in Int /\ RangeLast[range+1] \in Int
          /\ RangeLast[range] <= RangeLast[range+1]
      BY <2>1, <2>2, <3>1, RangeOrder
    <3> QED
      BY <2>1, <2>2, <3>1, <3>2 DEF BootInv, BootFirstFree, RangeLast
  <2>3. CASE ~(range < 5)
    BY <2>1, <2>3 DEF BootInv, BootFirstFree
  <2> QED
    BY <2>2, <2>3
<1>4. CallInv' /\ NeverFaults'
  BY DEF CallInv, NeverFaults
<1> QED
  BY <1>1, <1>2, <1>3, <1>4

\* The blocks of different free lists, and used blocks, are different blocks.
LEMMA ListsApart ==
    ASSUME TypeOK
    PROVE  /\ Used \in SUBSET Ppn
           /\ \A o \in Orders : FreeHeads(o) \in SUBSET Ppn
           /\ \A o \in Orders : FreeHeads(o) \cap Used = {}
           /\ \A o, b \in Orders : o # b => FreeHeads(o) \cap FreeHeads(b) = {}
BY DEF TypeOK, Used, FreeHeads

\* The parts of the state that starting or ending a call leaves alone.
LEMMA CallOnly ==
    ASSUME AllocInv, UNCHANGED heap, UNCHANGED <<range, cursor, cause, blk>>,
           pc' \in {"idle", "search"}, pc \in {"idle", "search"},
           req' \in 0..MaxOrder, cur' \in 0..MaxOrder, req' <= cur'
    PROVE  AllocInv'
<1>1. BlocksInv' /\ ListsInv' /\ ClientInv'
  BY HeapUnchanged DEF AllocInv
<1>2. TypeOK'
  BY DEF AllocInv, TypeOK, heap
<1>3. BootInv' /\ CallInv' /\ NeverFaults'
  BY DEF AllocInv, BootInv, CallInv, NeverFaults, BootFirstFree
<1> QED
  BY <1>1, <1>2, <1>3 DEF AllocInv

\* A call starts with the order it is for.
LEMMA CallStartInv ==
    ASSUME AllocInv, pc = "idle", NEW o \in 0..MaxOrder, Call(o)
    PROVE  AllocInv'
BY CallOnly, MaxOrderAssumption DEF Call, heap, links, lists, bootvars, clients

\* ppages_alloc turns a number of pages into an order.
LEMMA PpagesAllocInv ==
    ASSUME AllocInv, NEW n \in Nat, PpagesAlloc(n)
    PROVE  AllocInv'
<1>1. CASE n >= 2^MaxOrder
  BY <1>1, HaltInv DEF PpagesAlloc, Causes
<1>2. CASE ~(n >= 2^MaxOrder)
  BY <1>2, CallStartInv DEF PpagesAlloc
<1> QED
  BY <1>1, <1>2

\* A call tries the next order when a free list is empty.
LEMMA SearchBiggerInv == AllocInv /\ SearchBigger => AllocInv'
<1> SUFFICES ASSUME AllocInv, SearchBigger PROVE AllocInv'
  OBVIOUS
<1>1. /\ cur \in 0..MaxOrder /\ req \in 0..MaxOrder /\ cur < MaxOrder
      /\ req <= cur /\ MaxOrder \in Nat
  BY MaxOrderAssumption DEF AllocInv, TypeOK, CallInv, SearchBigger
<1>2. cur + 1 \in 0..MaxOrder /\ req <= cur + 1
  BY <1>1
<1> QED
  BY <1>1, <1>2, CallOnly
     DEF SearchBigger, heap, links, lists, bootvars, clients

\* Popping the block and pushing it on the used list: the ring it leaves stays
\* a ring, and no link of a free block is written.
LEMMA TakeHeadInv == AllocInv /\ TakeHead => AllocInv'
<1> SUFFICES ASSUME AllocInv, TakeHead PROVE AllocInv'
  OBVIOUS
<1> DEFINE el == freeList[cur]
           r  == PopHead(Ring(freeList[cur], prev, next))
           u  == PushTail(Ring(usedList[cur], r.prev, r.next), el)
           S  == FreeHeads(cur)
<1>1. /\ TypeOK /\ BootInv /\ BlocksInv /\ ListsInv /\ ClientInv /\ CallInv
      /\ NeverFaults /\ cur \in Orders /\ pc = "search"
  <2>1. cur < MaxOrder /\ pc = "search"
    BY DEF TakeHead
  <2>2. cur \in 0..MaxOrder /\ MaxOrder \in Nat
    BY MaxOrderAssumption DEF AllocInv, TypeOK
  <2> QED
    BY <2>1, <2>2 DEF AllocInv
<1>2. /\ el \in S /\ S \in SUBSET Ppn
      /\ IsRing(el, prev, next, S) /\ Linked(prev, next, S)
  <2>1. IsRing(el, prev, next, S) /\ el # NULL
    BY <1>1 DEF ListsInv, TakeHead
  <2> QED
    BY <1>1, <2>1, ListsApart DEF IsRing
<1>3. IsLinks(prev, next, Ppn)
  BY <1>1 DEF TypeOK, IsLinks
<1> HIDE DEF S, r
<1>4. /\ ~r.fault /\ r.list \in (S \ {el}) \cup {NULL}
      /\ IsLinks(r.prev, r.next, Ppn) /\ IsRing(r.list, r.prev, r.next, S \ {el})
      /\ \A e \in Ppn \ S : r.prev[e] = prev[e] /\ r.next[e] = next[e]
  <2>1. Popped(Ppn, S, prev, next, el, r)
    BY <1>2, <1>3, NullNotPpn, PopHeadLinked DEF r
  <2>2. IsRing(r.list, r.prev, r.next, S \ {el})
    BY <1>2, <1>3, NullNotPpn, PopHeadRing DEF r
  <2> QED
    BY <2>1, <2>2 DEF Popped
<1>5. /\ Used \in SUBSET Ppn /\ usedList[cur] \in Used \cup {NULL}
      /\ LinksInside(prev, next, Used) /\ S \cap Used = {}
  BY <1>1, ListsApart DEF ListsInv, S
<1>6. LinksInside(r.prev, r.next, Used)
  BY <1>4, <1>5 DEF LinksInside
<1> HIDE DEF u
<1>7. /\ ~u.fault /\ u.list \in Used \cup {el}
      /\ IsLinks(u.prev, u.next, Ppn) /\ LinksInside(u.prev, u.next, Used \cup {el})
      /\ \A e \in Ppn \ (Used \cup {el}) :
            u.prev[e] = r.prev[e] /\ u.next[e] = r.next[e]
  <2>1. PushedInside(Ppn, Used, r.prev, r.next, el, u)
    BY <1>2, <1>4, <1>5, <1>6, NullNotPpn, PushTailInside DEF u
  <2> QED
    BY <2>1 DEF PushedInside, Pushed
<1>8. /\ freeList' = [freeList EXCEPT ![cur] = r.list]
      /\ usedList' = [usedList EXCEPT ![cur] = u.list]
      /\ prev' = u.prev /\ next' = u.next
      /\ count' = [count EXCEPT ![el] = 1]
      /\ blk' = el /\ pc' = "split"
      /\ UNCHANGED <<head, order, slab, req, cur, range, cursor, cause, grant, refs>>
  BY <1>4, <1>7 DEF TakeHead, r, u, bootvars, clients
<1> HIDE DEF el
<1>9. /\ head[el] /\ count[el] = 0 /\ order[el] = cur /\ el \in Ppn
      /\ \A p \in Ppn : count'[p] = IF p = el THEN 1 ELSE count[p]
  BY <1>1, <1>2, <1>8 DEF S, FreeHeads, TypeOK
<1>10. /\ Used' = Used \cup {el}
       /\ \A o \in Orders : FreeHeads(o)' = FreeHeads(o) \ {el}
  BY <1>1, <1>8, <1>9 DEF Used, FreeHeads, TypeOK
<1>11. TypeOK'
  <2>1. prev' \in [Ppn -> Ppn \cup {NULL}] /\ next' \in [Ppn -> Ppn \cup {NULL}]
    BY <1>7, <1>8 DEF IsLinks
  <2>2. /\ freeList' \in [Orders -> Ppn \cup {NULL}]
        /\ usedList' \in [Orders -> Ppn \cup {NULL}]
    <3>1. r.list \in Ppn \cup {NULL} /\ u.list \in Ppn \cup {NULL}
      BY <1>2, <1>4, <1>5, <1>7, <1>9
    <3> QED
      BY <1>1, <1>8, <3>1 DEF TypeOK
  <2>3. count' \in [Ppn -> Nat] /\ blk' \in Ppn
    BY <1>1, <1>8, <1>9 DEF TypeOK
  <2> QED
    BY <1>1, <1>8, <2>1, <2>2, <2>3 DEF TypeOK
<1>12. BootInv' /\ NeverFaults'
  BY <1>1, <1>8 DEF BootInv, NeverFaults, BootFirstFree
<1>13. BlocksInv'
  BY <1>1, <1>8, <1>9 DEF BlocksInv, InFreeMemory, BootFirstFree
<1>14. ListsInv'
  <2>1. LinksInside(prev', next', Used')
    BY <1>7, <1>8, <1>10
  <2> SUFFICES ASSUME NEW o \in Orders
               PROVE  /\ IsRing(freeList'[o], prev', next', FreeHeads(o)')
                      /\ usedList'[o] \in Used' \cup {NULL}
    BY <2>1 DEF ListsInv
  <2>2. usedList'[o] \in Used' \cup {NULL}
    BY <1>1, <1>7, <1>8, <1>10 DEF ListsInv, TypeOK
  <2>3. CASE o = cur
    <3>1. FreeHeads(o)' = S \ {el} /\ (S \ {el}) \cap (Used \cup {el}) = {}
      BY <1>5, <1>10, <2>3 DEF S
    <3>2. \A e \in S \ {el} : prev'[e] = r.prev[e] /\ next'[e] = r.next[e]
      BY <1>2, <1>7, <1>8, <3>1
    <3>3. IsRing(r.list, prev', next', S \ {el})
      BY <1>4, <3>2, RingKept
    <3>4. freeList'[o] = r.list
      BY <1>1, <1>8, <2>3 DEF TypeOK
    <3> QED
      BY <2>2, <3>1, <3>3, <3>4
  <2>4. CASE o # cur
    <3>1. /\ FreeHeads(o) \cap S = {} /\ FreeHeads(o) \cap (Used \cup {el}) = {}
          /\ FreeHeads(o)' = FreeHeads(o) /\ FreeHeads(o) \in SUBSET Ppn
      BY <1>1, <1>2, <1>10, <2>4, ListsApart DEF S
    <3>2. \A e \in FreeHeads(o) : prev'[e] = prev[e] /\ next'[e] = next[e]
      BY <1>4, <1>7, <1>8, <3>1
    <3>3. IsRing(freeList[o], prev, next, FreeHeads(o))
      BY <1>1 DEF ListsInv
    <3>4. IsRing(freeList[o], prev', next', FreeHeads(o))
      BY <3>2, <3>3, RingKept
    <3>5. freeList'[o] = freeList[o]
      BY <1>1, <1>8, <2>4 DEF TypeOK
    <3> QED
      BY <2>2, <3>1, <3>4, <3>5
  <2> QED
    BY <2>3, <2>4
<1>15. Held' = Held /\ el \notin Held
  BY <1>1, <1>8, <1>9 DEF Held, ClientInv, Used
<1>16. ClientInv'
  BY <1>1, <1>8, <1>10, <1>15 DEF ClientInv, InFreeMemory, BootFirstFree
<1>17. CallInv'
  <2>1. InFreeMemory(el, cur)
    BY <1>1, <1>9 DEF BlocksInv
  <2>2. InFreeMemory(blk, cur)'
    BY <1>8, <2>1 DEF InFreeMemory, BootFirstFree
  <2>3. /\ blk' \in Used' /\ blk' \notin Held' /\ order'[blk'] = cur'
        /\ req' <= cur' /\ cur' < MaxOrder
    BY <1>1, <1>8, <1>9, <1>10, <1>15, MaxOrderAssumption DEF CallInv
  <2> QED
    BY <1>8, <2>2, <2>3 DEF CallInv
<1> QED
  BY <1>11, <1>12, <1>13, <1>14, <1>16, <1>17 DEF AllocInv

\* The upper half of a block that is split was the head of no block.
LEMMA UpperHalf ==
    ASSUME AllocInv, pc = "split", cur > req
    PROVE  LET o  == cur - 1
               up == blk + 2^o
           IN /\ o \in Orders /\ o \in 0..MaxOrder /\ cur \in Orders
              /\ blk \in Used \ Held /\ order[blk] = cur /\ InFreeMemory(blk, cur)
              /\ blk \in Ppn /\ head[blk] /\ count[blk] > 0
              /\ 2^o \in Nat /\ 2^o > 0 /\ 2^cur = 2^o + 2^o
              /\ up \in Ppn /\ up > blk /\ up + 2^o = blk + 2^cur /\ up + 2^o <= cursor
              /\ ~head[up] /\ up # blk
<1>1. TypeOK /\ BlocksInv /\ CallInv
  BY DEF AllocInv
<1>2. PICK o \in Orders :
        o \in 0..MaxOrder /\ o = cur - 1 /\ cur = o + 1 /\ cur \in Orders
  BY <1>1, MaxOrderAssumption DEF TypeOK, CallInv
<1> DEFINE up == blk + 2^o
<1>3. /\ blk \in Used \ Held /\ order[blk] = cur /\ InFreeMemory(blk, cur)
      /\ blk \in Ppn /\ head[blk] /\ count[blk] > 0
  BY <1>1 DEF CallInv, Used
<1>4. 2^o \in Nat /\ 2^o > 0 /\ 2^cur = 2^o + 2^o
  BY <1>2, Sizes
<1>5. /\ up \in Ppn /\ up > blk /\ up + 2^o = blk + 2^cur /\ up + 2^o <= cursor
      /\ ~head[up] /\ up # blk
  <2>1. blk + 2^cur <= cursor /\ cursor \in 0..(LastPpn + 1)
    BY <1>1, <1>3 DEF BlocksInv, TypeOK
  <2>2. up \in Ppn /\ up > blk /\ up + 2^o = blk + 2^cur
    BY <1>3, <1>4, <2>1, LayoutFacts
  <2>3. up < blk + 2^cur
    BY <1>3, <1>4, LayoutFacts
  <2> HIDE DEF up
  <2>4. ~(head[up] /\ blk + 2^cur <= up)
    BY <1>3, <1>4, <2>2, <2>3, LayoutFacts
  <2>5. head[up] => blk + 2^cur <= up
    BY <1>1, <1>3, <2>2 DEF BlocksInv
  <2> QED
    BY <2>1, <2>2, <2>4, <2>5
<1> QED
  BY <1>2, <1>3, <1>4, <1>5

\* Splitting: the upper half was inside the block, so it was the head of no
\* block and in no ring; the lower half stays a used block of the client.
LEMMA SplitInv == AllocInv /\ Split => AllocInv'
<1> SUFFICES ASSUME AllocInv, Split PROVE AllocInv'
  OBVIOUS
<1>1. /\ TypeOK /\ BootInv /\ BlocksInv /\ ListsInv /\ ClientInv /\ CallInv
      /\ NeverFaults /\ pc = "split" /\ cur > req
  BY DEF AllocInv, Split
<1>2. PICK o \in Orders :
        /\ o \in 0..MaxOrder /\ o = cur - 1 /\ cur = o + 1 /\ cur \in Orders
        /\ req \in Nat /\ req <= o /\ cur < MaxOrder
  BY <1>1, MaxOrderAssumption DEF TypeOK, CallInv
<1> DEFINE up == blk + 2^o
           f  == PushTail(Ring(freeList[o], prev, next), up)
           u  == PushTail(Ring(usedList[o], f.prev, f.next), blk)
           S  == FreeHeads(o)
<1>3. /\ blk \in Used \ Held /\ order[blk] = cur /\ InFreeMemory(blk, cur)
      /\ blk \in Ppn /\ head[blk] /\ count[blk] > 0
  BY <1>1 DEF CallInv, Used
<1>4. 2^o \in Nat /\ 2^o > 0 /\ 2^cur = 2^o + 2^o
  BY <1>2, Sizes
<1>5. /\ up \in Ppn /\ up > blk /\ up + 2^o = blk + 2^cur /\ up + 2^o <= cursor
      /\ ~head[up] /\ up # blk
  BY <1>1, <1>2, UpperHalf
<1> HIDE DEF up, S, f
<1>6. /\ S \in SUBSET Ppn /\ IsRing(freeList[o], prev, next, S)
      /\ Linked(prev, next, S) /\ freeList[o] \in S \cup {NULL}
      /\ up \notin S /\ IsLinks(prev, next, Ppn) /\ S \cap Used = {}
      /\ Used \in SUBSET Ppn /\ up \notin Used
      /\ usedList[o] \in Used \cup {NULL} /\ LinksInside(prev, next, Used)
  <2>1. up \notin S /\ up \notin Used
    BY <1>5 DEF S, FreeHeads, Used
  <2>2. IsLinks(prev, next, Ppn)
    BY <1>1 DEF TypeOK, IsLinks
  <2>3. IsRing(freeList[o], prev, next, S)
    BY <1>1 DEF ListsInv, S
  <2>4. Linked(prev, next, S) /\ freeList[o] \in S \cup {NULL}
    BY <2>3 DEF IsRing, Linked
  <2> QED
    BY <1>1, <1>2, <2>1, <2>2, <2>3, <2>4, ListsApart DEF ListsInv, S
<1>7. /\ ~f.fault /\ f.list \in S \cup {up}
      /\ IsLinks(f.prev, f.next, Ppn) /\ IsRing(f.list, f.prev, f.next, S \cup {up})
      /\ \A e \in Ppn \ (S \cup {up}) :
            f.prev[e] = prev[e] /\ f.next[e] = next[e]
  <2>1. PushedOnRing(Ppn, S, prev, next, up, f)
    BY <1>5, <1>6, NullNotPpn, PushTailLinked DEF f
  <2>2. IsRing(f.list, f.prev, f.next, S \cup {up})
    BY <1>5, <1>6, NullNotPpn, PushTailRing DEF f
  <2> QED
    BY <2>1, <2>2 DEF PushedOnRing, Pushed
<1> HIDE DEF u
<1>8. LinksInside(f.prev, f.next, Used)
  BY <1>6, <1>7 DEF LinksInside
<1>9. /\ ~u.fault /\ u.list \in Used
      /\ IsLinks(u.prev, u.next, Ppn) /\ LinksInside(u.prev, u.next, Used)
      /\ \A e \in Ppn \ Used : u.prev[e] = f.prev[e] /\ u.next[e] = f.next[e]
  <2>1. PushedInside(Ppn, Used, f.prev, f.next, blk, u)
    BY <1>3, <1>6, <1>7, <1>8, NullNotPpn, PushTailInside DEF u
  <2>2. Used \cup {blk} = Used
    BY <1>3
  <2> QED
    BY <2>1, <2>2 DEF PushedInside, Pushed
<1>10. /\ head' = [head EXCEPT ![up] = TRUE]
       /\ order' = [order EXCEPT ![up] = o, ![blk] = @ - 1]
       /\ count' = [count EXCEPT ![up] = 0]
       /\ freeList' = [freeList EXCEPT ![o] = f.list]
       /\ usedList' = [usedList EXCEPT ![o] = u.list]
       /\ prev' = u.prev /\ next' = u.next /\ cur' = o
       /\ UNCHANGED <<slab, pc, req, blk, range, cursor, cause, grant, refs>>
  <2>1. ~(up > LastPpn)
    BY <1>5, LayoutFacts
  <2> QED
    BY <1>2, <1>7, <1>9, <2>1 DEF Split, f, u, up, bootvars, clients
<1>11. /\ \A p \in Ppn : head'[p] <=> (p = up \/ head[p])
       /\ \A p \in Ppn : order'[p] = IF p = blk \/ p = up THEN o ELSE order[p]
       /\ \A p \in Ppn : count'[p] = IF p = up THEN 0 ELSE count[p]
  BY <1>1, <1>2, <1>3, <1>5, <1>10 DEF TypeOK
<1>12. /\ Used' = Used /\ Held' = Held
       /\ FreeHeads(o)' = S \cup {up}
       /\ \A b \in Orders : b # o => FreeHeads(b)' = FreeHeads(b)
  <2>1. Used' = Used /\ Held' = Held
    BY <1>5, <1>6, <1>10, <1>11 DEF Used, Held
  <2>2. FreeHeads(o)' = S \cup {up}
    BY <1>2, <1>3, <1>5, <1>11 DEF FreeHeads, S
  <2>3. ASSUME NEW b \in Orders, b # o PROVE FreeHeads(b)' = FreeHeads(b)
    BY <1>2, <1>3, <1>5, <1>11, <2>3 DEF FreeHeads
  <2> QED
    BY <2>1, <2>2, <2>3
<1>13. TypeOK'
  <2>1. prev' \in [Ppn -> Ppn \cup {NULL}] /\ next' \in [Ppn -> Ppn \cup {NULL}]
    BY <1>9, <1>10 DEF IsLinks
  <2>2. f.list \in Ppn \cup {NULL} /\ u.list \in Ppn \cup {NULL}
    BY <1>5, <1>6, <1>7, <1>9
  <2>3. /\ freeList' \in [Orders -> Ppn \cup {NULL}]
        /\ usedList' \in [Orders -> Ppn \cup {NULL}]
    BY <1>1, <1>10, <2>2 DEF TypeOK
  <2>4. order' \in [Ppn -> Orders] /\ count' \in [Ppn -> Nat] /\ head' \in [Ppn -> BOOLEAN]
    BY <1>1, <1>2, <1>3, <1>5, <1>10 DEF TypeOK
  <2>5. cur' \in 0..MaxOrder
    BY <1>2, <1>10
  <2> QED
    BY <1>1, <1>10, <2>1, <2>3, <2>4, <2>5 DEF TypeOK
<1>14. BootInv' /\ NeverFaults'
  BY <1>1, <1>10 DEF BootInv, NeverFaults, BootFirstFree
<1>15. InFreeMemory(blk, o) /\ InFreeMemory(up, o)
  BY <1>3, <1>4, <1>5, LayoutFacts DEF InFreeMemory
<1>16. BlocksInv'
  <2>1. ASSUME NEW p \in Ppn, NEW q \in Ppn, head'[p], head'[q], p < q
        PROVE  p + 2^(order'[p]) <= q
    <3>1. CASE p # up /\ q # up /\ p # blk
      BY <1>1, <1>11, <2>1, <3>1 DEF BlocksInv
    <3>2. CASE p = blk /\ q # up
      <4>1. blk + 2^cur <= q
        BY <1>1, <1>3, <1>11, <2>1, <3>2 DEF BlocksInv
      <4> QED
        BY <1>3, <1>4, <1>11, <3>2, <4>1
    <3>3. CASE p = blk /\ q = up
      BY <1>3, <1>4, <1>5, <1>11, <3>3 DEF up
    <3>4. CASE p = up
      <4>1. head[q] /\ q # up /\ blk < q
        BY <1>3, <1>5, <1>11, <2>1, <3>4
      <4>2. blk + 2^cur <= q
        BY <1>1, <1>3, <4>1 DEF BlocksInv
      <4> QED
        BY <1>5, <1>11, <3>4, <4>2
    <3>5. CASE q = up /\ p # up /\ p # blk
      <4>1. head[p] /\ order'[p] = order[p] /\ order[p] \in 0..MaxOrder
        <5>1. order[p] \in Orders
          BY <1>1 DEF TypeOK
        <5>2. order[p] \in 0..MaxOrder
          BY <5>1, MaxOrderAssumption
        <5> QED
          BY <1>11, <2>1, <3>5, <5>2
      <4>2. 2^order[p] \in Nat /\ 2^order[p] > 0
        BY <4>1, Sizes
      <4>3. CASE p < blk
        <5>1. p + 2^order[p] <= blk
          BY <1>1, <1>3, <4>1, <4>3 DEF BlocksInv
        <5> QED
          BY <1>3, <1>5, <3>5, <4>1, <4>2, <5>1
      <4>4. CASE blk < p
        <5>1. blk + 2^cur <= p
          BY <1>1, <1>3, <4>1, <4>4 DEF BlocksInv
        <5> QED
          BY <1>3, <1>4, <1>5, <2>1, <3>5, <5>1
      <4> QED
        BY <1>3, <3>5, <4>3, <4>4
    <3> QED
      BY <3>1, <3>2, <3>3, <3>4, <3>5
  <2>2. ASSUME NEW p \in Ppn, head'[p] PROVE p + 2^(order'[p]) <= cursor'
    <3>1. CASE p = up
      BY <1>5, <1>10, <1>11, <3>1
    <3>2. CASE p = blk
      BY <1>1, <1>3, <1>4, <1>5, <1>10, <1>11, <3>2 DEF TypeOK
    <3>3. CASE p # up /\ p # blk
      BY <1>1, <1>10, <1>11, <2>2, <3>3 DEF BlocksInv
    <3> QED
      BY <3>1, <3>2, <3>3
  <2>3. ASSUME NEW p \in Ppn, head'[p], count'[p] = 0
        PROVE  InFreeMemory(p, order'[p])
    <3>1. CASE p = up
      BY <1>11, <1>15, <3>1
    <3>2. CASE p # up
      <4>1. p # blk
        BY <1>3, <1>11, <2>3, <3>2
      <4> QED
        BY <1>1, <1>11, <2>3, <3>2, <4>1 DEF BlocksInv
    <3> QED
      BY <3>1, <3>2
  <2> QED
    BY <2>1, <2>2, <2>3 DEF BlocksInv, InFreeMemory, BootFirstFree
<1>17. ListsInv'
  <2> SUFFICES ASSUME NEW b \in Orders
               PROVE  /\ IsRing(freeList'[b], prev', next', FreeHeads(b)')
                      /\ usedList'[b] \in Used' \cup {NULL}
    BY <1>9, <1>10, <1>12 DEF ListsInv
  <2>1. usedList'[b] \in Used' \cup {NULL}
    BY <1>1, <1>9, <1>10, <1>12 DEF ListsInv, TypeOK
  <2>2. CASE b = o
    <3>1. \A e \in S \cup {up} : prev'[e] = f.prev[e] /\ next'[e] = f.next[e]
      BY <1>5, <1>6, <1>9, <1>10
    <3>2. IsRing(f.list, prev', next', S \cup {up})
      BY <1>7, <3>1, RingKept
    <3>3. freeList'[b] = f.list
      BY <1>1, <1>10, <2>2 DEF TypeOK
    <3> QED
      BY <1>12, <2>1, <2>2, <3>2, <3>3
  <2>3. CASE b # o
    <3>1. /\ FreeHeads(b) \cap S = {} /\ FreeHeads(b) \cap Used = {}
          /\ FreeHeads(b)' = FreeHeads(b) /\ FreeHeads(b) \in SUBSET Ppn
      BY <1>1, <1>2, <1>12, <2>3, ListsApart DEF S
    <3>2. up \notin FreeHeads(b)
      BY <1>5 DEF FreeHeads
    <3>3. \A e \in FreeHeads(b) : prev'[e] = prev[e] /\ next'[e] = next[e]
      BY <1>7, <1>9, <1>10, <3>1, <3>2
    <3>4. IsRing(freeList[b], prev, next, FreeHeads(b))
      BY <1>1 DEF ListsInv
    <3>5. IsRing(freeList[b], prev', next', FreeHeads(b))
      BY <3>3, <3>4, RingKept
    <3>6. freeList'[b] = freeList[b]
      BY <1>1, <1>10, <2>3 DEF TypeOK
    <3> QED
      BY <2>1, <3>1, <3>5, <3>6
  <2> QED
    BY <2>2, <2>3
<1>18. ClientInv'
  <2> SUFFICES ASSUME NEW p \in Held
               PROVE  /\ p \in Used /\ order'[p] = grant[p]
                      /\ InFreeMemory(p, grant[p])
    BY <1>10, <1>12 DEF ClientInv, InFreeMemory, BootFirstFree
  <2>1. p # blk /\ p # up /\ p \in Ppn
    BY <1>1, <1>3, <1>6 DEF ClientInv, Used
  <2> QED
    BY <1>1, <1>11, <2>1 DEF ClientInv
<1>19. CallInv'
  <2>1. InFreeMemory(blk, cur)'
    BY <1>10, <1>15 DEF InFreeMemory, BootFirstFree
  <2>2. /\ blk' \in Used' \ Held' /\ order'[blk'] = cur'
        /\ req' <= cur' /\ cur' < MaxOrder
    <3>1. order'[blk] = o
      BY <1>3, <1>11
    <3>2. blk' = blk /\ cur' = o /\ req' = req
      BY <1>10
    <3> QED
      BY <1>2, <1>3, <1>12, <3>1, <3>2, MaxOrderAssumption
  <2> QED
    BY <1>10, <1>1, <2>1, <2>2 DEF CallInv
<1> QED
  BY <1>13, <1>14, <1>16, <1>17, <1>18, <1>19 DEF AllocInv

\* The block in the hands of the allocator becomes the client's.
LEMMA AllocReturnsInv == AllocInv /\ AllocReturns => AllocInv'
<1> SUFFICES ASSUME AllocInv, AllocReturns PROVE AllocInv'
  OBVIOUS
<1>1. /\ TypeOK /\ BootInv /\ BlocksInv /\ ListsInv /\ ClientInv /\ CallInv
      /\ NeverFaults /\ pc = "split" /\ cur = req
  BY DEF AllocInv, AllocReturns
<1>2. /\ blk \in Used /\ blk \in Ppn /\ order[blk] = req /\ InFreeMemory(blk, req)
      /\ req \in Orders
  BY <1>1, MaxOrderAssumption DEF CallInv, Used, TypeOK
<1>3. /\ pc' = "idle" /\ grant' = [grant EXCEPT ![blk] = req]
      /\ refs' = [refs EXCEPT ![blk] = 1]
      /\ UNCHANGED <<head, order, count, slab, prev, next, freeList, usedList,
                     req, cur, blk, range, cursor, cause>>
  BY DEF AllocReturns, links, lists, bootvars
<1>4. TypeOK'
  BY <1>1, <1>2, <1>3 DEF TypeOK
<1>5. BootInv' /\ BlocksInv' /\ ListsInv' /\ NeverFaults' /\ CallInv'
  <2>1. Used' = Used /\ \A o \in Orders : FreeHeads(o)' = FreeHeads(o)
    BY <1>3 DEF Used, FreeHeads
  <2>2. ListsInv'
    BY <1>1, <1>3, <2>1 DEF ListsInv, LinksInside
  <2>3. BootInv' /\ BlocksInv' /\ NeverFaults' /\ CallInv'
    BY <1>1, <1>3 DEF BootInv, BlocksInv, NeverFaults, CallInv, InFreeMemory, BootFirstFree
  <2> QED
    BY <2>2, <2>3
<1>6. ClientInv'
  <2> SUFFICES ASSUME NEW p \in Held'
               PROVE  p \in Used /\ order[p] = grant'[p] /\ InFreeMemory(p, grant'[p])
    BY <1>3 DEF ClientInv, Used, InFreeMemory, BootFirstFree
  <2>1. CASE p = blk
    BY <1>1, <1>2, <1>3, <2>1 DEF TypeOK
  <2>2. CASE p # blk
    <3>1. p \in Held /\ grant'[p] = grant[p]
      BY <1>1, <1>2, <1>3, <2>2 DEF Held, TypeOK
    <3> QED
      BY <1>1, <3>1 DEF ClientInv
  <2> QED
    BY <2>1, <2>2
<1> QED
  BY <1>1, <1>4, <1>5, <1>6 DEF AllocInv

\* ppages_set_slab marks pages and moves no block.
LEMMA SetSlabInv ==
    ASSUME AllocInv, NEW p, NEW n, PpagesSetSlab(p, n)
    PROVE  AllocInv'
<1>1. slab' \in [Ppn -> BOOLEAN]
  <2>1. slab' = [q \in Ppn |-> q \in p .. (p + n - 1) \/ slab[q]]
    BY DEF PpagesSetSlab
  <2> QED
    BY <2>1
<1>2. UNCHANGED <<head, order, count, prev, next, freeList, usedList, pc, req,
                  cur, blk, range, cursor, cause, grant, refs>>
  BY DEF PpagesSetSlab, links, lists, bootvars, clients
<1>3. TypeOK'
  BY <1>1, <1>2 DEF AllocInv, TypeOK
<1>4. BlocksInv' /\ ClientInv'
  BY <1>2 DEF AllocInv, BlocksInv, ClientInv, Used, Held, InFreeMemory, BootFirstFree
<1>5. ListsInv'
  <2>1. Used' = Used /\ \A o \in Orders : FreeHeads(o)' = FreeHeads(o)
    BY <1>2 DEF Used, FreeHeads
  <2> QED
    BY <1>2, <2>1 DEF AllocInv, ListsInv, LinksInside
<1>6. BootInv' /\ CallInv' /\ NeverFaults'
  BY <1>2 DEF AllocInv, BootInv, CallInv, NeverFaults, Used, Held, InFreeMemory,
     BootFirstFree, RangeLast
<1> QED
  BY <1>3, <1>4, <1>5, <1>6 DEF AllocInv

\* A block that boot sets up starts at the cursor, past every block there is,
\* and ends inside its range.
LEMMA BootBlockInv == AllocInv /\ BootBlock => AllocInv'
<1> SUFFICES ASSUME AllocInv, BootBlock PROVE AllocInv'
  OBVIOUS
<1> DEFINE free == range \in RangeFree
<1>1. PICK o \in Orders :
        LET inside == Block(cursor, o) \ {cursor}
            r == PushTail(Ring(IF free THEN freeList[o] ELSE usedList[o],
                               prev, next), cursor)
        IN /\ Fits(cursor, o, RangeLast[range])
           /\ IF r.fault THEN Halt("fault") ELSE
              /\ head' = [p \in Ppn |-> IF p \in inside THEN FALSE
                                        ELSE p = cursor \/ head[p]]
              /\ order' = [p \in Ppn |-> IF p \in Block(cursor, o)
                                         THEN o ELSE order[p]]
              /\ count' = [p \in Ppn |-> IF p \in Block(cursor, o)
                                         THEN IF free THEN 0 ELSE 1
                                         ELSE count[p]]
              /\ slab' = [p \in Ppn |-> p \notin Block(cursor, o) /\ slab[p]]
              /\ prev' = [p \in Ppn |-> IF p \in inside THEN NULL
                                        ELSE r.prev[p]]
              /\ next' = [p \in Ppn |-> IF p \in inside THEN NULL
                                        ELSE r.next[p]]
              /\ freeList' = IF free THEN [freeList EXCEPT ![o] = r.list]
                                     ELSE freeList
              /\ usedList' = IF free THEN usedList
                                     ELSE [usedList EXCEPT ![o] = r.list]
              /\ cursor' = cursor + 2^o
              /\ UNCHANGED <<pc, req, cur, blk, range, cause, clients>>
  BY DEF BootBlock
<1> DEFINE inside == Block(cursor, o) \ {cursor}
           list == IF free THEN freeList[o] ELSE usedList[o]
           r == PushTail(Ring(list, prev, next), cursor)
           S == IF free THEN FreeHeads(o) ELSE Used
<1>2. /\ TypeOK /\ BootInv /\ BlocksInv /\ ListsInv /\ ClientInv /\ CallInv
      /\ NeverFaults /\ pc = "boot" /\ cursor <= RangeLast[range]
  BY DEF AllocInv, BootBlock
<1>3. /\ range \in 1..5 /\ cursor \in Ppn /\ o \in 0..MaxOrder
      /\ 2^o \in Nat /\ 2^o > 0 /\ BootFirstFree - 1 <= LastPpn
      /\ RangeLast[range] \in Int /\ RangeLast[range] <= LastPpn
      /\ cursor + 2^o - 1 <= RangeLast[range]
  <2>1. range \in 1..5 /\ cursor \in Nat /\ BootFirstFree - 1 <= LastPpn
    BY <1>2, LayoutFacts DEF TypeOK, BootInv
  <2>2. RangeLast[range] \in Int /\ RangeLast[range] <= LastPpn
    BY <2>1, RangeOrder
  <2>3. o \in 0..MaxOrder /\ cursor \in Ppn
    BY <1>2, <2>1, <2>2, MaxOrderAssumption, LayoutFacts
  <2>4. cursor + 2^o - 1 <= RangeLast[range]
    BY <1>1 DEF Fits
  <2> QED
    BY <2>1, <2>2, <2>3, <2>4, Sizes
<1>4. \A p \in Ppn : head[p] => p < cursor /\ p \notin Block(cursor, o)
  <2> SUFFICES ASSUME NEW p \in Ppn, head[p]
               PROVE  p < cursor /\ p \notin Block(cursor, o)
    OBVIOUS
  <2>1. order[p] \in Orders /\ p + 2^order[p] <= cursor
    BY <1>2 DEF TypeOK, BlocksInv
  <2>2. order[p] \in 0..MaxOrder
    BY <2>1, MaxOrderAssumption
  <2>3. 2^order[p] \in Nat /\ 2^order[p] > 0
    BY <2>2, Sizes
  <2> QED
    BY <1>3, <2>1, <2>3 DEF Block
<1>5. cursor \in Block(cursor, o) /\ ~head[cursor]
  BY <1>3, <1>4 DEF Block
<1>6. IsLinks(prev, next, Ppn) /\ Used \in SUBSET Ppn /\ FreeHeads(o) \in SUBSET Ppn
  BY <1>2, ListsApart DEF TypeOK, IsLinks
<1>7. /\ S \in SUBSET Ppn /\ cursor \notin S /\ list \in S \cup {NULL}
      /\ S \cap Block(cursor, o) = {}
      /\ free => IsRing(list, prev, next, S) /\ Linked(prev, next, S)
      /\ ~free => LinksInside(prev, next, S)
  <2>1. cursor \notin S /\ S \cap Block(cursor, o) = {}
    BY <1>4, <1>5, <1>6 DEF FreeHeads, Used
  <2>2. IsRing(freeList[o], prev, next, FreeHeads(o))
    BY <1>2 DEF ListsInv
  <2>3. Linked(prev, next, FreeHeads(o)) /\ freeList[o] \in FreeHeads(o) \cup {NULL}
    BY <2>2 DEF IsRing, Linked
  <2> QED
    BY <1>2, <1>6, <2>1, <2>2, <2>3 DEF ListsInv
<1> HIDE DEF r, list, S
<1>8. /\ Pushed(Ppn, S, prev, next, cursor, r)
      /\ free => IsRing(r.list, r.prev, r.next, S \cup {cursor})
      /\ ~free => LinksInside(r.prev, r.next, S \cup {cursor})
  <2>1. CASE free
    <3>1. PushedOnRing(Ppn, S, prev, next, cursor, r)
      BY <1>3, <1>6, <1>7, <2>1, NullNotPpn, PushTailLinked DEF r
    <3>2. IsRing(r.list, r.prev, r.next, S \cup {cursor})
      BY <1>3, <1>6, <1>7, <2>1, NullNotPpn, PushTailRing DEF r
    <3> QED
      BY <2>1, <3>1, <3>2 DEF PushedOnRing
  <2>2. CASE ~free
    <3>1. PushedInside(Ppn, S, prev, next, cursor, r)
      BY <1>3, <1>6, <1>7, <2>2, NullNotPpn, PushTailInside DEF r
    <3> QED
      BY <2>2, <3>1 DEF PushedInside
  <2> QED
    BY <2>1, <2>2
<1>9. /\ ~r.fault /\ r.list \in S \cup {cursor} /\ IsLinks(r.prev, r.next, Ppn)
      /\ \A e \in Ppn \ (S \cup {cursor}) :
            r.prev[e] = prev[e] /\ r.next[e] = next[e]
  BY <1>8 DEF Pushed
<1>10. /\ head' = [p \in Ppn |-> IF p \in inside THEN FALSE ELSE p = cursor \/ head[p]]
       /\ order' = [p \in Ppn |-> IF p \in Block(cursor, o) THEN o ELSE order[p]]
       /\ count' = [p \in Ppn |-> IF p \in Block(cursor, o)
                                  THEN IF free THEN 0 ELSE 1 ELSE count[p]]
       /\ slab' = [p \in Ppn |-> p \notin Block(cursor, o) /\ slab[p]]
       /\ prev' = [p \in Ppn |-> IF p \in inside THEN NULL ELSE r.prev[p]]
       /\ next' = [p \in Ppn |-> IF p \in inside THEN NULL ELSE r.next[p]]
       /\ freeList' = IF free THEN [freeList EXCEPT ![o] = r.list] ELSE freeList
       /\ usedList' = IF free THEN usedList ELSE [usedList EXCEPT ![o] = r.list]
       /\ cursor' = cursor + 2^o
       /\ UNCHANGED <<pc, req, cur, blk, range, cause, grant, refs>>
  BY <1>1, <1>9 DEF r, list, clients
<1>11. \A p \in Ppn :
         /\ head'[p] <=> (p = cursor \/ head[p])
         /\ head[p] => order'[p] = order[p] /\ count'[p] = count[p]
         /\ order'[cursor] = o /\ count'[cursor] = (IF free THEN 0 ELSE 1)
         /\ (head[p] \/ p = cursor) => prev'[p] = r.prev[p] /\ next'[p] = r.next[p]
  BY <1>3, <1>4, <1>5, <1>10
<1>12. /\ free => Used' = Used /\ FreeHeads(o)' = FreeHeads(o) \cup {cursor}
       /\ ~free => Used' = Used \cup {cursor} /\ FreeHeads(o)' = FreeHeads(o)
       /\ \A b \in Orders : b # o => FreeHeads(b)' = FreeHeads(b)
       /\ Held' = Held
  <2>1. Held' = Held
    BY <1>10 DEF Held
  <2>2. /\ free => Used' = Used
        /\ ~free => Used' = Used \cup {cursor}
    BY <1>3, <1>5, <1>11 DEF Used
  <2>3. /\ free => FreeHeads(o)' = FreeHeads(o) \cup {cursor}
        /\ ~free => FreeHeads(o)' = FreeHeads(o)
    BY <1>3, <1>5, <1>11 DEF FreeHeads
  <2>4. ASSUME NEW b \in Orders, b # o PROVE FreeHeads(b)' = FreeHeads(b)
    BY <1>3, <1>5, <1>11, <2>4 DEF FreeHeads
  <2> QED
    BY <2>1, <2>2, <2>3, <2>4
<1>13. TypeOK'
  <2>1. /\ prev' \in [Ppn -> Ppn \cup {NULL}] /\ next' \in [Ppn -> Ppn \cup {NULL}]
        /\ r.list \in Ppn \cup {NULL}
    BY <1>3, <1>7, <1>9, <1>10 DEF IsLinks
  <2>2. /\ freeList' \in [Orders -> Ppn \cup {NULL}]
        /\ usedList' \in [Orders -> Ppn \cup {NULL}]
    BY <1>2, <1>10, <2>1 DEF TypeOK
  <2>3. /\ order' \in [Ppn -> Orders] /\ count' \in [Ppn -> Nat]
    BY <1>2, <1>10 DEF TypeOK
  <2>4. /\ head' \in [Ppn -> BOOLEAN] /\ slab' \in [Ppn -> BOOLEAN]
    BY <1>10
  <2>5. cursor' \in 0..(LastPpn + 1)
    BY <1>3, <1>10, LayoutFacts
  <2> QED
    BY <1>2, <1>10, <2>2, <2>1, <2>3, <2>4, <2>5 DEF TypeOK
<1>14. BootInv' /\ NeverFaults'
  <2>1. range > 1 => RangeLast[range - 1] \in Int
    <3> SUFFICES ASSUME range > 1 PROVE RangeLast[range - 1] \in Int
      OBVIOUS
    <3>1. range - 1 \in 1..5
      BY <1>3
    <3> QED
      BY <1>3, <3>1, RangeOrder
  <2>2. cursor' <= RangeLast[range] + 1
    BY <1>3, <1>10, LayoutFacts
  <2>3. range > 1 => cursor' > RangeLast[range - 1]
    BY <1>2, <1>3, <1>10, <2>1, LayoutFacts DEF BootInv
  <2> QED
    BY <1>2, <1>10, <2>2, <2>3 DEF BootInv, NeverFaults, BootFirstFree, RangeLast
<1>15. BlocksInv'
  <2>1. ASSUME NEW p \in Ppn, NEW q \in Ppn, head'[p], head'[q], p < q
        PROVE  p + 2^(order'[p]) <= q
    <3>1. CASE q = cursor
      BY <1>2, <1>11, <2>1, <3>1 DEF BlocksInv
    <3>2. CASE q # cursor
      <4>1. head[q] /\ head[p] /\ order'[p] = order[p]
        BY <1>3, <1>4, <1>11, <2>1, <3>2
      <4> QED
        BY <1>2, <2>1, <4>1 DEF BlocksInv
    <3> QED
      BY <3>1, <3>2
  <2>2. ASSUME NEW p \in Ppn, head'[p] PROVE p + 2^(order'[p]) <= cursor'
    <3>1. CASE p = cursor
      BY <1>3, <1>10, <1>11, <3>1
    <3>2. CASE p # cursor
      <4>1. head[p] /\ order'[p] = order[p] /\ order[p] \in Orders
        BY <1>2, <1>11, <2>2, <3>2 DEF TypeOK
      <4>2. order[p] \in 0..MaxOrder
        BY <4>1, MaxOrderAssumption
      <4>3. p + 2^order[p] <= cursor /\ 2^order[p] \in Nat
        BY <1>2, <4>1, <4>2, Sizes DEF BlocksInv
      <4> QED
        BY <1>3, <1>10, <4>1, <4>3, LayoutFacts
    <3> QED
      BY <3>1, <3>2
  <2>3. ASSUME NEW p \in Ppn, head'[p], count'[p] = 0
        PROVE  InFreeMemory(p, order'[p])
    <3>1. CASE p = cursor
      <4>1. free
        BY <1>11, <2>3, <3>1
      <4>2. CASE range = 2
        <5>1. cursor > MBPages - 1 /\ cursor + 2^o - 1 <= BootStart - 1
          BY <1>2, <1>3, <4>2, RangeOrder DEF BootInv
        <5> QED
          BY <1>3, <1>11, <3>1, <5>1, LayoutFacts DEF InFreeMemory
      <4>3. CASE range = 5
        <5>1. cursor > BootFirstFree - 1 /\ cursor + 2^o - 1 <= LastPpn
          <6>1. cursor > RangeLast[4]
            BY <1>2, <1>3, <4>3 DEF BootInv
          <6>2. RangeLast[4] = BootFirstFree - 1
            BY <1>3, RangeOrder
          <6> QED
            BY <1>3, <6>1, <6>2, LayoutFacts
        <5> QED
          BY <1>3, <1>11, <3>1, <5>1, LayoutFacts DEF InFreeMemory
      <4> QED
        BY <4>1, <4>2, <4>3 DEF RangeFree
    <3>2. CASE p # cursor
      BY <1>2, <1>11, <2>3, <3>2 DEF BlocksInv
    <3> QED
      BY <3>1, <3>2
  <2> QED
    BY <2>1, <2>2, <2>3 DEF BlocksInv, InFreeMemory, BootFirstFree
<1>16. ListsInv'
  <2>1. LinksInside(prev', next', Used')
    <3>1. CASE free
      <4>1. \A e \in Used : prev'[e] = prev[e] /\ next'[e] = next[e]
        <5>1. S \cap Used = {} /\ cursor \notin Used
          BY <1>2, <1>5, <3>1, ListsApart DEF S, Used
        <5>2. \A e \in Used : head[e] /\ e \in Ppn
          BY DEF Used
        <5> QED
          BY <1>9, <1>11, <5>1, <5>2
      <4>2. LinksInside(prev, next, Used)
        BY <1>2 DEF ListsInv
      <4> QED
        BY <1>12, <3>1, <4>1, <4>2 DEF LinksInside
    <3>2. CASE ~free
      <4>1. \A e \in S \cup {cursor} : prev'[e] = r.prev[e] /\ next'[e] = r.next[e]
        BY <1>3, <1>11, <3>2 DEF S, Used
      <4>2. S = Used
        BY <3>2 DEF S
      <4> QED
        BY <1>8, <1>12, <3>2, <4>1, <4>2 DEF LinksInside
    <3> QED
      BY <3>1, <3>2
  <2> SUFFICES ASSUME NEW b \in Orders
               PROVE  /\ IsRing(freeList'[b], prev', next', FreeHeads(b)')
                      /\ usedList'[b] \in Used' \cup {NULL}
    BY <2>1 DEF ListsInv
  <2>2. usedList'[b] \in Used' \cup {NULL}
    <3>1. usedList[b] \in Used \cup {NULL} /\ usedList \in [Orders -> Ppn \cup {NULL}]
      BY <1>2 DEF ListsInv, TypeOK
    <3>2. ~free => r.list \in Used \cup {cursor}
      BY <1>9 DEF S
    <3> QED
      BY <1>10, <1>12, <3>1, <3>2
  <2>3. CASE free /\ b = o
    <3>1. S = FreeHeads(o) /\ FreeHeads(b)' = S \cup {cursor}
      BY <1>12, <2>3 DEF S
    <3>2. \A e \in S \cup {cursor} : prev'[e] = r.prev[e] /\ next'[e] = r.next[e]
      BY <1>3, <1>11, <3>1 DEF FreeHeads
    <3>3. IsRing(r.list, prev', next', S \cup {cursor})
      BY <1>8, <2>3, <3>2, RingKept
    <3>4. freeList'[b] = r.list
      BY <1>2, <1>10, <2>3 DEF TypeOK
    <3> QED
      BY <1>9, <2>2, <3>1, <3>3, <3>4
  <2>4. CASE ~(free /\ b = o)
    <3>1. /\ FreeHeads(b)' = FreeHeads(b) /\ freeList'[b] = freeList[b]
          /\ IsRing(freeList[b], prev, next, FreeHeads(b))
      BY <1>2, <1>10, <1>12, <2>4 DEF ListsInv, TypeOK
    <3>2. FreeHeads(b) \cap (S \cup {cursor}) = {}
      BY <1>2, <1>5, <2>4, ListsApart DEF S, FreeHeads
    <3>3. \A e \in FreeHeads(b) : head[e] /\ e \in Ppn
      BY DEF FreeHeads
    <3>4. \A e \in FreeHeads(b) : prev'[e] = prev[e] /\ next'[e] = next[e]
      BY <1>9, <1>11, <3>2, <3>3
    <3>5. IsRing(freeList[b], prev', next', FreeHeads(b))
      BY <3>1, <3>4, RingKept
    <3> QED
      BY <2>2, <3>1, <3>5
  <2> QED
    BY <2>3, <2>4
<1>17. ClientInv'
  <2> SUFFICES ASSUME NEW p \in Held
               PROVE  /\ p \in Used' /\ order'[p] = grant[p]
                      /\ InFreeMemory(p, grant[p])
    BY <1>10, <1>12 DEF ClientInv, InFreeMemory, BootFirstFree
  <2>1. p \in Used /\ order[p] = grant[p] /\ InFreeMemory(p, grant[p])
    BY <1>2 DEF ClientInv
  <2>2. p \in Ppn /\ head[p]
    BY <2>1 DEF Used
  <2> QED
    BY <1>11, <1>12, <2>1, <2>2
<1>18. CallInv'
  BY <1>2, <1>10 DEF CallInv
<1> QED
  BY <1>13, <1>14, <1>15, <1>16, <1>17, <1>18 DEF AllocInv

\* Every step keeps the invariant: one case for each disjunct of NextAlloc.
LEMMA StepInv == AllocInv /\ [NextAlloc]_vars => AllocInv'
<1> SUFFICES ASSUME AllocInv, [NextAlloc]_vars PROVE AllocInv'
  OBVIOUS
<1>1. CASE Boot
  BY <1>1, BootPagesAllocInv, BootBlockInv, BootNextRangeInv DEF Boot
<1>2. CASE AllocStep
  <2>1. CASE AllocFails
    BY <2>1, HaltInv DEF AllocFails, Causes
  <2> QED
    BY <1>2, <2>1, SearchBiggerInv, TakeHeadInv, SplitInv, AllocReturnsInv
       DEF AllocStep
<1>3. CASE Allocate
  <2>1. CASE \E o \in Orders : BlockAlloc(o)
    BY <2>1, CallStartInv, MaxOrderAssumption DEF BlockAlloc
  <2>2. CASE \E n \in 0..2^MaxOrder : PpagesAlloc(n)
    BY <2>2, PpagesAllocInv
  <2> QED
    BY <1>3, <2>1, <2>2 DEF Allocate
<1>4. CASE UseBlock
  BY <1>4, SetSlabInv DEF UseBlock
<1>5. CASE UNCHANGED vars
  <2>1. UNCHANGED heap /\ UNCHANGED cursor
    BY <1>5 DEF vars, heap, links, lists, bootvars, clients
  <2>2. BlocksInv' /\ ListsInv' /\ ClientInv'
    BY <2>1, HeapUnchanged DEF AllocInv
  <2>3. TypeOK' /\ BootInv' /\ CallInv' /\ NeverFaults'
    BY <1>5, <2>1 DEF AllocInv, vars, heap, links, lists, bootvars, clients, TypeOK,
       BootInv, CallInv, NeverFaults, Used, Held, InFreeMemory, BootFirstFree, RangeLast
  <2> QED
    BY <2>2, <2>3 DEF AllocInv
<1> QED
  BY <1>1, <1>2, <1>3, <1>4, <1>5 DEF NextAlloc, Halted
----------------------------------------------------------------------------
(***************************************************************************)
(* What more is known of the pages: PagesInv, relative to AllocInv of both *)
(* states, so that no step of it ends in a fault.                          *)
(***************************************************************************)
LEMMA InitPages == Init => PagesInv
<1> SUFFICES ASSUME Init PROVE PagesInv
  OBVIOUS
<1> USE LayoutFacts DEF Init
<1>1. CoverInv
  BY DEF CoverInv
<1>2. OwnedInv /\ SearchInv
  BY DEF OwnedInv, SearchInv, Used
<1>3. DescriptorsAgree /\ FailsOnlyWhenExhausted
  BY DEF DescriptorsAgree, FailsOnlyWhenExhausted, Held
<1> QED
  BY <1>1, <1>2, <1>3, InitInv DEF PagesInv

\* A step that leaves the blocks and the clients alone.
LEMMA PagesUnchanged ==
    ASSUME PagesInv, AllocInv', UNCHANGED heap, UNCHANGED <<cursor, cause>>,
           pc' = pc \/ (pc # "split" /\ pc' # "split"),
           pc' \in {"idle", "search", "split"} =>
              pc \in {"idle", "search", "split"} \/ cursor > LastPpn,
           blk' = blk \/ pc' # "split",
           pc' = "search" => \A o \in Orders : req' <= o /\ o < cur' => freeList[o] = NULL,
           cause # "none" => pc' = "halted" /\ req' = req
    PROVE  PagesInv'
<1> USE DEF heap, PagesInv
<1>1. CoverInv'
  BY DEF CoverInv, Block
<1>2. OwnedInv'
  BY DEF OwnedInv, Used, Held, Block, InFreeMemory, BootFirstFree
<1>3. SearchInv'
  BY DEF SearchInv
<1>4. DescriptorsAgree'
  BY DEF DescriptorsAgree, Held, Block
<1>5. FailsOnlyWhenExhausted'
  BY DEF FailsOnlyWhenExhausted, SearchInv
<1> QED
  BY <1>1, <1>2, <1>3, <1>4, <1>5

\* The kernel stops between calls, or in a search without a result.
LEMMA HaltPages ==
    ASSUME PagesInv, AllocInv', NEW why, why \notin {"none", "nomem"}, Halt(why),
           pc \in {"start", "idle"}
    PROVE  PagesInv'
<1>1. /\ UNCHANGED <<head, order, count, slab, prev, next, freeList, usedList, req, cur,
                     blk, range, cursor, grant, refs>>
      /\ pc' = "halted" /\ cause' = why
  BY DEF Halt, links, lists, bootvars, clients
<1> USE <1>1 DEF PagesInv
<1>2. CoverInv'
  BY DEF CoverInv, Block
<1>3. OwnedInv'
  BY DEF OwnedInv, Used, Held, Block, InFreeMemory, BootFirstFree
<1>4. SearchInv' /\ FailsOnlyWhenExhausted'
  BY DEF SearchInv, FailsOnlyWhenExhausted
<1>5. DescriptorsAgree'
  BY DEF DescriptorsAgree, Held, Block
<1> QED
  BY <1>2, <1>3, <1>4, <1>5

\* The search ends without a result when it has seen every list from the order
\* asked for, and all of them are empty.
LEMMA AllocFailsPages ==
    ASSUME PagesInv, AllocInv', AllocFails
    PROVE  PagesInv'
<1>1. /\ UNCHANGED <<head, order, count, slab, prev, next, freeList, usedList, req, cur,
                     blk, range, cursor, grant, refs>>
      /\ pc = "search" /\ cur = MaxOrder /\ pc' = "halted" /\ cause' = "nomem"
  BY DEF AllocFails, Halt, links, lists, bootvars, clients
<1> USE <1>1 DEF PagesInv
<1>2. CoverInv'
  BY DEF CoverInv, Block
<1>3. OwnedInv'
  BY DEF OwnedInv, Used, Held, Block, InFreeMemory, BootFirstFree
<1>4. DescriptorsAgree'
  BY DEF DescriptorsAgree, Held, Block
<1>5. SearchInv'
  BY DEF SearchInv
<1>6. FailsOnlyWhenExhausted'
  <2> SUFFICES ASSUME NEW p \in Ppn, head[p], count[p] = 0 PROVE order[p] < req
    BY DEF FailsOnlyWhenExhausted
  <2>1. order[p] \in Orders /\ req \in 0..MaxOrder /\ MaxOrder \in Nat
    BY MaxOrderAssumption DEF AllocInv, TypeOK
  <2>2. SUFFICES ASSUME req <= order[p] PROVE FALSE
    BY <2>1
  <2>3. freeList[order[p]] = NULL
    BY <2>1, <2>2 DEF SearchInv
  <2>4. FreeHeads(order[p]) = {}
    BY <2>1, <2>3 DEF AllocInv, ListsInv, IsRing
  <2> QED
    BY <2>4 DEF FreeHeads
<1> QED
  BY <1>2, <1>3, <1>4, <1>5, <1>6

\* The descriptors boot writes are those of its block.
LEMMA BootBlockPages ==
    ASSUME PagesInv, AllocInv', BootBlock
    PROVE  PagesInv'
<1> DEFINE free == range \in RangeFree
<1>1. PICK o \in Orders :
        /\ cursor + 2^o - 1 <= RangeLast[range]
        /\ head' = [p \in Ppn |-> IF p \in Block(cursor, o) \ {cursor} THEN FALSE
                                  ELSE p = cursor \/ head[p]]
        /\ order' = [p \in Ppn |-> IF p \in Block(cursor, o) THEN o ELSE order[p]]
        /\ count' = [p \in Ppn |-> IF p \in Block(cursor, o)
                                   THEN IF free THEN 0 ELSE 1 ELSE count[p]]
        /\ slab' = [p \in Ppn |-> p \notin Block(cursor, o) /\ slab[p]]
        /\ cursor' = cursor + 2^o
        /\ UNCHANGED <<pc, req, cur, blk, range, cause, grant, refs>>
  <2>1. cause' # "fault"
    BY DEF AllocInv, NeverFaults
  <2> QED
    BY <2>1, Zenon DEF BootBlock, Halt, Fits, clients
<1>2. /\ AllocInv /\ TypeOK /\ BootInv /\ BlocksInv /\ ClientInv
      /\ pc = "boot" /\ cursor <= RangeLast[range] /\ pc' = "boot"
  BY <1>1 DEF PagesInv, AllocInv, BootBlock
<1>3. /\ range \in 1..5 /\ cursor \in Ppn /\ o \in 0..MaxOrder
      /\ 2^o \in Nat /\ 2^o > 0 /\ BootFirstFree - 1 <= LastPpn
      /\ RangeLast[range] \in Int /\ RangeLast[range] <= LastPpn
  <2>1. range \in 1..5 /\ cursor \in Nat /\ BootFirstFree - 1 <= LastPpn
    BY <1>2, LayoutFacts DEF TypeOK, BootInv
  <2>2. RangeLast[range] \in Int /\ RangeLast[range] <= LastPpn
    BY <2>1, RangeOrder
  <2>3. o \in 0..MaxOrder /\ cursor \in Ppn
    BY <1>2, <2>1, <2>2, MaxOrderAssumption, LayoutFacts
  <2> QED
    BY <2>1, <2>2, <2>3, Sizes
<1>4. \A p \in Ppn : head[p] => p < cursor /\ p \notin Block(cursor, o)
  <2> SUFFICES ASSUME NEW p \in Ppn, head[p]
               PROVE  p < cursor /\ p \notin Block(cursor, o)
    OBVIOUS
  <2>1. order[p] \in 0..MaxOrder /\ p + 2^order[p] <= cursor
    <3>1. order[p] \in Orders
      BY <1>2 DEF TypeOK
    <3> QED
      BY <1>2, <3>1, MaxOrderAssumption DEF BlocksInv
  <2>2. 2^order[p] \in Nat /\ 2^order[p] > 0
    BY <2>1, Sizes
  <2> QED
    BY <1>3, <2>1, <2>2 DEF Block
<1>5. \A p \in Ppn : head[p] => /\ head'[p] /\ order'[p] = order[p]
                               /\ count'[p] = count[p] /\ p # cursor
  <2>1. \A p \in Ppn : head[p] => p # cursor
    BY <1>3, <1>4
  <2> QED
    BY <1>1, <1>4, <2>1, Zenon
<1>6. head'[cursor] /\ order'[cursor] = o /\ count'[cursor] = (IF free THEN 0 ELSE 1)
  <2>1. cursor \in Block(cursor, o)
    BY <1>3 DEF Block
  <2> QED
    BY <1>1, <1>3, <2>1, Zenon
<1>7. \A p \in Ppn : head'[p] => p = cursor \/ head[p]
  BY <1>1
<1>8. CoverInv'
  <2> SUFFICES ASSUME NEW q \in Ppn, q < cursor'
               PROVE  \E p \in Ppn : head'[p] /\ q \in Block(p, order'[p])
    BY <1>2 DEF CoverInv, Block
  <2>1. CASE q < cursor
    <3>1. PICK p \in Ppn : head[p] /\ q \in Block(p, order[p])
      BY <2>1 DEF PagesInv, CoverInv
    <3> QED
      BY <1>5, <3>1
  <2>2. CASE ~(q < cursor)
    <3>1. q \in Block(cursor, o)
      BY <1>1, <1>3, <2>2 DEF Block
    <3> QED
      BY <1>3, <1>6, <3>1
  <2> QED
    BY <2>1, <2>2
<1>9. OwnedInv'
  <2> SUFFICES ASSUME NEW p \in Used', p \notin Held,
                      NEW q \in Block(p, order'[p])
               PROVE  ~InFreeMemory(q, 0)
    BY <1>1, <1>2 DEF OwnedInv, Held, Block, InFreeMemory, BootFirstFree
  <2>1. p \in Ppn /\ head'[p] /\ count'[p] > 0
    BY DEF Used
  <2>2. CASE p = cursor
    <3>1. ~free /\ q \in cursor .. (cursor + 2^o - 1)
      BY <1>6, <2>1, <2>2 DEF Block
    <3>2. range \in {1, 3, 4}
      BY <1>3, <3>1 DEF RangeFree
    <3>3. 2^0 = 1
      OBVIOUS
    <3>4. /\ RangeLast[1] = MBPages - 1 /\ RangeLast[2] = BootStart - 1
          /\ RangeLast[3] = KernelEnd - 1 /\ RangeLast[4] = BootFirstFree - 1
      BY DEF RangeLast
    <3>5. range > 1 => cursor > RangeLast[range - 1]
      BY <1>2 DEF BootInv
    <3>6. q \in Int /\ q >= cursor /\ q <= RangeLast[range]
      BY <1>1, <1>3, <3>1
    <3>7. CASE range = 1
      BY <1>3, <3>3, <3>4, <3>6, <3>7, LayoutFacts DEF InFreeMemory
    <3>8. CASE range = 3
      BY <1>3, <3>3, <3>4, <3>5, <3>6, <3>8, LayoutFacts DEF InFreeMemory
    <3>9. CASE range = 4
      BY <1>3, <3>3, <3>4, <3>5, <3>6, <3>9, LayoutFacts DEF InFreeMemory
    <3> QED
      BY <3>2, <3>7, <3>8, <3>9
  <2>3. CASE p # cursor
    <3>1. p \in Used /\ order'[p] = order[p]
      BY <1>5, <1>7, <2>1, <2>3 DEF Used
    <3> QED
      BY <1>2, <3>1 DEF PagesInv, OwnedInv
  <2> QED
    BY <2>2, <2>3
<1>10. DescriptorsAgree'
  <2>1. \A p \in Held : head[p] /\ p \in Ppn
    BY <1>2 DEF ClientInv, Used
  <2> QED
    BY <1>1, <1>5, <2>1 DEF PagesInv, DescriptorsAgree, Held, Block
<1>11. SearchInv' /\ FailsOnlyWhenExhausted'
  BY <1>1, <1>2 DEF PagesInv, SearchInv, FailsOnlyWhenExhausted
<1> QED
  BY <1>8, <1>9, <1>10, <1>11 DEF PagesInv

\* Taking the head of a free list leaves memory cut into blocks, this one in hand.
LEMMA TakeHeadPages ==
    ASSUME PagesInv, AllocInv', TakeHead
    PROVE  PagesInv'
<1> DEFINE el == freeList[cur]
<1>1. /\ count' = [count EXCEPT ![el] = 1] /\ blk' = el
      /\ pc = "search" /\ pc' = "split" /\ cur < MaxOrder /\ el # NULL
      /\ UNCHANGED <<head, order, slab, cursor, cause, grant, refs>>
  <2>1. cause' # "fault"
    BY DEF AllocInv, NeverFaults
  <2> QED
    BY <2>1, Zenon DEF TakeHead, Halt, bootvars, clients
<1>2. /\ TypeOK /\ ListsInv /\ ClientInv /\ cur \in Orders
  <2>1. cur \in 0..MaxOrder /\ MaxOrder \in Nat
    BY MaxOrderAssumption DEF PagesInv, AllocInv, TypeOK
  <2> QED
    BY <1>1, <2>1 DEF PagesInv, AllocInv
<1> HIDE DEF el
<1>3. el \in Ppn /\ head[el] /\ count[el] = 0
  <2>1. el \in FreeHeads(cur)
    BY <1>1, <1>2 DEF ListsInv, IsRing, el
  <2> QED
    BY <2>1 DEF FreeHeads
<1>4. \A p \in Ppn : count'[p] = IF p = el THEN 1 ELSE count[p]
  BY <1>1, <1>2, <1>3 DEF TypeOK
<1>5. CoverInv'
  BY <1>1 DEF PagesInv, CoverInv, Block
<1>6. OwnedInv'
  <2> SUFFICES ASSUME NEW p \in Used', p # el
               PROVE  p \in Held \/ \A q \in Block(p, order[p]) : ~InFreeMemory(q, 0)
    BY <1>1, <1>3, <1>4 DEF OwnedInv, Held, Block, InFreeMemory, BootFirstFree
  <2>1. p \in Used
    BY <1>1, <1>4 DEF Used
  <2> QED
    BY <1>1, <2>1 DEF PagesInv, OwnedInv
<1>7. DescriptorsAgree'
  <2>1. \A p \in Held : p \in Ppn /\ p # el
    BY <1>2, <1>3 DEF ClientInv, Used
  <2> QED
    BY <1>1, <1>4, <2>1 DEF PagesInv, DescriptorsAgree, Held, Block
<1>8. SearchInv' /\ FailsOnlyWhenExhausted'
  BY <1>1 DEF PagesInv, SearchInv, FailsOnlyWhenExhausted
<1> QED
  BY <1>5, <1>6, <1>7, <1>8 DEF PagesInv

\* The two halves cover what the block covered.
LEMMA SplitPages ==
    ASSUME PagesInv, AllocInv', Split
    PROVE  PagesInv'
<1> DEFINE o  == cur - 1
           up == blk + 2^o
<1>1. /\ head' = [head EXCEPT ![up] = TRUE]
      /\ order' = [order EXCEPT ![up] = o, ![blk] = @ - 1]
      /\ count' = [count EXCEPT ![up] = 0]
      /\ UNCHANGED <<slab, pc, blk, cursor, cause, grant, refs>>
      /\ pc = "split" /\ cur > req
  <2>1. cause' # "fault"
    BY DEF AllocInv, NeverFaults
  <2> QED
    BY <2>1, Zenon DEF Split, Halt, bootvars, clients
<1>2. /\ blk \in Used \ Held /\ order[blk] = cur /\ blk \in Ppn /\ head[blk]
      /\ 2^o \in Nat /\ 2^o > 0 /\ 2^cur = 2^o + 2^o /\ o \in Orders /\ cur \in Orders
      /\ up \in Ppn /\ up > blk /\ up + 2^o = blk + 2^cur /\ ~head[up] /\ up # blk
  BY <1>1, UpperHalf DEF PagesInv
<1>3. TypeOK /\ ClientInv
  BY DEF PagesInv, AllocInv
<1>4. cur - 1 = o
  OBVIOUS
<1>5. up = blk + 2^o
  OBVIOUS
<1> HIDE DEF o, up
<1>6. /\ \A p \in Ppn : head'[p] <=> (p = up \/ head[p])
      /\ \A p \in Ppn : order'[p] = IF p = blk \/ p = up THEN o ELSE order[p]
      /\ \A p \in Ppn : count'[p] = IF p = up THEN 0 ELSE count[p]
  BY <1>1, <1>2, <1>3, <1>4 DEF TypeOK
<1>7. CoverInv'
  <2> SUFFICES ASSUME NEW q \in Ppn, q < cursor
               PROVE  \E p \in Ppn : head'[p] /\ q \in Block(p, order'[p])
    BY <1>1 DEF PagesInv, CoverInv, Block
  <2>1. PICK p \in Ppn : head[p] /\ q \in Block(p, order[p])
    BY DEF PagesInv, CoverInv
  <2>2. CASE p = blk
    <3>1. q \in Int /\ q >= blk /\ q <= blk + 2^cur - 1
      BY <1>2, <2>1, <2>2 DEF Block
    <3>2. q \in Block(blk, o) \/ q \in Block(up, o)
      BY <1>2, <1>5, <3>1 DEF Block
    <3> QED
      BY <1>2, <1>6, <3>2
  <2>3. CASE p # blk
    BY <1>2, <1>6, <2>1, <2>3
  <2> QED
    BY <2>2, <2>3
<1>8. OwnedInv'
  <2> SUFFICES ASSUME NEW p \in Used', p # blk
               PROVE  p \in Held \/ \A q \in Block(p, order'[p]) : ~InFreeMemory(q, 0)
    BY <1>1, <1>2, <1>6 DEF PagesInv, OwnedInv, Held, Block, InFreeMemory, BootFirstFree
  <2>1. p \in Used /\ order'[p] = order[p]
    BY <1>6 DEF Used
  <2> QED
    BY <2>1 DEF PagesInv, OwnedInv
<1>9. DescriptorsAgree'
  <2>1. \A p \in Held : p \in Ppn /\ p # blk /\ p # up
    BY <1>2, <1>3 DEF ClientInv, Used
  <2>2. \A p \in Held : count[p] = refs[p] /\ order[p] = grant[p]
    BY DEF PagesInv, DescriptorsAgree
  <2>3. \A p \in Held : count'[p] = refs[p] /\ order'[p] = grant[p]
    BY <1>6, <2>1, <2>2
  <2> QED
    BY <1>1, <2>3 DEF PagesInv, DescriptorsAgree, Held, Block
<1>10. SearchInv' /\ FailsOnlyWhenExhausted'
  BY <1>1 DEF PagesInv, SearchInv, FailsOnlyWhenExhausted
<1> QED
  BY <1>7, <1>8, <1>9, <1>10 DEF PagesInv

\* The client holds the block with the one reference it starts with.
LEMMA AllocReturnsPages ==
    ASSUME PagesInv, AllocInv', AllocReturns
    PROVE  PagesInv'
<1>1. /\ pc = "split" /\ cur = req /\ pc' = "idle"
      /\ grant' = [grant EXCEPT ![blk] = req] /\ refs' = [refs EXCEPT ![blk] = 1]
      /\ UNCHANGED <<head, order, count, slab, cursor, cause>>
  BY DEF AllocReturns, bootvars
<1>2. /\ TypeOK /\ blk \in Used /\ blk \notin Held /\ blk \in Ppn /\ order[blk] = req
      /\ count[blk] = 1
  BY <1>1 DEF PagesInv, AllocInv, CallInv, Used, OwnedInv
<1>3. \A p \in Ppn : /\ refs'[p] = (IF p = blk THEN 1 ELSE refs[p])
                     /\ grant'[p] = (IF p = blk THEN req ELSE grant[p])
  BY <1>1, <1>2 DEF TypeOK
<1>4. Held' = Held \cup {blk} /\ Held \in SUBSET Ppn
  BY <1>2, <1>3 DEF Held
<1>5. CoverInv'
  BY <1>1 DEF PagesInv, CoverInv, Block
<1>6. OwnedInv'
  <2> SUFFICES ASSUME NEW p \in Used, p \notin Held, p # blk
               PROVE  \A q \in Block(p, order[p]) : ~InFreeMemory(q, 0)
    BY <1>1, <1>4 DEF OwnedInv, Used, Block, InFreeMemory, BootFirstFree
  <2> QED
    BY DEF PagesInv, OwnedInv
<1>7. DescriptorsAgree'
  <2>1. \A p \in Held' : count[p] = refs'[p] /\ order[p] = grant'[p]
    BY <1>2, <1>3, <1>4 DEF PagesInv, DescriptorsAgree
  <2>2. ASSUME NEW q \in Ppn, slab[q] PROVE \E p \in Held' : q \in Block(p, grant'[p])
    <3>1. PICK p \in Held : q \in Block(p, grant[p])
      BY <2>2 DEF PagesInv, DescriptorsAgree
    <3>2. p \in Held' /\ grant'[p] = grant[p]
      BY <1>2, <1>3, <1>4, <3>1
    <3> QED
      BY <3>1, <3>2
  <2> QED
    BY <1>1, <2>1, <2>2 DEF DescriptorsAgree, Block
<1>8. SearchInv' /\ FailsOnlyWhenExhausted'
  BY <1>1 DEF PagesInv, SearchInv, FailsOnlyWhenExhausted
<1> QED
  BY <1>5, <1>6, <1>7, <1>8 DEF PagesInv

\* The marks are inside the block of the client that sets them.
LEMMA SetSlabPages ==
    ASSUME PagesInv, AllocInv', NEW p \in Ppn, NEW n \in SlabSizes, PpagesSetSlab(p, n)
    PROVE  PagesInv'
<1>1. /\ pc = "idle" /\ p \in Held /\ n <= 2^grant[p]
      /\ slab' = [q \in Ppn |-> q \in p .. (p + n - 1) \/ slab[q]]
      /\ UNCHANGED <<head, order, count, freeList, pc, req, cur, blk, cursor, cause,
                     grant, refs>>
  BY DEF PpagesSetSlab, lists, bootvars, clients
<1>2. CoverInv'
  BY <1>1 DEF PagesInv, CoverInv, Block
<1>3. OwnedInv'
  BY <1>1 DEF PagesInv, OwnedInv, Used, Held, Block, InFreeMemory, BootFirstFree
<1>4. SearchInv' /\ FailsOnlyWhenExhausted'
  BY <1>1 DEF PagesInv, SearchInv, FailsOnlyWhenExhausted
<1>5. DescriptorsAgree'
  <2>1. 2^grant[p] \in Nat /\ n \in Nat
    <3>1. grant[p] \in Orders
      BY DEF PagesInv, AllocInv, TypeOK
    <3>2. grant[p] \in 0..MaxOrder
      BY <3>1, MaxOrderAssumption
    <3> QED
      BY <3>2, Sizes, LayoutAssumption
  <2>2. p .. (p + n - 1) \subseteq Block(p, grant[p])
    BY <1>1, <2>1, LayoutFacts DEF Block
  <2>3. \A q \in Ppn : slab'[q] => slab[q] \/ q \in Block(p, grant[p])
    BY <1>1, <2>2
  <2>4. ASSUME NEW q \in Ppn, slab'[q] PROVE \E b \in Held : q \in Block(b, grant[b])
    BY <1>1, <2>3, <2>4 DEF PagesInv, DescriptorsAgree
  <2> QED
    BY <1>1, <2>4 DEF PagesInv, DescriptorsAgree, Held, Block
<1> QED
  BY <1>2, <1>3, <1>4, <1>5 DEF PagesInv

\* Every step keeps the stronger invariant: one case for each disjunct of NextAlloc.
LEMMA StepPages == PagesInv /\ [NextAlloc]_vars => PagesInv'
<1> SUFFICES ASSUME PagesInv, [NextAlloc]_vars PROVE PagesInv'
  OBVIOUS
<1>0. AllocInv /\ AllocInv' /\ CoverInv /\ SearchInv
  BY StepInv DEF PagesInv
<1>1. CASE Boot
  <2>1. CASE BootPagesAlloc
    <3>1. CASE BootFirstFree - 1 <= LastPpn
      BY <1>0, <2>1, <3>1, PagesUnchanged
         DEF BootPagesAlloc, heap, links, lists, bootvars, clients, SearchInv
    <3>2. CASE ~(BootFirstFree - 1 <= LastPpn)
      BY <1>0, <2>1, <3>2, HaltPages DEF BootPagesAlloc
    <3> QED
      BY <3>1, <3>2
  <2>2. CASE BootNextRange
    <3>1. /\ UNCHANGED heap /\ UNCHANGED <<cursor, cause, blk, req, cur>> /\ pc = "boot"
          /\ cursor > RangeLast[range] /\ pc' = IF range < 5 THEN "boot" ELSE "idle"
      BY <2>2 DEF BootNextRange, heap, links, lists, clients
    <3>2. pc' = "idle" => cursor > LastPpn
      <4>1. range \in 1..5
        BY <1>0 DEF AllocInv, TypeOK
      <4>2. ~(range < 5) => RangeLast[range] = LastPpn
        BY <4>1 DEF RangeLast
      <4> QED
        BY <3>1, <4>2
    <3>3. cause = "none"
      BY <1>0, <3>1 DEF SearchInv
    <3> QED
      BY <1>0, <3>1, <3>2, <3>3, PagesUnchanged
  <2> QED
    BY <1>0, <1>1, <2>1, <2>2, BootBlockPages DEF Boot
<1>2. CASE AllocStep
  <2>1. CASE SearchBigger
    <3>1. /\ UNCHANGED heap /\ UNCHANGED <<cursor, cause, blk, req, pc>> /\ pc = "search"
          /\ cur' = cur + 1 /\ freeList[cur] = NULL
      BY <2>1 DEF SearchBigger, heap, links, lists, bootvars, clients
    <3>2. \A o \in Orders : req <= o /\ o < cur + 1 => freeList[o] = NULL
      <4>1. cur \in Nat
        BY <1>0, LayoutFacts DEF AllocInv, TypeOK
      <4>2. \A o \in Orders : o < cur + 1 => o < cur \/ o = cur
        BY <4>1
      <4> QED
        BY <1>0, <3>1, <4>2 DEF SearchInv
    <3>3. cause = "none"
      BY <1>0, <3>1 DEF SearchInv
    <3> QED
      BY <1>0, <3>1, <3>2, <3>3, PagesUnchanged
  <2> QED
    BY <1>0, <1>2, <2>1, AllocFailsPages, TakeHeadPages, SplitPages, AllocReturnsPages
       DEF AllocStep
<1>3. CASE Allocate
  <2>1. ASSUME NEW o \in 0..MaxOrder, pc = "idle", Call(o) PROVE PagesInv'
    <3>1. /\ UNCHANGED heap /\ UNCHANGED <<cursor, cause, blk>> /\ pc' = "search"
          /\ req' = o /\ cur' = o
      BY <2>1 DEF Call, heap, links, lists, bootvars, clients
    <3>2. \A b \in Orders : ~(req' <= b /\ b < cur')
      BY <3>1, LayoutFacts
    <3>3. cause = "none"
      BY <1>0, <2>1 DEF SearchInv
    <3> QED
      BY <1>0, <2>1, <3>1, <3>2, <3>3, PagesUnchanged
  <2>2. CASE \E o \in Orders : BlockAlloc(o)
    BY <2>1, <2>2, MaxOrderAssumption DEF BlockAlloc
  <2>3. CASE \E n \in 0..2^MaxOrder : PpagesAlloc(n)
    <3>1. PICK n \in 0..2^MaxOrder : PpagesAlloc(n)
      BY <2>3
    <3>2. CASE n >= 2^MaxOrder
      BY <1>0, <3>1, <3>2, HaltPages DEF PpagesAlloc
    <3>3. CASE ~(n >= 2^MaxOrder)
      BY <2>1, <3>1, <3>3 DEF PpagesAlloc
    <3> QED
      BY <3>2, <3>3
  <2> QED
    BY <1>3, <2>2, <2>3 DEF Allocate
<1>4. CASE UseBlock
  BY <1>0, <1>4, SetSlabPages DEF UseBlock
<1>5. CASE UNCHANGED vars
  BY <1>0, <1>5, PagesUnchanged
     DEF vars, heap, links, lists, bootvars, clients, SearchInv
<1> QED
  BY <1>1, <1>2, <1>3, <1>4, <1>5 DEF NextAlloc, Halted
----------------------------------------------------------------------------
(***************************************************************************)
(* The theorems.                                                           *)
(***************************************************************************)
\* The invariant holds of the allocator whatever its clients allocate.
THEOREM AllocInvariant == SpecAlloc => []AllocInv
<1>1. Init => AllocInv
  BY InitInv
<1>2. AllocInv /\ [NextAlloc]_vars => AllocInv'
  BY StepInv
<1> QED
  BY <1>1, <1>2, PTL DEF SpecAlloc

\* The state of the allocator keeps its shape.
THEOREM TypeCorrect == SpecAlloc => []TypeOK
<1>1. AllocInv => TypeOK
  BY DEF AllocInv
<1> QED
  BY <1>1, AllocInvariant, PTL

\* No page is ever in the hands of two clients, nor in those of a client and
\* of the allocation in progress: of two used blocks one ends before the other
\* begins, and the order of a block is the order its client was given.
THEOREM NoDoubleAllocation == SpecAlloc => []NoOverlap
<1>1. AllocInv => NoOverlap
  <2> SUFFICES ASSUME AllocInv PROVE NoOverlap
    OBVIOUS
  <2>1. \A p \in Held : p \in Ppn /\ head[p] /\ order[p] = grant[p] /\ order[p] \in Orders
    BY DEF AllocInv, ClientInv, Used, TypeOK
  <2>2. \A p, q \in Ppn : head[p] /\ head[q] /\ p # q
                          => Apart(p, order[p], q, order[q])
    BY DEF AllocInv, BlocksInv, Apart
  <2>3. \A p, q \in Held : p # q => Apart(p, grant[p], q, grant[q])
    BY <2>1, <2>2
  <2>4. pc = "split" => \A p \in Held : Apart(p, grant[p], blk, cur)
    <3> SUFFICES ASSUME pc = "split", NEW p \in Held
                 PROVE  Apart(p, grant[p], blk, cur)
      OBVIOUS
    <3>1. blk \in Ppn /\ head[blk] /\ order[blk] = cur /\ p # blk
      BY DEF AllocInv, CallInv, Used
    <3> QED
      BY <2>1, <2>2, <3>1
  <2> QED
    BY <2>3, <2>4 DEF NoOverlap
<1> QED
  BY <1>1, AllocInvariant, PTL

\* The pages of the kernel, and those that do not exist, are never given.
THEOREM KernelMemorySafe == SpecAlloc => []KernelMemoryKept
<1>1. AllocInv => KernelMemoryKept
  BY DEF AllocInv, ClientInv, KernelMemoryKept
<1> QED
  BY <1>1, AllocInvariant, PTL

\* The list operations of an allocation never follow a NULL link, in spite of
\* the used lists that splitting ruins.
THEOREM NoNullLink == SpecAlloc => []NeverFaults
<1>1. AllocInv => NeverFaults
  BY DEF AllocInv
<1> QED
  BY <1>1, AllocInvariant, PTL

\* The same of all that is known of the pages.
THEOREM PagesInvariant == SpecAlloc => []PagesInv
<1>1. Init => PagesInv
  BY InitPages
<1>2. PagesInv /\ [NextAlloc]_vars => PagesInv'
  BY StepPages
<1> QED
  BY <1>1, <1>2, PTL DEF SpecAlloc

\* Every free list is at all times the ring of exactly the free blocks of its
\* order, however boot cut the memory and allocations split it.
THEOREM FreeListsStayRings == SpecAlloc => []FreeListsAreRings
<1>1. AllocInv => FreeListsAreRings
  <2> SUFFICES ASSUME AllocInv PROVE FreeListsAreRings
    OBVIOUS
  <2>1. InFlight = {}
    BY DEF AllocInv, CallInv, InFlight
  <2>2. \A o \in Orders : FreeHeads(o) \ InFlight = FreeHeads(o)
    BY <2>1
  <2> QED
    BY <2>2 DEF AllocInv, ListsInv, FreeListsAreRings
<1> QED
  BY <1>1, AllocInvariant, PTL

\* The assertion at the bottom of the recursion stops the kernel only when no
\* free block of the order asked for, or of a bigger one, is left.
THEOREM NoEarlyExhaustion == SpecAlloc => []FailsOnlyWhenExhausted
<1>1. PagesInv => FailsOnlyWhenExhausted
  BY DEF PagesInv
<1> QED
  BY <1>1, PagesInvariant, PTL

\* What the descriptors say of a block is what its client was given, and a
\* page marked as a slab's is in a client's hands.
THEOREM DescriptorsMatchClients == SpecAlloc => []DescriptorsAgree
<1>1. PagesInv => DescriptorsAgree
  BY DEF PagesInv
<1> QED
  BY <1>1, PagesInvariant, PTL

\* Of two blocks with a page in common each is the other.
LEMMA OneBlockPerPage ==
    ASSUME AllocInv, NEW p \in Ppn, NEW b \in Ppn, head[p], head[b], NEW q \in Int,
           q \in Block(p, order[p]), q \in Block(b, order[b])
    PROVE  p = b
<1>1. order \in [Ppn -> Orders]
  BY DEF AllocInv, TypeOK
<1>2. order[p] \in 0..MaxOrder /\ order[b] \in 0..MaxOrder
  BY <1>1, LayoutFacts
<1>3. 2^order[p] \in Nat /\ 2^order[b] \in Nat
  BY <1>2, Sizes
<1>4. p <= q /\ q < p + 2^order[p] /\ b <= q /\ q < b + 2^order[b]
  BY <1>3, LayoutFacts DEF Block
<1>5. ~(p < b) /\ ~(b < p)
  BY <1>3, <1>4, LayoutFacts DEF AllocInv, BlocksInv
<1> QED
  BY <1>5, LayoutFacts

\* Between calls each page that boot found free is in one block, and that block
\* is free or held whole: the cover gives the block, their separation makes it
\* the only one, and a used block of free memory that is no client's is only
\* there while an allocation is in progress.
THEOREM NoPageIsLost == SpecAlloc => []NoPageLost
<1>1. PagesInv => NoPageLost
  <2> SUFFICES ASSUME PagesInv, pc = "idle", NEW q \in Ppn, InFreeMemory(q, 0),
                      NEW own, own = {p \in Ppn : head[p] /\ q \in Block(p, order[p])}
               PROVE  /\ Cardinality(own) = 1
                      /\ \A p \in own : count[p] = 0
                            \/ (p \in Held /\ grant[p] = order[p])
    BY DEF NoPageLost
  <2>1. q < cursor
    BY LayoutFacts DEF PagesInv, CoverInv, AllocInv, TypeOK
  <2>2. PICK p \in Ppn : head[p] /\ q \in Block(p, order[p])
    BY <2>1 DEF PagesInv, CoverInv
  <2>3. own = {p}
    BY <2>2, OneBlockPerPage DEF PagesInv
  <2>4. Cardinality(own) = 1
    BY <2>3, FS_Singleton
  <2>5. ASSUME count[p] # 0
        PROVE  p \in Held /\ grant[p] = order[p]
    <3>1. p \in Used
      BY <2>2, <2>5 DEF PagesInv, AllocInv, TypeOK, Used
    <3>2. p \in Held
      BY <2>2, <3>1 DEF PagesInv, OwnedInv
    <3> QED
      BY <3>2 DEF PagesInv, DescriptorsAgree
  <2> QED
    BY <2>3, <2>4, <2>5
<1> QED
  BY <1>1, PagesInvariant, PTL

\* Only the return of an allocation changes what the clients hold; any other
\* step goes on, or stops the kernel.
LEMMA OtherSteps ==
    ASSUME [NextAlloc]_vars, ~AllocReturns
    PROVE  /\ UNCHANGED <<grant, refs>>
           /\ pc = "halted" => pc' = "halted"
<1>1. CASE Boot
  BY <1>1 DEF Boot, BootPagesAlloc, BootBlock, BootNextRange, Halt, clients
<1>2. CASE AllocStep
  <2>1. CASE AllocFails \/ SearchBigger
    BY <2>1 DEF AllocFails, SearchBigger, Halt, clients
  <2>2. CASE TakeHead
    BY <2>2 DEF TakeHead, Halt, clients
  <2>3. CASE Split
    BY <2>3 DEF Split, Halt, clients
  <2> QED
    BY <1>2, <2>1, <2>2, <2>3 DEF AllocStep
<1>3. CASE Allocate
  BY <1>3 DEF Allocate, BlockAlloc, PpagesAlloc, Call, Halt, clients
<1>4. CASE UseBlock
  BY <1>4 DEF UseBlock, PpagesSetSlab, clients
<1>5. CASE UNCHANGED vars
  BY <1>5 DEF vars, clients
<1> QED
  BY <1>1, <1>2, <1>3, <1>4, <1>5 DEF NextAlloc, Halted

\* The return of an allocation is a grant of PageGrants.
LEMMA GrantStep ==
    ASSUME AllocInv, AllocReturns
    PROVE  \E p \in Ppn, n \in {2^o : o \in Orders} : Grants!Grant(p, n)
<1>1. /\ pc = "split" /\ pc' = "idle" /\ req = cur
      /\ grant' = [grant EXCEPT ![blk] = req]
      /\ refs' = [refs EXCEPT ![blk] = 1]
  BY DEF AllocReturns
<1>2. /\ blk \in Ppn /\ blk \in Used \ Held /\ order[blk] = req
      /\ InFreeMemory(blk, req) /\ req \in Orders
      /\ grant \in [Ppn -> Orders] /\ refs \in [Ppn -> Nat]
      /\ 2^req \in Nat /\ 2^req > 0
  <2>1. req \in Orders /\ req \in 0..MaxOrder
    BY <1>1, MaxOrderAssumption DEF AllocInv, CallInv, TypeOK
  <2> QED
    BY <1>1, <2>1, Sizes DEF AllocInv, CallInv, TypeOK
<1>3. RunSize' = [RunSize EXCEPT ![blk] = 2^req]
  <2>1. \A p \in Ppn : grant'[p] = (IF p = blk THEN req ELSE grant[p])
    BY <1>1, <1>2
  <2>2. \A p \in Ppn : refs'[p] = (IF p = blk THEN 1 ELSE refs[p])
    BY <1>1, <1>2
  <2>3. \A p \in Ppn : RunSize'[p] = (IF p = blk THEN 2^req ELSE RunSize[p])
    BY <2>1, <2>2 DEF RunSize
  <2> QED
    BY <2>3 DEF RunSize
<1>4. blk .. (blk + 2^req - 1) \subseteq Grantable
  <2>1. BootFirstFree - 1 <= LastPpn
    BY <1>1 DEF AllocInv, BootInv
  <2> QED
    BY <1>2, <2>1, LayoutFacts DEF InFreeMemory, Grantable
<1>5. ASSUME NEW q \in Ppn, RunSize[q] > 0
      PROVE  q + RunSize[q] <= blk \/ blk + 2^req <= q
  <2>1. q \in Held /\ RunSize[q] = 2^grant[q]
    BY <1>2, <1>5 DEF RunSize, Held
  <2>2. head[q] /\ order[q] = grant[q] /\ q # blk
    BY <1>2, <2>1 DEF AllocInv, ClientInv, Used
  <2>3. q + 2^order[q] <= blk \/ blk + 2^order[blk] <= q
    BY <1>2, <2>2 DEF AllocInv, BlocksInv, Used
  <2> QED
    BY <1>2, <2>1, <2>2, <2>3
<1>6. Grants!Grant(blk, 2^req)
  BY <1>1, <1>3, <1>4, <1>5 DEF Grants!Grant, Grants!Runs
<1> QED
  BY <1>2, <1>6

\* The allocator gives its clients what PageGrants promises: the run of pages
\* appears at once, inside free memory and clear of every other run.
THEOREM AllocatorImplementsGrants == SpecAlloc => ImplementsGrants
<1>1. Init => Grants!Init
  <2> SUFFICES ASSUME Init PROVE Grants!Init
    OBVIOUS
  <2>1. RunSize = [p \in Ppn |-> 0]
    BY DEF Init, RunSize
  <2> QED
    BY <2>1 DEF Init, Grants!Init
<1>2. AllocInv /\ [NextAlloc]_vars
        => [Grants!GrantOnly]_<<RunSize, pc = "halted">>
  <2> SUFFICES ASSUME AllocInv, [NextAlloc]_vars
               PROVE  \/ Grants!GrantOnly
                      \/ UNCHANGED <<RunSize, pc = "halted">>
    OBVIOUS
  <2>1. CASE AllocReturns
    BY <2>1, GrantStep DEF Grants!GrantOnly
  <2>2. CASE ~AllocReturns
    <3>1. UNCHANGED RunSize /\ (pc = "halted" => pc' = "halted")
      BY <2>2, OtherSteps DEF RunSize
    <3>2. CASE pc' = "halted"
      BY <3>1, <3>2 DEF Grants!GrantOnly, Grants!Stop
    <3>3. CASE pc' # "halted"
      BY <3>1, <3>3
    <3> QED
      BY <3>2, <3>3
  <2> QED
    BY <2>1, <2>2
<1> QED
  BY <1>1, <1>2, AllocInvariant, PTL DEF SpecAlloc, ImplementsGrants, Grants!GrantSpec

----------------------------------------------------------------------------
(***************************************************************************)
(* Releases, by clients whose allocations split no block (SpecNoSplit).    *)
(***************************************************************************)
\* Where find_buddy looks there is never a free block: it answers page 0 or
\* 2^order, and the script of the linker puts the image at the first megabyte,
\* which is 2^(MAX_PPAGE_BLOCK_ORDER - 2) pages.
BuddiesReserved ==
    /\ 0 < MBPages
    /\ \A o \in Orders : o < MaxOrder - 1 =>
           2^o < MBPages \/ (BootStart <= 2^o /\ 2^o < BootFirstFree)

\* The call in progress, and what may have stopped the kernel.
ReleaseCallInv ==
    /\ pc = "merge" => BootFirstFree - 1 <= LastPpn
    /\ pc \in {"search", "split", "merge"} => cur \in Orders
    /\ pc \in {"search", "split"} => req = cur
    /\ pc = "search" => freeList[cur] # NULL
    /\ pc = "split" => /\ blk \in Used \ Held /\ count[blk] = 1
                       /\ order[blk] = cur /\ InFreeMemory(blk, cur)
    /\ pc = "merge" => head[blk] /\ count[blk] = 0 /\ order[blk] = cur
    /\ cause \in {"none", "bootmem", "slab"}

\* The marks of slabs are inside blocks that are held and marked at their head,
\* which is the page that a release looks at.
MarksInv ==
    /\ \A q \in Ppn : slab[q] => \E p \in Held : slab[p] /\ q \in Block(p, grant[p])
    /\ \A p \in Held : count[p] = refs[p]

NoSplitInv == /\ BuddiesReserved /\ TypeOK /\ BootInv /\ BlocksInv /\ ClientInv
              /\ FreeListsAreRings /\ UsedListsAreRings /\ ReleaseCallInv /\ MarksInv

\* Except while a block is being released, all that is known of allocation.
LEMMA NoSplitAlloc == NoSplitInv /\ pc # "merge" => AllocInv
<1> SUFFICES ASSUME NoSplitInv, pc # "merge" PROVE AllocInv
  OBVIOUS
<1>1. \A o \in Orders : IsRing(freeList[o], prev, next, FreeHeads(o))
  <2>1. InFlight = {}
    BY DEF InFlight
  <2>2. \A o \in Orders : FreeHeads(o) \ InFlight = FreeHeads(o)
    BY <2>1
  <2> QED
    BY <2>2 DEF NoSplitInv, FreeListsAreRings
<1>2. \A o \in Orders : UsedHeads(o) \subseteq Used
  BY DEF UsedHeads, Used
<1>3. \A o \in Orders : usedList[o] \in Used \cup {NULL}
  BY <1>2 DEF NoSplitInv, UsedListsAreRings, IsRing
<1>4. ASSUME NEW e \in Used PROVE prev[e] \in Used /\ next[e] \in Used
  <2>1. order[e] \in Orders /\ e \in UsedHeads(order[e])
    BY DEF NoSplitInv, TypeOK, Used, UsedHeads
  <2>2. IsRing(usedList[order[e]], prev, next, UsedHeads(order[e]))
    BY <2>1 DEF NoSplitInv, UsedListsAreRings
  <2>3. prev[e] \in UsedHeads(order[e]) /\ next[e] \in UsedHeads(order[e])
    BY <2>1, <2>2 DEF IsRing, Linked
  <2> QED
    BY <1>2, <2>1, <2>3
<1>5. ListsInv
  BY <1>1, <1>3, <1>4 DEF ListsInv, LinksInside
<1>6. CallInv
  BY MaxOrderAssumption DEF NoSplitInv, ReleaseCallInv, CallInv
<1> QED
  BY <1>5, <1>6 DEF NoSplitInv, AllocInv, ReleaseCallInv, NeverFaults

\* ... and back, after a step.
LEMMA AllocNoSplit ==
    ASSUME BuddiesReserved, AllocInv', UsedListsAreRings', ReleaseCallInv', MarksInv'
    PROVE  NoSplitInv'
<1>1. InFlight' = {}
  BY DEF AllocInv, CallInv, InFlight
<1>2. \A o \in Orders : FreeHeads(o)' \ InFlight' = FreeHeads(o)'
  BY <1>1
<1>3. FreeListsAreRings'
  BY <1>2 DEF AllocInv, ListsInv, FreeListsAreRings
<1>4. BuddiesReserved'
  BY DEF BuddiesReserved, BootFirstFree
<1> QED
  BY <1>3, <1>4 DEF AllocInv, NoSplitInv

\* At first there is no block.
LEMMA InitNoSplit == BuddiesReserved /\ Init => NoSplitInv
<1> SUFFICES ASSUME BuddiesReserved, Init PROVE NoSplitInv
  OBVIOUS
<1>1. AllocInv
  BY InitInv
<1>2. UsedListsAreRings
  BY DEF Init, UsedListsAreRings, UsedHeads, IsRing
<1>3. ReleaseCallInv
  BY DEF Init, ReleaseCallInv
<1>4. MarksInv
  BY DEF Init, MarksInv, Held
<1>5. FreeListsAreRings
  BY DEF Init, FreeListsAreRings, FreeHeads, IsRing
<1> QED
  BY <1>1, <1>2, <1>3, <1>4, <1>5 DEF AllocInv, NoSplitInv

\* A step that leaves the descriptors alone keeps what is said of used lists and
\* of marks.
LEMMA MarksUnchanged ==
    ASSUME NoSplitInv, UNCHANGED heap
    PROVE  UsedListsAreRings' /\ MarksInv'
<1>1. \A o \in Orders : UsedHeads(o)' = UsedHeads(o)
  BY DEF heap, UsedHeads
<1>2. UsedListsAreRings'
  BY <1>1 DEF NoSplitInv, UsedListsAreRings, heap
<1>3. Held' = Held
  BY DEF heap, Held
<1> QED
  BY <1>2, <1>3 DEF NoSplitInv, MarksInv, heap, Block

\* The kernel stops with all as it was.
LEMMA HaltNoSplit ==
    ASSUME NoSplitInv, NEW why \in {"bootmem", "slab"}, Halt(why), pc # "merge"
    PROVE  NoSplitInv'
<1>1. AllocInv'
  BY NoSplitAlloc, HaltInv DEF Causes
<1>2. UsedListsAreRings' /\ MarksInv'
  BY MarksUnchanged DEF Halt, heap, links, lists, clients
<1>3. ReleaseCallInv'
  BY DEF NoSplitInv, ReleaseCallInv, Halt
<1> QED
  BY <1>1, <1>2, <1>3, AllocNoSplit DEF NoSplitInv

\* Steps of boot, and the start of a call, which change no descriptor.
LEMMA CallNoSplit ==
    ASSUME NoSplitInv, AllocInv', UNCHANGED heap, ReleaseCallInv'
    PROVE  NoSplitInv'
BY MarksUnchanged, AllocNoSplit DEF NoSplitInv

\* Boot places the descriptors and goes on to the next range.
LEMMA BootNoSplit ==
    ASSUME NoSplitInv, BootPagesAlloc \/ BootNextRange
    PROVE  NoSplitInv'
<1>1. CASE BootPagesAlloc
  <2>1. CASE BootFirstFree - 1 <= LastPpn
    <3>1. AllocInv'
      BY <1>1, NoSplitAlloc, BootPagesAllocInv DEF BootPagesAlloc
    <3>2. UNCHANGED heap /\ pc' = "boot" /\ cause' = cause
      BY <1>1, <2>1 DEF BootPagesAlloc, heap, links, lists, clients
    <3>3. ReleaseCallInv'
      BY <3>2 DEF NoSplitInv, ReleaseCallInv
    <3> QED
      BY <3>1, <3>2, <3>3, CallNoSplit
  <2>2. CASE ~(BootFirstFree - 1 <= LastPpn)
    BY <1>1, <2>2, HaltNoSplit DEF BootPagesAlloc
  <2> QED
    BY <2>1, <2>2
<1>2. CASE BootNextRange
  <2>1. AllocInv'
    BY <1>2, NoSplitAlloc, BootNextRangeInv DEF BootNextRange
  <2>2. UNCHANGED heap /\ pc' \in {"boot", "idle"} /\ cause' = cause
    BY <1>2 DEF BootNextRange, heap, links, lists, clients
  <2>3. ReleaseCallInv'
    BY <2>2 DEF NoSplitInv, ReleaseCallInv
  <2> QED
    BY <2>1, <2>2, <2>3, CallNoSplit
<1> QED
  BY <1>1, <1>2

\* A call for an order that has a free block.
LEMMA BlockAllocNoSplit ==
    ASSUME NoSplitInv, NEW o \in Orders, freeList[o] # NULL, BlockAlloc(o)
    PROVE  NoSplitInv'
<1>1. AllocInv'
  BY NoSplitAlloc, CallStartInv, MaxOrderAssumption DEF BlockAlloc
<1>2. UNCHANGED heap /\ pc' = "search" /\ req' = o /\ cur' = o /\ cause' = cause
  BY DEF BlockAlloc, Call, heap, links, lists, clients
<1>3. ReleaseCallInv'
  BY <1>2 DEF NoSplitInv, ReleaseCallInv, heap
<1> QED
  BY <1>1, <1>2, <1>3, CallNoSplit

\* The block taken becomes the client's.
LEMMA AllocReturnsNoSplit ==
    ASSUME NoSplitInv, AllocReturns
    PROVE  NoSplitInv'
<1>1. AllocInv' /\ pc = "split" /\ pc' = "idle"
  BY NoSplitAlloc, AllocReturnsInv DEF AllocReturns
<1>2. /\ blk \in Used /\ blk \notin Held /\ blk \in Ppn /\ count[blk] = 1
      /\ req = cur /\ order[blk] = cur /\ cur \in Orders
  BY <1>1 DEF NoSplitInv, ReleaseCallInv, Used
<1>3. /\ grant' = [grant EXCEPT ![blk] = req] /\ refs' = [refs EXCEPT ![blk] = 1]
      /\ UNCHANGED <<head, order, count, slab, prev, next, usedList, cause>>
  BY DEF AllocReturns, links, lists
<1>4. \A p \in Ppn : /\ refs'[p] = (IF p = blk THEN 1 ELSE refs[p])
                     /\ grant'[p] = (IF p = blk THEN req ELSE grant[p])
  BY <1>2, <1>3 DEF NoSplitInv, TypeOK
<1>5. Held' = Held \cup {blk} /\ Held \in SUBSET Ppn
  BY <1>2, <1>4 DEF Held
<1>6. UsedListsAreRings'
  <2>1. \A o \in Orders : UsedHeads(o)' = UsedHeads(o)
    BY <1>3 DEF UsedHeads
  <2> QED
    BY <1>3, <2>1 DEF NoSplitInv, UsedListsAreRings
<1>7. MarksInv'
  <2>1. \A p \in Held' : count[p] = refs'[p]
    BY <1>2, <1>4, <1>5 DEF NoSplitInv, MarksInv
  <2>2. ASSUME NEW q \in Ppn, slab[q]
        PROVE  \E p \in Held' : slab[p] /\ q \in Block(p, grant'[p])
    <3>1. PICK p \in Held : slab[p] /\ q \in Block(p, grant[p])
      BY <2>2 DEF NoSplitInv, MarksInv
    <3>2. p \in Held' /\ grant'[p] = grant[p]
      BY <1>2, <1>4, <1>5, <3>1
    <3> QED
      BY <3>1, <3>2
  <2> QED
    BY <1>3, <2>1, <2>2 DEF MarksInv, Block
<1>8. ReleaseCallInv'
  BY <1>1, <1>3 DEF NoSplitInv, ReleaseCallInv
<1> QED
  BY <1>1, <1>6, <1>7, <1>8, AllocNoSplit DEF NoSplitInv

\* ppages_set_slab marks from the head of the block on.
LEMMA SetSlabNoSplit ==
    ASSUME NoSplitInv, NEW p \in Ppn, NEW n \in SlabSizes, PpagesSetSlab(p, n)
    PROVE  NoSplitInv'
<1>1. /\ pc = "idle" /\ p \in Held /\ n <= 2^grant[p] /\ n \in Nat \ {0}
      /\ slab' = [q \in Ppn |-> q \in p .. (p + n - 1) \/ slab[q]]
      /\ UNCHANGED <<head, order, count, prev, next, freeList, usedList, pc, req, cur,
                     blk, cause, grant, refs>>
  BY LayoutAssumption DEF PpagesSetSlab, links, lists, clients
<1>2. AllocInv'
  BY <1>1, NoSplitAlloc, SetSlabInv
<1>3. UsedListsAreRings'
  <2>1. \A o \in Orders : UsedHeads(o)' = UsedHeads(o)
    BY <1>1 DEF UsedHeads
  <2> QED
    BY <1>1, <2>1 DEF NoSplitInv, UsedListsAreRings
<1>4. ReleaseCallInv'
  BY <1>1 DEF NoSplitInv, ReleaseCallInv
<1>5. MarksInv'
  <2>1. grant[p] \in 0..MaxOrder
    BY MaxOrderAssumption DEF NoSplitInv, TypeOK
  <2>2. p .. (p + n - 1) \subseteq Block(p, grant[p])
    BY <1>1, <2>1, Sizes, LayoutFacts DEF Block
  <2>3. /\ \A q \in Ppn : slab'[q] => slab[q] \/ q \in Block(p, grant[p])
        /\ \A q \in Ppn : slab[q] => slab'[q]
        /\ slab'[p] /\ p \in Ppn
    <3>1. p \in p .. (p + n - 1)
      BY <1>1, LayoutFacts
    <3> QED
      BY <1>1, <2>2, <3>1
  <2>4. Held' = Held /\ Held \in SUBSET Ppn
    BY <1>1 DEF Held
  <2>5. ASSUME NEW q \in Ppn, slab'[q]
        PROVE  \E b \in Held : slab'[b] /\ q \in Block(b, grant[b])
    BY <1>1, <2>3, <2>4, <2>5 DEF NoSplitInv, MarksInv
  <2> QED
    BY <1>1, <2>4, <2>5 DEF NoSplitInv, MarksInv, Block
<1> QED
  BY <1>2, <1>3, <1>4, <1>5, AllocNoSplit DEF NoSplitInv

\* Taking or dropping a reference that is not the last.
LEMMA CountNoSplit ==
    ASSUME NoSplitInv, NEW p \in Held, NEW k \in Nat \ {0}, pc = "idle",
           count' = [count EXCEPT ![p] = k], refs' = [refs EXCEPT ![p] = k],
           UNCHANGED <<head, order, slab, prev, next, freeList, usedList, pc, req,
                       cur, blk, range, cursor, cause, grant>>
    PROVE  NoSplitInv'
<1>1. TypeOK /\ AllocInv /\ p \in Ppn
  BY NoSplitAlloc DEF NoSplitInv, Held
<1>2. \A q \in Ppn : /\ count'[q] = (IF q = p THEN k ELSE count[q])
                     /\ refs'[q] = (IF q = p THEN k ELSE refs[q])
  BY <1>1 DEF TypeOK
<1>3. count[p] > 0 /\ refs[p] > 0 /\ p \in Used
  BY DEF NoSplitInv, ClientInv, Used, Held
<1>4. /\ Used' = Used /\ Held' = Held
      /\ \A o \in Orders : FreeHeads(o)' = FreeHeads(o) /\ UsedHeads(o)' = UsedHeads(o)
      /\ \A q \in Ppn : count'[q] = 0 <=> count[q] = 0
  BY <1>2, <1>3 DEF Used, Held, FreeHeads, UsedHeads
<1>5. TypeOK'
  BY <1>1 DEF TypeOK
<1>6. BlocksInv' /\ ClientInv'
  BY <1>4 DEF NoSplitInv, BlocksInv, ClientInv, InFreeMemory, BootFirstFree
<1>7. BootInv'
  BY DEF NoSplitInv, BootInv, BootFirstFree, RangeLast
<1>8. ListsInv'
  BY <1>1, <1>4 DEF AllocInv, ListsInv, LinksInside
<1>9. CallInv' /\ NeverFaults'
  BY <1>1 DEF AllocInv, CallInv, NeverFaults
<1>10. UsedListsAreRings'
  BY <1>4 DEF NoSplitInv, UsedListsAreRings
<1>11. ReleaseCallInv'
  BY DEF NoSplitInv, ReleaseCallInv
<1>12. MarksInv'
  <2>1. \A q \in Held : count'[q] = refs'[q] /\ q \in Ppn
    BY <1>2 DEF NoSplitInv, MarksInv, Held
  <2> QED
    BY <1>4, <2>1 DEF NoSplitInv, MarksInv, Block
<1> QED
  BY <1>5, <1>6, <1>7, <1>8, <1>9, <1>10, <1>11, <1>12, AllocNoSplit
     DEF NoSplitInv, AllocInv

\* The free and the used blocks of each order are different blocks.
LEMMA HeadsApart ==
    ASSUME TypeOK
    PROVE  /\ \A o \in Orders : FreeHeads(o) \in SUBSET Ppn /\ UsedHeads(o) \in SUBSET Ppn
           /\ \A o, b \in Orders : FreeHeads(o) \cap UsedHeads(b) = {}
           /\ \A o, b \in Orders : o # b => /\ FreeHeads(o) \cap FreeHeads(b) = {}
                                            /\ UsedHeads(o) \cap UsedHeads(b) = {}
BY DEF TypeOK, FreeHeads, UsedHeads

\* A block that is taken leaves the ring of free blocks for that of used ones,
\* and no other ring is written.
LEMMA TakeHeadNoSplit ==
    ASSUME NoSplitInv, TakeHead
    PROVE  NoSplitInv'
<1> DEFINE el == freeList[cur]
           r  == PopHead(Ring(freeList[cur], prev, next))
           u  == PushTail(Ring(usedList[cur], r.prev, r.next), el)
           S  == FreeHeads(cur)
           U  == UsedHeads(cur)
<1>1. /\ TypeOK /\ AllocInv /\ AllocInv' /\ UsedListsAreRings /\ MarksInv /\ ReleaseCallInv
      /\ pc = "search" /\ cur \in Orders /\ el # NULL /\ req = cur
  BY NoSplitAlloc, TakeHeadInv DEF TakeHead, NoSplitInv, ReleaseCallInv
<1>2. /\ el \in S /\ S \in SUBSET Ppn /\ IsRing(el, prev, next, S)
      /\ U \in SUBSET Ppn /\ IsRing(usedList[cur], prev, next, U) /\ S \cap U = {}
  <2>1. IsRing(el, prev, next, S) /\ IsRing(usedList[cur], prev, next, U)
    BY <1>1 DEF AllocInv, ListsInv, UsedListsAreRings
  <2> QED
    BY <1>1, <2>1, HeadsApart DEF IsRing
<1>3. IsLinks(prev, next, Ppn)
  BY <1>1 DEF TypeOK, IsLinks
<1>4. /\ Left(Ppn, S, prev, next, el, r)
      /\ IsRing(r.list, r.prev, r.next, S \ {el})
  <2>1. r = DeleteEl(Ring(el, prev, next), el)
    BY DEF PopHead, Ring
  <2> HIDE DEF r, el, S
  <2> QED
    BY <1>2, <1>3, <2>1, NullNotPpn, DeleteElKeeps
<1> HIDE DEF S, r
<1>5. /\ r.fault = FALSE /\ IsLinks(r.prev, r.next, Ppn)
      /\ \A e \in Ppn \ S : r.prev[e] = prev[e] /\ r.next[e] = next[e]
  BY <1>2, <1>4 DEF Left
<1>6. IsRing(usedList[cur], r.prev, r.next, U)
  <2>1. \A e \in U : r.prev[e] = prev[e] /\ r.next[e] = next[e]
    BY <1>2, <1>5
  <2>2. IsRing(usedList[cur], prev, next, U)
    BY <1>2
  <2> HIDE DEF U
  <2> QED
    BY ONLY <2>1, <2>2, RingKept
<1> HIDE DEF U
<1>7. /\ Left(Ppn, U, r.prev, r.next, el, u)
      /\ IsRing(u.list, u.prev, u.next, U \cup {el})
  <2>1. el \in Ppn \ U
    BY <1>2
  <2> HIDE DEF el
  <2> QED
    BY <1>2, <1>5, <1>6, <2>1, NullNotPpn, PushTailKeeps
<1> HIDE DEF u
<1>8. /\ u.fault = FALSE
      /\ \A e \in Ppn \ (U \cup {el}) : u.prev[e] = r.prev[e] /\ u.next[e] = r.next[e]
  BY <1>7 DEF Left
<1>9. /\ usedList' = [usedList EXCEPT ![cur] = u.list]
      /\ prev' = u.prev /\ next' = u.next
      /\ count' = [count EXCEPT ![el] = 1]
      /\ blk' = el /\ pc' = "split"
      /\ UNCHANGED <<head, order, slab, req, cur, cause, grant, refs>>
  BY <1>5, <1>8 DEF TakeHead, r, u, clients
<1> HIDE DEF el
<1>10. /\ head[el] /\ count[el] = 0 /\ order[el] = cur /\ el \in Ppn
       /\ \A p \in Ppn : count'[p] = IF p = el THEN 1 ELSE count[p]
  BY <1>1, <1>2, <1>9 DEF S, FreeHeads, TypeOK
<1>11. /\ UsedHeads(cur)' = U \cup {el}
       /\ \A o \in Orders : o # cur => UsedHeads(o)' = UsedHeads(o)
  BY <1>1, <1>9, <1>10 DEF U, UsedHeads, TypeOK
<1>12. UsedListsAreRings'
  <2> SUFFICES ASSUME NEW o \in Orders
               PROVE  IsRing(usedList'[o], prev', next', UsedHeads(o)')
    BY DEF UsedListsAreRings
  <2>1. CASE o = cur
    <3>1. usedList'[o] = u.list
      BY <1>1, <1>9, <2>1 DEF TypeOK
    <3> QED
      BY <1>7, <1>9, <1>11, <2>1, <3>1
  <2>2. CASE o # cur
    <3>1. usedList'[o] = usedList[o] /\ UsedHeads(o)' = UsedHeads(o)
      BY <1>1, <1>9, <1>11, <2>2 DEF TypeOK
    <3>2. /\ UsedHeads(o) \in SUBSET Ppn /\ UsedHeads(o) \cap S = {}
          /\ UsedHeads(o) \cap (U \cup {el}) = {}
      BY <1>1, <1>2, <2>2, HeadsApart DEF S, U
    <3>3. \A e \in UsedHeads(o) : prev'[e] = prev[e] /\ next'[e] = next[e]
      BY <1>5, <1>8, <1>9, <3>2
    <3>4. IsRing(usedList[o], prev, next, UsedHeads(o))
      BY <1>1 DEF UsedListsAreRings
    <3> QED
      BY <3>1, <3>3, <3>4, RingKept
  <2> QED
    BY <2>1, <2>2
<1>13. Held' = Held /\ el \notin Held
  BY <1>1, <1>9, <1>10 DEF AllocInv, Held, ClientInv, Used
<1>14. ReleaseCallInv'
  BY <1>1, <1>9, <1>10 DEF AllocInv, CallInv, ReleaseCallInv
<1>15. MarksInv'
  <2>1. \A p \in Held : p \in Ppn /\ count'[p] = count[p]
    BY <1>10, <1>13 DEF Held
  <2> QED
    BY <1>1, <1>9, <1>13, <2>1 DEF MarksInv, Block
<1> QED
  BY <1>1, <1>12, <1>14, <1>15, AllocNoSplit DEF NoSplitInv

\* A release passes each KASSERT but the last, and takes the block off the used
\* list that it is on; until it is pushed on a free list it is on none.
LEMMA FreeBlockNoSplit ==
    ASSUME NoSplitInv, pc = "idle", NEW p \in Held, count[p] = 1,
           NEW o \in Orders, o = order[p], FreeBlock(p, o)
    PROVE  NoSplitInv'
<1> DEFINE U == UsedHeads(o)
           r == DeleteEl(Ring(usedList[o], prev, next), p)
<1>1. /\ TypeOK /\ AllocInv /\ BlocksInv /\ ClientInv /\ UsedListsAreRings /\ MarksInv
      /\ ReleaseCallInv /\ BuddiesReserved /\ BootInv
  BY NoSplitAlloc DEF NoSplitInv
<1>2. /\ p \in Ppn /\ head[p] /\ o \in Orders /\ o = grant[p] /\ refs[p] = 1
      /\ InFreeMemory(p, o)
  BY <1>1 DEF TypeOK, ClientInv, MarksInv, Held, Used
<1>3. CASE slab[p]
  BY <1>2, <1>3, HaltNoSplit DEF FreeBlock
<1>4. CASE ~slab[p]
  <2>1. p \in U /\ U \in SUBSET Ppn /\ IsRing(usedList[o], prev, next, U)
    <3>0. order[p] = o /\ count[p] > 0
      OBVIOUS
    <3>1. p \in U
      BY <1>2, <3>0, Zenon DEF UsedHeads
    <3> QED
      BY <1>1, <3>1, HeadsApart DEF UsedListsAreRings
  <2>2. IsLinks(prev, next, Ppn)
    BY <1>1 DEF TypeOK, IsLinks
  <2>3. /\ Left(Ppn, U, prev, next, p, r)
        /\ IsRing(r.list, r.prev, r.next, U \ {p})
    <3> HIDE DEF U
    <3> QED
      BY <2>1, <2>2, NullNotPpn, DeleteElKeeps
  <2> HIDE DEF r
  <2>4. /\ r.fault = FALSE /\ IsLinks(r.prev, r.next, Ppn) /\ r.list \in Ppn \cup {NULL}
        /\ \A e \in Ppn \ U : r.prev[e] = prev[e] /\ r.next[e] = next[e]
    BY <2>1, <2>3 DEF Left
  <2>5. /\ usedList' = [usedList EXCEPT ![o] = r.list]
        /\ prev' = r.prev /\ next' = r.next
        /\ count' = [count EXCEPT ![p] = 0] /\ refs' = [refs EXCEPT ![p] = 0]
        /\ blk' = p /\ cur' = o /\ pc' = "merge"
        /\ UNCHANGED <<head, order, slab, freeList, req, range, cursor, cause, grant>>
    BY <1>2, <1>4, <2>4 DEF FreeBlock, r, bootvars
  <2>6. \A q \in Ppn : /\ count'[q] = (IF q = p THEN 0 ELSE count[q])
                       /\ refs'[q] = (IF q = p THEN 0 ELSE refs[q])
    BY <1>1, <2>5 DEF TypeOK
  <2>7. /\ Held' = Held \ {p} /\ Held \in SUBSET Ppn
        /\ Used' = Used \ {p}
        /\ UsedHeads(o)' = U \ {p}
        /\ \A b \in Orders : b # o => UsedHeads(b)' = UsedHeads(b)
        /\ \A b \in Orders : FreeHeads(b)' \ {p} = FreeHeads(b)
    <3>1. Held' = Held \ {p} /\ Held \in SUBSET Ppn
      BY <1>2, <2>6 DEF Held
    <3>2. Used' = Used \ {p} /\ UsedHeads(o)' = U \ {p}
      BY <2>5, <2>6 DEF Used, UsedHeads
    <3>3. \A b \in Orders : b # o => UsedHeads(b)' = UsedHeads(b)
      BY <2>5, <2>6 DEF UsedHeads
    <3>4. \A b \in Orders : FreeHeads(b)' \ {p} = FreeHeads(b)
      BY <2>5, <2>6 DEF FreeHeads
    <3> QED
      BY <3>1, <3>2, <3>3, <3>4
  <2> HIDE DEF U
  <2>8. TypeOK'
    <3>1. /\ prev' \in [Ppn -> Ppn \cup {NULL}] /\ next' \in [Ppn -> Ppn \cup {NULL}]
          /\ usedList' \in [Orders -> Ppn \cup {NULL}]
      BY <1>1, <1>2, <2>4, <2>5 DEF TypeOK, IsLinks
    <3>2. count' \in [Ppn -> Nat] /\ refs' \in [Ppn -> Nat] /\ blk' \in Ppn
      BY <1>1, <1>2, <2>5 DEF TypeOK
    <3>3. cur' \in 0..MaxOrder
      BY <1>2, <2>5, MaxOrderAssumption
    <3> QED
      BY <1>1, <2>5, <3>1, <3>2, <3>3 DEF TypeOK
  <2>9. BootInv'
    BY <1>1, <2>5 DEF BootInv
  <2>10. BlocksInv'
    <3>1. \A q \in Ppn : head'[q] /\ count'[q] = 0 => InFreeMemory(q, order'[q])
      BY <1>1, <1>2, <2>5, <2>6 DEF BlocksInv
    <3> QED
      BY <1>1, <2>5, <3>1 DEF BlocksInv, InFreeMemory, BootFirstFree
  <2>11. ClientInv'
    BY <1>1, <2>5, <2>7 DEF ClientInv, InFreeMemory, BootFirstFree
  <2>12. UsedListsAreRings'
    <3> SUFFICES ASSUME NEW b \in Orders
                 PROVE  IsRing(usedList'[b], prev', next', UsedHeads(b)')
      BY DEF UsedListsAreRings
    <3>1. CASE b = o
      <4>1. usedList'[b] = r.list
        BY <1>1, <1>2, <2>5, <3>1 DEF TypeOK
      <4> QED
        BY <2>3, <2>5, <2>7, <3>1, <4>1
    <3>2. CASE b # o
      <4>1. usedList'[b] = usedList[b] /\ UsedHeads(b)' = UsedHeads(b)
        BY <1>1, <1>2, <2>5, <2>7, <3>2 DEF TypeOK
      <4>2. UsedHeads(b) \in SUBSET Ppn /\ UsedHeads(b) \cap U = {}
        BY <1>1, <1>2, <3>2, HeadsApart DEF U
      <4>3. \A e \in UsedHeads(b) : prev'[e] = prev[e] /\ next'[e] = next[e]
        BY <2>4, <2>5, <4>2
      <4>4. IsRing(usedList[b], prev, next, UsedHeads(b))
        BY <1>1 DEF UsedListsAreRings
      <4> QED
        BY <4>1, <4>3, <4>4, RingKept
    <3> QED
      BY <3>1, <3>2
  <2>13. FreeListsAreRings'
    <3>1. InFlight' = {p}
      BY <2>5 DEF InFlight
    <3> SUFFICES ASSUME NEW b \in Orders
                 PROVE  IsRing(freeList'[b], prev', next', FreeHeads(b)' \ {p})
      BY <3>1 DEF FreeListsAreRings
    <3>2. FreeHeads(b) \in SUBSET Ppn /\ FreeHeads(b) \cap U = {}
      BY <1>1, <1>2, HeadsApart DEF U
    <3>3. \A e \in FreeHeads(b) : prev'[e] = prev[e] /\ next'[e] = next[e]
      BY <2>4, <2>5, <3>2
    <3>4. IsRing(freeList[b], prev, next, FreeHeads(b))
      BY <1>1 DEF AllocInv, ListsInv
    <3>5. IsRing(freeList[b], prev', next', FreeHeads(b))
      BY <3>3, <3>4, RingKept
    <3> QED
      BY <2>5, <2>7, <3>5
  <2>14. ReleaseCallInv'
    <3>1. BootFirstFree - 1 <= LastPpn
      BY <1>1 DEF BootInv
    <3>2. head'[blk'] /\ count'[blk'] = 0 /\ order'[blk'] = cur' /\ cur' \in Orders
      BY <1>2, <2>5, <2>6
    <3> QED
      BY <1>1, <2>5, <3>1, <3>2 DEF ReleaseCallInv, BootFirstFree
  <2>15. MarksInv'
    <3>1. \A q \in Held' : q \in Held /\ q # p /\ q \in Ppn /\ count'[q] = refs'[q]
      BY <1>1, <2>6, <2>7 DEF MarksInv
    <3>2. ASSUME NEW q \in Ppn, slab[q]
          PROVE  \E b \in Held' : slab[b] /\ q \in Block(b, grant[b])
      <4>1. PICK b \in Held : slab[b] /\ q \in Block(b, grant[b])
        BY <1>1, <3>2 DEF MarksInv
      <4>2. b \in Held'
        BY <1>4, <2>7, <4>1
      <4> QED
        BY <4>1, <4>2
    <3> QED
      BY <2>5, <3>1, <3>2 DEF MarksInv, Block
  <2>16. BuddiesReserved'
    BY <1>1 DEF BuddiesReserved, BootFirstFree
  <2> QED
    BY <2>8, <2>9, <2>10, <2>11, <2>12, <2>13, <2>14, <2>15, <2>16 DEF NoSplitInv
<1> QED
  BY <1>3, <1>4

\* A release finds no buddy to merge with, and gives the block back to the free
\* list of its order.
LEMMA ReleaseNoSplit ==
    ASSUME NoSplitInv, MergeOrRelease
    PROVE  NoSplitInv' /\ pc' = "idle" /\ UNCHANGED <<grant, refs>>
<1> DEFINE buddy == FindBuddy(blk, order[blk])
           F == FreeHeads(cur) \ {blk}
           f == PushTail(Ring(freeList[cur], prev, next), blk)
<1>1. /\ TypeOK /\ BlocksInv /\ ClientInv /\ UsedListsAreRings /\ FreeListsAreRings
      /\ MarksInv /\ ReleaseCallInv /\ BuddiesReserved /\ BootInv /\ pc = "merge"
  BY DEF NoSplitInv, MergeOrRelease
<1>2. /\ blk \in Ppn /\ head[blk] /\ count[blk] = 0 /\ order[blk] = cur /\ cur \in Orders
      /\ BootFirstFree - 1 <= LastPpn
  BY <1>1 DEF TypeOK, ReleaseCallInv
<1>3. ~(cur < MaxOrder - 1 /\ count[buddy] = 0 /\ head[buddy] /\ order[buddy] = cur)
  <2> SUFFICES ASSUME cur < MaxOrder - 1, count[buddy] = 0, head[buddy] PROVE FALSE
    OBVIOUS
  <2>1. buddy = 0 \/ buddy = 2^cur
    BY <1>2 DEF FindBuddy
  <2>2. /\ 0 < MBPages
        /\ 2^cur < MBPages \/ (BootStart <= 2^cur /\ 2^cur < BootFirstFree)
    BY <1>1, <1>2 DEF BuddiesReserved
  <2>3. cur \in 0..MaxOrder
    BY <1>2, MaxOrderAssumption
  <2>4. buddy \in Nat /\ (buddy < MBPages \/ (BootStart <= buddy /\ buddy < BootFirstFree))
    BY <2>1, <2>2, <2>3, Sizes
  <2> HIDE DEF buddy
  <2>5. buddy \in Ppn
    BY <1>2, <2>4, LayoutFacts
  <2>6. InFreeMemory(buddy, order[buddy])
    BY <1>1, <2>5 DEF BlocksInv
  <2>7. order[buddy] \in 0..MaxOrder
    <3>1. order[buddy] \in Orders
      BY <1>1, <2>5 DEF TypeOK
    <3> QED
      BY <3>1, MaxOrderAssumption
  <2>8. 2^order[buddy] \in Nat /\ 2^order[buddy] > 0
    BY <2>7, Sizes
  <2> QED
    BY <2>4, <2>6, <2>8, LayoutFacts DEF InFreeMemory
<1>4. blk \notin F /\ F \in SUBSET Ppn /\ IsRing(freeList[cur], prev, next, F)
  <2>1. InFlight = {blk}
    BY <1>1 DEF InFlight
  <2> QED
    BY <1>1, <1>2, <2>1, HeadsApart DEF FreeListsAreRings
<1>5. IsLinks(prev, next, Ppn)
  BY <1>1 DEF TypeOK, IsLinks
<1>6. /\ Left(Ppn, F, prev, next, blk, f)
      /\ IsRing(f.list, f.prev, f.next, F \cup {blk})
  <2> HIDE DEF F
  <2> QED
    BY <1>2, <1>4, <1>5, NullNotPpn, PushTailKeeps
<1> HIDE DEF f, F
<1>7. /\ f.fault = FALSE /\ IsLinks(f.prev, f.next, Ppn) /\ f.list \in Ppn \cup {NULL}
      /\ \A e \in Ppn \ (F \cup {blk}) : f.prev[e] = prev[e] /\ f.next[e] = next[e]
  BY <1>6 DEF Left
<1>8. /\ freeList' = [freeList EXCEPT ![cur] = f.list]
      /\ prev' = f.prev /\ next' = f.next /\ pc' = "idle"
      /\ UNCHANGED <<head, order, count, slab, usedList, req, cur, blk, range, cursor,
                     cause, grant, refs>>
  BY <1>3, <1>7 DEF MergeOrRelease, f, bootvars, clients
<1>9. /\ Held' = Held /\ Used' = Used
      /\ \A b \in Orders : FreeHeads(b)' = FreeHeads(b) /\ UsedHeads(b)' = UsedHeads(b)
      /\ F \cup {blk} = FreeHeads(cur)
      /\ \A b \in Orders : b # cur => FreeHeads(b) \ {blk} = FreeHeads(b)
  <2>1. /\ Held' = Held /\ Used' = Used
        /\ \A b \in Orders : FreeHeads(b)' = FreeHeads(b) /\ UsedHeads(b)' = UsedHeads(b)
    BY <1>8 DEF Held, Used, FreeHeads, UsedHeads
  <2>2. blk \in FreeHeads(cur) /\ \A b \in Orders : b # cur => blk \notin FreeHeads(b)
    BY <1>2 DEF FreeHeads
  <2> QED
    BY <2>1, <2>2 DEF F
<1>10. TypeOK'
  <2>1. /\ prev' \in [Ppn -> Ppn \cup {NULL}] /\ next' \in [Ppn -> Ppn \cup {NULL}]
        /\ freeList' \in [Orders -> Ppn \cup {NULL}]
    BY <1>1, <1>2, <1>7, <1>8 DEF TypeOK, IsLinks
  <2> QED
    BY <1>1, <1>8, <2>1 DEF TypeOK
<1>11. BootInv' /\ BlocksInv' /\ ClientInv'
  BY <1>1, <1>2, <1>8, <1>9 DEF BootInv, BlocksInv, ClientInv, InFreeMemory, BootFirstFree
<1>12. UsedListsAreRings'
  <2> SUFFICES ASSUME NEW b \in Orders
               PROVE  IsRing(usedList[b], prev', next', UsedHeads(b))
    BY <1>8, <1>9 DEF UsedListsAreRings
  <2>1. UsedHeads(b) \in SUBSET Ppn /\ UsedHeads(b) \cap (F \cup {blk}) = {}
    BY <1>1, <1>2, <1>9, HeadsApart
  <2>2. \A e \in UsedHeads(b) : prev'[e] = prev[e] /\ next'[e] = next[e]
    BY <1>7, <1>8, <2>1
  <2>3. IsRing(usedList[b], prev, next, UsedHeads(b))
    BY <1>1 DEF UsedListsAreRings
  <2> QED
    BY <2>2, <2>3, RingKept
<1>13. FreeListsAreRings'
  <2>1. InFlight' = {}
    BY <1>8 DEF InFlight
  <2>2. \A b \in Orders : FreeHeads(b) \ {} = FreeHeads(b)
    OBVIOUS
  <2> SUFFICES ASSUME NEW b \in Orders
               PROVE  IsRing(freeList'[b], prev', next', FreeHeads(b))
    BY <1>9, <2>1, <2>2 DEF FreeListsAreRings
  <2>3. CASE b = cur
    <3>1. freeList'[b] = f.list
      BY <1>1, <1>8, <2>3 DEF TypeOK
    <3> QED
      BY <1>6, <1>8, <1>9, <2>3, <3>1
  <2>4. CASE b # cur
    <3>1. freeList'[b] = freeList[b]
      BY <1>1, <1>8, <2>4 DEF TypeOK
    <3>2. FreeHeads(b) \in SUBSET Ppn /\ FreeHeads(b) \cap (F \cup {blk}) = {}
      BY <1>1, <1>2, <1>9, <2>4, HeadsApart
    <3>3. \A e \in FreeHeads(b) : prev'[e] = prev[e] /\ next'[e] = next[e]
      BY <1>7, <1>8, <3>2
    <3>4. IsRing(freeList[b], prev, next, FreeHeads(b))
      <4>1. InFlight = {blk}
        BY <1>1 DEF InFlight
      <4> QED
        BY <1>1, <1>9, <2>4, <4>1 DEF FreeListsAreRings
    <3> QED
      BY <3>1, <3>3, <3>4, RingKept
  <2> QED
    BY <2>3, <2>4
<1>14. ReleaseCallInv' /\ MarksInv' /\ BuddiesReserved'
  BY <1>1, <1>8, <1>9 DEF ReleaseCallInv, MarksInv, BuddiesReserved, BootFirstFree, Block
<1> QED
  BY <1>8, <1>10, <1>11, <1>12, <1>13, <1>14 DEF NoSplitInv

\* Boot pushes a new block on one ring, free or used, and clears only links of
\* pages that head no block.
LEMMA BootBlockNoSplit ==
    ASSUME NoSplitInv, BootBlock
    PROVE  NoSplitInv'
<1> DEFINE free == range \in RangeFree
<1>1. PICK o \in Orders :
        LET inside == Block(cursor, o) \ {cursor}
            r == PushTail(Ring(IF free THEN freeList[o] ELSE usedList[o],
                               prev, next), cursor)
        IN /\ Fits(cursor, o, RangeLast[range])
           /\ IF r.fault THEN Halt("fault") ELSE
              /\ head' = [p \in Ppn |-> IF p \in inside THEN FALSE
                                        ELSE p = cursor \/ head[p]]
              /\ order' = [p \in Ppn |-> IF p \in Block(cursor, o)
                                         THEN o ELSE order[p]]
              /\ count' = [p \in Ppn |-> IF p \in Block(cursor, o)
                                         THEN IF free THEN 0 ELSE 1
                                         ELSE count[p]]
              /\ slab' = [p \in Ppn |-> p \notin Block(cursor, o) /\ slab[p]]
              /\ prev' = [p \in Ppn |-> IF p \in inside THEN NULL
                                        ELSE r.prev[p]]
              /\ next' = [p \in Ppn |-> IF p \in inside THEN NULL
                                        ELSE r.next[p]]
              /\ freeList' = IF free THEN [freeList EXCEPT ![o] = r.list]
                                     ELSE freeList
              /\ usedList' = IF free THEN usedList
                                     ELSE [usedList EXCEPT ![o] = r.list]
              /\ cursor' = cursor + 2^o
              /\ UNCHANGED <<pc, req, cur, blk, range, cause, clients>>
  BY DEF BootBlock
<1> DEFINE inside == Block(cursor, o) \ {cursor}
           list == IF free THEN freeList[o] ELSE usedList[o]
           r == PushTail(Ring(list, prev, next), cursor)
           S == IF free THEN FreeHeads(o) ELSE UsedHeads(o)
<1>2. /\ TypeOK /\ AllocInv /\ AllocInv' /\ UsedListsAreRings /\ MarksInv /\ ClientInv
      /\ ReleaseCallInv /\ BlocksInv /\ BootInv /\ pc = "boot"
      /\ cursor <= RangeLast[range]
  BY NoSplitAlloc, BootBlockInv DEF BootBlock, NoSplitInv
<1>3. cursor \in Ppn /\ 2^o \in Nat /\ 2^o > 0
  <2>1. BootFirstFree - 1 <= LastPpn /\ range \in 1..5 /\ cursor \in Nat
    BY <1>2, LayoutFacts DEF TypeOK, BootInv
  <2>2. RangeLast[range] \in Int /\ RangeLast[range] <= LastPpn
    BY <2>1, RangeOrder
  <2>3. o \in 0..MaxOrder
    BY MaxOrderAssumption
  <2> QED
    BY <1>2, <2>1, <2>2, <2>3, Sizes, LayoutFacts
<1>4. \A p \in Ppn : head[p] => p # cursor /\ p \notin Block(cursor, o)
  <2> SUFFICES ASSUME NEW p \in Ppn, head[p]
               PROVE  p # cursor /\ p \notin Block(cursor, o)
    OBVIOUS
  <2>1. order[p] \in Orders /\ p + 2^order[p] <= cursor
    BY <1>2 DEF TypeOK, BlocksInv
  <2>2. order[p] \in 0..MaxOrder
    BY <2>1, MaxOrderAssumption
  <2> QED
    BY <1>3, <2>1, <2>2, Sizes DEF Block
<1>5. cursor \in Block(cursor, o) /\ ~head[cursor]
  BY <1>3, <1>4 DEF Block
<1>6. IsLinks(prev, next, Ppn)
  BY <1>2 DEF TypeOK, IsLinks
<1>7. S \in SUBSET Ppn /\ cursor \in Ppn \ S /\ IsRing(list, prev, next, S)
  <2>1. cursor \notin FreeHeads(o) /\ cursor \notin UsedHeads(o)
    BY <1>5 DEF FreeHeads, UsedHeads
  <2>2. /\ IsRing(freeList[o], prev, next, FreeHeads(o))
        /\ IsRing(usedList[o], prev, next, UsedHeads(o))
    BY <1>2 DEF AllocInv, ListsInv, UsedListsAreRings
  <2> QED
    BY <1>2, <1>3, <2>1, <2>2, HeadsApart
<1>8. Left(Ppn, S, prev, next, cursor, r) /\ IsRing(r.list, r.prev, r.next, S \cup {cursor})
  <2> HIDE DEF S, list
  <2> QED
    BY <1>6, <1>7, NullNotPpn, PushTailKeeps
<1> HIDE DEF r, list
<1>9. /\ r.fault = FALSE
      /\ \A e \in Ppn \ (S \cup {cursor}) : r.prev[e] = prev[e] /\ r.next[e] = next[e]
  BY <1>8 DEF Left
<1>10. /\ head' = [p \in Ppn |-> IF p \in inside THEN FALSE ELSE p = cursor \/ head[p]]
       /\ order' = [p \in Ppn |-> IF p \in Block(cursor, o) THEN o ELSE order[p]]
       /\ count' = [p \in Ppn |-> IF p \in Block(cursor, o)
                                  THEN IF free THEN 0 ELSE 1 ELSE count[p]]
       /\ slab' = [p \in Ppn |-> p \notin Block(cursor, o) /\ slab[p]]
       /\ prev' = [p \in Ppn |-> IF p \in inside THEN NULL ELSE r.prev[p]]
       /\ next' = [p \in Ppn |-> IF p \in inside THEN NULL ELSE r.next[p]]
       /\ usedList' = IF free THEN usedList ELSE [usedList EXCEPT ![o] = r.list]
       /\ UNCHANGED <<pc, req, cur, blk, range, cause, grant, refs>>
  BY <1>1, <1>9 DEF r, list, clients
<1>11. \A p \in Ppn :
         /\ head'[p] <=> (p = cursor \/ head[p])
         /\ head[p] => order'[p] = order[p] /\ count'[p] = count[p] /\ slab'[p] = slab[p]
         /\ order'[cursor] = o /\ count'[cursor] = (IF free THEN 0 ELSE 1)
         /\ (head[p] \/ p = cursor) => prev'[p] = r.prev[p] /\ next'[p] = r.next[p]
  BY <1>2, <1>3, <1>4, <1>5, <1>10 DEF TypeOK
<1>12. /\ free => UsedHeads(o)' = UsedHeads(o)
       /\ ~free => UsedHeads(o)' = UsedHeads(o) \cup {cursor}
       /\ \A b \in Orders : b # o => UsedHeads(b)' = UsedHeads(b)
       /\ Held' = Held
  <2>1. Held' = Held
    BY <1>10 DEF Held
  <2>2. /\ free => UsedHeads(o)' = UsedHeads(o)
        /\ ~free => UsedHeads(o)' = UsedHeads(o) \cup {cursor}
    BY <1>3, <1>5, <1>11 DEF UsedHeads
  <2>3. ASSUME NEW b \in Orders, b # o PROVE UsedHeads(b)' = UsedHeads(b)
    BY <1>3, <1>5, <1>11, <2>3 DEF UsedHeads
  <2> QED
    BY <2>1, <2>2, <2>3
<1>13. UsedListsAreRings'
  <2> SUFFICES ASSUME NEW b \in Orders
               PROVE  IsRing(usedList'[b], prev', next', UsedHeads(b)')
    BY DEF UsedListsAreRings
  <2>1. CASE ~free /\ b = o
    <3>1. S = UsedHeads(b) /\ UsedHeads(b)' = S \cup {cursor}
      BY <1>12, <2>1
    <3>2. \A e \in S \cup {cursor} : prev'[e] = r.prev[e] /\ next'[e] = r.next[e]
      BY <1>3, <1>11, <3>1 DEF UsedHeads
    <3>3. usedList'[b] = r.list
      BY <1>2, <1>10, <2>1 DEF TypeOK
    <3> HIDE DEF S
    <3>4. IsRing(r.list, prev', next', S \cup {cursor})
      BY <1>8, <3>2, RingKept
    <3> QED
      BY <3>1, <3>3, <3>4
  <2>2. CASE ~(~free /\ b = o)
    <3>1. /\ UsedHeads(b)' = UsedHeads(b) /\ usedList'[b] = usedList[b]
          /\ IsRing(usedList[b], prev, next, UsedHeads(b))
      BY <1>2, <1>10, <1>12, <2>2 DEF UsedListsAreRings, TypeOK
    <3>2. UsedHeads(b) \cap S = {}
      BY <1>2, <2>2, HeadsApart
    <3>3. \A e \in UsedHeads(b) : head[e] /\ e \in Ppn
      BY DEF UsedHeads
    <3>4. \A e \in UsedHeads(b) : prev'[e] = prev[e] /\ next'[e] = next[e]
      BY <1>5, <1>9, <1>11, <3>2, <3>3
    <3> QED
      BY <3>1, <3>4, RingKept
  <2> QED
    BY <2>1, <2>2
<1>14. ReleaseCallInv'
  BY <1>2, <1>10 DEF ReleaseCallInv
<1>15. MarksInv'
  <2>1. \A p \in Held : p \in Ppn /\ head[p]
    BY <1>2 DEF ClientInv, Used
  <2>2. \A p \in Held : count'[p] = refs[p] /\ slab'[p] = slab[p]
    BY <1>2, <1>11, <2>1 DEF MarksInv
  <2>3. \A q \in Ppn : slab'[q] => slab[q]
    BY <1>10
  <2>4. ASSUME NEW q \in Ppn, slab'[q]
        PROVE  \E p \in Held : slab'[p] /\ q \in Block(p, grant[p])
    BY <1>2, <2>2, <2>3, <2>4 DEF MarksInv
  <2> QED
    BY <1>10, <1>12, <2>2, <2>4 DEF MarksInv, Block
<1> QED
  BY <1>2, <1>13, <1>14, <1>15, AllocNoSplit DEF NoSplitInv

\* Every step keeps the invariant: one case for each disjunct of NextNoSplit.
LEMMA StepNoSplit == NoSplitInv /\ [NextNoSplit]_vars => NoSplitInv'
<1> SUFFICES ASSUME NoSplitInv, [NextNoSplit]_vars PROVE NoSplitInv'
  OBVIOUS
<1>1. CASE Boot
  BY <1>1, BootNoSplit, BootBlockNoSplit DEF Boot
<1>2. CASE \E o \in Orders : freeList[o] # NULL /\ BlockAlloc(o)
  BY <1>2, BlockAllocNoSplit
<1>3. CASE UseBlock
  BY <1>3, SetSlabNoSplit DEF UseBlock
<1>4. CASE Release
  <2>1. PICK p \in Ppn : PpageRef(p) \/ BlockFree(p) \/ PpageUnref(p)
    BY <1>4 DEF Release
  <2>2. /\ p \in Held /\ pc = "idle"
        /\ p \in Ppn /\ order[p] = grant[p] /\ order[p] \in Orders
        /\ count[p] \in Nat /\ count[p] = refs[p] /\ refs[p] > 0
    <3>1. p \in Held /\ pc = "idle"
      BY <2>1 DEF PpageRef, BlockFree, PpageUnref
    <3> QED
      BY <3>1 DEF NoSplitInv, TypeOK, ClientInv, MarksInv, Held
  <2>3. CASE PpageRef(p)
    <3>1. /\ count' = [count EXCEPT ![p] = count[p] + 1]
          /\ refs' = [refs EXCEPT ![p] = count[p] + 1]
          /\ UNCHANGED <<head, order, slab, prev, next, freeList, usedList, pc, req,
                         cur, blk, range, cursor, cause, grant>>
      BY <2>2, <2>3 DEF PpageRef, links, lists, bootvars
    <3>2. count[p] + 1 \in Nat \ {0}
      BY <2>2
    <3> QED
      BY <2>2, <3>1, <3>2, CountNoSplit
  <2>4. CASE BlockFree(p)
    <3>1. count[p] = 1 /\ FreeBlock(p, order[p])
      BY <2>2, <2>4 DEF BlockFree
    <3> QED
      BY <2>2, <3>1, FreeBlockNoSplit
  <2>5. CASE PpageUnref(p)
    <3>1. CASE count[p] > 1
      <4>1. /\ count' = [count EXCEPT ![p] = count[p] - 1]
            /\ refs' = [refs EXCEPT ![p] = count[p] - 1]
            /\ UNCHANGED <<head, order, slab, prev, next, freeList, usedList, pc, req,
                           cur, blk, range, cursor, cause, grant>>
        BY <2>2, <2>5, <3>1 DEF PpageUnref, links, lists, bootvars
      <4>2. count[p] - 1 \in Nat \ {0}
        BY <2>2, <3>1
      <4> QED
        BY <2>2, <4>1, <4>2, CountNoSplit
    <3>2. CASE ~(count[p] > 1)
      <4>1. count[p] = 1
        BY <2>2, <3>2
      <4>2. FreeBlock(p, order[p])
        BY <2>5, <4>1 DEF PpageUnref
      <4> QED
        BY <2>2, <4>1, <4>2, FreeBlockNoSplit
    <3> QED
      BY <3>1, <3>2
  <2> QED
    BY <2>1, <2>3, <2>4, <2>5
<1>5. CASE UNCHANGED vars
  <2>1. UNCHANGED heap /\ UNCHANGED <<pc, req, cur, blk, range, cursor, cause>>
    BY <1>5 DEF vars, heap, links, lists, bootvars, clients
  <2> USE <2>1 DEF NoSplitInv, heap
  <2>2. TypeOK' /\ BootInv' /\ BuddiesReserved' /\ ReleaseCallInv'
    BY DEF TypeOK, BootInv, BuddiesReserved, ReleaseCallInv, BootFirstFree, RangeLast,
       Used, Held, InFreeMemory
  <2>3. BlocksInv' /\ ClientInv'
    BY DEF BlocksInv, ClientInv, Used, Held, InFreeMemory, BootFirstFree
  <2>4. /\ InFlight' = InFlight
        /\ \A o \in Orders : FreeHeads(o)' = FreeHeads(o)
    BY DEF InFlight, FreeHeads
  <2>5. FreeListsAreRings'
    BY <2>4 DEF FreeListsAreRings
  <2> QED
    BY <2>2, <2>3, <2>5, MarksUnchanged
<1> QED
  BY <1>1, <1>2, <1>3, <1>4, <1>5, TakeHeadNoSplit, AllocReturnsNoSplit, ReleaseNoSplit
     DEF NextNoSplit, Halted

\* The invariant of releases, for clients that split no block.
THEOREM NoSplitInvariant == BuddiesReserved /\ SpecNoSplit => []NoSplitInv
<1>1. BuddiesReserved /\ Init => NoSplitInv
  BY InitNoSplit
<1>2. NoSplitInv /\ [NextNoSplit]_vars => NoSplitInv'
  BY StepNoSplit
<1> QED
  BY <1>1, <1>2, PTL DEF SpecNoSplit

\* As long as no block is split, each used list is the ring of exactly the used
\* blocks of its order: a release finds its block on the list it unlinks it from.
THEOREM UsedListsStayRings == BuddiesReserved /\ SpecNoSplit => []UsedListsAreRings
<1>1. NoSplitInv => UsedListsAreRings
  BY DEF NoSplitInv
<1> QED
  BY <1>1, NoSplitInvariant, PTL

\* ... and each free list that of the free ones, while a block is being released
\* too.
THEOREM ReleasesKeepFreeRings == BuddiesReserved /\ SpecNoSplit => []FreeListsAreRings
<1>1. NoSplitInv => FreeListsAreRings
  BY DEF NoSplitInv
<1> QED
  BY <1>1, NoSplitInvariant, PTL

\* With references taken and dropped, the count of a block is the number of its
\* users, and a page marked as a slab's is never given back.
THEOREM ReferencesMatchClients == BuddiesReserved /\ SpecNoSplit => []DescriptorsAgree
<1>1. NoSplitInv => DescriptorsAgree
  BY DEF NoSplitInv, ClientInv, MarksInv, DescriptorsAgree
<1> QED
  BY <1>1, NoSplitInvariant, PTL

\* A client that releases what it was given, as it was given, is refused for one
\* reason only: the block still backs a slab.
THEOREM ReleasesSucceed ==
    BuddiesReserved /\ SpecNoSplit => [](cause \in {"none", "bootmem", "slab"})
<1>1. NoSplitInv => cause \in {"none", "bootmem", "slab"}
  BY DEF NoSplitInv, ReleaseCallInv
<1> QED
  BY <1>1, NoSplitInvariant, PTL

\* The loop of _ppage_block_free that merges blocks "as much as possible" never
\* merges any, because find_buddy looks at pages that boot never sets free.
THEOREM ReleasesNeverMerge ==
    BuddiesReserved /\ SpecNoSplit => [][pc = "merge" => pc' = "idle"]_vars
<1>1. ASSUME NoSplitInv, [NextNoSplit]_vars, pc = "merge"
      PROVE  pc' = "idle" \/ UNCHANGED vars
  <2>1. MergeOrRelease \/ UNCHANGED vars
    BY <1>1 DEF NextNoSplit, Boot, BootPagesAlloc, BootBlock, BootNextRange, TakeHead,
       AllocReturns, BlockAlloc, UseBlock, PpagesSetSlab, Release, PpageRef, BlockFree,
       PpageUnref, Halted
  <2> QED
    BY <1>1, <2>1, ReleaseNoSplit
<1>2. NoSplitInv /\ [NextNoSplit]_vars => [pc = "merge" => pc' = "idle"]_vars
  BY <1>1
<1> QED
  BY <1>2, NoSplitInvariant, PTL DEF SpecNoSplit

\* What a step does to the clients: it gives one a block, takes one back, changes
\* the number of references to it, or leaves them alone.
LEMMA ClientSteps ==
    ASSUME NoSplitInv, [NextNoSplit]_vars, ~AllocReturns
    PROVE  /\ pc = "halted" => pc' = "halted"
           /\ grant' = grant
           /\ \/ refs' = refs
              \/ /\ pc = "idle" /\ pc' # "halted"
                 /\ \E p \in Held : \/ refs' = [refs EXCEPT ![p] = 0]
                                    \/ \E k \in Nat \ {0} : refs' = [refs EXCEPT ![p] = k]
<1>1. CASE Boot
  BY <1>1 DEF Boot, BootPagesAlloc, BootBlock, BootNextRange, Halt, clients
<1>2. CASE TakeHead \/ \E o \in Orders : freeList[o] # NULL /\ BlockAlloc(o)
  BY <1>2 DEF TakeHead, BlockAlloc, Call, Halt, clients
<1>3. CASE UseBlock
  BY <1>3 DEF UseBlock, PpagesSetSlab, clients
<1>4. CASE MergeOrRelease
  BY <1>4, ReleaseNoSplit DEF MergeOrRelease
<1>5. CASE Release
  <2>1. PICK p \in Ppn : PpageRef(p) \/ BlockFree(p) \/ PpageUnref(p)
    BY <1>5 DEF Release
  <2>2. pc = "idle" /\ p \in Held /\ refs[p] \in Nat /\ count[p] = refs[p]
    BY <2>1 DEF PpageRef, BlockFree, PpageUnref, NoSplitInv, TypeOK, MarksInv
  <2>3. CASE PpageRef(p)
    <3>1. /\ refs' = [refs EXCEPT ![p] = refs[p] + 1] /\ grant' = grant /\ pc' = pc
          /\ refs[p] + 1 \in Nat \ {0}
      BY <2>2, <2>3 DEF PpageRef
    <3> QED
      BY <2>2, <3>1
  <2>4. ASSUME NEW o, FreeBlock(p, o)
        PROVE  /\ grant' = grant
               /\ refs' = refs \/ (refs' = [refs EXCEPT ![p] = 0] /\ pc' # "halted")
    BY <2>4 DEF FreeBlock, Halt, clients
  <2>5. CASE PpageUnref(p) /\ count[p] > 1
    <3>1. /\ refs' = [refs EXCEPT ![p] = refs[p] - 1] /\ grant' = grant /\ pc' = pc
          /\ refs[p] - 1 \in Nat \ {0}
      BY <2>2, <2>5 DEF PpageUnref
    <3> QED
      BY <2>2, <3>1
  <2>6. CASE BlockFree(p) \/ (PpageUnref(p) /\ ~(count[p] > 1))
    <3>1. \/ \E o : FreeBlock(p, o)
          \/ Halt("unref")
      BY <2>6 DEF BlockFree, PpageUnref
    <3> QED
      BY <2>2, <2>4, <3>1 DEF Halt, clients
  <2> QED
    BY <2>1, <2>3, <2>5, <2>6
<1>6. CASE UNCHANGED vars
  BY <1>6 DEF vars, clients
<1> QED
  BY <1>1, <1>2, <1>3, <1>4, <1>5, <1>6 DEF NextNoSplit, Halted

\* With releases too, the allocator is what PageGrants says: a block comes to a
\* client whole and leaves whole, with the last reference, so that nobody is
\* ever granted a page that somebody still uses.
THEOREM ReleasesImplementReturns == BuddiesReserved /\ SpecNoSplit => ImplementsReturns
<1>1. Init => Grants!Init
  <2> SUFFICES ASSUME Init PROVE Grants!Init
    OBVIOUS
  <2>1. RunSize = [p \in Ppn |-> 0]
    BY DEF Init, RunSize
  <2> QED
    BY <2>1 DEF Init, Grants!Init
<1>2. NoSplitInv /\ [NextNoSplit]_vars => [Grants!Next]_<<RunSize, pc = "halted">>
  <2> SUFFICES ASSUME NoSplitInv, [NextNoSplit]_vars
               PROVE  Grants!Next \/ UNCHANGED <<RunSize, pc = "halted">>
    OBVIOUS
  <2>1. CASE AllocReturns
    <3>1. AllocInv
      BY <2>1, NoSplitAlloc DEF AllocReturns
    <3> QED
      BY <2>1, <3>1, GrantStep DEF Grants!Next, Grants!GrantOnly
  <2>2. CASE ~AllocReturns
    <3>1. /\ pc = "halted" => pc' = "halted"
          /\ grant' = grant
          /\ \/ refs' = refs
             \/ /\ pc = "idle" /\ pc' # "halted"
                /\ \E p \in Held : \/ refs' = [refs EXCEPT ![p] = 0]
                                   \/ \E k \in Nat \ {0} : refs' = [refs EXCEPT ![p] = k]
      BY <2>2, ClientSteps
    <3>2. refs \in [Ppn -> Nat] /\ grant \in [Ppn -> Orders]
      BY DEF NoSplitInv, TypeOK
    <3>3. CASE refs' = refs
      <4>1. RunSize' = RunSize
        BY <3>1, <3>3 DEF RunSize
      <4> QED
        BY <3>1, <4>1 DEF Grants!Next, Grants!GrantOnly, Grants!Stop
    <3>4. ASSUME NEW p \in Held, NEW k \in Nat \ {0}, refs' = [refs EXCEPT ![p] = k],
                 pc = "idle", pc' # "halted"
          PROVE  UNCHANGED <<RunSize, pc = "halted">>
      <4>1. \A q \in Ppn : refs'[q] > 0 <=> refs[q] > 0
        BY <3>2, <3>4 DEF Held
      <4>2. RunSize' = RunSize
        BY <3>1, <4>1 DEF RunSize
      <4> QED
        BY <3>4, <4>2
    <3>5. ASSUME NEW p \in Held, refs' = [refs EXCEPT ![p] = 0], pc = "idle",
                 pc' # "halted"
          PROVE  Grants!Return(p)
      <4>1. p \in Ppn /\ refs[p] > 0
        BY DEF Held
      <4>2. \A q \in Ppn : refs'[q] = (IF q = p THEN 0 ELSE refs[q])
        BY <3>2, <3>5, <4>1
      <4>3. RunSize' = [RunSize EXCEPT ![p] = 0]
        <5>1. \A q \in Ppn : RunSize'[q] = (IF q = p THEN 0 ELSE RunSize[q])
          BY <3>1, <4>2 DEF RunSize
        <5> QED
          BY <5>1 DEF RunSize
      <4>4. RunSize[p] > 0
        <5>1. grant[p] \in Orders
          BY <3>2, <4>1
        <5>2. grant[p] \in 0..MaxOrder
          BY <5>1, MaxOrderAssumption
        <5> QED
          BY <4>1, <5>2, Sizes DEF RunSize
      <4> QED
        BY <3>5, <4>1, <4>3, <4>4 DEF Grants!Return, Grants!Runs
    <3>6. ASSUME NEW p \in Held, Grants!Return(p) PROVE Grants!Next
      BY <3>6 DEF Grants!Next, Held
    <3> QED
      BY <3>1, <3>3, <3>4, <3>5, <3>6
  <2> QED
    BY <2>1, <2>2
<1> QED
  BY <1>1, <1>2, NoSplitInvariant, PTL DEF SpecNoSplit, ImplementsReturns, Grants!Spec
=============================================================================
