----------------------------- MODULE KernelHeap -----------------------------
(***************************************************************************)
(* The slab allocator and the allocator of virtual regions, kernel/mm/     *)
(* slab.c and virtual_pages.c.  Each needs the other: a new slab needs a   *)
(* region and a Slab object, cutting a region needs a Vregion object, and  *)
(* both kinds of objects come from slabs.  Two caches therefore keep a     *)
(* reserve, refilled by _create_slab_for_cache_Slab and                    *)
(* _create_slab_for_cache_Vregion, which call each other.                  *)
(*                                                                         *)
(* The recursion is explicit: stack holds a frame for every call in        *)
(* progress, with the position in its function, and one step runs the      *)
(* function at the top up to its next call.  A slab is named by the number *)
(* of its Slab object.  The objects of a slab are counted, not named: none *)
(* is ever given back, objs_cache_free is not implemented.                 *)
(*                                                                         *)
(* A slab is a region mapped to physical pages.  The block of pages that   *)
(* ppages_alloc returns is named by its rank, which of the free ones it is *)
(* being a matter of PhysicalPages; map_pages is that of Paging, in the    *)
(* one page table of the window.                                           *)
(***************************************************************************)
EXTENDS Integers, Sequences, FiniteSets, SequencesExt, FiniteSetsExt

CONSTANTS
    ObjsObjsCache,   \* objects per slab of the three caches of the kernel
    ObjsSlab,
    ObjsVregion,
    Kinds,           \* [objs, pages]: the caches that clients create
    MaxCaches,       \* bound on the number of caches
    FirstVpn,        \* the first page of the window left after boot ...
    LastVpn          \* ... and the last: the end of the first page table

\* Three pages of the window were taken at boot, for the first three slabs.
ASSUME WindowAssumption ==
    FirstVpn \in Nat /\ FirstVpn > 3 /\ LastVpn \in Nat /\ FirstVpn <= LastVpn
ASSUME KindsAssumption ==
    Kinds \subseteq [objs : Nat \ {0}, pages : Nat \ {0}] /\ MaxCaches \in Nat
\* There is a power of two to which ppages_alloc rounds up.
ASSUME PowerAssumption ==
    \A n \in {1} \cup {k.pages : k \in Kinds} : \E o \in 0..n : 2^o \in n..(2 * n)
\* An Objs_cache, Slab or Vregion is small beside a page; the two reserves are
\* asserted by objs_cache_boot_init and virtual_page_boot_init.
ASSUME ReserveAssumption ==
    /\ ObjsObjsCache \in Nat /\ ObjsObjsCache > 3
    /\ ObjsSlab \in Nat /\ ObjsSlab - 3 > 2
    /\ ObjsVregion \in Nat /\ ObjsVregion - 3 > 2

\* Mutant of MinSlab: slab.h says it "must be at least 2".
MinSlabOne == 1

\* MIN_FREE_OBJS_CACHE_SLAB and MIN_FREE_OBJS_CACHE_VREGION
MinSlab    == 2
MinVregion == 2

VARIABLES
    cache,   \* the Objs_cache structures, in the order of caches_clist
    slab,    \* the initialised Slab structures
    freeV,   \* free_vregions: a sequence of regions ...
    tailV,   \* ... and what its last element is linked to
    usedV,   \* used_vregions
    granted, \* the blocks of physical pages: the slab of each of their pages
    mapped,  \* the block and page that a page of the window is mapped to
    stack,   \* the calls in progress, the innermost first
    ret,     \* the object that objs_cache_alloc or create_slab returned last
    got,     \* the region that _vregion_alloc returned last
    cause    \* why the kernel stopped

vars == <<cache, slab, freeV, tailV, usedV, granted, mapped, stack, ret, got, cause>>

\* The three caches the kernel starts with; clients' caches follow.
ObjsCache == 1
SlabCache == 2
VregionCache == 3
CacheIds == DOMAIN cache

Region(first, pages) == [first |-> first, pages |-> pages]
NoRegion == Region(0, 0)   \* NULL
PagesOf(r) == r.first .. (r.first + r.pages - 1)
WholeWindow == (FirstVpn - 3)..LastVpn

Page(block, i) == [block |-> block, page |-> i]
NoPage == Page(0, 0)   \* not present

NewCache(kind) ==
    [objs |-> kind.objs, pages |-> kind.pages, free |-> 0, used |-> 0,
     slabs |-> 0, freeSlabs |-> <<>>, partialSlabs |-> <<>>, fullSlabs |-> <<>>]

\* A call in progress: where it stands, its cache, the Slab object it holds
\* and its parameters (the objects of a slab, the pages it asks for).
Kind(objs, pages) == [objs |-> objs, pages |-> pages]
FrameOf(at, c, kind) == [at |-> at, cache |-> c, slab |-> 0, kind |-> kind]
Frame(at, c) == FrameOf(at, c, Kind(0, 0))
RegionCall(at, pages) == FrameOf(at, VregionCache, Kind(0, pages))
Top == Head(stack)
At(place) == stack # <<>> /\ cause = "none" /\ Top.at = place

\* How the function at the top of the stack goes on.
Goto(frame)        == stack' = <<frame>> \o Tail(stack)
Enter(callee, top) == stack' = <<callee, top>> \o Tail(stack)
Return             == stack' = Tail(stack)
CallIf(test, callee, top) == IF test THEN Enter(callee, top) ELSE Goto(top)

memory  == <<granted, mapped>>
heap    == <<cache, slab, memory>>
regions == <<freeV, tailV, usedV>>

\* A KASSERT or panic(), which stops the kernel; after "wild" it may do
\* anything, a pointer that was never set has been followed.
Halt(why) == cause' = why /\ UNCHANGED <<heap, regions, stack, ret, got>>

Halted == cause # "none" /\ UNCHANGED vars
----------------------------------------------------------------------------
(***************************************************************************)
(* Caches and slabs.                                                       *)
(***************************************************************************)
\* _retrieve_free_obj_from_objs_cache takes an object of the first partial
\* slab, else of the first free slab, and moves the slab to the list that now
\* fits it.  There is no object when both lists are empty, and
\* alloc_obj_from_slab refuses a slab without a free object.
PickSlab(k) == Head(k.partialSlabs \o k.freeSlabs)

CanRetrieve(c) ==
    LET k == cache[c] IN
    k.partialSlabs \o k.freeSlabs # <<>> /\ slab[PickSlab(k)].free > 0

\* Mutant of Retrieved: a slab counts as full one object too late.
RetrievedFullLate(k) ==
    LET s    == PickSlab(k)
        full == slab[s].free = 0
        left == IF k.partialSlabs # <<>>
                THEN [k EXCEPT !.partialSlabs = Tail(@)]
                ELSE [k EXCEPT !.freeSlabs = Tail(@)]
    IN  [left EXCEPT
            !.free = @ - 1, !.used = @ + 1,
            !.partialSlabs = IF full THEN @ ELSE <<s>> \o @,
            !.fullSlabs    = IF full THEN <<s>> \o @ ELSE @]

\* Mutant of Retrieved: a slab that is full now is put on no list.
RetrievedFullLost(k) ==
    LET s    == PickSlab(k)
        left == IF k.partialSlabs # <<>>
                THEN [k EXCEPT !.partialSlabs = Tail(@)]
                ELSE [k EXCEPT !.freeSlabs = Tail(@)]
    IN  [left EXCEPT
            !.free = @ - 1, !.used = @ + 1,
            !.partialSlabs = IF slab[s].free = 1 THEN @ ELSE <<s>> \o @]

Retrieved(k) ==
    LET s    == PickSlab(k)
        full == slab[s].free = 1
        left == IF k.partialSlabs # <<>>
                THEN [k EXCEPT !.partialSlabs = Tail(@)]
                ELSE [k EXCEPT !.freeSlabs = Tail(@)]
    IN  [left EXCEPT
            !.free = @ - 1, !.used = @ + 1,
            !.partialSlabs = IF full THEN @ ELSE <<s>> \o @,
            !.fullSlabs    = IF full THEN <<s>> \o @ ELSE @]

SlabAfterRetrieve(c) == [slab EXCEPT ![PickSlab(cache[c])].free = @ - 1]

\* Mutant of WithSlab: the objects of the slab are not counted.
WithSlabObjsUncounted(k, s) ==
    [k EXCEPT !.slabs = @ + 1, !.freeSlabs = <<s>> \o @]

\* objs_cache_add_slab with SLAB_STATUS_FREE.
WithSlab(k, s) ==
    [k EXCEPT !.free = @ + k.objs, !.slabs = @ + 1,
              !.freeSlabs = <<s>> \o @]

\* initialize_slab of the Slab object s on a region, for a cache of that kind.
InitializedSlab(slabs, s, objs, region) ==
    [i \in DOMAIN slabs \cup {s} |->
        IF i = s THEN [free |-> objs, region |-> region] ELSE slabs[i]]

\* ppages_alloc rounds the number of pages up to a power of two; no page of
\* the block has a slab.
PpagesAlloc(n) ==
    LET size == Min({2^o : o \in 0..n} \cap n..(2 * n))
    IN granted' = Append(granted, [i \in 1..size |-> 0])

\* Mutant of MapPages: the whole block is mapped.
MapWholeBlock(block, first, n) ==
    [v \in WholeWindow |-> IF v \in first..(first + Len(granted[block]) - 1)
                           THEN Page(block, v - first + 1) ELSE mapped[v]]

\* map_pages of the first n pages of a block.
MapPages(block, first, n) ==
    [v \in WholeWindow |-> IF v \in first..(first + n - 1)
                           THEN Page(block, v - first + 1) ELSE mapped[v]]

\* ppages_set_slab
PpagesSetSlab(block, n, s) ==
    [granted EXCEPT ![block] = [i \in DOMAIN @ |-> IF i <= n THEN s ELSE @[i]]]
----------------------------------------------------------------------------
(***************************************************************************)
(* Boot: the three caches, each with a slab of which three objects are in  *)
(* use, then virtual_page_boot_init allocates the Vregion of the window.   *)
(***************************************************************************)
BootCache(objs, s) ==
    [NewCache(Kind(objs, 1))
        EXCEPT !.free = objs - 3, !.used = 3, !.slabs = 1, !.partialSlabs = <<s>>]

BootRegion(i) == Region(FirstVpn - 4 + i, 1)

Init ==
    LET objs == <<ObjsObjsCache, ObjsSlab, ObjsVregion>> IN
    /\ cache = [c \in 1..3 |-> BootCache(objs[c], c)]
    /\ slab = [s \in 1..3 |-> [free |-> objs[s] - 3, region |-> BootRegion(s)]]
    /\ usedV = [i \in 1..3 |-> BootRegion(i)]
    /\ freeV = <<>> /\ tailV = "null"
    /\ granted = <<<<1>>, <<2>>, <<3>>>>
    /\ mapped = [v \in WholeWindow |-> IF v < FirstVpn THEN Page(v - FirstVpn + 4, 1)
                                        ELSE NoPage]
    /\ stack = <<Frame("alloc", VregionCache), Frame("boot", VregionCache)>>
    /\ ret = 0 /\ got = NoRegion /\ cause = "none"

\* The end of virtual_page_boot_init.  vregion_init does not set the field
\* next of the object, which keeps what the page held before: the list of
\* free regions ends in NULL or in a wild pointer.
BootReturns ==
    /\ At("boot")
    /\ freeV' = <<Region(FirstVpn, LastVpn - FirstVpn + 1)>>
    /\ tailV' \in {"null", "wild"}
    /\ Return
    /\ UNCHANGED <<heap, usedV, ret, got, cause>>
----------------------------------------------------------------------------
(***************************************************************************)
(* Regions of virtual pages.                                               *)
(***************************************************************************)
\* vregion_alloc
RegionAlloc ==
    /\ At("region")
    /\ IF cache[VregionCache].free < MinVregion THEN Halt("reserve")
       ELSE /\ CallIf(cache[VregionCache].free = MinVregion,
                      Frame("special", VregionCache), [Top EXCEPT !.at = "_region"])
            /\ UNCHANGED <<heap, regions, ret, got, cause>>

\* Mutant of Fitting: the first region is taken whatever its size.
FittingAny == DOMAIN freeV

\* _vregion_alloc takes the first free region that is big enough.
Fitting == {i \in DOMAIN freeV : freeV[i].pages >= Top.kind.pages}

NoRegionFits ==
    /\ At("_region") /\ Fitting = {}
    /\ IF tailV = "wild" THEN Halt("wild")
       ELSE IF freeV = <<>> THEN Halt("novirtual")
       ELSE got' = NoRegion /\ Return /\ UNCHANGED <<heap, regions, ret, cause>>

\* list_insert_ordered with vregion_cmp, which is positive when the second
\* region comes after the first: el goes in front of the first region that
\* does not lie above it.  A list without such a region is walked off its end.
Stops(list, el) == {i \in DOMAIN list : list[i].first <= el.first}
InsertOrdered(list, el) ==
    IF list = <<>> THEN <<el>> ELSE InsertAt(list, Min(Stops(list, el)), el)

\* Mutant of UpperPart: the pages of the lower part are not taken off.
UpperPartTooLong(r, n) == Region(r.first + n, r.pages)

\* vregion_split: the new object describes the upper part.
UpperPart(r, n) == Region(r.first + n, r.pages - n)

\* The lower part is used; the upper part, if any, takes its place in the
\* list of free regions with a Vregion object of its own.
RegionFits ==
    /\ At("_region") /\ Fitting # {}
    /\ LET i     == Min(Fitting)
           old   == freeV[i]
           taken == Region(old.first, Top.kind.pages)
           upper == UpperPart(old, Top.kind.pages)
           split == upper.pages > 0
       IN IF split /\ ~CanRetrieve(VregionCache) THEN Halt("noobject")
          ELSE IF usedV # <<>> /\ Stops(usedV, taken) = {} THEN Halt("order")
          ELSE /\ freeV' = IF split THEN [freeV EXCEPT ![i] = upper]
                                    ELSE RemoveAt(freeV, i)
               /\ usedV' = InsertOrdered(usedV, taken)
               /\ cache' = IF split
                           THEN [cache EXCEPT ![VregionCache] = Retrieved(@)]
                           ELSE cache
               /\ slab' = IF split THEN SlabAfterRetrieve(VregionCache) ELSE slab
               /\ got' = taken
               /\ Return
               /\ UNCHANGED <<memory, tailV, ret, cause>>
----------------------------------------------------------------------------
(***************************************************************************)
(* objs_cache_alloc.                                                       *)
(***************************************************************************)
AllocEnter ==
    /\ At("alloc")
    /\ IF cache[SlabCache].free < MinSlab THEN Halt("reserve")
       ELSE /\ CallIf(cache[SlabCache].free = MinSlab,
                      Frame("special", SlabCache), [Top EXCEPT !.at = "alloc2"])
            /\ UNCHANGED <<heap, regions, ret, got, cause>>

AllocRefillVregion ==
    /\ At("alloc2")
    /\ CallIf(cache[VregionCache].free = MinVregion,
              Frame("special", VregionCache), [Top EXCEPT !.at = "alloc3"])
    /\ UNCHANGED <<heap, regions, ret, got, cause>>

AllocNeedsSlab ==
    /\ At("alloc3")
    /\ IF cache[Top.cache].free = 0
       THEN Enter(Frame("create", Top.cache), [Top EXCEPT !.at = "alloc4"])
       ELSE Goto([Top EXCEPT !.at = "alloc5"])
    /\ UNCHANGED <<heap, regions, ret, got, cause>>

\* create_slab returned the slab ret.
AllocAddSlab ==
    /\ At("alloc4")
    /\ IF slab[ret].free # cache[Top.cache].objs THEN Halt("notfree")
       ELSE /\ cache' = [cache EXCEPT ![Top.cache] = WithSlab(@, ret)]
            /\ Goto([Top EXCEPT !.at = "alloc5"])
            /\ UNCHANGED <<slab, memory, regions, ret, got, cause>>

\* The object returned is named by its rank in the cache.
AllocObject ==
    /\ At("alloc5")
    /\ IF ~CanRetrieve(Top.cache) THEN Halt("noobject")
       ELSE /\ cache' = [cache EXCEPT ![Top.cache] = Retrieved(@)]
            /\ slab' = SlabAfterRetrieve(Top.cache)
            /\ ret' = cache[Top.cache].used + 1
            /\ Return
            /\ UNCHANGED <<memory, regions, got, cause>>
----------------------------------------------------------------------------
(***************************************************************************)
(* create_slab.                                                            *)
(***************************************************************************)
CreateSlabObject ==
    /\ At("create")
    /\ Enter(Frame("alloc", SlabCache), [Top EXCEPT !.at = "create2"])
    /\ UNCHANGED <<heap, regions, ret, got, cause>>

CreateRegion ==
    /\ At("create2")
    /\ Enter(RegionCall("region", cache[Top.cache].pages),
             [Top EXCEPT !.at = "create3", !.slab = ret])
    /\ UNCHANGED <<heap, regions, ret, got, cause>>

\* Without a region create_slab gives the Slab object back, which
\* objs_cache_free answers with panic().  ppages_alloc may stop the kernel.
CreatePages ==
    /\ At("create3")
    /\ IF got = NoRegion THEN Halt("objsfree")
       ELSE \/ Halt("nomem")
            \/ /\ PpagesAlloc(cache[Top.cache].pages)
               /\ Goto([Top EXCEPT !.at = "create4"])
               /\ UNCHANGED <<cache, slab, mapped, regions, ret, got, cause>>

\* map_pages of the block just granted to the region just found.
MapSlab(place, then) ==
    /\ At(place)
    /\ mapped' = MapPages(Len(granted), got.first, cache[Top.cache].pages)
    /\ Goto([Top EXCEPT !.at = then])
    /\ UNCHANGED <<cache, slab, granted, regions, ret, got, cause>>

CreateMaps == MapSlab("create4", "create5")

\* initialize_slab writes the list of free objects into the slab.
CreateReturns ==
    /\ At("create5")
    /\ IF mapped[got.first] = NoPage THEN Halt("fault")
       ELSE /\ slab' = InitializedSlab(slab, Top.slab, cache[Top.cache].objs, got)
            /\ granted' = PpagesSetSlab(Len(granted), cache[Top.cache].pages, Top.slab)
            /\ ret' = Top.slab
            /\ Return
            /\ UNCHANGED <<cache, mapped, regions, got, cause>>
----------------------------------------------------------------------------
(***************************************************************************)
(* _create_slab_for_cache_Slab and _create_slab_for_cache_Vregion: the     *)
(* frame's cache is the one that gets the slab.                            *)
(***************************************************************************)
Reserve(c) == IF c = SlabCache THEN MinSlab ELSE MinVregion
Other(c)   == IF c = SlabCache THEN VregionCache ELSE SlabCache

\* Mutant of SpecialRegion: the region comes from vregion_alloc.
SpecialRegionRefilling ==
    /\ At("special")
    /\ Enter(RegionCall("region", 1), [Top EXCEPT !.at = "special2"])
    /\ UNCHANGED <<heap, regions, ret, got, cause>>

SpecialRegion ==
    /\ At("special")
    /\ IF cache[Top.cache].free < Reserve(Top.cache) - 1 THEN Halt("reserve")
       ELSE /\ Enter(RegionCall("_region", 1), [Top EXCEPT !.at = "special2"])
            /\ UNCHANGED <<heap, regions, ret, got, cause>>

\* The Slab object comes straight from its cache, and KASSERT(a_vregion !=
\* NULL) after it.
SpecialPages ==
    /\ At("special2")
    /\ IF ~CanRetrieve(SlabCache) THEN Halt("noobject")
       ELSE IF got = NoRegion THEN Halt("novirtual")
       ELSE \/ Halt("nomem")
            \/ /\ PpagesAlloc(1)
               /\ cache' = [cache EXCEPT ![SlabCache] = Retrieved(@)]
               /\ slab' = SlabAfterRetrieve(SlabCache)
               /\ Goto([Top EXCEPT !.at = "special3", !.slab = cache[SlabCache].used + 1])
               /\ UNCHANGED <<mapped, regions, ret, got, cause>>

SpecialMaps == MapSlab("special3", "special4")

\* The new slab is set up and added to the frame's cache.  Its pages are not
\* marked, "TODO : reference the slab in the Ppage structures".
SpecialAddsSlab ==
    /\ At("special4")
    /\ IF mapped[got.first] = NoPage THEN Halt("fault")
       ELSE /\ slab' = InitializedSlab(slab, Top.slab, cache[Top.cache].objs, got)
            /\ cache' = [cache EXCEPT ![Top.cache] = WithSlab(@, Top.slab)]
            /\ Goto([Top EXCEPT !.at = "special5"])
            /\ UNCHANGED <<memory, regions, ret, got, cause>>

\* The other cache is refilled in turn if this call took its last but one.
SpecialRefillsOther ==
    /\ At("special5")
    /\ LET c == Other(Top.cache) IN
       CallIf(cache[c].free = Reserve(c) - 1, Frame("special", c),
              [Top EXCEPT !.at = "special6"])
    /\ UNCHANGED <<heap, regions, ret, got, cause>>

\* Mutant of SpecialReturns: the test on the other cache is repeated.
SpecialRepeats ==
    /\ At("special6") /\ Goto([Top EXCEPT !.at = "special5"])
    /\ UNCHANGED <<heap, regions, ret, got, cause>>

SpecialReturns ==
    /\ At("special6") /\ Return
    /\ UNCHANGED <<heap, regions, ret, got, cause>>
----------------------------------------------------------------------------
(***************************************************************************)
(* The calls of clients, one at a time.                                    *)
(***************************************************************************)
Idle == stack = <<>> /\ cause = "none"

ClientCall(frames) == Idle /\ stack' = frames /\ UNCHANGED <<heap, regions, ret, got, cause>>

\* objs_cache_alloc; the caches of slabs and regions are private.
ObjsCacheAlloc(c) == ClientCall(<<Frame("alloc", c)>>)

VregionAlloc(pages) == ClientCall(<<RegionCall("region", pages)>>)

\* objs_cache_create, of a cache whose slabs hold at least one object: the
\* structure is allocated, then objs_cache_init links it.
ObjsCacheCreate(kind) ==
    /\ Len(cache) < MaxCaches
    /\ ClientCall(<<Frame("alloc", ObjsCache), FrameOf("register", ObjsCache, kind)>>)

ObjsCacheInit ==
    /\ At("register")
    /\ cache' = Append(cache, NewCache(Top.kind))
    /\ Return
    /\ UNCHANGED <<slab, memory, regions, ret, got, cause>>

\* objs_cache_free is not implemented: panic().
ObjsCacheFree == Idle /\ Halt("free")

Client == \/ \E c \in CacheIds \ {ObjsCache, SlabCache, VregionCache} : ObjsCacheAlloc(c)
          \/ \E kind \in Kinds : ObjsCacheCreate(kind) \/ VregionAlloc(kind.pages)
          \/ ObjsCacheFree

Step == \/ BootReturns \/ RegionAlloc \/ NoRegionFits \/ RegionFits
        \/ AllocEnter \/ AllocRefillVregion \/ AllocNeedsSlab
        \/ AllocAddSlab \/ AllocObject
        \/ CreateSlabObject \/ CreateRegion \/ CreatePages \/ CreateMaps
        \/ CreateReturns \/ SpecialRegion \/ SpecialPages \/ SpecialMaps
        \/ SpecialAddsSlab \/ SpecialRefillsOther
        \/ SpecialReturns \/ ObjsCacheInit

Next == Step \/ Client \/ Halted

Spec == Init /\ [][Next]_vars
\* The processor keeps executing the call in progress.
FairSpec == Spec /\ WF_vars(Step)
----------------------------------------------------------------------------
(***************************************************************************)
(* Properties.                                                             *)
(***************************************************************************)
Places == {"boot", "alloc", "alloc2", "alloc3", "alloc4", "alloc5", "create",
           "create2", "create3", "create4", "create5", "region", "_region",
           "special", "special2", "special3", "special4", "special5", "special6",
           "register"}
Causes == {"none", "reserve", "noobject", "notfree", "order", "novirtual",
           "wild", "objsfree", "nomem", "fault", "free"}
Regions == [first : 0..LastVpn, pages : 0..LastVpn]

\* The shape of the heap and of the calls in progress.
TypeOK ==
    /\ cache \in Seq([objs : Nat, pages : Nat, free : Nat, used : Nat,
                      slabs : Nat, freeSlabs : Seq(DOMAIN slab),
                      partialSlabs : Seq(DOMAIN slab), fullSlabs : Seq(DOMAIN slab)])
    /\ \A s \in DOMAIN slab : slab[s] \in [free : Nat, region : Regions]
    /\ freeV \in Seq(Regions) /\ usedV \in Seq(Regions) /\ tailV \in {"null", "wild"}
    /\ stack \in Seq([at : Places, cache : CacheIds, slab : Nat,
                      kind : [objs : Nat, pages : Nat]])
    /\ granted \in Seq(Seq(Nat))
    /\ mapped \in [WholeWindow -> [block : 0..Len(granted), page : Nat]]
    /\ ret \in Nat /\ got \in Regions /\ cause \in Causes

\* The two reserves suffice: however allocations and refills nest, none of
\* the assertions on the reserves fails (slab.c:467, 592, 622 and
\* virtual_pages.c:210), and an object taken from a reserve without going
\* through objs_cache_alloc is there.
ReservesHold == cause \notin {"reserve", "noobject", "notfree", "order"}

\* The counters of a cache say what its slabs hold, and each slab is in the
\* list of its state, in no other list, and there once; objs_cache_alloc and
\* the reserves only look at counters.  As no object is given back, a cache
\* never has two partial slabs.
Listed(k) == ToSet(k.freeSlabs) \cup ToSet(k.partialSlabs) \cup ToSet(k.fullSlabs)

ListsApart(k) ==
    /\ IsInjective(k.freeSlabs) /\ IsInjective(k.fullSlabs)
    /\ ToSet(k.freeSlabs) \cap ToSet(k.partialSlabs) = {}
    /\ ToSet(k.freeSlabs) \cap ToSet(k.fullSlabs) = {}
    /\ ToSet(k.partialSlabs) \cap ToSet(k.fullSlabs) = {}

InListOfItsState(k) ==
    /\ \A s \in ToSet(k.freeSlabs) : slab[s].free = k.objs
    /\ \A s \in ToSet(k.partialSlabs) : slab[s].free \in 1..(k.objs - 1)
    /\ \A s \in ToSet(k.fullSlabs) : slab[s].free = 0

Counted(k) ==
    /\ k.slabs = Len(k.freeSlabs) + Len(k.partialSlabs) + Len(k.fullSlabs)
    /\ Len(k.partialSlabs) <= 1
    /\ k.free = Len(k.freeSlabs) * k.objs
                + (IF k.partialSlabs = <<>> THEN 0 ELSE slab[Head(k.partialSlabs)].free)
    /\ k.free + k.used = k.slabs * k.objs

CountsAgree ==
    /\ \A c \in CacheIds : LET k == cache[c] IN
          ListsApart(k) /\ InListOfItsState(k) /\ Counted(k)
    /\ \A c, d \in CacheIds : c # d => Listed(cache[c]) \cap Listed(cache[d]) = {}

\* Nothing leaks between two calls: every Slab object in use is a slab of
\* exactly one cache, every Vregion object in use is a region, every
\* Objs_cache in use is a cache.
ObjectsAccounted ==
    Idle =>
        /\ UNION {Listed(cache[c]) : c \in CacheIds} = 1..cache[SlabCache].used
        /\ cache[VregionCache].used = Len(freeV) + Len(usedV)
        /\ cache[ObjsCache].used = Len(cache)

\* Free and used regions never overlap and together make up the window, and
\* no two slabs have the same region.
RegionsPartition ==
    LET all == freeV \o usedV IN
    /\ \A i, j \in DOMAIN all : i # j => PagesOf(all[i]) \cap PagesOf(all[j]) = {}
    /\ (\A i \in DOMAIN stack : stack[i].at # "boot") =>
          UNION {PagesOf(r) : r \in ToSet(all)} = WholeWindow
    /\ \A s \in DOMAIN slab : slab[s].region \in ToSet(usedV)
    /\ \A s, t \in DOMAIN slab : s # t => slab[s].region # slab[t].region

\* Between physical pages, regions and slabs: the memory of a slab is its own
\* region, page after page mapped to one block that nothing else is mapped to;
\* no other page of the window is mapped; what a physical page says of its slab
\* is true; and no slab is written before it is mapped.
SlabsBacked ==
    /\ cause # "fault"
    /\ \A s \in DOMAIN slab : LET r == slab[s].region IN
          \E b \in DOMAIN granted : \A v \in PagesOf(r) : mapped[v] = Page(b, v - r.first + 1)
    /\ \A u, v \in WholeWindow : u # v /\ mapped[u] # NoPage => mapped[u] # mapped[v]
    /\ (\A i \in DOMAIN stack : stack[i].at \notin {"create5", "special4"}) =>
          \A v \in WholeWindow : mapped[v] # NoPage =>
              \E s \in DOMAIN slab : v \in PagesOf(slab[s].region)
    /\ \A b \in DOMAIN granted : \A i \in DOMAIN granted[b] : granted[b][i] # 0 =>
          \E v \in PagesOf(slab[granted[b][i]].region) : mapped[v] = Page(b, i)

Refill == {"special", "special2", "special3", "special4", "special5", "special6"}

\* The two refill functions call each other, yet neither is ever entered
\* while it is already running: the kernel's stack stays small.
NoReentry ==
    \A i, j \in DOMAIN stack :
        /\ {stack[i].at, stack[j].at} \subseteq Refill
        /\ stack[i].cache = stack[j].cache
        => i = j

\* Virtual pages are granted as PageGrants says, whoever asks: a slab being
\* created or a client of vregion_alloc.  Regions are never returned.
Window == FirstVpn..LastVpn
SizeIn(used) == [p \in Window |-> IF \E r \in used : r.first = p
                                  THEN (CHOOSE r \in used : r.first = p).pages ELSE 0]
RegionSize == SizeIn(ToSet(usedV))
Lengths == {1} \cup {k.pages : k \in Kinds}
Grants == INSTANCE PageGrants WITH
    Pages <- Window, Grantable <- Window, Lengths <- Lengths,
    size <- RegionSize, stopped <- (cause # "none")

ImplementsGrants == Grants!GrantSpec

(***************************************************************************)
(* The inductive invariant.  Which call may be below which, and how many   *)
(* free objects each may rely on when it goes on, decide together that the *)
(* two refill functions stop calling each other.                           *)
(***************************************************************************)
TopAt(places) == stack # <<>> /\ Top.at \in places
Below(i) == IF i < Len(stack) THEN stack[i + 1] ELSE Frame("none", 0)

AllocPlaces  == {"alloc", "alloc2", "alloc3", "alloc4", "alloc5"}
CreatePlaces == {"create", "create2", "create3", "create4", "create5"}
RegionPlaces == {"region", "_region"}

\* The call f may be in progress above g, of which it will be the callee.
MayCall(f, g) ==
    \/ f.at \in AllocPlaces /\ f.cache = SlabCache /\ f.at # "alloc4" /\ g.at = "create2"
    \/ f.at \in AllocPlaces /\ f.cache = VregionCache /\ f.at # "alloc4" /\ g.at = "boot"
    \/ f.at \in AllocPlaces /\ f.cache = ObjsCache /\ g.at = "register"
    \/ f.at \in AllocPlaces /\ f.cache > VregionCache /\ g.at = "none"
    \/ f.at \in CreatePlaces /\ f.cache \notin {SlabCache, VregionCache}
       /\ g.at = "alloc4" /\ g.cache = f.cache
    \/ f.at = "region" /\ g.at \in {"none", "create3"}
    \/ f.at = "_region" /\ g.at \in {"none", "create3", "special2"}
    \/ f.at \in Refill /\ f.cache = SlabCache
       /\ \/ g.at = "alloc2" /\ g.cache # VregionCache
          \/ g.at = "special6" /\ g.cache = VregionCache
    \/ f.at \in Refill /\ f.cache = VregionCache
       /\ \/ g.at = "alloc3" /\ g.cache \notin {SlabCache, VregionCache}
          \/ g.at = "_region"
          \/ g.at = "special6" /\ g.cache = SlabCache
    \/ f.at \in {"boot", "register"} /\ g.at = "none"

\* Above a refill there are only refills and the search for their region.
StackInv ==
    /\ \A i \in DOMAIN stack : MayCall(stack[i], Below(i))
    /\ \A i, j \in DOMAIN stack : i < j /\ stack[j].at \in Refill =>
          stack[i].at \in Refill \/ (i = 1 /\ stack[1].at = "_region")
    /\ NoReentry

\* The reserves of Slab and of Vregion objects have s and v objects at least.
Left(s, v) == cache[SlabCache].free >= s /\ cache[VregionCache].free >= v

\* What is left when a refill is entered, by its caller g.
SlabsAtRefill(g) == CASE g.at = "alloc3" -> 3
                      [] g.at = "special6" /\ g.cache = VregionCache -> 1
                      [] g.at = "special6" /\ g.cache = SlabCache -> 6
                      [] OTHER -> 2
RegionsAtRefill(g) == CASE g.at = "alloc2" /\ g.cache = SlabCache -> 4
                        [] g.at = "special6" /\ g.cache = VregionCache -> 6
                        [] g.at = "special6" /\ g.cache = SlabCache -> 1
                        [] OTHER -> 2

RefillInv(f, g) ==
    LET s == SlabsAtRefill(g)
        v == RegionsAtRefill(g)
    IN  /\ f.at = "special" => Left(s, v)
        /\ f.at = "special2" => Left(s, v - 1)
        /\ f.at \in {"special3", "special4"} => Left(s - 1, v - 1)
        /\ f.at = "special5" => IF f.cache = SlabCache THEN Left(6, v - 1)
                                                       ELSE Left(s - 1, 6)
        /\ f.at = "special6" => IF f.cache = SlabCache
                                THEN Left(5, v - 1) /\ Left(5, 2)
                                ELSE Left(s - 1, 5) /\ Left(2, 5)

\* An allocation of a Slab object, or the first of all, needs no refill of
\* Vregions any more.
Private == {SlabCache, VregionCache}
AllocInv(f) ==
    /\ f.at = "alloc" => Left(2, 2)
    /\ f.at = "alloc2" => Left(3, 2)
    /\ f.at = "alloc3" => Left(2, 3)
    /\ f.cache \in Private => /\ f.at = "alloc" => Left(2, 3)
                              /\ f.at \in {"alloc2", "alloc3", "alloc5"} => Left(3, 3)
    /\ f.at = "alloc" /\ f.cache = VregionCache => Left(3, 3)
    /\ (f.at = "alloc" /\ f.cache = SlabCache) \/ f.at = "alloc3" => Left(3, 3) \/ Left(2, 4)
    /\ f.at \in {"alloc4", "alloc5"} => Left(2, 2)
    /\ f.at = "alloc5" => cache[f.cache].free > 0

\* The search of a region for a refill finds what the refill was left.
RegionInv(f, g, h) ==
    /\ f.at = "region" => Left(2, 2) /\ (g.at = "create3" => Left(2, 3))
    /\ f.at = "_region" => IF g.at = "special2"
                           THEN Left(SlabsAtRefill(h), RegionsAtRefill(h))
                           ELSE Left(2, 3)

ReserveInv ==
    IF stack = <<>> THEN Left(2, 2)
    ELSE /\ RefillInv(Top, Below(1)) /\ AllocInv(Top)
         /\ RegionInv(Top, Below(1), Below(2))
         /\ Top.at = "create" => Left(3, 3) \/ Left(2, 4)
         /\ Top.at = "create2" => Left(2, 3)
         /\ Top.at \in {"create3", "create4", "create5", "boot", "register"} => Left(2, 2)

\* Every Slab object in use is a slab, or in the hands of a call that makes it
\* one; every slab is in a list, or about to be put there.
Holding == {i \in DOMAIN stack : stack[i].at \in {"create3", "create4", "create5",
                                                  "special3", "special4"}}
Pending == {stack[i].slab : i \in Holding} \cup (IF TopAt({"create2"}) THEN {ret} ELSE {})
Unlisted == IF TopAt({"alloc4"}) THEN {ret} ELSE {}

SlabsInv ==
    /\ Pending \subseteq 1..cache[SlabCache].used
    /\ DOMAIN slab = (1..cache[SlabCache].used) \ Pending
    /\ \A i, j \in Holding : i # j => stack[i].slab # stack[j].slab
    /\ TopAt({"create2"}) => \A i \in Holding : stack[i].slab # ret
    /\ Unlisted \subseteq DOMAIN slab
    /\ UNION {Listed(cache[c]) : c \in CacheIds} = DOMAIN slab \ Unlisted
    /\ TopAt({"alloc4"}) => slab[ret].free = cache[Top.cache].objs

\* The caches, and what clients ask of them.
CachesInv ==
    /\ Len(cache) >= 3
    /\ cache[ObjsCache].objs = ObjsObjsCache /\ cache[SlabCache].objs = ObjsSlab
    /\ cache[VregionCache].objs = ObjsVregion
    /\ cache[SlabCache].pages = 1 /\ cache[VregionCache].pages = 1
    /\ \A c \in CacheIds : cache[c].objs > 0 /\ cache[c].pages \in Lengths
    /\ \A i \in DOMAIN stack :
          /\ stack[i].at = "register" => stack[i].kind \in Kinds
          /\ stack[i].at \in RegionPlaces => stack[i].kind.pages \in Lengths
    /\ cache[VregionCache].used
          = Len(freeV) + Len(usedV) + (IF TopAt({"boot"}) THEN 1 ELSE 0)
    /\ cache[ObjsCache].used = Len(cache) + (IF TopAt({"register"}) THEN 1 ELSE 0)

\* Regions are taken from the bottom of the one free region there is, so that
\* the used ones lie below it; the region that a call has found is not a slab's.
Booting == \E i \in DOMAIN stack : stack[i].at = "boot"
Frontier == IF Booting THEN FirstVpn
            ELSE IF freeV = <<>> THEN LastVpn + 1 ELSE freeV[1].first

RegionsInv ==
    /\ Booting => freeV = <<>>
    /\ freeV # <<>> => /\ Len(freeV) = 1 /\ freeV[1].pages > 0 /\ freeV[1].first >= FirstVpn
                       /\ freeV[1].first + freeV[1].pages = LastVpn + 1
    /\ usedV # <<>>
    /\ \A i \in DOMAIN usedV : /\ usedV[i].pages > 0 /\ usedV[i].first >= FirstVpn - 3
                               /\ usedV[i].first + usedV[i].pages <= Frontier
    /\ \A i, j \in DOMAIN usedV : i < j =>
          \/ usedV[i].first + usedV[i].pages <= usedV[j].first
          \/ usedV[j].first + usedV[j].pages <= usedV[i].first
    /\ \A v \in (FirstVpn - 3)..(Frontier - 1) :
          \E i \in DOMAIN usedV : v \in PagesOf(usedV[i])

GotInv ==
    /\ \A s \in DOMAIN slab : slab[s].region \in ToSet(usedV)
    /\ \A s, t \in DOMAIN slab : s # t => slab[s].region # slab[t].region
    /\ TopAt({"create4", "create5", "special3", "special4"}) => got # NoRegion
    /\ TopAt({"create3", "create4", "create5", "special2", "special3", "special4"})
          /\ got # NoRegion =>
          got \in ToSet(usedV) /\ \A s \in DOMAIN slab : slab[s].region # got

HeapInv == /\ TypeOK /\ StackInv /\ ReserveInv /\ CountsAgree /\ SlabsInv
           /\ CachesInv /\ RegionsInv /\ GotInv /\ ReservesHold

\* The memory of slabs.  A region is as long as the slabs of the cache it is
\* for, from the call that asks for it on; a block just granted is mapped
\* nowhere and marked with no slab until the region found is mapped to it.
MapTops == {"create4", "special3"}
WriteTops == {"create5", "special4"}
LastBlock == Len(granted)

LengthsInv ==
    /\ \A i \in DOMAIN stack :
          stack[i].at \in RegionPlaces /\ Below(i).at \in {"create3", "special2"} =>
              stack[i].kind.pages = cache[Below(i).cache].pages
    /\ TopAt({"create3", "special2"} \cup MapTops \cup WriteTops) /\ got # NoRegion =>
          got.pages = cache[Top.cache].pages

BlocksInv ==
    /\ granted # <<>>
    /\ TopAt(MapTops \cup WriteTops) =>
          \A i \in DOMAIN granted[LastBlock] : granted[LastBlock][i] = 0
    /\ TopAt(MapTops) => \A v \in WholeWindow : mapped[v].block # LastBlock
    /\ TopAt(WriteTops) =>
          \A v \in PagesOf(got) : mapped[v] = Page(LastBlock, v - got.first + 1)
    /\ \A v \in WholeWindow : mapped[v] # NoPage =>
          \/ \E s \in DOMAIN slab : v \in PagesOf(slab[s].region)
          \/ TopAt(WriteTops) /\ v \in PagesOf(got)
    /\ \A b \in DOMAIN granted : \A i \in DOMAIN granted[b] :
          granted[b][i] # 0 => granted[b][i] \in DOMAIN slab

MemoryInv == HeapInv /\ LengthsInv /\ BlocksInv /\ SlabsBacked

\* Every call ends, or the kernel stops.
CallEnds == stack # <<>> ~> (stack = <<>> \/ cause # "none")

\* The last region of the free list "is linked to the empty list".
NoWildLink == cause # "wild"
=============================================================================
