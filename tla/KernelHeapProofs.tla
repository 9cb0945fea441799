-------------------------- MODULE KernelHeapProofs --------------------------
(***************************************************************************)
(* The slab allocator and the allocator of regions, for slabs of every     *)
(* size the boot code accepts, every window and every kind of cache.       *)
(***************************************************************************)
EXTENDS KernelHeap, TLAPS, WellFoundedInduction

(***************************************************************************)
(* The stack of calls.                                                     *)
(***************************************************************************)
LEMMA Replaced ==
    ASSUME NEW T, NEW s \in Seq(T), s # <<>>, NEW f \in T, NEW t, t = <<f>> \o Tail(s)
    PROVE  /\ t \in Seq(T) /\ t # <<>> /\ Len(t) = Len(s) /\ Head(t) = f /\ t[1] = f
           /\ DOMAIN t = DOMAIN s
           /\ \A i \in 2..Len(s) : t[i] = s[i]
  OBVIOUS

\* A stack with a call and its caller in the place of its first frame.
LEMMA Entered ==
    ASSUME NEW T, NEW s \in Seq(T), s # <<>>, NEW e \in T, NEW f \in T,
           NEW t, t = <<e, f>> \o Tail(s)
    PROVE  /\ t \in Seq(T) /\ t # <<>> /\ Len(t) = Len(s) + 1 /\ Head(t) = e
           /\ t[1] = e /\ t[2] = f
           /\ DOMAIN t = 1..(Len(s) + 1)
           /\ \A i \in 3..(Len(s) + 1) : t[i] = s[i - 1]
  OBVIOUS

\* A stack without its first frame.
LEMMA Returned ==
    ASSUME NEW T, NEW s \in Seq(T), s # <<>>, NEW t, t = Tail(s)
    PROVE  /\ t \in Seq(T) /\ Len(t) = Len(s) - 1 /\ DOMAIN t = 1..(Len(s) - 1)
           /\ \A i \in 1..(Len(s) - 1) : t[i] = s[i + 1]
           /\ t # <<>> => Head(t) = s[2]
  OBVIOUS

Frames == [at : Places, cache : Nat, slab : Nat, kind : [objs : Nat, pages : Nat]]

\* A function goes on to its next place.
LEMMA GotoStack ==
    ASSUME StackInv, stack \in Seq(Frames), stack # <<>>, NEW f \in Frames, Goto(f),
           MayCall(f, Below(1)),
           f.at \in Refill <=> Top.at \in Refill, f.at \in Refill => f.cache = Top.cache,
           Top.at # "_region"
    PROVE  /\ StackInv' /\ stack' \in Seq(Frames) /\ stack' # <<>> /\ Top' = f
           /\ Below(1)' = Below(1) /\ Below(2)' = Below(2)
<1>1. /\ stack' \in Seq(Frames) /\ stack' # <<>> /\ Len(stack') = Len(stack)
      /\ Head(stack') = f /\ stack'[1] = f /\ DOMAIN stack' = DOMAIN stack
      /\ \A i \in 2..Len(stack) : stack'[i] = stack[i]
  BY Replaced DEF Goto
<1>2. /\ Len(stack) \in Nat /\ Len(stack) > 0 /\ DOMAIN stack = 1..Len(stack)
      /\ Top = stack[1]
  BY DEF Top
<1>3. \A i \in 1..Len(stack) : Below(i)' = Below(i)
  BY <1>1, <1>2 DEF Below
<1>4. Below(2)' = Below(2)
  BY <1>1, <1>2 DEF Below
<1>5. \A i \in DOMAIN stack' : MayCall(stack'[i], Below(i)')
  <2> SUFFICES ASSUME NEW i \in DOMAIN stack' PROVE MayCall(stack'[i], Below(i)')
    OBVIOUS
  <2>1. CASE i = 1
    BY <1>1, <1>2, <1>3, <2>1
  <2>2. CASE i # 1
    <3>1. i \in 2..Len(stack)
      BY <1>1, <1>2, <2>2
    <3> QED
      BY <1>1, <1>2, <1>3, <3>1 DEF StackInv
  <2> QED
    BY <2>1, <2>2
<1>6. ASSUME NEW i \in DOMAIN stack', NEW j \in DOMAIN stack', i < j, stack'[j].at \in Refill
      PROVE  stack'[i].at \in Refill \/ (i = 1 /\ stack'[1].at = "_region")
  <2>1. j \in 2..Len(stack) /\ stack'[j] = stack[j]
    BY <1>1, <1>2, <1>6
  <2>2. stack[i].at \in Refill \/ (i = 1 /\ stack[1].at = "_region")
    BY <1>1, <1>2, <1>6, <2>1 DEF StackInv
  <2>3. CASE i = 1
    BY <1>1, <1>2, <2>2, <2>3
  <2>4. CASE i # 1
    BY <1>1, <1>2, <2>2, <2>4
  <2> QED
    BY <2>3, <2>4
<1>7. NoReentry'
  <2>1. \A i \in DOMAIN stack' : /\ stack'[i].at \in Refill <=> stack[i].at \in Refill
                                 /\ stack[i].at \in Refill => stack'[i].cache = stack[i].cache
    BY <1>1, <1>2
  <2>2. NoReentry
    BY DEF StackInv
  <2> QED
    BY <1>1, <2>1, <2>2 DEF NoReentry
<1> QED
  BY <1>1, <1>2, <1>3, <1>4, <1>5, <1>6, <1>7 DEF StackInv, Top

\* A function returns to the one below.
LEMMA ReturnStack ==
    ASSUME StackInv, stack \in Seq(Frames), stack # <<>>, Return
    PROVE  /\ StackInv' /\ stack' \in Seq(Frames)
           /\ IF stack' = <<>> THEN Below(1) = Frame("none", 0)
              ELSE /\ Top' = Below(1) /\ Below(1)' = Below(2)
                   /\ MayCall(Top, Top')
<1>1. /\ stack' \in Seq(Frames) /\ Len(stack') = Len(stack) - 1
      /\ DOMAIN stack' = 1..(Len(stack) - 1)
      /\ \A i \in 1..(Len(stack) - 1) : stack'[i] = stack[i + 1]
      /\ stack' # <<>> => Head(stack') = stack[2]
  BY Returned DEF Return
<1>2. /\ Len(stack) \in Nat /\ Len(stack) > 0 /\ DOMAIN stack = 1..Len(stack)
      /\ Top = stack[1] /\ (stack' = <<>> <=> Len(stack) = 1)
  BY <1>1 DEF Top
<1>3. \A i \in 1..(Len(stack) - 1) : Below(i)' = Below(i + 1)
  BY <1>1, <1>2 DEF Below
<1>4. \A i \in DOMAIN stack' : MayCall(stack'[i], Below(i)')
  BY SMTT(30), <1>1, <1>2, <1>3 DEF StackInv
<1>5. ASSUME NEW i \in DOMAIN stack', NEW j \in DOMAIN stack', i < j, stack'[j].at \in Refill
      PROVE  stack'[i].at \in Refill \/ (i = 1 /\ stack'[1].at = "_region")
  <2>1. i + 1 \in DOMAIN stack /\ j + 1 \in DOMAIN stack /\ i + 1 < j + 1 /\ i + 1 # 1
    BY <1>1, <1>2, <1>5
  <2>2. stack[j + 1].at \in Refill
    BY <1>1, <1>5
  <2>3. stack[i + 1].at \in Refill
    BY <2>1, <2>2 DEF StackInv
  <2> QED
    BY <1>1, <2>3
<1>6. NoReentry'
  <2> SUFFICES ASSUME NEW i \in DOMAIN stack', NEW j \in DOMAIN stack',
                      stack'[i].at \in Refill, stack'[j].at \in Refill,
                      stack'[i].cache = stack'[j].cache
               PROVE  i = j
    BY DEF NoReentry
  <2>1. i + 1 \in DOMAIN stack /\ j + 1 \in DOMAIN stack
    BY <1>1, <1>2
  <2>2. i + 1 = j + 1
    BY <1>1, <2>1 DEF StackInv, NoReentry
  <2> QED
    BY <1>1, <2>2
<1>7. stack' # <<>> => Top' = Below(1) /\ Below(1)' = Below(2)
  BY <1>1, <1>2, <1>3 DEF Below, Top
<1>8. stack' = <<>> => Below(1) = Frame("none", 0)
  BY <1>2 DEF Below
<1>9. MayCall(Top, Below(1))
  BY <1>2 DEF StackInv
<1> QED
  BY <1>1, <1>4, <1>5, <1>6, <1>7, <1>8, <1>9 DEF StackInv

\* A function calls another.  A refill is only entered above functions that are
\* not part of one, or by the other refill.
LEMMA EnterStack ==
    ASSUME StackInv, stack \in Seq(Frames), stack # <<>>, NEW e \in Frames, NEW f \in Frames,
           Enter(e, f), MayCall(e, f), MayCall(f, Below(1)),
           \/ Top.at \notin Refill \cup {"_region"} /\ f.at \notin Refill
           \/ /\ Top.at \in Refill /\ f.at \in Refill /\ f.cache = Top.cache
              /\ \/ e.at = "_region"
                 \/ e.at \in Refill /\ e.cache # f.cache /\ Below(1).at \notin Refill
    PROVE  /\ StackInv' /\ stack' \in Seq(Frames) /\ stack' # <<>> /\ Top' = e
           /\ Below(1)' = f /\ Below(2)' = Below(1)
<1>1. /\ stack' \in Seq(Frames) /\ stack' # <<>> /\ Len(stack') = Len(stack) + 1
      /\ Head(stack') = e /\ stack'[1] = e /\ stack'[2] = f
      /\ DOMAIN stack' = 1..(Len(stack) + 1)
      /\ \A i \in 3..(Len(stack) + 1) : stack'[i] = stack[i - 1]
  BY Entered DEF Enter
<1>2. /\ Len(stack) \in Nat /\ Len(stack) > 0 /\ DOMAIN stack = 1..Len(stack)
      /\ Top = stack[1]
  BY DEF Top
<1>3. /\ Below(1)' = f /\ Below(2)' = Below(1)
      /\ \A i \in 2..(Len(stack) + 1) : Below(i)' = Below(i - 1)
  BY <1>1, <1>2 DEF Below
<1>4. \A i \in DOMAIN stack' : MayCall(stack'[i], Below(i)')
  <2> SUFFICES ASSUME NEW i \in DOMAIN stack' PROVE MayCall(stack'[i], Below(i)')
    OBVIOUS
  <2>1. CASE i = 1
    BY <1>1, <1>3, <2>1
  <2>2. CASE i = 2
    BY <1>1, <1>3, <2>2
  <2>3. CASE i \notin {1, 2}
    <3>1. i \in 3..(Len(stack) + 1) /\ i - 1 \in DOMAIN stack
      BY <1>1, <1>2, <2>3
    <3> QED
      BY <1>1, <1>3, <3>1 DEF StackInv
  <2> QED
    BY <2>1, <2>2, <2>3
\* The refills of the stack: with none at its top there is none.
<1>5. ASSUME Top.at \notin Refill \cup {"_region"}, NEW j \in DOMAIN stack
      PROVE  stack[j].at \notin Refill
  <2>1. CASE j = 1
    BY <1>2, <1>5, <2>1
  <2>2. CASE j # 1
    BY <1>2, <1>5, <2>2 DEF StackInv
  <2> QED
    BY <2>1, <2>2
<1>6. ASSUME Below(1).at \notin Refill, NEW j \in DOMAIN stack, j # 1
      PROVE  stack[j].at \notin Refill
  <2>1. Len(stack) > 1 /\ Below(1) = stack[2]
    BY <1>2, <1>6 DEF Below
  <2>2. CASE j = 2
    BY <1>6, <2>1, <2>2
  <2>3. CASE j # 2
    BY <1>2, <1>6, <2>1, <2>3 DEF StackInv
  <2> QED
    BY <2>2, <2>3
<1>7. \A i \in 3..(Len(stack) + 1) : i - 1 \in DOMAIN stack /\ i - 1 # 1
  BY <1>2
<1>8. ASSUME NEW i \in DOMAIN stack', NEW j \in DOMAIN stack', i < j, stack'[j].at \in Refill
      PROVE  stack'[i].at \in Refill \/ (i = 1 /\ stack'[1].at = "_region")
  <2>1. CASE Top.at \notin Refill \cup {"_region"}
    <3>1. f.at \notin Refill
      BY <2>1
    <3>2. j # 2
      BY <1>1, <1>8, <3>1
    <3>3. j \in 3..(Len(stack) + 1)
      BY <1>1, <1>2, <1>8, <3>2
    <3> QED
      BY <1>1, <1>5, <1>7, <1>8, <2>1, <3>3
  <2>2. CASE Top.at \in Refill
    <3>1. f.at \in Refill /\ (e.at = "_region" \/ e.at \in Refill)
      BY <2>2
    <3>2. CASE i = 1
      BY <1>1, <3>1, <3>2
    <3>3. CASE i = 2
      BY <1>1, <3>1, <3>3
    <3>4. CASE i \notin {1, 2}
      <4>1. i \in 3..(Len(stack) + 1) /\ j \in 3..(Len(stack) + 1)
        BY <1>1, <1>2, <1>8, <3>4
      <4>2. stack'[i] = stack[i - 1] /\ stack'[j] = stack[j - 1] /\ i - 1 < j - 1
        BY <1>1, <1>8, <4>1
      <4> QED
        BY <1>7, <1>8, <4>1, <4>2 DEF StackInv
    <3> QED
      BY <3>2, <3>3, <3>4
  <2> QED
    BY <2>1, <2>2
<1>9. NoReentry'
  <2> SUFFICES ASSUME NEW i \in DOMAIN stack', NEW j \in DOMAIN stack', i < j,
                      stack'[i].at \in Refill, stack'[j].at \in Refill,
                      stack'[i].cache = stack'[j].cache
               PROVE  FALSE
    <3>1. DOMAIN stack' \subseteq Int
      BY <1>1, <1>2
    <3> QED
      BY <3>1 DEF NoReentry
  <2>1. CASE Top.at \notin Refill \cup {"_region"}
    <3>1. f.at \notin Refill
      BY <2>1
    <3>2. j # 2
      BY <1>1, <3>1
    <3>3. j \in 3..(Len(stack) + 1)
      BY <1>1, <1>2, <3>2
    <3> QED
      BY <1>1, <1>5, <1>7, <2>1, <3>3
  <2>2. CASE Top.at \in Refill
    <3>1. /\ f.at \in Refill /\ f.cache = Top.cache
          /\ \/ e.at = "_region"
             \/ e.at \in Refill /\ e.cache # f.cache /\ Below(1).at \notin Refill
      BY <2>2
    <3>2. CASE i = 1
      <4>1. e.at \in Refill /\ e.cache # f.cache /\ Below(1).at \notin Refill
        BY <1>1, <3>1, <3>2 DEF Refill
      <4>2. j # 2
        BY <1>1, <3>2, <4>1
      <4>3. j \in 3..(Len(stack) + 1)
        BY <1>1, <1>2, <3>2, <4>2
      <4> QED
        BY <1>1, <1>6, <1>7, <4>1, <4>3
    <3>3. CASE i = 2
      <4>1. j \in 3..(Len(stack) + 1)
        BY <1>1, <1>2, <3>3
      <4>2. stack'[j] = stack[j - 1] /\ j - 1 \in DOMAIN stack /\ j - 1 # 1
        BY <1>1, <1>7, <4>1
      <4> QED
        BY <1>1, <1>2, <2>2, <3>1, <3>3, <4>2 DEF StackInv, NoReentry
    <3>4. CASE i \notin {1, 2}
      <4>1. i \in 3..(Len(stack) + 1) /\ j \in 3..(Len(stack) + 1)
        BY <1>1, <1>2, <3>4
      <4>2. stack'[i] = stack[i - 1] /\ stack'[j] = stack[j - 1] /\ i - 1 # j - 1
        BY <1>1, <4>1
      <4> QED
        BY <1>7, <4>1, <4>2 DEF StackInv, NoReentry
    <3> QED
      BY <3>2, <3>3, <3>4
  <2> QED
    BY <2>1, <2>2
<1> QED
  BY <1>1, <1>3, <1>4, <1>8, <1>9 DEF StackInv, Top

(***************************************************************************)
(* The reserves.  A step is taken with the free objects that ReserveInv    *)
(* leaves to the function at the top, and leaves them to the next.         *)
(***************************************************************************)
CacheRecords == [objs : Nat, pages : Nat, free : Nat, used : Nat, slabs : Nat,
                 freeSlabs : Seq(DOMAIN slab), partialSlabs : Seq(DOMAIN slab),
                 fullSlabs : Seq(DOMAIN slab)]

\* The caches are a sequence of records of counters and lists.
LEMMA CacheTypes ==
    ASSUME HeapInv
    PROVE  /\ cache \in Seq(CacheRecords) /\ Len(cache) \in Nat /\ CacheIds = 1..Len(cache)
           /\ \A c \in CacheIds : cache[c] \in CacheRecords
<1>1. cache \in Seq(CacheRecords)
  BY DEF HeapInv, TypeOK, CacheRecords
<1> QED
  BY <1>1 DEF CacheIds

\* The functions at the top of the stack are frames, each above its caller.
LEMMA TopFacts ==
    ASSUME HeapInv, stack # <<>>
    PROVE  /\ stack \in Seq(Frames) /\ Top \in Frames /\ Top.cache \in CacheIds
           /\ MayCall(Top, Below(1))
           /\ Below(1).at # "none" => MayCall(Below(1), Below(2)) /\ Below(1) \in Frames
<1>1. stack \in Seq([at : Places, cache : CacheIds, slab : Nat,
                     kind : [objs : Nat, pages : Nat]])
  BY DEF HeapInv, TypeOK
<1> DEFINE T == [at : Places, cache : CacheIds, slab : Nat, kind : [objs : Nat, pages : Nat]]
<1>2. T \subseteq Frames /\ \A f \in T : f.cache \in CacheIds
  BY CacheTypes DEF Frames
<1> HIDE DEF T
<1>3. stack \in Seq(T)
  BY <1>1 DEF T
<1>4. /\ stack \in Seq(Frames)
      /\ \A i \in DOMAIN stack : stack[i] \in Frames /\ stack[i].cache \in CacheIds
  BY <1>2, <1>3
<1>5. Len(stack) \in Nat /\ Len(stack) > 0 /\ DOMAIN stack = 1..Len(stack) /\ Top = stack[1]
  BY <1>1 DEF Top
<1>6. MayCall(stack[1], Below(1))
  BY <1>5 DEF HeapInv, StackInv
<1>7. Below(1).at # "none" => 2 \in DOMAIN stack /\ Below(1) = stack[2]
  BY <1>5 DEF Below, Frame, FrameOf
<1>8. Below(1).at # "none" => MayCall(Below(1), Below(2))
  BY <1>7 DEF HeapInv, StackInv
<1> QED
  BY <1>4, <1>5, <1>6, <1>7, <1>8

\* The kernel's own caches exist; their slabs have the objects that boot asserts.
LEMMA Counters ==
    ASSUME HeapInv
    PROVE  /\ {ObjsCache, SlabCache, VregionCache} \subseteq CacheIds
           /\ \A c \in CacheIds : /\ cache[c].free \in Nat /\ cache[c].used \in Nat
                                  /\ cache[c].objs \in Nat /\ cache[c].objs > 0
                                  /\ cache[c].pages \in Nat
           /\ cache[SlabCache].objs = ObjsSlab /\ ObjsSlab \in Nat /\ ObjsSlab >= 6
           /\ cache[VregionCache].objs = ObjsVregion
           /\ ObjsVregion \in Nat /\ ObjsVregion >= 6
           /\ CacheIds = 1..Len(cache) /\ Len(cache) \in Nat
<1>1. Len(cache) >= 3
  BY DEF HeapInv, CachesInv
<1>2. \A c \in CacheIds : /\ cache[c].free \in Nat /\ cache[c].used \in Nat
                          /\ cache[c].objs \in Nat /\ cache[c].pages \in Nat
  BY CacheTypes DEF CacheRecords
<1> QED
  BY <1>1, <1>2, CacheTypes, ReserveAssumption
     DEF HeapInv, CachesInv, CacheIds, ObjsCache, SlabCache, VregionCache

\* A frame that moves on changes its place only.
LEMMA Moved ==
    ASSUME NEW f \in Frames, NEW p \in Places, NEW g, g = [f EXCEPT !.at = p]
    PROVE  g \in Frames /\ g.at = p /\ g.cache = f.cache /\ g.slab = f.slab /\ g.kind = f.kind
BY DEF Frames

\* What a new frame holds.
LEMMA NewFrame ==
    ASSUME NEW p \in Places, NEW c \in Nat, NEW kind \in [objs : Nat, pages : Nat],
           NEW f, f = FrameOf(p, c, kind)
    PROVE  f \in Frames /\ f.at = p /\ f.cache = c /\ f.slab = 0 /\ f.kind = kind
BY DEF Frames, FrameOf

\* What the frame of a call without parameters holds.
LEMMA CallFrame ==
    ASSUME NEW p \in Places, NEW c \in Nat, NEW f, f = Frame(p, c)
    PROVE  f \in Frames /\ f.at = p /\ f.cache = c
BY DEF Frames, FrameOf, Frame, Kind

\* What the frame of a refill holds.
LEMMA NewSpecial ==
    ASSUME NEW c \in {SlabCache, VregionCache}, NEW f, f = Frame("special", c)
    PROVE  f \in Frames /\ f.at = "special" /\ f.cache = c
BY CallFrame DEF Places, SlabCache, VregionCache

\* What the frame of a search for a region holds.
LEMMA NewRegionCall ==
    ASSUME NEW p \in RegionPlaces, NEW n \in Nat, NEW f, f = RegionCall(p, n)
    PROVE  f \in Frames /\ f.at = p /\ f.cache = VregionCache /\ f.kind.pages = n
BY DEF Frames, FrameOf, RegionCall, Kind, Places, RegionPlaces, VregionCache

\* What a step owes the functions in progress.
GoesOn == StackInv' /\ ReserveInv' /\ cause' \notin {"reserve", "noobject", "notfree", "order"}

\* objs_cache_alloc, up to its search for an object.
LEMMA AllocEnterGoesOn == HeapInv /\ AllocEnter => GoesOn
<1> SUFFICES ASSUME HeapInv, AllocEnter PROVE GoesOn
  OBVIOUS
<1>1. stack # <<>> /\ Top.at = "alloc" /\ cause = "none"
  BY DEF AllocEnter, At
<1>2. AllocInv(Top)
  BY <1>1 DEF HeapInv, ReserveInv
<1>3. Left(2, 2) /\ (Top.cache = VregionCache => Left(3, 3))
      /\ (Top.cache = SlabCache => Left(2, 3) /\ (Left(3, 3) \/ Left(2, 4)))
  BY <1>1, <1>2 DEF AllocInv, Private
<1>4. /\ CallIf(cache[SlabCache].free = MinSlab, Frame("special", SlabCache),
                [Top EXCEPT !.at = "alloc2"])
      /\ UNCHANGED <<cache, cause>>
  BY <1>3, Counters DEF AllocEnter, Left, MinSlab, heap
<1> DEFINE f == [Top EXCEPT !.at = "alloc2"]
<1>5. f \in Frames /\ f.at = "alloc2" /\ f.cache = Top.cache
  BY <1>1, TopFacts, Moved DEF Places
<1>6. MayCall(f, Below(1))
  BY <1>1, <1>5, TopFacts DEF MayCall, AllocPlaces, CreatePlaces, Refill
<1> HIDE DEF f
<1>7. CASE cache[SlabCache].free = MinSlab
  <2> DEFINE e == Frame("special", SlabCache)
  <2>1. e \in Frames /\ e.at = "special" /\ e.cache = SlabCache
    BY NewSpecial
  <2> HIDE DEF e
  <2>2. Enter(e, f)
    BY <1>4, <1>7 DEF CallIf, e, f
  <2>3. MayCall(e, f)
    BY <1>3, <1>5, <1>7, <2>1, Counters DEF MayCall, Refill, Left, MinSlab
  <2>4. StackInv' /\ stack' # <<>> /\ Top' = e /\ Below(1)' = f
    BY <1>1, <1>5, <1>6, <2>1, <2>2, <2>3, TopFacts, EnterStack DEF HeapInv, Refill
  <2>5. Left(2, IF f.cache = SlabCache THEN 4 ELSE 2)
    BY <1>3, <1>5, <1>7, Counters DEF Left, MinSlab
  <2>6. SlabsAtRefill(f) = 2 /\ RegionsAtRefill(f) = IF f.cache = SlabCache THEN 4 ELSE 2
    BY <1>5 DEF SlabsAtRefill, RegionsAtRefill
  <2>7. ReserveInv'
    BY <1>4, <2>1, <2>4, <2>5, <2>6 DEF ReserveInv, RefillInv, AllocInv, RegionInv, Left
  <2> QED
    BY <1>1, <1>4, <2>4, <2>7 DEF GoesOn
<1>8. CASE cache[SlabCache].free # MinSlab
  <2>1. Goto(f)
    BY <1>4, <1>8 DEF CallIf, f
  <2>2. StackInv' /\ stack' # <<>> /\ Top' = f
    BY <1>1, <1>5, <1>6, <2>1, TopFacts, GotoStack DEF HeapInv, Refill
  <2>3. Left(3, 2) /\ (f.cache \in Private => Left(3, 3))
    BY <1>3, <1>5, <1>8, Counters DEF Left, MinSlab, Private
  <2>4. ReserveInv'
    BY <1>4, <1>5, <2>2, <2>3 DEF ReserveInv, RefillInv, AllocInv, RegionInv, Left
  <2> QED
    BY <1>1, <1>4, <2>2, <2>4 DEF GoesOn
<1> QED
  BY <1>7, <1>8

\* objs_cache_alloc has refilled Slab objects: it refills Vregions, or not.
LEMMA AllocRefillGoesOn == HeapInv /\ AllocRefillVregion => GoesOn
<1> SUFFICES ASSUME HeapInv, AllocRefillVregion PROVE GoesOn
  OBVIOUS
<1>1. stack # <<>> /\ Top.at = "alloc2" /\ cause = "none"
  BY DEF AllocRefillVregion, At
<1>2. AllocInv(Top)
  BY <1>1 DEF HeapInv, ReserveInv
<1>3. Left(3, 2) /\ (Top.cache \in Private => Left(3, 3))
  BY <1>1, <1>2 DEF AllocInv
<1>4. /\ CallIf(cache[VregionCache].free = MinVregion, Frame("special", VregionCache),
                [Top EXCEPT !.at = "alloc3"])
      /\ UNCHANGED <<cache, cause>>
  BY DEF AllocRefillVregion, heap
<1> DEFINE f == [Top EXCEPT !.at = "alloc3"]
<1>5. f \in Frames /\ f.at = "alloc3" /\ f.cache = Top.cache
  BY <1>1, TopFacts, Moved DEF Places
<1>6. MayCall(f, Below(1))
  BY <1>1, <1>5, TopFacts DEF MayCall, AllocPlaces, CreatePlaces, Refill
<1> HIDE DEF f
<1>7. CASE cache[VregionCache].free = MinVregion
  <2> DEFINE e == Frame("special", VregionCache)
  <2>1. e \in Frames /\ e.at = "special" /\ e.cache = VregionCache
    BY NewSpecial
  <2> HIDE DEF e
  <2>2. Enter(e, f)
    BY <1>4, <1>7 DEF CallIf, e, f
  <2>3. MayCall(e, f)
    BY <1>3, <1>5, <1>7, <2>1, Counters DEF MayCall, Refill, Left, MinVregion, Private
  <2>4. StackInv' /\ stack' # <<>> /\ Top' = e /\ Below(1)' = f
    BY <1>1, <1>5, <1>6, <2>1, <2>2, <2>3, TopFacts, EnterStack DEF HeapInv, Refill
  <2>5. SlabsAtRefill(f) = 3 /\ RegionsAtRefill(f) = 2
    BY <1>5 DEF SlabsAtRefill, RegionsAtRefill
  <2>6. ReserveInv'
    BY <1>3, <1>4, <2>1, <2>4, <2>5 DEF ReserveInv, RefillInv, AllocInv, RegionInv, Left
  <2> QED
    BY <1>1, <1>4, <2>4, <2>6 DEF GoesOn
<1>8. CASE cache[VregionCache].free # MinVregion
  <2>1. Goto(f)
    BY <1>4, <1>8 DEF CallIf, f
  <2>2. StackInv' /\ stack' # <<>> /\ Top' = f
    BY <1>1, <1>5, <1>6, <2>1, TopFacts, GotoStack DEF HeapInv, Refill
  <2>3. Left(3, 3)
    BY <1>3, <1>8, Counters DEF Left, MinVregion
  <2>4. ReserveInv'
    BY <1>4, <1>5, <2>2, <2>3, Counters DEF ReserveInv, RefillInv, AllocInv, RegionInv, Left
  <2> QED
    BY <1>1, <1>4, <2>2, <2>4 DEF GoesOn
<1> QED
  BY <1>7, <1>8

\* objs_cache_alloc, both reserves refilled, looks for a slab with room.
LEMMA AllocNeedsSlabGoesOn == HeapInv /\ AllocNeedsSlab => GoesOn
<1> SUFFICES ASSUME HeapInv, AllocNeedsSlab PROVE GoesOn
  OBVIOUS
<1>1. stack # <<>> /\ Top.at = "alloc3" /\ cause = "none" /\ UNCHANGED <<cache, cause>>
  BY DEF AllocNeedsSlab, At, heap
<1>2. AllocInv(Top)
  BY <1>1 DEF HeapInv, ReserveInv
<1>3. /\ Left(2, 3) /\ (Left(3, 3) \/ Left(2, 4))
      /\ Top.cache \in Private => Left(3, 3)
  BY <1>1, <1>2 DEF AllocInv
<1>4. Top \in Frames /\ MayCall(Top, Below(1)) /\ Top.cache \in CacheIds
      /\ stack \in Seq(Frames)
  BY <1>1, TopFacts
<1>5. CASE cache[Top.cache].free = 0
  <2> DEFINE e == Frame("create", Top.cache)
             f == [Top EXCEPT !.at = "alloc4"]
  <2>1. Enter(e, f)
    BY <1>5 DEF AllocNeedsSlab
  <2>2. f \in Frames /\ f.at = "alloc4" /\ f.cache = Top.cache
    BY <1>4, Moved DEF Places
  <2>3. e \in Frames /\ e.at = "create" /\ e.cache = Top.cache
    <3>1. Top.cache \in Nat /\ "create" \in Places
      BY <1>4 DEF Places, Frames
    <3> QED
      BY <3>1, CallFrame DEF e
  <2> HIDE DEF e, f
  <2>4. Top.cache \notin Private
    BY <1>3, <1>5, Counters DEF Left, Private
  <2>5. MayCall(f, Below(1))
    BY <1>1, <1>4, <2>2, <2>4
       DEF MayCall, AllocPlaces, CreatePlaces, Refill, Private
  <2>6. MayCall(e, f)
    BY <2>2, <2>3, <2>4 DEF MayCall, CreatePlaces, Private
  <2>7. StackInv' /\ stack' # <<>> /\ Top' = e
    BY <1>1, <1>4, <2>1, <2>2, <2>3, <2>5, <2>6, EnterStack DEF HeapInv, Refill
  <2>8. ReserveInv'
    BY <1>1, <1>3, <2>3, <2>7 DEF ReserveInv, RefillInv, AllocInv, RegionInv, Left
  <2> QED
    BY <1>1, <2>7, <2>8 DEF GoesOn
<1>6. CASE cache[Top.cache].free # 0
  <2> DEFINE f == [Top EXCEPT !.at = "alloc5"]
  <2>1. Goto(f)
    BY <1>6 DEF AllocNeedsSlab
  <2>2. f \in Frames /\ f.at = "alloc5" /\ f.cache = Top.cache
    BY <1>4, Moved DEF Places
  <2> HIDE DEF f
  <2>3. MayCall(f, Below(1))
    BY <1>1, <1>4, <2>2 DEF MayCall, AllocPlaces, CreatePlaces, Refill
  <2>4. StackInv' /\ stack' # <<>> /\ Top' = f
    BY <1>1, <1>4, <2>1, <2>2, <2>3, GotoStack DEF HeapInv, Refill
  <2>5. cache[f.cache].free > 0 /\ Left(2, 2) /\ (f.cache \in Private => Left(3, 3))
    BY SMTT(30), <1>3, <1>4, <1>6, <2>2, Counters DEF Left
  <2>6. ReserveInv'
    BY <1>1, <2>2, <2>4, <2>5 DEF ReserveInv, RefillInv, AllocInv, RegionInv, Left
  <2> QED
    BY <1>1, <2>4, <2>6 DEF GoesOn
<1> QED
  BY <1>5, <1>6

\* The first of two sequences in a row is the first of the first that is not empty.
LEMMA FirstOfBoth ==
    ASSUME NEW T, NEW p \in Seq(T), NEW q \in Seq(T), p # <<>>
    PROVE  p \o q # <<>> /\ Head(p \o q) = Head(p)
<1>1. Len(p \o q) > 0 /\ (p \o q)[1] = p[1]
  OBVIOUS
<1> QED
  BY <1>1

\* A cache that counts a free object has a slab to take it from.
LEMMA FreeMeansRetrievable ==
    ASSUME HeapInv, NEW c \in CacheIds, cache[c].free > 0
    PROVE  CanRetrieve(c)
<1> DEFINE k == cache[c]
<1>1. /\ k.objs \in Nat /\ k.objs > 0 /\ k.free \in Nat
      /\ k.freeSlabs \in Seq(DOMAIN slab) /\ k.partialSlabs \in Seq(DOMAIN slab)
  BY CacheTypes, Counters DEF CacheRecords
<1>2. InListOfItsState(k) /\ Counted(k)
  BY DEF HeapInv, CountsAgree
<1>3. k.free > 0
  OBVIOUS
<1> HIDE DEF k
<1>4. CASE k.partialSlabs # <<>>
  <2>1. Head(k.partialSlabs) \in ToSet(k.partialSlabs)
    BY <1>1, <1>4 DEF ToSet
  <2>2. slab[Head(k.partialSlabs)].free > 0
    BY <1>1, <1>2, <2>1 DEF InListOfItsState
  <2>3. /\ k.partialSlabs \o k.freeSlabs # <<>>
        /\ Head(k.partialSlabs \o k.freeSlabs) = Head(k.partialSlabs)
    BY <1>1, <1>4, FirstOfBoth
  <2> QED
    BY <2>2, <2>3 DEF CanRetrieve, PickSlab, k
<1>5. CASE k.partialSlabs = <<>>
  <2>1. k.freeSlabs # <<>>
    <3>1. k.free = Len(k.freeSlabs) * k.objs
      BY <1>1, <1>2, <1>5 DEF Counted
    <3> QED
      BY <1>1, <1>3, <3>1
  <2>2. Head(k.freeSlabs) \in ToSet(k.freeSlabs)
    BY <1>1, <2>1 DEF ToSet
  <2>3. slab[Head(k.freeSlabs)].free > 0
    BY <1>1, <1>2, <2>2 DEF InListOfItsState
  <2>4. k.partialSlabs \o k.freeSlabs = k.freeSlabs
    BY <1>1, <1>5
  <2> QED
    BY <2>1, <2>3, <2>4 DEF CanRetrieve, PickSlab, k
<1> QED
  BY <1>4, <1>5

\* What taking an object and adding a slab do to the counters.
LEMMA RetrievedCounts ==
    ASSUME NEW k \in CacheRecords, NEW r, r = Retrieved(k)
    PROVE  /\ r.free = k.free - 1 /\ r.used = k.used + 1
           /\ r.objs = k.objs /\ r.pages = k.pages /\ r.slabs = k.slabs
BY DEF Retrieved, CacheRecords

\* objs_cache_add_slab, field by field.
LEMMA WithSlabCounts ==
    ASSUME NEW k \in CacheRecords, NEW s, NEW r, r = WithSlab(k, s)
    PROVE  /\ r.free = k.free + k.objs /\ r.used = k.used
           /\ r.objs = k.objs /\ r.pages = k.pages /\ r.slabs = k.slabs + 1
           /\ r.freeSlabs = <<s>> \o k.freeSlabs /\ r.partialSlabs = k.partialSlabs
           /\ r.fullSlabs = k.fullSlabs
BY DEF WithSlab, CacheRecords

\* An object taken from a cache: one less is free there, other caches are as before.
LEMMA RetrievedFrom ==
    ASSUME HeapInv, NEW c \in CacheIds, cache' = [cache EXCEPT ![c] = Retrieved(@)]
    PROVE  /\ CacheIds' = CacheIds /\ Len(cache') = Len(cache)
           /\ cache'[c] = Retrieved(cache[c])
           /\ cache'[c].free = cache[c].free - 1
           /\ \A d \in CacheIds : d # c => cache'[d] = cache[d]
<1>1. /\ CacheIds' = CacheIds /\ Len(cache') = Len(cache)
      /\ cache'[c] = Retrieved(cache[c])
      /\ \A d \in CacheIds : d # c => cache'[d] = cache[d]
  BY CacheTypes DEF CacheIds
<1>2. cache[c] \in CacheRecords
  BY CacheTypes
<1> QED
  BY <1>1, <1>2, RetrievedCounts

\* A slab added to a cache: its objects are free there, other caches are as before.
LEMMA AddedTo ==
    ASSUME HeapInv, NEW c \in CacheIds, NEW s,
           cache' = [cache EXCEPT ![c] = WithSlab(@, s)]
    PROVE  /\ CacheIds' = CacheIds /\ Len(cache') = Len(cache)
           /\ cache'[c] = WithSlab(cache[c], s)
           /\ cache'[c].free = cache[c].free + cache[c].objs
           /\ \A d \in CacheIds : d # c => cache'[d] = cache[d]
<1>1. /\ CacheIds' = CacheIds /\ Len(cache') = Len(cache)
      /\ cache'[c] = WithSlab(cache[c], s)
      /\ \A d \in CacheIds : d # c => cache'[d] = cache[d]
  BY CacheTypes DEF CacheIds
<1>2. cache[c] \in CacheRecords
  BY CacheTypes
<1>3. WithSlab(cache[c], s).free = cache[c].free + cache[c].objs
  BY <1>2, WithSlabCounts
<1> QED
  BY <1>1, <1>3

\* A kernel that stops leaves everything as it is.
LEMMA StoppedStack ==
    ASSUME HeapInv, UNCHANGED <<stack, cache>>
    PROVE  StackInv' /\ ReserveInv'
<1>1. StackInv /\ ReserveInv
  BY DEF HeapInv
<1>2. StackInv'
  BY <1>1 DEF StackInv, NoReentry, Below
<1>3. ReserveInv'
  BY <1>1 DEF ReserveInv, RefillInv, AllocInv, RegionInv, Left, Below, Top
<1> QED
  BY <1>2, <1>3

\* A stop that no assertion on the reserves causes.
LEMMA HaltGoesOn ==
    ASSUME HeapInv, NEW why, Halt(why),
           why \notin {"reserve", "noobject", "notfree", "order"}
    PROVE  GoesOn
BY StoppedStack DEF Halt, GoesOn, heap

\* objs_cache_alloc adds the slab that create_slab has made.
LEMMA AllocAddSlabGoesOn == HeapInv /\ AllocAddSlab => GoesOn
<1> SUFFICES ASSUME HeapInv, AllocAddSlab PROVE GoesOn
  OBVIOUS
<1>1. stack # <<>> /\ Top.at = "alloc4" /\ cause = "none"
  BY DEF AllocAddSlab, At
<1>2. Left(2, 2)
  BY <1>1 DEF HeapInv, ReserveInv, AllocInv
<1>3. Top \in Frames /\ MayCall(Top, Below(1)) /\ Top.cache \in CacheIds
      /\ stack \in Seq(Frames)
  BY <1>1, TopFacts
<1>4. Top.cache \notin Private
  BY <1>1, <1>3 DEF MayCall, AllocPlaces, CreatePlaces, Refill, Private,
                    ObjsCache, SlabCache, VregionCache, Frames
<1>5. slab[ret].free = cache[Top.cache].objs
  BY <1>1 DEF HeapInv, SlabsInv, TopAt
<1> DEFINE f == [Top EXCEPT !.at = "alloc5"]
<1>6. cache' = [cache EXCEPT ![Top.cache] = WithSlab(@, ret)] /\ Goto(f)
      /\ cause' = cause
  BY <1>5 DEF AllocAddSlab
<1>7. f \in Frames /\ f.at = "alloc5" /\ f.cache = Top.cache
  BY <1>3, Moved DEF Places
<1> HIDE DEF f
<1>8. MayCall(f, Below(1))
  BY <1>1, <1>3, <1>4, <1>7 DEF MayCall, AllocPlaces, CreatePlaces, Refill
<1>9. StackInv' /\ stack' # <<>> /\ Top' = f
  BY <1>1, <1>3, <1>6, <1>7, <1>8, GotoStack DEF HeapInv, Refill
<1>10. /\ cache'[SlabCache] = cache[SlabCache] /\ cache'[VregionCache] = cache[VregionCache]
       /\ cache'[Top.cache].free = cache[Top.cache].free + cache[Top.cache].objs
  <2>1. SlabCache # Top.cache /\ VregionCache # Top.cache
    BY <1>4 DEF Private
  <2> QED
    BY <1>3, <1>6, <2>1, AddedTo, Counters
<1>12. Left(2, 2)' /\ cache'[f.cache].free > 0
  BY SMTT(30), <1>2, <1>3, <1>7, <1>10, Counters DEF Left
<1>11. ReserveInv'
  BY <1>4, <1>7, <1>9, <1>12 DEF ReserveInv, RefillInv, AllocInv, RegionInv, Private
<1> QED
  BY <1>1, <1>6, <1>9, <1>11 DEF GoesOn

\* objs_cache_alloc takes an object: one from a reserve is accounted for.
LEMMA AllocObjectGoesOn == HeapInv /\ AllocObject => GoesOn
<1> SUFFICES ASSUME HeapInv, AllocObject PROVE GoesOn
  OBVIOUS
<1>1. stack # <<>> /\ Top.at = "alloc5" /\ cause = "none"
  BY DEF AllocObject, At
<1>2. /\ Left(2, 2) /\ cache[Top.cache].free > 0
      /\ Top.cache \in Private => Left(3, 3)
  BY <1>1 DEF HeapInv, ReserveInv, AllocInv
<1>3. Top \in Frames /\ MayCall(Top, Below(1)) /\ Top.cache \in CacheIds
      /\ stack \in Seq(Frames)
  BY <1>1, TopFacts
<1>4. CanRetrieve(Top.cache)
  BY <1>2, <1>3, FreeMeansRetrievable
<1>5. cache' = [cache EXCEPT ![Top.cache] = Retrieved(@)] /\ Return /\ cause' = cause
  BY <1>4 DEF AllocObject
<1>6. \/ Top.cache = SlabCache /\ Below(1).at = "create2"
      \/ Top.cache = VregionCache /\ Below(1).at = "boot"
      \/ Top.cache \notin Private /\ Below(1).at \in {"register", "none"}
  BY <1>1, <1>3 DEF MayCall, AllocPlaces, CreatePlaces, Refill, Private,
                    ObjsCache, SlabCache, VregionCache, Frames
<1>7. /\ cache'[Top.cache].free = cache[Top.cache].free - 1
      /\ \A d \in {SlabCache, VregionCache} : d # Top.cache => cache'[d] = cache[d]
  BY <1>3, <1>5, RetrievedFrom, Counters
<1>8. Left(2, 2)' /\ (Below(1).at = "create2" => Left(2, 3)')
  <2>1. SlabCache # VregionCache /\ cache[SlabCache].free \in Nat
        /\ cache[VregionCache].free \in Nat
    BY Counters DEF SlabCache, VregionCache
  <2>2. CASE Top.cache = SlabCache
    BY <1>2, <1>7, <2>1, <2>2 DEF Left, Private
  <2>3. CASE Top.cache = VregionCache /\ Below(1).at = "boot"
    BY <1>2, <1>7, <2>1, <2>3 DEF Left, Private
  <2>4. CASE Top.cache \notin Private /\ Below(1).at \in {"register", "none"}
    BY <1>2, <1>7, <2>1, <2>4 DEF Left, Private
  <2> QED
    BY <1>6, <2>2, <2>3, <2>4
<1>9. /\ StackInv' /\ stack' \in Seq(Frames)
      /\ stack' # <<>> => Top' = Below(1)
  BY <1>1, <1>3, <1>5, ReturnStack DEF HeapInv
<1>10. ReserveInv'
  BY <1>6, <1>8, <1>9 DEF ReserveInv, RefillInv, AllocInv, RegionInv
<1> QED
  BY <1>1, <1>5, <1>9, <1>10 DEF GoesOn

\* create_slab, call by call.
LEMMA CreateSlabObjectGoesOn == HeapInv /\ CreateSlabObject => GoesOn
<1> SUFFICES ASSUME HeapInv, CreateSlabObject PROVE GoesOn
  OBVIOUS
<1>1. stack # <<>> /\ Top.at = "create" /\ cause = "none" /\ UNCHANGED <<cache, cause>>
  BY DEF CreateSlabObject, At, heap
<1>2. Left(3, 3) \/ Left(2, 4)
  BY <1>1 DEF HeapInv, ReserveInv
<1>3. Top \in Frames /\ MayCall(Top, Below(1)) /\ stack \in Seq(Frames)
  BY <1>1, TopFacts
<1> DEFINE e == Frame("alloc", SlabCache)
           f == [Top EXCEPT !.at = "create2"]
<1>4. Enter(e, f)
  BY DEF CreateSlabObject
<1>5. f \in Frames /\ f.at = "create2" /\ f.cache = Top.cache
  BY <1>3, Moved DEF Places
<1>6. e \in Frames /\ e.at = "alloc" /\ e.cache = SlabCache
  BY CallFrame DEF Places, SlabCache
<1> HIDE DEF e, f
<1>7. MayCall(e, f)
  BY <1>5, <1>6 DEF MayCall, AllocPlaces
<1>8. MayCall(f, Below(1))
  BY <1>1, <1>3, <1>5 DEF MayCall, AllocPlaces, CreatePlaces, Refill
<1>9. StackInv' /\ stack' # <<>> /\ Top' = e
  BY <1>1, <1>3, <1>4, <1>5, <1>6, <1>7, <1>8, EnterStack DEF HeapInv, Refill
<1>10. Left(2, 3)
  BY <1>2, Counters DEF Left
<1>11. ReserveInv'
  BY SMTT(30), <1>1, <1>2, <1>6, <1>9, <1>10, Counters
     DEF ReserveInv, RefillInv, AllocInv, RegionInv, Left, SlabCache, VregionCache
<1> QED
  BY <1>1, <1>9, <1>11 DEF GoesOn

\* create_slab asks vregion_alloc for the region of its slab.
LEMMA CreateRegionGoesOn == HeapInv /\ CreateRegion => GoesOn
<1> SUFFICES ASSUME HeapInv, CreateRegion PROVE GoesOn
  OBVIOUS
<1>1. stack # <<>> /\ Top.at = "create2" /\ cause = "none" /\ UNCHANGED <<cache, cause>>
  BY DEF CreateRegion, At, heap
<1>2. Left(2, 3)
  BY <1>1 DEF HeapInv, ReserveInv
<1>3. Top \in Frames /\ MayCall(Top, Below(1)) /\ Top.cache \in CacheIds
      /\ stack \in Seq(Frames)
  BY <1>1, TopFacts
<1> DEFINE e == RegionCall("region", cache[Top.cache].pages)
           f == [Top EXCEPT !.at = "create3", !.slab = ret]
<1>4. Enter(e, f)
  BY DEF CreateRegion
<1>5. f \in Frames /\ f.at = "create3" /\ f.cache = Top.cache
  <2>1. ret \in Nat
    BY DEF HeapInv, TypeOK
  <2> QED
    BY <1>3, <2>1 DEF Frames, Places
<1>6. e \in Frames /\ e.at = "region"
  BY <1>3, Counters, NewRegionCall DEF RegionPlaces
<1> HIDE DEF e, f
<1>7. MayCall(e, f)
  BY <1>5, <1>6 DEF MayCall
<1>8. MayCall(f, Below(1))
  BY <1>1, <1>3, <1>5 DEF MayCall, AllocPlaces, CreatePlaces, Refill
<1>9. StackInv' /\ stack' # <<>> /\ Top' = e /\ Below(1)' = f
  BY <1>1, <1>3, <1>4, <1>5, <1>6, <1>7, <1>8, EnterStack DEF HeapInv, Refill
<1>10. Left(2, 2)
  BY <1>2, Counters DEF Left
<1>11. ReserveInv'
  BY <1>1, <1>2, <1>6, <1>9, <1>10
     DEF ReserveInv, RefillInv, AllocInv, RegionInv, Left
<1> QED
  BY <1>1, <1>9, <1>11 DEF GoesOn

\* create_slab asks for physical pages.
LEMMA CreatePagesGoesOn == HeapInv /\ CreatePages => GoesOn
<1> SUFFICES ASSUME HeapInv, CreatePages PROVE GoesOn
  OBVIOUS
<1>1. stack # <<>> /\ Top.at = "create3" /\ cause = "none"
  BY DEF CreatePages, At
<1>2. CASE Halt("objsfree") \/ Halt("nomem")
  BY <1>2, HaltGoesOn
<1> DEFINE f == [Top EXCEPT !.at = "create4"]
<1>3. CASE Goto(f) /\ UNCHANGED <<cache, cause>>
  <2>1. Top \in Frames /\ MayCall(Top, Below(1)) /\ stack \in Seq(Frames)
    BY <1>1, TopFacts
  <2>2. Left(2, 2)
    BY <1>1 DEF HeapInv, ReserveInv
  <2>3. f \in Frames /\ f.at = "create4" /\ f.cache = Top.cache
    BY <2>1, Moved DEF Places
  <2> HIDE DEF f
  <2>4. MayCall(f, Below(1))
    BY <1>1, <2>1, <2>3 DEF MayCall, AllocPlaces, CreatePlaces, Refill
  <2>5. StackInv' /\ stack' # <<>> /\ Top' = f
    BY <1>1, <1>3, <2>1, <2>3, <2>4, GotoStack DEF HeapInv, Refill
  <2>6. ReserveInv'
    BY <1>3, <2>2, <2>3, <2>5 DEF ReserveInv, RefillInv, AllocInv, RegionInv, Left
  <2> QED
    BY <1>1, <1>3, <2>5, <2>6 DEF GoesOn
<1> QED
  BY <1>2, <1>3 DEF CreatePages

\* create_slab maps the region.
LEMMA CreateMapsGoesOn == HeapInv /\ CreateMaps => GoesOn
<1> SUFFICES ASSUME HeapInv, CreateMaps PROVE GoesOn
  OBVIOUS
<1> DEFINE f == [Top EXCEPT !.at = "create5"]
<1>1. /\ stack # <<>> /\ Top.at = "create4" /\ cause = "none"
      /\ Goto(f) /\ UNCHANGED <<cache, cause>>
  BY DEF CreateMaps, MapSlab, At
<1>2. Top \in Frames /\ MayCall(Top, Below(1)) /\ stack \in Seq(Frames)
  BY <1>1, TopFacts
<1>3. Left(2, 2)
  BY <1>1 DEF HeapInv, ReserveInv
<1>4. f \in Frames /\ f.at = "create5" /\ f.cache = Top.cache
  BY <1>2, Moved DEF Places
<1> HIDE DEF f
<1>5. MayCall(f, Below(1))
  BY <1>1, <1>2, <1>4 DEF MayCall, AllocPlaces, CreatePlaces, Refill
<1>6. StackInv' /\ stack' # <<>> /\ Top' = f
  BY <1>1, <1>2, <1>4, <1>5, GotoStack DEF HeapInv, Refill
<1>7. ReserveInv'
  BY <1>1, <1>3, <1>4, <1>6 DEF ReserveInv, RefillInv, AllocInv, RegionInv, Left
<1> QED
  BY <1>1, <1>6, <1>7 DEF GoesOn

\* create_slab returns the Slab object it has set up.
LEMMA CreateReturnsGoesOn == HeapInv /\ CreateReturns => GoesOn
<1> SUFFICES ASSUME HeapInv, CreateReturns PROVE GoesOn
  OBVIOUS
<1>1. stack # <<>> /\ Top.at = "create5" /\ cause = "none"
  BY DEF CreateReturns, At
<1>2. CASE Halt("fault")
  BY <1>2, HaltGoesOn
<1>3. CASE Return /\ UNCHANGED <<cache, cause>>
  <2>1. MayCall(Top, Below(1)) /\ stack \in Seq(Frames)
    BY <1>1, TopFacts
  <2>2. Left(2, 2)
    BY <1>1 DEF HeapInv, ReserveInv
  <2>3. Below(1).at = "alloc4"
    BY <1>1, <2>1 DEF MayCall, AllocPlaces, CreatePlaces, Refill
  <2>4. StackInv' /\ (stack' # <<>> => Top' = Below(1))
    BY <1>1, <1>3, <2>1, ReturnStack DEF HeapInv
  <2>5. ReserveInv'
    BY <1>3, <2>2, <2>3, <2>4 DEF ReserveInv, RefillInv, AllocInv, RegionInv, Left
  <2> QED
    BY <1>1, <1>3, <2>4, <2>5 DEF GoesOn
<1> QED
  BY <1>2, <1>3 DEF CreateReturns

\* vregion_alloc refills Vregions when it has too few.
LEMMA RegionAllocGoesOn == HeapInv /\ RegionAlloc => GoesOn
<1> SUFFICES ASSUME HeapInv, RegionAlloc PROVE GoesOn
  OBVIOUS
<1>1. stack # <<>> /\ Top.at = "region" /\ cause = "none"
  BY DEF RegionAlloc, At
<1>2. Left(2, 2)
  BY <1>1 DEF HeapInv, ReserveInv, RegionInv
<1>3. Top \in Frames /\ MayCall(Top, Below(1)) /\ stack \in Seq(Frames)
  BY <1>1, TopFacts
<1>4. /\ CallIf(cache[VregionCache].free = MinVregion, Frame("special", VregionCache),
                [Top EXCEPT !.at = "_region"])
      /\ UNCHANGED <<cache, cause>>
  BY <1>2, Counters DEF RegionAlloc, Left, MinVregion, heap
<1> DEFINE f == [Top EXCEPT !.at = "_region"]
<1>5. f \in Frames /\ f.at = "_region" /\ f.cache = Top.cache
  BY <1>3, Moved DEF Places
<1>6. Below(1).at \in {"none", "create3"}
  BY <1>1, <1>3 DEF MayCall, AllocPlaces, CreatePlaces, Refill
<1> HIDE DEF f
<1>7. MayCall(f, Below(1))
  BY <1>5, <1>6 DEF MayCall
<1>8. CASE cache[VregionCache].free = MinVregion
  <2> DEFINE e == Frame("special", VregionCache)
  <2>1. e \in Frames /\ e.at = "special" /\ e.cache = VregionCache
    BY NewSpecial
  <2> HIDE DEF e
  <2>2. Enter(e, f)
    BY <1>4, <1>8 DEF CallIf, e, f
  <2>3. MayCall(e, f)
    BY <1>5, <2>1 DEF MayCall, Refill
  <2>4. StackInv' /\ stack' # <<>> /\ Top' = e /\ Below(1)' = f
    BY <1>1, <1>3, <1>5, <1>7, <2>1, <2>2, <2>3, EnterStack DEF HeapInv, Refill
  <2>5. SlabsAtRefill(f) = 2 /\ RegionsAtRefill(f) = 2
    BY <1>5 DEF SlabsAtRefill, RegionsAtRefill
  <2>6. ReserveInv'
    BY <1>2, <1>4, <2>1, <2>4, <2>5 DEF ReserveInv, RefillInv, AllocInv, RegionInv, Left
  <2> QED
    BY <1>1, <1>4, <2>4, <2>6 DEF GoesOn
<1>9. CASE cache[VregionCache].free # MinVregion
  <2>1. Goto(f)
    BY <1>4, <1>9 DEF CallIf, f
  <2>2. StackInv' /\ stack' # <<>> /\ Top' = f /\ Below(1)' = Below(1)
    BY <1>1, <1>3, <1>5, <1>7, <2>1, GotoStack DEF HeapInv, Refill
  <2>3. Left(2, 3)
    BY <1>2, <1>9, Counters DEF Left, MinVregion
  <2>4. ReserveInv'
    BY <1>4, <1>5, <1>6, <2>2, <2>3 DEF ReserveInv, RefillInv, AllocInv, RegionInv, Left
  <2> QED
    BY <1>1, <1>4, <2>2, <2>4 DEF GoesOn
<1> QED
  BY <1>8, <1>9

\* What a refill is left is never nothing.
LEMMA RefillNumbers ==
    ASSUME NEW g
    PROVE  /\ SlabsAtRefill(g) \in 1..6 /\ RegionsAtRefill(g) \in 1..6
BY DEF SlabsAtRefill, RegionsAtRefill

\* The search of a region ends: with what the function below relies on left,
\* whether an object of the reserve was taken or not.
LEMMA RegionReturns ==
    ASSUME HeapInv, stack # <<>>, Top.at = "_region", cause = "none", Return,
           cause' = "none", cache'[SlabCache] = cache[SlabCache],
           cache'[VregionCache].free \in {cache[VregionCache].free,
                                          cache[VregionCache].free - 1}
    PROVE  GoesOn
<1>1. RegionInv(Top, Below(1), Below(2))
  BY DEF HeapInv, ReserveInv
<1>2. MayCall(Top, Below(1)) /\ stack \in Seq(Frames)
  BY TopFacts
<1>3. /\ StackInv'
      /\ stack' # <<>> => Top' = Below(1) /\ Below(1)' = Below(2)
  BY <1>2, ReturnStack DEF HeapInv
<1>4. Below(1).at \in {"none", "create3", "special2"}
  BY <1>2 DEF MayCall, AllocPlaces, CreatePlaces, Refill
<1>5. cache[SlabCache].free \in Nat /\ cache[VregionCache].free \in Nat
  BY Counters
<1>6. CASE Below(1).at = "special2"
  <2> DEFINE s == SlabsAtRefill(Below(2))
             v == RegionsAtRefill(Below(2))
  <2>1. Left(s, v)
    BY <1>1, <1>6 DEF RegionInv
  <2>2. s \in Nat /\ v \in Nat
    BY RefillNumbers
  <2> HIDE DEF s, v
  <2>3. cache'[SlabCache].free >= s /\ cache'[VregionCache].free >= v - 1
    BY <1>5, <2>1, <2>2 DEF Left
  <2>4. stack' # <<>> => s = SlabsAtRefill(Below(1))' /\ v = RegionsAtRefill(Below(1))'
    BY <1>3 DEF s, v, SlabsAtRefill, RegionsAtRefill
  <2>5. stack' # <<>>
    BY <1>2, <1>6, ReturnStack DEF HeapInv, Frame, FrameOf
  <2>6. ReserveInv'
    BY <1>3, <1>6, <2>3, <2>4, <2>5 DEF ReserveInv, RefillInv, AllocInv, RegionInv, Left
  <2> QED
    BY <1>3, <2>6 DEF GoesOn
<1>7. CASE Below(1).at # "special2"
  <2>1. Left(2, 3)
    BY <1>1, <1>7 DEF RegionInv
  <2>2. Left(2, 2)'
    BY <1>5, <2>1 DEF Left
  <2>3. ReserveInv'
    BY <1>3, <1>4, <1>7, <2>2 DEF ReserveInv, RefillInv, AllocInv, RegionInv, Left
  <2> QED
    BY <1>3, <2>3 DEF GoesOn
<1> QED
  BY <1>6, <1>7

\* _vregion_alloc finds no region that is long enough.
LEMMA NoRegionFitsGoesOn == HeapInv /\ NoRegionFits => GoesOn
<1> SUFFICES ASSUME HeapInv, NoRegionFits PROVE GoesOn
  OBVIOUS
<1>1. stack # <<>> /\ Top.at = "_region" /\ cause = "none"
  BY DEF NoRegionFits, At
<1>2. CASE Halt("wild") \/ Halt("novirtual")
  BY <1>2, HaltGoesOn
<1>3. CASE Return /\ UNCHANGED <<cache, cause>>
  BY <1>1, <1>3, RegionReturns
<1> QED
  BY <1>2, <1>3 DEF NoRegionFits, heap

(***************************************************************************)
(* Regions.  There is at most one free region, above all the used ones.    *)
(***************************************************************************)
LEMMA RegionTypes ==
    ASSUME HeapInv
    PROVE  /\ freeV \in Seq(Regions) /\ usedV \in Seq(Regions) /\ got \in Regions
           /\ LastVpn \in Nat /\ FirstVpn \in Nat /\ FirstVpn > 3 /\ FirstVpn <= LastVpn
           /\ \A r \in Regions : r.first \in 0..LastVpn /\ r.pages \in 0..LastVpn
BY WindowAssumption DEF HeapInv, TypeOK, Regions

\* The search finds the one free region there is, above all used ones.
LEMMA OnlyOneFits ==
    ASSUME HeapInv, Fitting # {}
    PROVE  /\ Fitting = {1} /\ Min(Fitting) = 1 /\ Len(freeV) = 1 /\ 1 \in DOMAIN freeV
           /\ freeV[1].pages >= Top.kind.pages
           /\ ~Booting /\ Frontier = freeV[1].first /\ freeV[1] \in Regions
           /\ freeV[1].pages > 0 /\ freeV[1].first >= FirstVpn
           /\ freeV[1].first + freeV[1].pages = LastVpn + 1
<1>1. freeV # <<>> /\ Fitting \subseteq DOMAIN freeV
  BY DEF Fitting
<1>2. /\ Len(freeV) = 1 /\ ~Booting /\ freeV[1].pages > 0 /\ freeV[1].first >= FirstVpn
      /\ freeV[1].first + freeV[1].pages = LastVpn + 1
  BY <1>1 DEF HeapInv, RegionsInv
<1>3. DOMAIN freeV = {1} /\ freeV[1] \in Regions
  <2>1. freeV \in Seq(Regions)
    BY RegionTypes
  <2>2. DOMAIN freeV = 1..1
    BY <1>2, <2>1
  <2> QED
    BY <2>1, <2>2
<1>4. Fitting = {1}
  BY <1>1, <1>3
<1>5. Min({1}) = 1
  BY DEF Min
<1> QED
  BY <1>1, <1>2, <1>3, <1>4, <1>5 DEF Frontier, Fitting

\* InsertAt in front of a sequence.
LEMMA InsertFirst ==
    ASSUME NEW T, NEW s \in Seq(T), NEW e \in T
    PROVE  InsertAt(s, 1, e) = <<e>> \o s
BY DEF InsertAt

\* A region above all used ones goes in front of them: the ordered insertion stops.
LEMMA AboveAllStops ==
    ASSUME HeapInv, NEW el \in Regions, el.first >= Frontier
    PROVE  /\ Stops(usedV, el) # {}
           /\ InsertOrdered(usedV, el) = <<el>> \o usedV
<1>1. usedV \in Seq(Regions) /\ usedV # <<>> /\ 1 \in DOMAIN usedV
      /\ DOMAIN usedV \subseteq Nat \ {0}
  BY RegionTypes DEF HeapInv, RegionsInv
<1>2. \A i \in DOMAIN usedV : usedV[i].first <= el.first
  <2> SUFFICES ASSUME NEW i \in DOMAIN usedV PROVE usedV[i].first <= el.first
    OBVIOUS
  <2>1. usedV[i].pages > 0 /\ usedV[i].first + usedV[i].pages <= Frontier
    BY DEF HeapInv, RegionsInv
  <2>2. usedV[i] \in Regions
    BY <1>1
  <2>3. /\ usedV[i].first \in Nat /\ usedV[i].pages \in Nat /\ el.first \in Nat
    BY <2>2, RegionTypes
  <2>4. Frontier \in Int
    <3>1. freeV # <<>> => freeV[1] \in Regions
      BY RegionTypes
    <3> QED
      BY <3>1, RegionTypes DEF Frontier
  <2> QED
    BY <2>1, <2>3, <2>4
<1>3. Stops(usedV, el) = DOMAIN usedV
  BY <1>2 DEF Stops
<1>4. Min(DOMAIN usedV) = 1
  BY <1>1 DEF Min
<1> QED
  BY <1>1, <1>3, <1>4, InsertFirst DEF InsertOrdered

\* What a step that finds a region does.
LEMMA RegionFitsEffect ==
    ASSUME HeapInv, RegionFits
    PROVE  LET taken == Region(freeV[1].first, Top.kind.pages)
               upper == UpperPart(freeV[1], Top.kind.pages)
           IN  /\ stack # <<>> /\ Top.at = "_region" /\ cause = "none" /\ cause' = "none"
               /\ Return /\ UNCHANGED <<memory, tailV, ret>>
               /\ usedV' = <<taken>> \o usedV /\ got' = taken
               /\ IF upper.pages > 0
                  THEN /\ freeV' = [freeV EXCEPT ![1] = upper]
                       /\ CanRetrieve(VregionCache)
                       /\ cache' = [cache EXCEPT ![VregionCache] = Retrieved(@)]
                       /\ slab' = SlabAfterRetrieve(VregionCache)
                  ELSE freeV' = RemoveAt(freeV, 1) /\ UNCHANGED <<cache, slab>>
<1> DEFINE old == freeV[1]
           taken == Region(freeV[1].first, Top.kind.pages)
           upper == UpperPart(freeV[1], Top.kind.pages)
<1>1. stack # <<>> /\ Top.at = "_region" /\ cause = "none" /\ Fitting # {}
  BY DEF RegionFits, At
<1>2. Min(Fitting) = 1
  BY <1>1, OnlyOneFits
<1>3. CanRetrieve(VregionCache)
  <2>1. RegionInv(Top, Below(1), Below(2))
    BY <1>1 DEF HeapInv, ReserveInv
  <2>2. cache[VregionCache].free >= 3
        \/ cache[VregionCache].free >= RegionsAtRefill(Below(2))
    BY <1>1, <2>1 DEF RegionInv, Left
  <2>3. cache[VregionCache].free > 0
    <3>1. RegionsAtRefill(Below(2)) \in 1..6 /\ cache[VregionCache].free \in Nat
      BY RefillNumbers, Counters
    <3> QED
      BY <2>2, <3>1
  <2> QED
    BY <2>3, FreeMeansRetrievable, Counters
<1>4. taken \in Regions /\ taken.first = Frontier
  <2>1. Top \in Frames
    BY <1>1, TopFacts
  <2>2. Top.kind.pages \in Nat
    BY <2>1 DEF Frames
  <2> QED
    BY <1>1, <2>2, OnlyOneFits, RegionTypes DEF Region, Regions
<1>5. Stops(usedV, taken) # {} /\ InsertOrdered(usedV, taken) = <<taken>> \o usedV
  <2>1. taken.first >= Frontier
    BY <1>1, <1>4, OnlyOneFits, RegionTypes
  <2> HIDE DEF taken
  <2> QED
    BY <1>4, <2>1, AboveAllStops
<1>6. taken.first = old.first
  BY DEF Region
<1> QED
  BY <1>1, <1>2, <1>3, <1>5 DEF RegionFits

\* _vregion_alloc takes a Vregion for the part it cuts off.
LEMMA RegionFitsGoesOn == HeapInv /\ RegionFits => GoesOn
<1> SUFFICES ASSUME HeapInv, RegionFits PROVE GoesOn
  OBVIOUS
<1>1. /\ stack # <<>> /\ Top.at = "_region" /\ cause = "none" /\ cause' = "none" /\ Return
      /\ \/ cache' = [cache EXCEPT ![VregionCache] = Retrieved(@)]
         \/ UNCHANGED cache
  BY RegionFitsEffect
<1>2. SlabCache \in CacheIds /\ VregionCache \in CacheIds /\ SlabCache # VregionCache
  BY Counters DEF SlabCache, VregionCache
<1>3. /\ cache'[SlabCache] = cache[SlabCache]
      /\ cache'[VregionCache].free \in {cache[VregionCache].free,
                                        cache[VregionCache].free - 1}
  BY <1>1, <1>2, RetrievedFrom
<1> QED
  BY <1>1, <1>3, RegionReturns

(***************************************************************************)
(* The refills of the reserves.                                            *)
(***************************************************************************)
LEMMA RefillTop ==
    ASSUME HeapInv, stack # <<>>, Top.at \in Refill
    PROVE  /\ stack \in Seq(Frames) /\ Top \in Frames /\ MayCall(Top, Below(1))
           /\ RefillInv(Top, Below(1)) /\ Top.cache \in CacheIds
           /\ \/ /\ Top.cache = SlabCache
                 /\ \/ Below(1).at = "alloc2" /\ Below(1).cache # VregionCache
                    \/ Below(1).at = "special6" /\ Below(1).cache = VregionCache
              \/ /\ Top.cache = VregionCache
                 /\ \/ Below(1).at = "alloc3" /\ Below(1).cache \notin Private
                    \/ Below(1).at = "_region"
                    \/ Below(1).at = "special6" /\ Below(1).cache = SlabCache
           /\ SlabCache # VregionCache /\ SlabCache \in CacheIds /\ VregionCache \in CacheIds
           /\ cache[SlabCache].free \in Nat /\ cache[VregionCache].free \in Nat
           /\ SlabsAtRefill(Below(1)) \in 1..6 /\ RegionsAtRefill(Below(1)) \in 1..6
<1>1. MayCall(Top, Below(1)) /\ Top.cache \in CacheIds /\ stack \in Seq(Frames) /\ Top \in Frames
  BY TopFacts
<1>2. \/ /\ Top.cache = SlabCache
         /\ \/ Below(1).at = "alloc2" /\ Below(1).cache # VregionCache
            \/ Below(1).at = "special6" /\ Below(1).cache = VregionCache
      \/ /\ Top.cache = VregionCache
         /\ \/ Below(1).at = "alloc3" /\ Below(1).cache \notin Private
            \/ Below(1).at = "_region"
            \/ Below(1).at = "special6" /\ Below(1).cache = SlabCache
  BY <1>1 DEF MayCall, AllocPlaces, CreatePlaces, Refill, Private
<1>3. RefillInv(Top, Below(1))
  BY DEF HeapInv, ReserveInv
<1>4. SlabCache # VregionCache
  BY DEF SlabCache, VregionCache
<1>5. SlabCache \in CacheIds /\ VregionCache \in CacheIds
      /\ cache[SlabCache].free \in Nat /\ cache[VregionCache].free \in Nat
  BY Counters
<1> QED
  BY <1>1, <1>2, <1>3, <1>4, <1>5, RefillNumbers

\* A refill goes on to its next place, over the same caller.
LEMMA RefillMoves ==
    ASSUME HeapInv, stack # <<>>, Top.at \in Refill, NEW f \in Frames, f.at \in Refill,
           f.cache = Top.cache, Goto(f)
    PROVE  /\ StackInv' /\ stack' # <<>> /\ Top' = f /\ Below(1)' = Below(1)
           /\ SlabsAtRefill(Below(1))' = SlabsAtRefill(Below(1))
           /\ RegionsAtRefill(Below(1))' = RegionsAtRefill(Below(1))
<1>1. stack \in Seq(Frames) /\ MayCall(Top, Below(1))
  BY RefillTop
<1>2. MayCall(f, Below(1))
  BY <1>1 DEF MayCall, AllocPlaces, CreatePlaces, Refill
<1>3. StackInv' /\ stack' # <<>> /\ Top' = f /\ Below(1)' = Below(1)
  BY <1>1, <1>2, GotoStack DEF HeapInv, Refill
<1> QED
  BY <1>3 DEF SlabsAtRefill, RegionsAtRefill

\* The two refill functions, call by call.
LEMMA SpecialRegionGoesOn == HeapInv /\ SpecialRegion => GoesOn
<1> SUFFICES ASSUME HeapInv, SpecialRegion PROVE GoesOn
  OBVIOUS
<1>1. stack # <<>> /\ Top.at = "special" /\ cause = "none"
  BY DEF SpecialRegion, At
<1>2. Top.at \in Refill
  BY <1>1 DEF Refill
<1> DEFINE s == SlabsAtRefill(Below(1))
           v == RegionsAtRefill(Below(1))
<1>3. Left(s, v) /\ s \in 1..6 /\ v \in 1..6
  BY <1>1, <1>2, RefillTop DEF RefillInv
<1>4. cache[Top.cache].free >= Reserve(Top.cache) - 1
  BY <1>1, <1>2, <1>3, RefillTop DEF Left, Reserve, MinSlab, MinVregion
<1> DEFINE e == RegionCall("_region", 1)
           f == [Top EXCEPT !.at = "special2"]
<1>5. Enter(e, f) /\ UNCHANGED <<cache, cause>>
  BY <1>1, <1>2, <1>4, RefillTop, Counters
     DEF SpecialRegion, heap, Reserve, MinSlab, MinVregion
<1>6. Top \in Frames
  BY <1>1, TopFacts
<1>7. f \in Frames /\ f.at = "special2" /\ f.cache = Top.cache
  BY <1>6, Moved DEF Places
<1>8. e \in Frames /\ e.at = "_region"
  BY NewRegionCall DEF RegionPlaces
<1> HIDE DEF e, f
<1>9. MayCall(e, f)
  BY <1>7, <1>8 DEF MayCall
<1>10. MayCall(f, Below(1))
  BY <1>1, <1>2, <1>7, RefillTop DEF MayCall, AllocPlaces, CreatePlaces, Refill
<1>11. /\ StackInv' /\ stack' # <<>> /\ Top' = e /\ Below(1)' = f
       /\ Below(2)' = Below(1)
  <2>1. f.at \in Refill
    BY <1>7 DEF Refill
  <2> QED
    BY <1>1, <1>2, <1>5, <1>7, <1>8, <1>9, <1>10, <2>1, RefillTop, EnterStack DEF HeapInv
<1>12. SlabsAtRefill(Below(2))' = s /\ RegionsAtRefill(Below(2))' = v
  BY <1>11 DEF SlabsAtRefill, RegionsAtRefill
<1> HIDE DEF s, v
<1>13. cache'[SlabCache].free >= s /\ cache'[VregionCache].free >= v
  BY <1>3, <1>5 DEF Left
<1>14. ReserveInv'
  BY <1>7, <1>8, <1>11, <1>12, <1>13 DEF ReserveInv, RefillInv, AllocInv, RegionInv, Left
<1> QED
  BY <1>1, <1>5, <1>11, <1>14 DEF GoesOn

\* A refill takes its Slab object from the reserve, without a call.
LEMMA SpecialPagesGoesOn == HeapInv /\ SpecialPages => GoesOn
<1> SUFFICES ASSUME HeapInv, SpecialPages PROVE GoesOn
  OBVIOUS
<1>1. stack # <<>> /\ Top.at = "special2" /\ cause = "none"
  BY DEF SpecialPages, At
<1>2. Top.at \in Refill
  BY <1>1 DEF Refill
<1> DEFINE s == SlabsAtRefill(Below(1))
           v == RegionsAtRefill(Below(1))
<1>3. Left(s, v - 1) /\ s \in 1..6 /\ v \in 1..6
  BY <1>1, <1>2, RefillTop DEF RefillInv
<1>4. CanRetrieve(SlabCache)
  <2>1. cache[SlabCache].free > 0
    BY <1>1, <1>2, <1>3, RefillTop DEF Left
  <2> QED
    BY <2>1, FreeMeansRetrievable, Counters
<1>5. CASE Halt("novirtual") \/ Halt("nomem")
  BY <1>5, HaltGoesOn
<1> DEFINE f == [Top EXCEPT !.at = "special3", !.slab = cache[SlabCache].used + 1]
<1>6. CASE /\ cache' = [cache EXCEPT ![SlabCache] = Retrieved(@)]
           /\ Goto(f) /\ cause' = cause
  <2>1. cache[SlabCache].used + 1 \in Nat
    BY Counters
  <2>2. f \in Frames /\ f.at = "special3" /\ f.cache = Top.cache
    BY <1>1, <1>2, <2>1, RefillTop DEF Frames, Places
  <2> HIDE DEF f
  <2>3. /\ StackInv' /\ stack' # <<>> /\ Top' = f
        /\ SlabsAtRefill(Below(1))' = s /\ RegionsAtRefill(Below(1))' = v
    BY <1>1, <1>2, <1>6, <2>2, RefillMoves DEF Refill
  <2> HIDE DEF s, v
  <2>4. cache'[SlabCache].free >= s - 1 /\ cache'[VregionCache].free >= v - 1
    <3>1. /\ SlabCache # VregionCache /\ SlabCache \in CacheIds /\ VregionCache \in CacheIds
          /\ cache[SlabCache].free \in Nat /\ cache[VregionCache].free \in Nat
      BY <1>1, <1>2, RefillTop
    <3>2. /\ cache'[SlabCache].free = cache[SlabCache].free - 1
          /\ cache'[VregionCache] = cache[VregionCache]
      BY <1>6, <3>1, RetrievedFrom
    <3>3. s \in Int /\ v \in Int
      BY <1>1, <1>2, RefillTop DEF s, v
    <3> QED
      BY <1>3, <3>1, <3>2, <3>3 DEF Left
  <2>5. ReserveInv'
    BY <2>2, <2>3, <2>4 DEF ReserveInv, RefillInv, AllocInv, RegionInv, Left
  <2> QED
    BY <1>1, <1>6, <2>3, <2>5 DEF GoesOn
<1> QED
  BY <1>4, <1>5, <1>6 DEF SpecialPages

\* A refill maps the region of its slab.
LEMMA SpecialMapsGoesOn == HeapInv /\ SpecialMaps => GoesOn
<1> SUFFICES ASSUME HeapInv, SpecialMaps PROVE GoesOn
  OBVIOUS
<1> DEFINE f == [Top EXCEPT !.at = "special4"]
<1>1. /\ stack # <<>> /\ Top.at = "special3" /\ cause = "none"
      /\ Goto(f) /\ UNCHANGED <<cache, cause>>
  BY DEF SpecialMaps, MapSlab, At
<1>2. Top.at \in Refill
  BY <1>1 DEF Refill
<1> DEFINE s == SlabsAtRefill(Below(1))
           v == RegionsAtRefill(Below(1))
<1>3. Left(s - 1, v - 1)
  BY <1>1, <1>2, RefillTop DEF RefillInv
<1>4. f \in Frames /\ f.at = "special4" /\ f.cache = Top.cache
  BY <1>1, <1>2, RefillTop, Moved DEF Places
<1> HIDE DEF f
<1>5. /\ StackInv' /\ stack' # <<>> /\ Top' = f
      /\ SlabsAtRefill(Below(1))' = s /\ RegionsAtRefill(Below(1))' = v
  BY <1>1, <1>2, <1>4, RefillMoves DEF Refill
<1> HIDE DEF s, v
<1>6. ReserveInv'
  BY <1>1, <1>3, <1>4, <1>5 DEF ReserveInv, RefillInv, AllocInv, RegionInv, Left
<1> QED
  BY <1>1, <1>5, <1>6 DEF GoesOn

\* A refill adds a slab's objects to its reserve.
LEMMA SpecialAddsSlabGoesOn == HeapInv /\ SpecialAddsSlab => GoesOn
<1> SUFFICES ASSUME HeapInv, SpecialAddsSlab PROVE GoesOn
  OBVIOUS
<1>1. stack # <<>> /\ Top.at = "special4" /\ cause = "none"
  BY DEF SpecialAddsSlab, At
<1>2. Top.at \in Refill
  BY <1>1 DEF Refill
<1> DEFINE s == SlabsAtRefill(Below(1))
           v == RegionsAtRefill(Below(1))
<1>3. Left(s - 1, v - 1) /\ s \in 1..6 /\ v \in 1..6
  BY <1>1, <1>2, RefillTop DEF RefillInv
<1>4. CASE Halt("fault")
  BY <1>4, HaltGoesOn
<1> DEFINE f == [Top EXCEPT !.at = "special5"]
<1>5. CASE /\ cache' = [cache EXCEPT ![Top.cache] = WithSlab(@, Top.slab)]
           /\ Goto(f) /\ cause' = cause
  <2>1. f \in Frames /\ f.at = "special5" /\ f.cache = Top.cache
    BY <1>1, <1>2, RefillTop, Moved DEF Places
  <2> HIDE DEF f
  <2>2. /\ StackInv' /\ stack' # <<>> /\ Top' = f
        /\ SlabsAtRefill(Below(1))' = s /\ RegionsAtRefill(Below(1))' = v
    BY <1>1, <1>2, <1>5, <2>1, RefillMoves DEF Refill
  <2> HIDE DEF s, v
  <2>3. /\ cache'[Top.cache].free = cache[Top.cache].free + cache[Top.cache].objs
        /\ \A d \in {SlabCache, VregionCache} : d # Top.cache => cache'[d] = cache[d]
    BY <1>1, <1>2, <1>5, RefillTop, AddedTo
  <2>4. CASE Top.cache = SlabCache
    <3>1. cache'[SlabCache].free >= 6 /\ cache'[VregionCache].free >= v - 1
      <4>1. SlabCache # VregionCache /\ cache[SlabCache].free \in Nat
        BY <1>1, <1>2, RefillTop
      <4> QED
        BY SMTT(30), <1>3, <2>3, <2>4, <4>1, Counters DEF Left
    <3> QED
      BY <1>1, <1>5, <2>1, <2>2, <2>4, <3>1
         DEF GoesOn, ReserveInv, RefillInv, AllocInv, RegionInv, Left
  <2>5. CASE Top.cache = VregionCache
    <3>1. cache'[SlabCache].free >= s - 1 /\ cache'[VregionCache].free >= 6
      <4>1. SlabCache # VregionCache /\ cache[VregionCache].free \in Nat
        BY <1>1, <1>2, RefillTop
      <4> QED
        BY <1>3, <2>3, <2>5, <4>1, Counters DEF Left
    <3>2. f.cache # SlabCache
      BY <2>1, <2>5 DEF SlabCache, VregionCache
    <3> QED
      BY <1>1, <1>5, <2>1, <2>2, <3>1, <3>2
         DEF GoesOn, ReserveInv, RefillInv, AllocInv, RegionInv, Left
  <2> QED
    BY <1>1, <1>2, <2>4, <2>5, RefillTop
<1> QED
  BY <1>4, <1>5 DEF SpecialAddsSlab

\* A refill enters the other one, when that reserve is low.
LEMMA SpecialRefillsOtherGoesOn == HeapInv /\ SpecialRefillsOther => GoesOn
<1> SUFFICES ASSUME HeapInv, SpecialRefillsOther PROVE GoesOn
  OBVIOUS
<1>1. stack # <<>> /\ Top.at = "special5" /\ cause = "none"
      /\ UNCHANGED <<cache, cause>>
  BY DEF SpecialRefillsOther, At, heap
<1>2. Top.at \in Refill
  BY <1>1 DEF Refill
<1> DEFINE s == SlabsAtRefill(Below(1))
           v == RegionsAtRefill(Below(1))
           f == [Top EXCEPT !.at = "special6"]
<1>3. /\ s \in 1..6 /\ v \in 1..6
      /\ cache[SlabCache].free \in Nat /\ cache[VregionCache].free \in Nat
      /\ SlabCache # VregionCache
  BY <1>1, <1>2, RefillTop
<1>4. f \in Frames /\ f.at = "special6" /\ f.cache = Top.cache
  BY <1>1, <1>2, RefillTop, Moved DEF Places
<1>5. CASE Top.cache = SlabCache
  <2>1. cache[SlabCache].free >= 6 /\ cache[VregionCache].free >= v - 1
    BY <1>1, <1>2, <1>5, RefillTop DEF RefillInv, Left
  <2>2. \/ Below(1).at = "alloc2" /\ v \in {2, 4}
        \/ Below(1).at = "special6" /\ v = 6
    BY <1>1, <1>2, <1>3, <1>5, RefillTop DEF RegionsAtRefill
  <2>3. /\ CallIf(cache[VregionCache].free = 1, Frame("special", VregionCache), f)
    BY <1>5 DEF SpecialRefillsOther, Other, Reserve, MinVregion, MinSlab, SlabCache, VregionCache
  <2> HIDE DEF f
  <2>4. CASE cache[VregionCache].free = 1
    <3> DEFINE e == Frame("special", VregionCache)
    <3>1. e \in Frames /\ e.at = "special" /\ e.cache = VregionCache
      BY NewSpecial
    <3> HIDE DEF e
    <3>2. Enter(e, f)
      BY <2>3, <2>4 DEF CallIf, e
    <3>3. MayCall(e, f)
      BY <1>4, <1>5, <3>1 DEF MayCall, Refill
    <3>4. MayCall(f, Below(1))
      BY <1>1, <1>2, <1>4, RefillTop DEF MayCall, AllocPlaces, CreatePlaces, Refill
    <3>5. Below(1).at \notin Refill
      BY <2>1, <2>2, <2>4 DEF Refill
    <3>6. StackInv' /\ stack' # <<>> /\ Top' = e /\ Below(1)' = f
      <4>1. f.at \in Refill /\ e.at \in Refill /\ e.cache # f.cache
        BY <1>3, <1>4, <1>5, <3>1 DEF Refill
      <4> QED
        BY <1>1, <1>2, <1>4, <3>1, <3>2, <3>3, <3>4, <3>5, <4>1, RefillTop, EnterStack
           DEF HeapInv
    <3>7. SlabsAtRefill(f) = 6 /\ RegionsAtRefill(f) = 1
      BY <1>4, <1>5, <1>3 DEF SlabsAtRefill, RegionsAtRefill
    <3>8. ReserveInv'
      BY <1>1, <2>1, <2>4, <3>1, <3>6, <3>7
         DEF ReserveInv, RefillInv, AllocInv, RegionInv, Left
    <3> QED
      BY <1>1, <3>6, <3>8 DEF GoesOn
  <2>5. CASE cache[VregionCache].free # 1
    <3>1. Goto(f)
      BY <2>3, <2>5 DEF CallIf
    <3>2. /\ StackInv' /\ stack' # <<>> /\ Top' = f
          /\ RegionsAtRefill(Below(1))' = v
      BY <1>1, <1>2, <1>4, <3>1, RefillMoves DEF Refill
    <3>3. cache[VregionCache].free >= 2
      BY <1>3, <2>1, <2>2, <2>5
    <3> HIDE DEF s, v
    <3>4. cache[SlabCache].free >= 5
      BY <1>3, <2>1
    <3>5. ReserveInv'
      BY <1>1, <1>4, <1>5, <2>1, <3>2, <3>3, <3>4
         DEF ReserveInv, RefillInv, AllocInv, RegionInv, Left
    <3> QED
      BY <1>1, <3>2, <3>5 DEF GoesOn
  <2> QED
    BY <2>4, <2>5
<1>6. CASE Top.cache = VregionCache
  <2>1. cache[SlabCache].free >= s - 1 /\ cache[VregionCache].free >= 6
    BY <1>1, <1>2, <1>3, <1>6, RefillTop DEF RefillInv, Left
  <2>2. \/ Below(1).at = "alloc3" /\ s = 3
        \/ Below(1).at = "_region" /\ s = 2
        \/ Below(1).at = "special6" /\ s = 6
    BY <1>1, <1>2, <1>3, <1>6, RefillTop DEF SlabsAtRefill
  <2>3. CallIf(cache[SlabCache].free = 1, Frame("special", SlabCache), f)
    BY <1>6 DEF SpecialRefillsOther, Other, Reserve, MinVregion, MinSlab, SlabCache, VregionCache
  <2> HIDE DEF f
  <2>4. CASE cache[SlabCache].free = 1
    <3> DEFINE e == Frame("special", SlabCache)
    <3>1. e \in Frames /\ e.at = "special" /\ e.cache = SlabCache
      BY NewSpecial
    <3> HIDE DEF e
    <3>2. Enter(e, f)
      BY <2>3, <2>4 DEF CallIf, e
    <3>3. MayCall(e, f)
      BY <1>4, <1>6, <3>1 DEF MayCall, Refill
    <3>4. MayCall(f, Below(1))
      BY <1>1, <1>2, <1>4, RefillTop DEF MayCall, AllocPlaces, CreatePlaces, Refill
    <3>5. Below(1).at \notin Refill
      BY <2>1, <2>2, <2>4 DEF Refill
    <3>6. StackInv' /\ stack' # <<>> /\ Top' = e /\ Below(1)' = f
      <4>1. f.at \in Refill /\ e.at \in Refill /\ e.cache # f.cache
        BY <1>3, <1>4, <1>6, <3>1 DEF Refill
      <4> QED
        BY <1>1, <1>2, <1>4, <3>1, <3>2, <3>3, <3>4, <3>5, <4>1, RefillTop, EnterStack
           DEF HeapInv
    <3>7. SlabsAtRefill(f) = 1 /\ RegionsAtRefill(f) = 6
      BY <1>3, <1>4, <1>6 DEF SlabsAtRefill, RegionsAtRefill
    <3>8. ReserveInv'
      BY <1>1, <2>1, <2>4, <3>1, <3>6, <3>7
         DEF ReserveInv, RefillInv, AllocInv, RegionInv, Left
    <3> QED
      BY <1>1, <3>6, <3>8 DEF GoesOn
  <2>5. CASE cache[SlabCache].free # 1
    <3>1. Goto(f)
      BY <2>3, <2>5 DEF CallIf
    <3>2. /\ StackInv' /\ stack' # <<>> /\ Top' = f
          /\ SlabsAtRefill(Below(1))' = s
      BY <1>1, <1>2, <1>4, <3>1, RefillMoves DEF Refill
    <3>3. cache[SlabCache].free >= 2
      BY <1>3, <2>1, <2>2, <2>5
    <3> HIDE DEF s, v
    <3>4. cache[VregionCache].free >= 5 /\ f.cache # SlabCache
      BY <1>3, <1>4, <1>6, <2>1
    <3>5. ReserveInv'
      BY <1>1, <1>4, <2>1, <3>2, <3>3, <3>4
         DEF ReserveInv, RefillInv, AllocInv, RegionInv, Left
    <3> QED
      BY <1>1, <3>2, <3>5 DEF GoesOn
  <2> QED
    BY <2>4, <2>5
<1> QED
  BY <1>1, <1>2, <1>5, <1>6, RefillTop

\* A search of a region that waits for a refill is not the one a refill made.
LEMMA SearchBelow ==
    ASSUME HeapInv, stack # <<>>, Top.at \in Refill, Below(1).at = "_region"
    PROVE  Below(2).at # "special2"
<1>1. stack \in Seq(Frames) /\ Len(stack) \in Nat /\ DOMAIN stack = 1..Len(stack)
  BY RefillTop
<1>2. Len(stack) > 1 /\ Below(1) = stack[2]
  BY <1>1 DEF Below, Frame, FrameOf
<1> SUFFICES ASSUME Below(2).at = "special2" PROVE FALSE
  OBVIOUS
<1>3. Len(stack) > 2 /\ Below(2) = stack[3]
  BY <1>1 DEF Below, Frame, FrameOf
<1>4. 2 \in DOMAIN stack /\ 3 \in DOMAIN stack
  BY <1>1, <1>3
<1>5. stack[2].at \in Refill
  BY <1>3, <1>4 DEF HeapInv, StackInv, Refill
<1> QED
  BY <1>2, <1>5 DEF Refill

\* A refill returns to a call that may go on with what is left.
LEMMA SpecialReturnsGoesOn == HeapInv /\ SpecialReturns => GoesOn
<1> SUFFICES ASSUME HeapInv, SpecialReturns PROVE GoesOn
  OBVIOUS
<1>1. stack # <<>> /\ Top.at = "special6" /\ cause = "none"
      /\ Return /\ UNCHANGED <<cache, cause>>
  BY DEF SpecialReturns, At, heap
<1>2. Top.at \in Refill
  BY <1>1 DEF Refill
<1> DEFINE s == SlabsAtRefill(Below(1))
           v == RegionsAtRefill(Below(1))
<1>3. /\ s \in 1..6 /\ v \in 1..6 /\ SlabCache # VregionCache
      /\ cache[SlabCache].free \in Nat /\ cache[VregionCache].free \in Nat
  BY <1>1, <1>2, RefillTop
<1>4. /\ StackInv'
      /\ stack' # <<>> => /\ Top' = Below(1) /\ Below(1)' = Below(2)
      /\ stack' = <<>> => Below(1).at = "none"
  BY <1>1, <1>2, RefillTop, ReturnStack DEF HeapInv, Frame, FrameOf
<1>5. Below(1).at # "none"
  BY <1>1, <1>2, RefillTop
<1>6. stack' # <<>>
  BY <1>4, <1>5
<1>7. MayCall(Below(1), Below(2))
  BY <1>1, <1>5, TopFacts
<1>8. CASE Top.cache = SlabCache
  <2>1. Left(5, v - 1) /\ Left(5, 2)
    BY <1>1, <1>2, <1>8, RefillTop DEF RefillInv
  <2>2. CASE Below(1).at = "alloc2"
    <3>1. Below(1).cache = SlabCache => v = 4
      BY <2>2 DEF RegionsAtRefill
    <3>2. Below(1).cache # VregionCache
      BY <1>1, <1>2, <1>8, <1>3, <2>2, RefillTop
    <3>3. Left(3, 2) /\ (Below(1).cache \in Private => Left(3, 3))
      BY <1>3, <2>1, <3>1, <3>2 DEF Left, Private
    <3>4. ReserveInv'
      BY <1>1, <1>4, <1>6, <2>2, <3>3
         DEF ReserveInv, RefillInv, AllocInv, RegionInv, Left
    <3> QED
      BY <1>1, <1>4, <3>4 DEF GoesOn
  <2>3. CASE Below(1).at = "special6" /\ Below(1).cache = VregionCache
    <3>1. v = 6
      BY <1>3, <2>3 DEF RegionsAtRefill
    <3>2. SlabsAtRefill(Below(2)) - 1 <= 5 /\ SlabsAtRefill(Below(2)) \in 1..6
      BY RefillNumbers
    <3>3. SlabsAtRefill(Below(1))' = SlabsAtRefill(Below(2))
      BY <1>4, <1>6 DEF SlabsAtRefill
    <3>4. /\ cache[SlabCache].free >= SlabsAtRefill(Below(2)) - 1
          /\ cache[VregionCache].free >= 5 /\ cache[SlabCache].free >= 2
      BY <1>3, <2>1, <3>1, <3>2 DEF Left
    <3>5. ReserveInv'
      BY <1>1, <1>3, <1>4, <1>6, <2>3, <3>3, <3>4
         DEF ReserveInv, RefillInv, AllocInv, RegionInv, Left
    <3> QED
      BY <1>1, <1>4, <3>5 DEF GoesOn
  <2> QED
    BY <1>1, <1>2, <1>3, <1>8, <2>2, <2>3, RefillTop
<1>9. CASE Top.cache = VregionCache
  <2>1. Left(s - 1, 5) /\ Left(2, 5)
    BY <1>1, <1>2, <1>3, <1>9, RefillTop DEF RefillInv
  <2>2. CASE Below(1).at = "alloc3" /\ Below(1).cache \notin Private
    <3>1. Left(2, 3) /\ Left(2, 4)
      BY <1>3, <2>1 DEF Left
    <3>2. ReserveInv'
      BY <1>1, <1>4, <1>6, <2>2, <3>1
         DEF ReserveInv, RefillInv, AllocInv, RegionInv, Left, Private
    <3> QED
      BY <1>1, <1>4, <3>2 DEF GoesOn
  <2>3. CASE Below(1).at = "_region"
    <3>1. Below(2).at # "special2"
      BY <1>1, <1>2, <2>3, SearchBelow
    <3>2. Left(2, 3)
      BY <1>3, <2>1 DEF Left
    <3>3. ReserveInv'
      BY <1>1, <1>4, <1>6, <2>3, <3>1, <3>2
         DEF ReserveInv, RefillInv, AllocInv, RegionInv, Left
    <3> QED
      BY <1>1, <1>4, <3>3 DEF GoesOn
  <2>4. CASE Below(1).at = "special6" /\ Below(1).cache = SlabCache
    <3>1. s = 6
      BY <1>3, <2>4 DEF SlabsAtRefill
    <3>2. RegionsAtRefill(Below(2)) - 1 <= 5 /\ RegionsAtRefill(Below(2)) \in 1..6
      BY RefillNumbers
    <3>3. RegionsAtRefill(Below(1))' = RegionsAtRefill(Below(2))
      BY <1>4, <1>6 DEF RegionsAtRefill
    <3>4. /\ cache[VregionCache].free >= RegionsAtRefill(Below(2)) - 1
          /\ cache[SlabCache].free >= 5 /\ cache[VregionCache].free >= 2
      BY <1>3, <2>1, <3>1, <3>2 DEF Left
    <3>5. ReserveInv'
      BY <1>1, <1>3, <1>4, <1>6, <2>4, <3>3, <3>4
         DEF ReserveInv, RefillInv, AllocInv, RegionInv, Left
    <3> QED
      BY <1>1, <1>4, <3>5 DEF GoesOn
  <2> QED
    BY <1>1, <1>2, <1>3, <1>9, <2>2, <2>3, <2>4, RefillTop
<1> QED
  BY <1>1, <1>2, <1>8, <1>9, RefillTop

(***************************************************************************)
(* The ends of calls, and the calls of clients.                            *)
(***************************************************************************)
\* A call of the kernel itself or of a client ends with the stack empty.
LEMMA LastReturns ==
    ASSUME HeapInv, stack # <<>>, Top.at \in {"boot", "register"}, Return
    PROVE  StackInv' /\ stack' = <<>>
<1>1. stack \in Seq(Frames) /\ MayCall(Top, Below(1))
  BY TopFacts
<1>2. Below(1).at = "none"
  BY <1>1 DEF MayCall, AllocPlaces, CreatePlaces, Refill
<1>3. /\ StackInv' /\ stack' \in Seq(Frames)
      /\ stack' # <<>> => Top' = Below(1)
  BY <1>1, ReturnStack DEF HeapInv
<1>4. stack' # <<>> => Top' \in Frames
  BY <1>3 DEF Top
<1> QED
  BY <1>2, <1>3, <1>4 DEF Frames, Places

\* The first calls of boot have returned.
LEMMA BootReturnsGoesOn == HeapInv /\ BootReturns => GoesOn
<1> SUFFICES ASSUME HeapInv, BootReturns PROVE GoesOn
  OBVIOUS
<1>1. /\ stack # <<>> /\ Top.at = "boot" /\ cause = "none" /\ Return
      /\ UNCHANGED <<cache, cause>>
  BY DEF BootReturns, At, heap
<1>2. Left(2, 2)
  BY <1>1 DEF HeapInv, ReserveInv
<1>3. StackInv' /\ stack' = <<>>
  BY <1>1, LastReturns
<1>4. ReserveInv'
  BY <1>1, <1>2, <1>3 DEF ReserveInv, Left
<1> QED
  BY <1>1, <1>3, <1>4 DEF GoesOn

\* objs_cache_create writes the cache it has got.
LEMMA ObjsCacheInitGoesOn == HeapInv /\ ObjsCacheInit => GoesOn
<1> SUFFICES ASSUME HeapInv, ObjsCacheInit PROVE GoesOn
  OBVIOUS
<1>1. /\ stack # <<>> /\ Top.at = "register" /\ cause = "none" /\ Return
      /\ cause' = cause /\ cache' = Append(cache, NewCache(Top.kind))
  BY DEF ObjsCacheInit, At
<1>2. Left(2, 2)
  BY <1>1 DEF HeapInv, ReserveInv
<1>3. StackInv' /\ stack' = <<>>
  BY <1>1, LastReturns
<1>4. cache'[SlabCache] = cache[SlabCache] /\ cache'[VregionCache] = cache[VregionCache]
  BY <1>1, CacheTypes, Counters
<1>5. ReserveInv'
  BY <1>2, <1>3, <1>4 DEF ReserveInv, Left
<1> QED
  BY <1>1, <1>3, <1>5 DEF GoesOn

\* A client's call starts on an empty stack, as one function or as two.
LEMMA CallStarts ==
    ASSUME NEW f \in Frames, stack' = <<f>>, MayCall(f, Frame("none", 0))
    PROVE  StackInv' /\ stack' # <<>> /\ Top' = f /\ Below(1)' = Frame("none", 0)
<1>1. stack' # <<>> /\ Len(stack') = 1 /\ DOMAIN stack' = {1} /\ stack'[1] = f
      /\ Head(stack') = f
  OBVIOUS
<1>2. Below(1)' = Frame("none", 0)
  BY <1>1 DEF Below
<1> QED
  BY <1>1, <1>2 DEF StackInv, NoReentry, Top

\* A client call of two frames starts a stack that satisfies StackInv.
LEMMA CallsStart ==
    ASSUME NEW e \in Frames, NEW f \in Frames, stack' = <<e, f>>, MayCall(e, f),
           MayCall(f, Frame("none", 0)), e.at \notin Refill, f.at \notin Refill
    PROVE  StackInv' /\ stack' # <<>> /\ Top' = e /\ Below(1)' = f
<1>1. /\ stack' # <<>> /\ Len(stack') = 2 /\ DOMAIN stack' = {1, 2}
      /\ stack'[1] = e /\ stack'[2] = f /\ Head(stack') = e
  OBVIOUS
<1>2. Below(1)' = f /\ Below(2)' = Frame("none", 0)
  BY <1>1 DEF Below
<1>3. \A i \in DOMAIN stack' : MayCall(stack'[i], Below(i)')
  BY <1>1, <1>2
<1>4. \A i \in DOMAIN stack' : stack'[i].at \notin Refill
  BY <1>1
<1>5. NoReentry'
  BY <1>4 DEF NoReentry
<1> QED
  BY <1>1, <1>2, <1>3, <1>4, <1>5 DEF StackInv, Top

\* A client calls with nothing on the stack and both reserves filled.
LEMMA ClientGoesOn == HeapInv /\ Client => GoesOn
<1> SUFFICES ASSUME HeapInv, Client PROVE GoesOn
  OBVIOUS
<1>1. CASE ObjsCacheFree
  BY <1>1, HaltGoesOn DEF ObjsCacheFree
<1>2. ASSUME stack = <<>>, cause = "none"
      PROVE  Left(2, 2)
  BY <1>2 DEF HeapInv, ReserveInv
<1>3. ASSUME NEW c \in CacheIds \ {ObjsCache, SlabCache, VregionCache}, ObjsCacheAlloc(c)
      PROVE  GoesOn
  <2> DEFINE f == Frame("alloc", c)
  <2>1. stack = <<>> /\ cause = "none" /\ stack' = <<f>> /\ UNCHANGED <<cache, cause>>
    BY <1>3 DEF ObjsCacheAlloc, ClientCall, Idle, heap
  <2>2. c \in Nat /\ c > VregionCache /\ "alloc" \in Places
    BY Counters DEF ObjsCache, SlabCache, VregionCache, Places
  <2>3. f \in Frames /\ f.at = "alloc" /\ f.cache = c
    BY <2>2, CallFrame
  <2> HIDE DEF f
  <2>4. MayCall(f, Frame("none", 0))
    BY <2>2, <2>3 DEF MayCall, AllocPlaces, Frame, FrameOf
  <2>5. StackInv' /\ stack' # <<>> /\ Top' = f
    BY <2>1, <2>3, <2>4, CallStarts
  <2>6. c \notin Private
    BY DEF Private
  <2>7. ReserveInv'
    BY <1>2, <2>1, <2>3, <2>5, <2>6
       DEF ReserveInv, RefillInv, AllocInv, RegionInv, Left, Private
  <2> QED
    BY <2>1, <2>5, <2>7 DEF GoesOn
<1>4. ASSUME NEW kind \in Kinds, ObjsCacheCreate(kind)
      PROVE  GoesOn
  <2> DEFINE e == Frame("alloc", ObjsCache)
             f == FrameOf("register", ObjsCache, kind)
  <2>1. stack = <<>> /\ cause = "none" /\ stack' = <<e, f>> /\ UNCHANGED <<cache, cause>>
    BY <1>4 DEF ObjsCacheCreate, ClientCall, Idle, heap
  <2>2. e \in Frames /\ e.at = "alloc" /\ e.cache = ObjsCache
    BY CallFrame DEF Places, ObjsCache
  <2>3. f \in Frames /\ f.at = "register"
    <3>1. kind \in [objs : Nat, pages : Nat]
      BY KindsAssumption
    <3> QED
      BY <3>1, NewFrame DEF Places, ObjsCache
  <2> HIDE DEF e, f
  <2>4. MayCall(f, Frame("none", 0)) /\ MayCall(e, f)
    BY <2>2, <2>3 DEF MayCall, AllocPlaces, Frame, FrameOf
  <2>5. StackInv' /\ stack' # <<>> /\ Top' = e
    BY <2>1, <2>2, <2>3, <2>4, CallsStart DEF Refill
  <2>6. e.cache \notin Private
    BY <2>2 DEF Private, ObjsCache, SlabCache, VregionCache
  <2>7. ReserveInv'
    BY <1>2, <2>1, <2>2, <2>5, <2>6
       DEF ReserveInv, RefillInv, AllocInv, RegionInv, Left, Private
  <2> QED
    BY <2>1, <2>5, <2>7 DEF GoesOn
<1>5. ASSUME NEW kind \in Kinds, VregionAlloc(kind.pages)
      PROVE  GoesOn
  <2> DEFINE f == RegionCall("region", kind.pages)
  <2>1. stack = <<>> /\ cause = "none" /\ stack' = <<f>> /\ UNCHANGED <<cache, cause>>
    BY <1>5 DEF VregionAlloc, ClientCall, Idle, heap
  <2>2. f \in Frames /\ f.at = "region"
    <3>1. kind.pages \in Nat
      BY KindsAssumption
    <3> QED
      BY <3>1, NewRegionCall DEF RegionPlaces
  <2> HIDE DEF f
  <2>3. MayCall(f, Frame("none", 0))
    BY <2>2 DEF MayCall, Frame, FrameOf
  <2>4. StackInv' /\ stack' # <<>> /\ Top' = f /\ Below(1)' = Frame("none", 0)
    BY <2>1, <2>2, <2>3, CallStarts
  <2>5. ReserveInv'
    BY <1>2, <2>1, <2>2, <2>4
       DEF ReserveInv, RefillInv, AllocInv, RegionInv, Left, Frame, FrameOf
  <2> QED
    BY <2>1, <2>4, <2>5 DEF GoesOn
<1> QED
  BY <1>1, <1>3, <1>4, <1>5 DEF Client

\* Whatever the step, the calls in progress nest as before and find in the
\* reserves what they rely on.
LEMMA AlwaysGoesOn == HeapInv /\ [Next]_vars => GoesOn
<1>1. HeapInv /\ UNCHANGED vars => GoesOn
  <2> SUFFICES ASSUME HeapInv, UNCHANGED vars PROVE GoesOn
    OBVIOUS
  <2>1. UNCHANGED <<stack, cache, cause>>
    BY DEF vars
  <2> QED
    BY <2>1, StoppedStack DEF GoesOn, HeapInv, ReservesHold
<1> QED
  BY <1>1, BootReturnsGoesOn, RegionAllocGoesOn, NoRegionFitsGoesOn, RegionFitsGoesOn,
     AllocEnterGoesOn, AllocRefillGoesOn, AllocNeedsSlabGoesOn, AllocAddSlabGoesOn,
     AllocObjectGoesOn, CreateSlabObjectGoesOn, CreateRegionGoesOn, CreatePagesGoesOn,
     CreateMapsGoesOn, CreateReturnsGoesOn, SpecialRegionGoesOn, SpecialPagesGoesOn,
     SpecialMapsGoesOn, SpecialAddsSlabGoesOn, SpecialRefillsOtherGoesOn,
     SpecialReturnsGoesOn, ObjsCacheInitGoesOn, ClientGoesOn DEF Next, Step, Halted

(***************************************************************************)
(* The lists of slabs.                                                     *)
(***************************************************************************)
LEMMA FirstAdded ==
    ASSUME NEW T, NEW q \in Seq(T), NEW e \in T
    PROVE  /\ <<e>> \o q \in Seq(T) /\ <<e>> \o q # <<>> /\ Head(<<e>> \o q) = e
           /\ Len(<<e>> \o q) = Len(q) + 1
           /\ ToSet(<<e>> \o q) = ToSet(q) \cup {e}
           /\ IsInjective(q) /\ e \notin ToSet(q) => IsInjective(<<e>> \o q)
<1> DEFINE t == <<e>> \o q
<1>1. /\ t \in Seq(T) /\ t # <<>> /\ Head(t) = e /\ Len(t) = Len(q) + 1 /\ t[1] = e
      /\ DOMAIN t = 1..(Len(q) + 1) /\ DOMAIN q = 1..Len(q) /\ Len(q) \in Nat
      /\ \A i \in 2..(Len(q) + 1) : t[i] = q[i - 1]
  OBVIOUS
<1> HIDE DEF t
<1>2. ToSet(t) \subseteq ToSet(q) \cup {e}
  <2> SUFFICES ASSUME NEW i \in DOMAIN t PROVE t[i] \in ToSet(q) \cup {e}
    BY DEF ToSet
  <2>1. CASE i = 1
    BY <1>1, <2>1
  <2>2. CASE i # 1
    <3>1. i - 1 \in DOMAIN q /\ t[i] = q[i - 1]
      BY <1>1, <2>2
    <3> QED
      BY <3>1 DEF ToSet
  <2> QED
    BY <2>1, <2>2
<1>3. ToSet(q) \cup {e} \subseteq ToSet(t)
  <2>1. e \in ToSet(t)
    BY <1>1 DEF ToSet
  <2>2. \A i \in DOMAIN q : i + 1 \in DOMAIN t /\ t[i + 1] = q[i]
    BY <1>1
  <2>3. \A i \in DOMAIN q : q[i] \in ToSet(t)
    BY <2>2 DEF ToSet
  <2> QED
    BY <2>1, <2>3 DEF ToSet
<1>4. ASSUME IsInjective(q), e \notin ToSet(q)
      PROVE  IsInjective(t)
  <2> SUFFICES ASSUME NEW i \in DOMAIN t, NEW j \in DOMAIN t, t[i] = t[j] PROVE i = j
    BY DEF IsInjective
  <2>1. \A n \in DOMAIN t : n # 1 => n - 1 \in DOMAIN q /\ t[n] = q[n - 1]
    BY <1>1
  <2>2. \A n \in DOMAIN q : q[n] # e
    BY <1>4 DEF ToSet
  <2>3. CASE i # 1 /\ j # 1
    <3>1. i - 1 \in DOMAIN q /\ j - 1 \in DOMAIN q /\ q[i - 1] = q[j - 1]
      BY <2>1, <2>3
    <3>2. i - 1 = j - 1
      BY <1>4, <3>1 DEF IsInjective
    <3> QED
      BY <1>1, <3>2
  <2>4. CASE i = 1 \/ j = 1
    BY <1>1, <2>1, <2>2, <2>4
  <2> QED
    BY <2>3, <2>4
<1> QED
  BY <1>1, <1>2, <1>3, <1>4 DEF t

\* Taking the first element off a list takes it out of its set.
LEMMA FirstRemoved ==
    ASSUME NEW T, NEW q \in Seq(T), q # <<>>, NEW t, t = Tail(q)
    PROVE  /\ t \in Seq(T) /\ Len(t) = Len(q) - 1 /\ Head(q) \in ToSet(q) /\ Head(q) \in T
           /\ IsInjective(q) => ToSet(t) = ToSet(q) \ {Head(q)} /\ IsInjective(t)
<1>1. /\ t \in Seq(T) /\ Len(t) = Len(q) - 1 /\ Head(q) = q[1] /\ 1 \in DOMAIN q
      /\ DOMAIN t = 1..(Len(q) - 1) /\ DOMAIN q = 1..Len(q) /\ Len(q) \in Nat /\ q[1] \in T
      /\ \A i \in 1..(Len(q) - 1) : t[i] = q[i + 1]
  OBVIOUS
<1>2. Head(q) \in ToSet(q)
  BY <1>1 DEF ToSet
<1>3. \A i \in DOMAIN t : i + 1 \in DOMAIN q /\ i + 1 # 1 /\ t[i] = q[i + 1]
  BY <1>1
<1>4. \A i \in DOMAIN q : i # 1 => i - 1 \in DOMAIN t /\ t[i - 1] = q[i]
  BY <1>1
<1>5. ASSUME IsInjective(q)
      PROVE  ToSet(t) = ToSet(q) \ {Head(q)} /\ IsInjective(t)
  <2>1. ToSet(t) \subseteq ToSet(q) \ {Head(q)}
    <3> SUFFICES ASSUME NEW i \in DOMAIN t PROVE t[i] \in ToSet(q) \ {q[1]}
      BY <1>1 DEF ToSet
    <3>1. i + 1 \in DOMAIN q /\ i + 1 # 1 /\ t[i] = q[i + 1]
      BY <1>3
    <3>2. q[i + 1] # q[1]
      BY <1>1, <1>5, <3>1 DEF IsInjective
    <3> QED
      BY <3>1, <3>2 DEF ToSet
  <2>2. ToSet(q) \ {Head(q)} \subseteq ToSet(t)
    <3> SUFFICES ASSUME NEW i \in DOMAIN q, i # 1 PROVE q[i] \in ToSet(t)
      BY <1>1 DEF ToSet
    <3>1. i - 1 \in DOMAIN t /\ t[i - 1] = q[i]
      BY <1>4
    <3> QED
      BY <3>1 DEF ToSet
  <2>3. IsInjective(t)
    <3> SUFFICES ASSUME NEW i \in DOMAIN t, NEW j \in DOMAIN t, t[i] = t[j] PROVE i = j
      BY DEF IsInjective
    <3>1. i + 1 \in DOMAIN q /\ j + 1 \in DOMAIN q /\ q[i + 1] = q[j + 1]
      BY <1>3
    <3>2. i + 1 = j + 1
      BY <1>5, <3>1 DEF IsInjective
    <3> QED
      BY <1>1, <3>2
  <2> QED
    BY <2>1, <2>2, <2>3
<1> QED
  BY <1>1, <1>2, <1>5

\* A list of at most one element that is not empty.
LEMMA Single ==
    ASSUME NEW T, NEW q \in Seq(T), Len(q) <= 1, q # <<>>
    PROVE  /\ Len(q) = 1 /\ Tail(q) = <<>> /\ ToSet(q) = {Head(q)} /\ Head(q) \in T
           /\ q = <<Head(q)>>
<1>1. Len(q) = 1
  <2>1. Len(q) \in Nat /\ Len(q) > 0
    OBVIOUS
  <2> QED
    BY <2>1
<1>2. DOMAIN q = {1} /\ Head(q) = q[1] /\ q[1] \in T
  BY <1>1
<1>3. Tail(q) = <<>> /\ q = <<q[1]>>
  <2>1. Len(Tail(q)) = 0 /\ Tail(q) \in Seq(T)
    BY <1>1
  <2>2. Tail(q) = <<>>
    BY <2>1
  <2>3. q = [i \in 1..1 |-> q[i]]
    BY <1>1
  <2>4. <<q[1]>> = [i \in 1..1 |-> q[i]]
    OBVIOUS
  <2> QED
    BY <2>2, <2>3, <2>4
<1>4. ToSet(q) = {q[1]}
  BY <1>2 DEF ToSet
<1> QED
  BY <1>1, <1>2, <1>3, <1>4

\* The empty list and the list of one element.
LEMMA EmptyAndSingle ==
    ASSUME NEW T, NEW e \in T
    PROVE  /\ <<>> \in Seq(T) /\ Len(<<>>) = 0 /\ ToSet(<<>>) = {} /\ IsInjective(<<>>)
           /\ <<e>> \in Seq(T) /\ <<e>> # <<>> /\ Len(<<e>>) = 1 /\ Head(<<e>>) = e
           /\ ToSet(<<e>>) = {e} /\ IsInjective(<<e>>)
           /\ <<e>> \o <<>> = <<e>>
BY DEF ToSet, IsInjective

\* What CountsAgree says of a cache, for the slabs of sl.
InState(k, sl) ==
    /\ \A s \in ToSet(k.freeSlabs) : sl[s].free = k.objs
    /\ \A s \in ToSet(k.partialSlabs) : sl[s].free \in 1..(k.objs - 1)
    /\ \A s \in ToSet(k.fullSlabs) : sl[s].free = 0

Numbers(k, sl) ==
    /\ k.slabs = Len(k.freeSlabs) + Len(k.partialSlabs) + Len(k.fullSlabs)
    /\ Len(k.partialSlabs) <= 1
    /\ k.free = Len(k.freeSlabs) * k.objs
                + (IF k.partialSlabs = <<>> THEN 0 ELSE sl[Head(k.partialSlabs)].free)
    /\ k.free + k.used = k.slabs * k.objs

Sound(k, sl) == ListsApart(k) /\ InState(k, sl) /\ Numbers(k, sl)

\* CountsAgree, cache by cache.
LEMMA CountsAgreeIs ==
    /\ CountsAgree <=>
         /\ \A c \in CacheIds : Sound(cache[c], slab)
         /\ \A c, d \in CacheIds : c # d => Listed(cache[c]) \cap Listed(cache[d]) = {}
    /\ CountsAgree' <=>
         /\ \A c \in CacheIds' : Sound(cache'[c], slab')
         /\ \A c, d \in CacheIds' : c # d => Listed(cache'[c]) \cap Listed(cache'[d]) = {}
BY DEF CountsAgree, Sound, InState, Numbers, InListOfItsState, Counted

CacheRecord(D) == [objs : Nat, pages : Nat, free : Nat, used : Nat, slabs : Nat,
                   freeSlabs : Seq(D), partialSlabs : Seq(D), fullSlabs : Seq(D)]

\* The fields of a cache, typed.
LEMMA RecordFields ==
    ASSUME NEW D, NEW k \in CacheRecord(D)
    PROVE  /\ k.objs \in Nat /\ k.pages \in Nat /\ k.free \in Nat /\ k.used \in Nat
           /\ k.slabs \in Nat /\ k.freeSlabs \in Seq(D) /\ k.partialSlabs \in Seq(D)
           /\ k.fullSlabs \in Seq(D)
BY DEF CacheRecord

\* The lists after an object was taken of the slab s.
LEMMA RetrievedLists ==
    ASSUME NEW D, NEW k \in CacheRecord(D), Sound(k, slab), NEW s, s = PickSlab(k),
           k.partialSlabs \o k.freeSlabs # <<>>, NEW r, r = Retrieved(k)
    PROVE  /\ s \in D
           /\ \/ k.partialSlabs = <<s>> /\ r.freeSlabs = k.freeSlabs
              \/ /\ k.partialSlabs = <<>> /\ k.freeSlabs # <<>> /\ s = Head(k.freeSlabs)
                 /\ r.freeSlabs = Tail(k.freeSlabs)
           /\ r.partialSlabs = (IF slab[s].free = 1 THEN <<>> ELSE <<s>>)
           /\ r.fullSlabs = (IF slab[s].free = 1 THEN <<s>> \o k.fullSlabs ELSE k.fullSlabs)
           /\ r.objs = k.objs /\ r.pages = k.pages /\ r.free = k.free - 1
           /\ r.used = k.used + 1 /\ r.slabs = k.slabs
<1>1. /\ k.freeSlabs \in Seq(D) /\ k.partialSlabs \in Seq(D) /\ k.fullSlabs \in Seq(D)
      /\ Len(k.partialSlabs) <= 1
  BY RecordFields DEF Sound, Numbers
<1>2. /\ r.objs = k.objs /\ r.pages = k.pages /\ r.free = k.free - 1
      /\ r.used = k.used + 1 /\ r.slabs = k.slabs
      /\ r.freeSlabs = (IF k.partialSlabs # <<>> THEN k.freeSlabs ELSE Tail(k.freeSlabs))
      /\ r.partialSlabs = (IF slab[s].free = 1
            THEN IF k.partialSlabs # <<>> THEN Tail(k.partialSlabs) ELSE k.partialSlabs
            ELSE <<s>> \o (IF k.partialSlabs # <<>> THEN Tail(k.partialSlabs)
                           ELSE k.partialSlabs))
      /\ r.fullSlabs = (IF slab[s].free = 1 THEN <<s>> \o k.fullSlabs ELSE k.fullSlabs)
  BY DEF Retrieved, CacheRecord
<1>3. CASE k.partialSlabs # <<>>
  <2>1. /\ Tail(k.partialSlabs) = <<>> /\ Head(k.partialSlabs) \in D
        /\ k.partialSlabs = <<Head(k.partialSlabs)>>
    BY <1>1, <1>3, Single
  <2>2. s = Head(k.partialSlabs)
    BY <1>1, <1>3, FirstOfBoth DEF PickSlab
  <2>3. <<s>> \o <<>> = <<s>>
    BY <2>1, <2>2, EmptyAndSingle
  <2> QED
    BY <1>2, <1>3, <2>1, <2>2, <2>3
<1>4. CASE k.partialSlabs = <<>>
  <2>1. k.partialSlabs \o k.freeSlabs = k.freeSlabs
    BY <1>1, <1>4
  <2>2. k.freeSlabs # <<>> /\ s = Head(k.freeSlabs)
    BY <2>1 DEF PickSlab
  <2>3. s \in D
    BY <1>1, <2>2, FirstRemoved
  <2>4. <<s>> \o <<>> = <<s>>
    BY <2>3, EmptyAndSingle
  <2> QED
    BY <1>2, <1>4, <2>2, <2>3, <2>4
<1> QED
  BY <1>3, <1>4

\* The one product that changes: one slab more.
LEMMA OneMore ==
    ASSUME NEW a \in Nat, NEW b \in Nat
    PROVE  (a + 1) * b = a * b + b
  OBVIOUS

\* Taking an object keeps a cache sound, and its slabs.
LEMMA RetrievedSound ==
    ASSUME NEW D, NEW k \in CacheRecord(D), Sound(k, slab), k.objs > 0,
           k.partialSlabs \o k.freeSlabs # <<>>, slab[PickSlab(k)].free > 0,
           NEW sl, sl[PickSlab(k)].free = slab[PickSlab(k)].free - 1,
           \A t \in D : t # PickSlab(k) => sl[t].free = slab[t].free
    PROVE  /\ Retrieved(k) \in CacheRecord(D) /\ Sound(Retrieved(k), sl)
           /\ Listed(Retrieved(k)) = Listed(k) /\ PickSlab(k) \in Listed(k)
<1> DEFINE s == PickSlab(k)
           r == Retrieved(k)
           F == k.freeSlabs
           P == k.partialSlabs
           U == k.fullSlabs
           o == slab[s].free
           F2 == r.freeSlabs
           P2 == r.partialSlabs
           U2 == r.fullSlabs
<1>1. /\ F \in Seq(D) /\ P \in Seq(D) /\ U \in Seq(D) /\ k.objs \in Nat
      /\ k.free \in Nat /\ k.used \in Nat /\ k.slabs \in Nat /\ k.pages \in Nat
  BY RecordFields
<1>2. /\ IsInjective(F) /\ IsInjective(U) /\ ToSet(F) \cap ToSet(P) = {}
      /\ ToSet(F) \cap ToSet(U) = {} /\ ToSet(P) \cap ToSet(U) = {}
      /\ \A t \in ToSet(F) : slab[t].free = k.objs
      /\ \A t \in ToSet(P) : slab[t].free \in 1..(k.objs - 1)
      /\ \A t \in ToSet(U) : slab[t].free = 0
      /\ k.slabs = Len(F) + Len(P) + Len(U)
      /\ k.free = Len(F) * k.objs + (IF P = <<>> THEN 0 ELSE slab[Head(P)].free)
      /\ k.free + k.used = k.slabs * k.objs
  BY DEF Sound, ListsApart, InState, Numbers
<1>3. /\ s \in D
      /\ \/ P = <<s>> /\ F2 = F
         \/ P = <<>> /\ F # <<>> /\ s = Head(F) /\ F2 = Tail(F)
      /\ P2 = (IF o = 1 THEN <<>> ELSE <<s>>)
      /\ U2 = (IF o = 1 THEN <<s>> \o U ELSE U)
      /\ r.objs = k.objs /\ r.pages = k.pages /\ r.free = k.free - 1
      /\ r.used = k.used + 1 /\ r.slabs = k.slabs
  <2> HIDE DEF s, r
  <2>1. s = PickSlab(k) /\ r = Retrieved(k)
    BY DEF s, r
  <2> QED
    BY <2>1, RetrievedLists
<1> HIDE DEF s, r
<1>4. /\ \A q \in {F, P, U} : ToSet(q) \subseteq D
  BY <1>1 DEF ToSet
<1>5. /\ ToSet(<<>>) = {} /\ Len(<<>>) = 0 /\ ToSet(<<s>>) = {s} /\ Len(<<s>>) = 1
      /\ <<s>> # <<>> /\ Head(<<s>>) = s /\ <<s>> \in Seq(D) /\ <<>> \in Seq(D)
  BY <1>3, EmptyAndSingle
\* The two lists the slab is taken from, without it.
<1>6. /\ F2 \in Seq(D) /\ IsInjective(F2) /\ ToSet(F2) = ToSet(F) \ {s}
      /\ s \in ToSet(F) \cup ToSet(P) /\ s \notin ToSet(U)
      /\ ToSet(F2) \cup {s} = ToSet(F) \cup ToSet(P)
      /\ o \in Nat /\ o <= k.objs
      /\ Len(F) \in Nat /\ Len(F2) \in Nat
      /\ Len(F2) + 1 = Len(F) + Len(P)
      /\ k.free = Len(F2) * k.objs + o
  <2>1. CASE P = <<s>> /\ F2 = F
    <3>1. s \in ToSet(P) /\ ToSet(P) = {s} /\ s \notin ToSet(F) /\ Len(P) = 1
          /\ P # <<>> /\ Head(P) = s
      BY <1>2, <1>5, <2>1
    <3>2. o \in 1..(k.objs - 1)
      BY <1>2, <3>1
    <3>3. k.free = Len(F2) * k.objs + o
      BY <1>2, <2>1, <3>1
    <3> QED
      BY SMTT(30), <1>1, <1>2, <2>1, <3>1, <3>2, <3>3
  <2>2. CASE P = <<>> /\ F # <<>> /\ s = Head(F) /\ F2 = Tail(F)
    <3>1. /\ F2 \in Seq(D) /\ Len(F2) = Len(F) - 1 /\ s \in ToSet(F)
          /\ ToSet(F2) = ToSet(F) \ {s} /\ IsInjective(F2)
      <4>1. F \in Seq(D) /\ IsInjective(F)
        BY <1>1, <1>2
      <4> QED
        BY <2>2, <4>1, FirstRemoved
    <3>2. o = k.objs /\ ToSet(P) = {} /\ Len(P) = 0
      BY <1>2, <1>5, <2>2, <3>1
    <3>3. Len(F2) \in Nat /\ Len(F) = Len(F2) + 1
      BY <1>1, <3>1
    <3>4. k.free = (Len(F2) + 1) * k.objs
      BY <1>1, <1>2, <2>2, <3>3
    <3>5. (Len(F2) + 1) * k.objs = Len(F2) * k.objs + k.objs
      BY <1>1, <3>3, OneMore
    <3> QED
      BY <1>1, <1>2, <3>1, <3>2, <3>3, <3>4, <3>5
  <2> QED
    BY <1>3, <2>1, <2>2
<1>7. /\ P2 \in Seq(D) /\ U2 \in Seq(D) /\ IsInjective(U2) /\ Len(U) \in Nat
      /\ o = 1 => ToSet(P2) = {} /\ ToSet(U2) = ToSet(U) \cup {s} /\ Len(U2) = Len(U) + 1
                  /\ Len(P2) = 0 /\ P2 = <<>>
      /\ o # 1 => ToSet(P2) = {s} /\ ToSet(U2) = ToSet(U) /\ Len(U2) = Len(U)
                  /\ Len(P2) = 1 /\ P2 # <<>> /\ Head(P2) = s
  <2>1. Len(U) \in Nat /\ U \in Seq(D) /\ IsInjective(U) /\ s \in D /\ s \notin ToSet(U)
    <3>1. U \in Seq(D) /\ IsInjective(U)
      BY <1>1, <1>2
    <3>2. Len(U) \in Nat
      BY <3>1
    <3> QED
      BY <1>3, <1>6, <3>1, <3>2
  <2>2. CASE o = 1
    <3>1. U2 = <<s>> \o U /\ P2 = <<>>
      BY <1>3, <2>2
    <3>2. /\ U2 \in Seq(D) /\ Len(U2) = Len(U) + 1 /\ ToSet(U2) = ToSet(U) \cup {s}
          /\ IsInjective(U2)
      <4> HIDE DEF U, U2
      <4> QED
        BY <2>1, <3>1, FirstAdded
    <3> QED
      BY <1>5, <2>1, <2>2, <3>1, <3>2
  <2>3. CASE o # 1
    <3>1. U2 = U /\ P2 = <<s>>
      BY <1>3, <2>3
    <3> QED
      BY <1>5, <2>1, <2>3, <3>1
  <2> QED
    BY <2>2, <2>3
<1> HIDE DEF F, P, U, F2, P2, U2, o
<1>8. ListsApart(r)
  <2>1. /\ IsInjective(F2) /\ IsInjective(U2) /\ ToSet(F2) \cap ToSet(P2) = {}
        /\ ToSet(F2) \cap ToSet(U2) = {} /\ ToSet(P2) \cap ToSet(U2) = {}
    BY <1>2, <1>6, <1>7
  <2> QED
    BY <2>1 DEF ListsApart, F2, P2, U2
<1>9. Listed(r) = Listed(k)
  <2>1. ToSet(F2) \cup ToSet(P2) \cup ToSet(U2) = ToSet(F) \cup ToSet(P) \cup ToSet(U)
    BY <1>6, <1>7
  <2> QED
    BY <2>1 DEF Listed, F2, P2, U2, F, P, U
<1>10. InState(r, sl)
  <2>1. o > 0 /\ sl[s].free = o - 1
    BY DEF o, s
  <2>2. \A t \in D : t # s => sl[t].free = slab[t].free
    BY DEF s
  <2>3. \A t \in ToSet(F2) : sl[t].free = k.objs
    BY <1>2, <1>4, <1>6, <2>2
  <2>4. \A t \in ToSet(P2) : sl[t].free \in 1..(k.objs - 1)
    BY SMTT(30), <1>1, <1>6, <1>7, <2>1
  <2>5. \A t \in ToSet(U2) : sl[t].free = 0
    BY <1>2, <1>4, <1>6, <1>7, <2>1, <2>2
  <2> QED
    BY <1>3, <2>3, <2>4, <2>5 DEF InState, F2, P2, U2
<1>11. Numbers(r, sl)
  <2>1. o > 0 /\ sl[s].free = o - 1
    BY DEF o, s
  <2>2. k.slabs = Len(F2) + Len(P2) + Len(U2) /\ Len(P2) <= 1
    <3>1. Len(P) \in Nat /\ Len(F) \in Nat /\ Len(U) \in Nat /\ Len(F2) \in Nat
      BY <1>1, <1>6
    <3>2. k.slabs = Len(F) + Len(P) + Len(U) /\ Len(F2) + 1 = Len(F) + Len(P)
      BY <1>2, <1>6
    <3>3. k.slabs = Len(F2) + 1 + Len(U)
      BY <3>1, <3>2
    <3>4. CASE o = 1
      BY <1>7, <3>1, <3>3, <3>4
    <3>5. CASE o # 1
      <4>1. Len(U2) = Len(U) /\ Len(P2) = 1
        BY <1>7, <3>5
      <4> QED
        BY <3>1, <3>3, <4>1
    <3> QED
      BY <3>4, <3>5
  <2>3. k.free - 1 = Len(F2) * k.objs + (IF P2 = <<>> THEN 0 ELSE sl[Head(P2)].free)
    <3>1. Len(F2) * k.objs \in Int
      BY <1>1, <1>6
    <3> QED
      BY SMTT(30), <1>6, <1>7, <2>1, <3>1
  <2>4. (k.free - 1) + (k.used + 1) = k.slabs * k.objs
    <3>1. (k.free - 1) + (k.used + 1) = k.free + k.used
      <4>1. k.free \in Nat /\ k.used \in Nat
        BY <1>1
      <4> QED
        BY <4>1
    <3> QED
      BY <1>2, <3>1
  <2> QED
    BY <1>3, <2>2, <2>3, <2>4 DEF Numbers, F2, P2, U2
<1>12. r \in CacheRecord(D)
  <2>1. k.free > 0
    <3>1. o > 0
      BY DEF o, s
    <3>2. Len(F2) * k.objs \in Nat
      BY <1>1, <1>6
    <3> QED
      BY <1>6, <3>1, <3>2
  <2>2. F2 \in Seq(D) /\ P2 \in Seq(D) /\ U2 \in Seq(D)
    BY <1>6, <1>7
  <2>3. /\ r = [k EXCEPT !.free = r.free, !.used = r.used, !.freeSlabs = F2,
                         !.partialSlabs = P2, !.fullSlabs = U2]
    BY ZenonT(60) DEF Retrieved, CacheRecord, F2, P2, U2, r
  <2>4. r.free \in Nat /\ r.used \in Nat
    BY SMTT(30), <1>1, <1>3, <2>1
  <2> QED
    BY <2>2, <2>3, <2>4 DEF CacheRecord
<1> QED
  BY <1>6, <1>8, <1>9, <1>10, <1>11, <1>12 DEF Sound, Listed, F, P, r, s

\* Adding a free slab keeps a cache sound.
LEMMA WithSlabSound ==
    ASSUME NEW D, NEW k \in CacheRecord(D), NEW sl, Sound(k, sl), NEW s \in D,
           s \notin Listed(k), sl[s].free = k.objs, NEW r, r = WithSlab(k, s)
    PROVE  /\ r \in CacheRecord(D) /\ Sound(r, sl) /\ Listed(r) = Listed(k) \cup {s}
           /\ r.objs = k.objs /\ r.pages = k.pages /\ r.used = k.used
<1> DEFINE F == k.freeSlabs
           G == <<s>> \o F
<1>1. F \in Seq(D) /\ Len(F) \in Nat
  BY RecordFields
<1>2. /\ k.objs \in Nat /\ k.free \in Nat /\ k.used \in Nat /\ k.slabs \in Nat
      /\ k.pages \in Nat
  BY RecordFields
<1>3. /\ r.free = k.free + k.objs /\ r.used = k.used /\ r.objs = k.objs
      /\ r.pages = k.pages /\ r.slabs = k.slabs + 1 /\ r.freeSlabs = G
      /\ r.partialSlabs = k.partialSlabs /\ r.fullSlabs = k.fullSlabs
  BY DEF WithSlab, CacheRecord
<1>4. /\ G \in Seq(D) /\ Len(G) = Len(F) + 1 /\ ToSet(G) = ToSet(F) \cup {s}
      /\ IsInjective(F) /\ s \notin ToSet(F) => IsInjective(G)
  <2> HIDE DEF F
  <2> QED
    BY <1>1, FirstAdded
<1>5. r \in CacheRecord(D)
  <2>1. r.free \in Nat /\ r.slabs \in Nat
    BY <1>2, <1>3
  <2>2. r = [k EXCEPT !.free = r.free, !.slabs = r.slabs, !.freeSlabs = G]
    BY DEF WithSlab, CacheRecord
  <2> HIDE DEF G
  <2> QED
    BY <1>4, <2>1, <2>2 DEF CacheRecord
<1> HIDE DEF F, G
<1>6. s \notin ToSet(F) \cup ToSet(k.partialSlabs) \cup ToSet(k.fullSlabs)
  BY DEF Listed, F
<1>7. ListsApart(r)
  <2>1. /\ IsInjective(F) /\ IsInjective(k.fullSlabs) /\ ToSet(F) \cap ToSet(k.partialSlabs) = {}
        /\ ToSet(F) \cap ToSet(k.fullSlabs) = {}
        /\ ToSet(k.partialSlabs) \cap ToSet(k.fullSlabs) = {}
    BY DEF Sound, ListsApart, F
  <2> QED
    BY <1>3, <1>4, <1>6, <2>1 DEF ListsApart
<1>8. InState(r, sl)
  <2>1. /\ \A t \in ToSet(F) : sl[t].free = k.objs
        /\ \A t \in ToSet(k.partialSlabs) : sl[t].free \in 1..(k.objs - 1)
        /\ \A t \in ToSet(k.fullSlabs) : sl[t].free = 0
    BY DEF Sound, InState, F
  <2> QED
    BY <1>3, <1>4, <2>1 DEF InState
<1>9. Numbers(r, sl)
  <2> DEFINE P == k.partialSlabs
             m == IF P = <<>> THEN 0 ELSE sl[Head(P)].free
  <2>1. /\ k.slabs = Len(F) + Len(P) + Len(k.fullSlabs) /\ Len(P) <= 1
        /\ k.free = Len(F) * k.objs + m /\ k.free + k.used = k.slabs * k.objs
    BY DEF Sound, Numbers, F
  <2>2. P \in Seq(D) /\ k.fullSlabs \in Seq(D)
    BY RecordFields
  <2>3. Len(P) \in Nat /\ Len(k.fullSlabs) \in Nat
    BY <2>2
  <2>4. m \in Int
    <3>1. CASE P = <<>>
      BY <3>1
    <3>2. CASE P # <<>>
      <4>1. Head(P) \in ToSet(P)
        BY <2>2, <3>2, FirstRemoved
      <4>2. sl[Head(P)].free \in 1..(k.objs - 1)
        BY <4>1 DEF Sound, InState
      <4> QED
        BY <3>2, <4>2
    <3> QED
      BY <3>1, <3>2
  <2> HIDE DEF P, m
  <2>5. Len(G) * k.objs = Len(F) * k.objs + k.objs
    BY <1>1, <1>2, <1>4
  <2>6. (k.slabs + 1) * k.objs = k.slabs * k.objs + k.objs /\ k.slabs * k.objs \in Int
    BY <1>2, OneMore
  <2>7. k.free + k.objs = Len(G) * k.objs + m
    <3>1. Len(F) * k.objs \in Int
      BY <1>1, <1>2
    <3> QED
      BY <1>2, <2>1, <2>4, <2>5, <3>1
  <2>8. (k.free + k.objs) + k.used = (k.slabs + 1) * k.objs
    <3> DEFINE fr == k.free
               us == k.used
               ob == k.objs
               all == k.slabs * k.objs
    <3>1. /\ fr \in Int /\ us \in Int /\ ob \in Int
      BY <1>2
    <3>2. all \in Int /\ (k.slabs + 1) * k.objs = all + ob
      BY <2>6, Zenon
    <3>3. fr + us = all
      BY <2>1, Zenon
    <3> HIDE DEF fr, us, ob, all
    <3>4. (fr + ob) + us = all + ob
      BY <3>1, <3>2, <3>3
    <3> QED
      BY <3>2, <3>4, Zenon DEF fr, us, ob
  <2>9. k.slabs + 1 = Len(G) + Len(P) + Len(k.fullSlabs)
    <3> DEFINE n == k.slabs
               l == Len(F)
               m2 == Len(P)
               u == Len(k.fullSlabs)
    <3>1. /\ n \in Int /\ l \in Int /\ m2 \in Int /\ u \in Int
      BY <1>1, <1>2, <2>3
    <3>2. n = l + m2 + u
      BY <2>1, Zenon
    <3>3. Len(G) = l + 1
      BY <1>4, Zenon
    <3> HIDE DEF n, l, m2, u
    <3>4. n + 1 = Len(G) + m2 + u
      BY <3>1, <3>2, <3>3
    <3> QED
      BY <3>4, Zenon DEF n, m2, u
  <2> QED
    BY <1>3, <2>1, <2>7, <2>8, <2>9 DEF Numbers, P, m
<1>10. Listed(r) = Listed(k) \cup {s}
  BY <1>3, <1>4 DEF Listed, F
<1> QED
  BY <1>3, <1>5, <1>7, <1>8, <1>9, <1>10 DEF Sound

\* A new cache is sound: it has no slab.
LEMMA NewSound ==
    ASSUME NEW D, NEW kind \in [objs : Nat, pages : Nat], NEW sl, NEW r, r = NewCache(kind)
    PROVE  /\ r \in CacheRecord(D) /\ Sound(r, sl) /\ Listed(r) = {}
           /\ r.objs = kind.objs /\ r.pages = kind.pages
<1>1. /\ r.objs = kind.objs /\ r.pages = kind.pages /\ r.free = 0 /\ r.used = 0
      /\ r.slabs = 0 /\ r.freeSlabs = <<>> /\ r.partialSlabs = <<>> /\ r.fullSlabs = <<>>
  BY DEF NewCache
<1>2. kind.objs \in Nat /\ kind.pages \in Nat
  OBVIOUS
<1>3. r \in CacheRecord(D)
  BY <1>2 DEF NewCache, CacheRecord
<1>4. ToSet(<<>>) = {} /\ Len(<<>>) = 0 /\ IsInjective(<<>>)
  BY DEF ToSet, IsInjective
<1>5. Sound(r, sl)
  BY <1>1, <1>2, <1>4 DEF Sound, ListsApart, InState, Numbers
<1> QED
  BY <1>1, <1>3, <1>4, <1>5 DEF Listed

\* A cache stays sound as long as its own slabs do not change.
LEMMA StaysSound ==
    ASSUME NEW D, NEW k \in CacheRecord(D), NEW sl, Sound(k, sl), NEW sm,
           \A t \in Listed(k) : sm[t].free = sl[t].free
    PROVE  Sound(k, sm)
<1>1. InState(k, sm)
  BY DEF Sound, InState, Listed
<1>2. k.partialSlabs # <<>> => Head(k.partialSlabs) \in Listed(k)
  <2>1. k.partialSlabs \in Seq(D)
    BY RecordFields
  <2>2. k.partialSlabs # <<>> => Head(k.partialSlabs) \in ToSet(k.partialSlabs)
    BY <2>1, FirstRemoved
  <2> QED
    BY <2>2 DEF Listed
<1>3. Numbers(k, sm)
  BY <1>2 DEF Sound, Numbers
<1> QED
  BY <1>1, <1>3 DEF Sound

\* New slabs change nothing about the lists of a cache.
LEMMA RecordGrows ==
    ASSUME NEW D, NEW E, D \subseteq E, NEW k \in CacheRecord(D)
    PROVE  k \in CacheRecord(E) /\ Listed(k) \subseteq D
<1>1. /\ k.freeSlabs \in Seq(D) /\ k.partialSlabs \in Seq(D) /\ k.fullSlabs \in Seq(D)
  BY RecordFields
<1>2. Seq(D) \subseteq Seq(E)
  OBVIOUS
<1>3. k \in CacheRecord(E)
  BY <1>2 DEF CacheRecord
<1>4. Listed(k) \subseteq D
  BY <1>1 DEF Listed, ToSet
<1> QED
  BY <1>3, <1>4

SlabRecord == [free : Nat, region : Regions]

\* The part of the invariant about caches, their lists and counters.
CachesSound ==
    /\ CountsAgree /\ cache \in Seq(CacheRecord(DOMAIN slab))
    /\ \A s \in DOMAIN slab : slab[s] \in SlabRecord

\* The invariant says that every cache is sound and the caches share no slab.
LEMMA SoundNow ==
    ASSUME HeapInv
    PROVE  /\ CachesSound
           /\ \A c \in CacheIds : /\ cache[c] \in CacheRecord(DOMAIN slab)
                                  /\ Sound(cache[c], slab)
                                  /\ Listed(cache[c]) \subseteq DOMAIN slab
           /\ \A c, d \in CacheIds : c # d => Listed(cache[c]) \cap Listed(cache[d]) = {}
<1>1. cache \in Seq(CacheRecord(DOMAIN slab)) /\ \A s \in DOMAIN slab : slab[s] \in SlabRecord
  BY DEF HeapInv, TypeOK, CacheRecord, SlabRecord
<1>2. CountsAgree
  BY DEF HeapInv
<1>3. \A c \in CacheIds : cache[c] \in CacheRecord(DOMAIN slab)
  BY <1>1 DEF CacheIds
<1>4. \A c \in CacheIds : Listed(cache[c]) \subseteq DOMAIN slab
  BY <1>3, RecordGrows
<1> QED
  BY <1>1, <1>2, <1>3, <1>4, CountsAgreeIs DEF CachesSound

\* Caches and slabs that do not change stay sound.
LEMMA KeepsSound ==
    ASSUME HeapInv, UNCHANGED <<cache, slab>>
    PROVE  CachesSound'
BY SoundNow DEF CachesSound, CountsAgree, CacheIds, InListOfItsState, Counted

\* An object is taken from the cache c.
Takes(c) ==
    /\ CanRetrieve(c) /\ cache' = [cache EXCEPT ![c] = Retrieved(@)]
    /\ slab' = SlabAfterRetrieve(c)

\* After an object was taken from a cache, every cache is sound.
LEMMA TakesSound ==
    ASSUME HeapInv, NEW c \in CacheIds, Takes(c)
    PROVE  /\ CachesSound' /\ CacheIds' = CacheIds /\ DOMAIN slab' = DOMAIN slab
           /\ \A s \in DOMAIN slab : slab'[s].region = slab[s].region
           /\ \A d \in CacheIds : /\ Listed(cache'[d]) = Listed(cache[d])
                                  /\ cache'[d].objs = cache[d].objs
                                  /\ cache'[d].pages = cache[d].pages
           /\ cache'[c].used = cache[c].used + 1
           /\ \A d \in CacheIds : d # c => cache'[d] = cache[d]
<1> DEFINE D == DOMAIN slab
           k == cache[c]
           s == PickSlab(k)
<1>1. /\ \A d \in CacheIds : /\ cache[d] \in CacheRecord(D) /\ Sound(cache[d], slab)
                             /\ Listed(cache[d]) \subseteq D
      /\ \A d, e \in CacheIds : d # e => Listed(cache[d]) \cap Listed(cache[e]) = {}
      /\ \A t \in D : slab[t] \in SlabRecord
      /\ cache \in Seq(CacheRecord(D))
  BY SoundNow DEF CachesSound
<1>2. /\ k.partialSlabs \o k.freeSlabs # <<>> /\ slab[s].free > 0
      /\ slab' = [slab EXCEPT ![s].free = @ - 1]
  BY DEF Takes, CanRetrieve, SlabAfterRetrieve
<1>3. k.objs > 0
  BY Counters
<1>4. /\ CacheIds' = CacheIds /\ Len(cache') = Len(cache) /\ cache'[c] = Retrieved(k)
      /\ \A d \in CacheIds : d # c => cache'[d] = cache[d]
  BY RetrievedFrom DEF Takes
<1>5. s \in D
  BY <1>1, <1>2, RetrievedLists
<1>6. /\ DOMAIN slab' = D /\ slab'[s].free = slab[s].free - 1
      /\ slab'[s].region = slab[s].region /\ \A t \in D : t # s => slab'[t] = slab[t]
      /\ slab'[s] \in SlabRecord
  <2>1. slab[s] \in SlabRecord
    BY <1>1, <1>5
  <2>2. slab'[s] = [slab[s] EXCEPT !.free = @ - 1] /\ DOMAIN slab' = D
        /\ \A t \in D : t # s => slab'[t] = slab[t]
    BY <1>2, <1>5
  <2> QED
    BY <1>2, <2>1, <2>2 DEF SlabRecord
<1>7. /\ cache'[c] \in CacheRecord(D) /\ Sound(cache'[c], slab')
      /\ Listed(cache'[c]) = Listed(k) /\ s \in Listed(k)
  <2>1. k \in CacheRecord(D) /\ Sound(k, slab)
    BY <1>1
  <2>2. \A t \in D : t # s => slab'[t].free = slab[t].free
    BY <1>6
  <2>3. /\ Retrieved(k) \in CacheRecord(D) /\ Sound(Retrieved(k), slab')
        /\ Listed(Retrieved(k)) = Listed(k) /\ s \in Listed(k)
    <3>1. /\ k.partialSlabs \o k.freeSlabs # <<>> /\ slab[PickSlab(k)].free > 0
          /\ slab'[PickSlab(k)].free = slab[PickSlab(k)].free - 1 /\ k.objs > 0
          /\ \A t \in D : t # PickSlab(k) => slab'[t].free = slab[t].free
      BY <1>2, <1>3, <1>6, <2>2
    <3> HIDE DEF D, k
    <3> QED
      BY <2>1, <3>1, RetrievedSound
  <2> QED
    BY <1>4, <2>3
<1>8. \A d \in CacheIds : d # c => Sound(cache'[d], slab')
  <2> SUFFICES ASSUME NEW d \in CacheIds, d # c PROVE Sound(cache'[d], slab')
    OBVIOUS
  <2>1. cache'[d] = cache[d] /\ Sound(cache[d], slab) /\ cache[d] \in CacheRecord(D)
    BY <1>1, <1>4
  <2>2. s \notin Listed(cache[d]) /\ Listed(cache[d]) \subseteq D
    BY <1>1, <1>7
  <2>3. \A t \in Listed(cache[d]) : slab'[t].free = slab[t].free
    BY <1>6, <2>2
  <2> QED
    BY <2>1, <2>3, StaysSound
<1>9. CountsAgree'
  <2>1. \A d \in CacheIds : Sound(cache'[d], slab')
    BY <1>7, <1>8
  <2>2. \A d \in CacheIds : Listed(cache'[d]) = Listed(cache[d])
    BY <1>4, <1>7
  <2> QED
    BY <1>1, <1>4, <2>1, <2>2, CountsAgreeIs
<1>10. cache' \in Seq(CacheRecord(D))
  <2> HIDE DEF D
  <2>1. cache' = [cache EXCEPT ![c] = Retrieved(@)] /\ Retrieved(cache[c]) \in CacheRecord(D)
    BY <1>4, <1>7 DEF Takes
  <2> QED
    BY <1>1, <2>1 DEF CacheIds
<1>11. k \in CacheRecord(D) /\ Retrieved(k).objs = k.objs /\ Retrieved(k).pages = k.pages
       /\ Retrieved(k).used = k.used + 1
  <2>1. k \in CacheRecord(D) /\ k \in CacheRecords
    BY <1>1, CacheTypes
  <2> HIDE DEF k
  <2> QED
    BY <2>1, RetrievedCounts
<1> QED
  BY <1>1, <1>4, <1>6, <1>7, <1>9, <1>10, <1>11 DEF CachesSound

\* A new slab s is added to the cache c; it may have been set up in this step.
Adds(c, s) ==
    /\ cache' = [cache EXCEPT ![c] = WithSlab(@, s)]
    /\ DOMAIN slab' = DOMAIN slab \cup {s} /\ slab'[s] \in SlabRecord
    /\ \A t \in DOMAIN slab : t # s => slab'[t] = slab[t]
    /\ slab'[s].free = cache[c].objs
    /\ \A d \in CacheIds : s \notin Listed(cache[d])

\* After a slab was added to a cache, every cache is sound.
LEMMA AddsSound ==
    ASSUME HeapInv, NEW c \in CacheIds, NEW s, Adds(c, s)
    PROVE  /\ CachesSound' /\ CacheIds' = CacheIds
           /\ \A d \in CacheIds : /\ cache'[d].objs = cache[d].objs
                                  /\ cache'[d].pages = cache[d].pages
                                  /\ cache'[d].used = cache[d].used
           /\ \A d \in CacheIds : d # c => cache'[d] = cache[d]
           /\ Listed(cache'[c]) = Listed(cache[c]) \cup {s}
<1> DEFINE D == DOMAIN slab
           E == DOMAIN slab'
           k == cache[c]
<1>1. /\ \A d \in CacheIds : /\ cache[d] \in CacheRecord(D) /\ Sound(cache[d], slab)
                             /\ Listed(cache[d]) \subseteq D
      /\ \A d, e \in CacheIds : d # e => Listed(cache[d]) \cap Listed(cache[e]) = {}
      /\ \A t \in D : slab[t] \in SlabRecord
      /\ cache \in Seq(CacheRecord(D))
  BY SoundNow DEF CachesSound
<1>2. /\ CacheIds' = CacheIds /\ Len(cache') = Len(cache) /\ cache'[c] = WithSlab(k, s)
      /\ \A d \in CacheIds : d # c => cache'[d] = cache[d]
  BY AddedTo DEF Adds
<1>3. D \subseteq E /\ s \in E
  BY DEF Adds
<1>4. \A d \in CacheIds : Sound(cache[d], slab') /\ cache[d] \in CacheRecord(E)
  <2> SUFFICES ASSUME NEW d \in CacheIds
               PROVE  Sound(cache[d], slab') /\ cache[d] \in CacheRecord(E)
    OBVIOUS
  <2>1. \A t \in Listed(cache[d]) : slab'[t].free = slab[t].free
    BY <1>1 DEF Adds
  <2> HIDE DEF D, E
  <2>2. Sound(cache[d], slab')
    BY <1>1, <2>1, StaysSound
  <2> QED
    BY <1>1, <1>3, <2>2, RecordGrows
<1>5. s \notin Listed(k) /\ slab'[s].free = k.objs
  BY DEF Adds
<1>6. /\ cache'[c] \in CacheRecord(E) /\ Sound(cache'[c], slab')
      /\ Listed(cache'[c]) = Listed(k) \cup {s} /\ cache'[c].objs = k.objs
      /\ cache'[c].pages = k.pages /\ cache'[c].used = k.used
  <2>1. k \in CacheRecord(E) /\ Sound(k, slab')
    BY <1>4
  <2> HIDE DEF k, E
  <2> QED
    BY <1>2, <1>3, <1>5, <2>1, WithSlabSound
<1>7. CountsAgree'
  <2>1. \A d \in CacheIds : Sound(cache'[d], slab')
    BY <1>2, <1>4, <1>6
  <2>2. \A d \in CacheIds : s \notin Listed(cache[d])
    BY DEF Adds
  <2>3. \A d, e \in CacheIds : d # e => Listed(cache'[d]) \cap Listed(cache'[e]) = {}
    BY ZenonT(60), <1>1, <1>2, <1>6, <2>2
  <2> QED
    BY <1>2, <2>1, <2>3, CountsAgreeIs
<1>8. cache' \in Seq(CacheRecord(E))
  <2> HIDE DEF E
  <2>1. /\ cache' = [cache EXCEPT ![c] = WithSlab(@, s)]
        /\ WithSlab(cache[c], s) \in CacheRecord(E)
    BY <1>2, <1>6 DEF Adds
  <2>2. CacheRecord(D) \subseteq CacheRecord(E)
    BY <1>3, RecordGrows
  <2> HIDE DEF D
  <2>3. cache \in Seq(CacheRecord(E))
    BY <1>1, <2>2
  <2> QED
    BY <2>1, <2>3 DEF CacheIds
<1>9. \A t \in E : slab'[t] \in SlabRecord
  BY <1>1 DEF Adds
<1> QED
  BY <1>2, <1>6, <1>7, <1>8, <1>9 DEF CachesSound

\* A slab is set up, to be added to its cache later.
LEMMA SetUpSound ==
    ASSUME HeapInv, NEW s, s \notin DOMAIN slab, DOMAIN slab' = DOMAIN slab \cup {s},
           slab'[s] \in SlabRecord, \A t \in DOMAIN slab : slab'[t] = slab[t], cache' = cache
    PROVE  CachesSound'
<1> DEFINE D == DOMAIN slab
           E == DOMAIN slab'
<1>1. /\ \A d \in CacheIds : /\ cache[d] \in CacheRecord(D) /\ Sound(cache[d], slab)
                             /\ Listed(cache[d]) \subseteq D
      /\ \A d, e \in CacheIds : d # e => Listed(cache[d]) \cap Listed(cache[e]) = {}
      /\ \A t \in D : slab[t] \in SlabRecord
      /\ cache \in Seq(CacheRecord(D))
  BY SoundNow DEF CachesSound
<1>2. D \subseteq E
  OBVIOUS
<1>3. \A d \in CacheIds : Sound(cache[d], slab') /\ cache[d] \in CacheRecord(E)
  <2> SUFFICES ASSUME NEW d \in CacheIds
               PROVE  Sound(cache[d], slab') /\ cache[d] \in CacheRecord(E)
    OBVIOUS
  <2>1. \A t \in Listed(cache[d]) : slab'[t].free = slab[t].free
    BY <1>1
  <2> HIDE DEF D, E
  <2>2. Sound(cache[d], slab')
    BY <1>1, <2>1, StaysSound
  <2> QED
    BY <1>1, <1>2, <2>2, RecordGrows
<1>4. CacheIds' = CacheIds
  BY DEF CacheIds
<1>5. CountsAgree'
  BY <1>1, <1>3, <1>4, CountsAgreeIs
<1>6. cache' \in Seq(CacheRecord(E))
  <2> HIDE DEF D, E
  <2>1. CacheRecord(D) \subseteq CacheRecord(E)
    BY <1>2, RecordGrows
  <2> QED
    BY <1>1, <2>1
<1>7. \A t \in E : slab'[t] \in SlabRecord
  BY <1>1
<1> QED
  BY <1>5, <1>6, <1>7 DEF CachesSound

\* A cache is created, without a slab.
LEMMA CreatedSound ==
    ASSUME HeapInv, NEW kind \in [objs : Nat, pages : Nat],
           cache' = Append(cache, NewCache(kind)), slab' = slab
    PROVE  /\ CachesSound' /\ CacheIds' = CacheIds \cup {Len(cache) + 1}
           /\ \A d \in CacheIds : cache'[d] = cache[d]
           /\ cache'[Len(cache) + 1].objs = kind.objs
           /\ cache'[Len(cache) + 1].pages = kind.pages
           /\ Listed(cache'[Len(cache) + 1]) = {}
           /\ Len(cache') = Len(cache) + 1
<1> DEFINE D == DOMAIN slab
           n == Len(cache) + 1
           k == NewCache(kind)
<1>1. /\ \A d \in CacheIds : /\ cache[d] \in CacheRecord(D) /\ Sound(cache[d], slab)
      /\ \A d, e \in CacheIds : d # e => Listed(cache[d]) \cap Listed(cache[e]) = {}
      /\ \A t \in D : slab[t] \in SlabRecord
      /\ cache \in Seq(CacheRecord(D))
  BY SoundNow DEF CachesSound
<1>2. /\ k \in CacheRecord(D) /\ Sound(k, slab) /\ Listed(k) = {}
      /\ k.objs = kind.objs /\ k.pages = kind.pages
  BY NewSound
<1> HIDE DEF k, D
<1>3. /\ CacheIds' = CacheIds \cup {n} /\ \A d \in CacheIds : cache'[d] = cache[d]
      /\ cache'[n] = k /\ Len(cache') = n /\ cache' \in Seq(CacheRecord(D))
  BY <1>1, <1>2 DEF CacheIds, k
<1>4. CountsAgree'
  BY <1>1, <1>2, <1>3, CountsAgreeIs
<1> QED
  BY <1>1, <1>2, <1>3, <1>4 DEF CachesSound, D

(***************************************************************************)
(* What a move of the stack does to the frames, to the Slab objects they   *)
(* hold and to the function at the top.                                    *)
(***************************************************************************)
HoldPlaces == {"create3", "create4", "create5", "special3", "special4"}
HeldBy(f) == IF f.at \in HoldPlaces THEN {f.slab} ELSE {}
HeldIn(st) == UNION {HeldBy(st[i]) : i \in DOMAIN st}
Apart(st) == \A i, j \in DOMAIN st : i # j => HeldBy(st[i]) \cap HeldBy(st[j]) = {}

\* Holding and Apart, by frames and by positions, say the same.
LEMMA HeldIs ==
    /\ {stack[i].slab : i \in Holding} = HeldIn(stack)
    /\ (\A i, j \in Holding : i # j => stack[i].slab # stack[j].slab) <=> Apart(stack)
    /\ {stack'[i].slab : i \in Holding'} = HeldIn(stack')
    /\ (\A i, j \in Holding' : i # j => stack'[i].slab # stack'[j].slab) <=> Apart(stack')
BY DEF Holding, HeldIn, HeldBy, HoldPlaces, Apart

\* The Slab objects held by a stack: those of its first frame and of the rest.
LEMMA FirstHeld ==
    ASSUME NEW T, NEW t \in Seq(T), NEW f \in T
    PROVE  /\ HeldIn(<<f>> \o t) = HeldBy(f) \cup HeldIn(t)
           /\ Apart(<<f>> \o t) <=> Apart(t) /\ HeldBy(f) \cap HeldIn(t) = {}
<1> DEFINE u == <<f>> \o t
<1>1. /\ DOMAIN u = 1..(Len(t) + 1) /\ DOMAIN t = 1..Len(t) /\ Len(t) \in Nat /\ u[1] = f
      /\ \A i \in 2..(Len(t) + 1) : u[i] = t[i - 1]
  OBVIOUS
<1> HIDE DEF u
<1>2. \A i \in DOMAIN u : i # 1 => i - 1 \in DOMAIN t /\ u[i] = t[i - 1]
  BY <1>1
<1>3. \A i \in DOMAIN t : i + 1 \in DOMAIN u /\ i + 1 # 1 /\ u[i + 1] = t[i]
  BY <1>1
<1>4. 1 \in DOMAIN u
  BY <1>1
<1>5. HeldIn(u) = HeldBy(f) \cup HeldIn(t)
  <2>1. \A i \in DOMAIN u : HeldBy(u[i]) \subseteq HeldBy(f) \cup HeldIn(t)
    BY <1>1, <1>2 DEF HeldIn
  <2>2. \A i \in DOMAIN t : HeldBy(t[i]) \subseteq HeldIn(u)
    BY <1>3 DEF HeldIn
  <2>3. HeldBy(f) \subseteq HeldIn(u)
    BY <1>1, <1>4 DEF HeldIn
  <2> QED
    BY <2>1, <2>2, <2>3 DEF HeldIn
<1>6. ASSUME Apart(u)
      PROVE  Apart(t) /\ HeldBy(f) \cap HeldIn(t) = {}
  <2>1. ASSUME NEW i \in DOMAIN t, NEW j \in DOMAIN t, i # j
        PROVE  HeldBy(t[i]) \cap HeldBy(t[j]) = {}
    <3>1. i + 1 # j + 1
      BY <1>1, <2>1
    <3> QED
      BY <1>3, <1>6, <3>1 DEF Apart
  <2>2. \A i \in DOMAIN t : HeldBy(f) \cap HeldBy(t[i]) = {}
    BY <1>1, <1>3, <1>4, <1>6 DEF Apart
  <2> QED
    BY <2>1, <2>2 DEF Apart, HeldIn
<1>7. ASSUME Apart(t), HeldBy(f) \cap HeldIn(t) = {}
      PROVE  Apart(u)
  <2> SUFFICES ASSUME NEW i \in DOMAIN u, NEW j \in DOMAIN u, i # j
               PROVE  HeldBy(u[i]) \cap HeldBy(u[j]) = {}
    BY DEF Apart
  <2>1. \A n \in DOMAIN t : HeldBy(f) \cap HeldBy(t[n]) = {}
    BY <1>7 DEF HeldIn
  <2>2. CASE i # 1 /\ j # 1
    <3>1. i - 1 # j - 1
      BY <1>1, <2>2
    <3> QED
      BY <1>2, <1>7, <2>2, <3>1 DEF Apart
  <2>3. CASE i = 1 \/ j = 1
    BY <1>1, <1>2, <2>1, <2>3
  <2> QED
    BY <2>2, <2>3
<1> QED
  BY <1>5, <1>6, <1>7 DEF u

\* A frame that may be on the stack.
FrameOK(g) ==
    /\ g \in Frames /\ g.cache \in CacheIds
    /\ g.at = "register" => g.kind \in Kinds
    /\ g.at \in RegionPlaces => g.kind.pages \in Lengths

Rest == Tail(stack)

\* The stack is its first frame and the rest.
LEMMA StackParts ==
    ASSUME HeapInv, stack # <<>>
    PROVE  /\ Rest \in Seq(Frames) /\ Top \in Frames /\ stack \in Seq(Frames)
           /\ ToSet(stack) = ToSet(Rest) \cup {Top}
           /\ HeldIn(stack) = HeldBy(Top) \cup HeldIn(Rest)
           /\ Apart(stack) <=> Apart(Rest) /\ HeldBy(Top) \cap HeldIn(Rest) = {}
<1>1. stack \in Seq(Frames) /\ Top \in Frames
  BY TopFacts
<1>2. Rest \in Seq(Frames) /\ stack = <<Top>> \o Rest
  BY <1>1 DEF Rest, Top
<1> HIDE DEF Rest
<1>3. /\ ToSet(<<Top>> \o Rest) = ToSet(Rest) \cup {Top}
      /\ HeldIn(<<Top>> \o Rest) = HeldBy(Top) \cup HeldIn(Rest)
      /\ Apart(<<Top>> \o Rest) <=> Apart(Rest) /\ HeldBy(Top) \cap HeldIn(Rest) = {}
  BY <1>1, <1>2, FirstAdded, FirstHeld
<1> QED
  BY <1>1, <1>2, <1>3

\* The stack after the function at the top moved on.
LEMMA GotoParts ==
    ASSUME HeapInv, stack # <<>>, NEW f \in Frames, Goto(f)
    PROVE  /\ stack' \in Seq(Frames) /\ stack' # <<>> /\ Top' = f
           /\ ToSet(stack') = ToSet(Rest) \cup {f}
           /\ HeldIn(stack') = HeldBy(f) \cup HeldIn(Rest)
           /\ Apart(stack') <=> Apart(Rest) /\ HeldBy(f) \cap HeldIn(Rest) = {}
<1>1. Rest \in Seq(Frames) /\ stack' = <<f>> \o Rest
  BY StackParts DEF Rest, Goto
<1> HIDE DEF Rest
<1>2. /\ <<f>> \o Rest \in Seq(Frames) /\ <<f>> \o Rest # <<>> /\ Head(<<f>> \o Rest) = f
      /\ ToSet(<<f>> \o Rest) = ToSet(Rest) \cup {f}
      /\ HeldIn(<<f>> \o Rest) = HeldBy(f) \cup HeldIn(Rest)
      /\ Apart(<<f>> \o Rest) <=> Apart(Rest) /\ HeldBy(f) \cap HeldIn(Rest) = {}
  BY <1>1, FirstAdded, FirstHeld
<1> QED
  BY <1>1, <1>2 DEF Top

\* Two frames are put on a stack one after the other.
LEMMA TwoAdded ==
    ASSUME NEW T, NEW t \in Seq(T), NEW e \in T, NEW f \in T
    PROVE  <<e, f>> \o t = <<e>> \o (<<f>> \o t)
<1> DEFINE u == <<e, f>> \o t
           v == <<f>> \o t
           w == <<e>> \o v
<1>1. /\ DOMAIN u = 1..(Len(t) + 2) /\ Len(t) \in Nat /\ u[1] = e /\ u[2] = f
      /\ \A i \in 3..(Len(t) + 2) : u[i] = t[i - 2]
      /\ u = [i \in DOMAIN u |-> u[i]]
  OBVIOUS
<1>2. /\ v \in Seq(T) /\ Len(v) = Len(t) + 1 /\ v[1] = f
      /\ \A i \in 2..(Len(t) + 1) : v[i] = t[i - 1]
  OBVIOUS
<1> HIDE DEF u, v
<1>3. /\ DOMAIN w = 1..(Len(t) + 2) /\ w[1] = e
      /\ \A i \in 2..(Len(t) + 2) : w[i] = v[i - 1]
      /\ w = [i \in DOMAIN w |-> w[i]]
  BY <1>1, <1>2
<1> HIDE DEF w
<1>4. \A i \in 1..(Len(t) + 2) : u[i] = w[i]
  <2> SUFFICES ASSUME NEW i \in 1..(Len(t) + 2) PROVE u[i] = w[i]
    OBVIOUS
  <2>1. CASE i = 1
    BY <1>1, <1>3, <2>1
  <2>2. CASE i = 2
    BY SMTT(30), <1>1, <1>2, <1>3, <2>2
  <2>3. CASE i \notin {1, 2}
    <3>1. i \in 3..(Len(t) + 2) /\ i - 1 \in 2..(Len(t) + 1) /\ (i - 1) - 1 = i - 2
          /\ i \in 2..(Len(t) + 2)
      BY <1>1, <2>3
    <3> QED
      BY <1>1, <1>2, <1>3, <3>1
  <2> QED
    BY <2>1, <2>2, <2>3
<1>5. u = w
  BY <1>1, <1>3, <1>4
<1> QED
  BY <1>5 DEF u, v, w

\* The stack after a call.
LEMMA EnterParts ==
    ASSUME HeapInv, stack # <<>>, NEW e \in Frames, NEW f \in Frames, Enter(e, f)
    PROVE  /\ stack' \in Seq(Frames) /\ stack' # <<>> /\ Top' = e
           /\ ToSet(stack') = ToSet(Rest) \cup {e, f}
           /\ HeldIn(stack') = HeldBy(e) \cup HeldBy(f) \cup HeldIn(Rest)
           /\ Apart(stack') <=> /\ Apart(Rest) /\ HeldBy(f) \cap HeldIn(Rest) = {}
                                /\ HeldBy(e) \cap (HeldBy(f) \cup HeldIn(Rest)) = {}
<1> DEFINE u == <<f>> \o Rest
<1>1. Rest \in Seq(Frames)
  BY StackParts
<1>2. stack' = <<e>> \o u
  BY <1>1, TwoAdded DEF Rest, Enter
<1> HIDE DEF Rest
<1>3. /\ u \in Seq(Frames) /\ ToSet(u) = ToSet(Rest) \cup {f}
      /\ HeldIn(u) = HeldBy(f) \cup HeldIn(Rest)
      /\ Apart(u) <=> Apart(Rest) /\ HeldBy(f) \cap HeldIn(Rest) = {}
  BY <1>1, FirstAdded, FirstHeld
<1> HIDE DEF u
<1>4. /\ <<e>> \o u \in Seq(Frames) /\ <<e>> \o u # <<>> /\ Head(<<e>> \o u) = e
      /\ ToSet(<<e>> \o u) = ToSet(u) \cup {e}
      /\ HeldIn(<<e>> \o u) = HeldBy(e) \cup HeldIn(u)
      /\ Apart(<<e>> \o u) <=> Apart(u) /\ HeldBy(e) \cap HeldIn(u) = {}
  BY <1>3, FirstAdded, FirstHeld
<1> QED
  BY <1>2, <1>3, <1>4 DEF Top

\* The invariant says of every frame in progress that it is a proper one.
LEMMA FramesNow ==
    ASSUME HeapInv
    PROVE  /\ stack \in Seq(Frames) /\ \A g \in ToSet(stack) : FrameOK(g)
           /\ Apart(stack)
           /\ stack # <<>> => FrameOK(Top)
<1> DEFINE T == [at : Places, cache : CacheIds, slab : Nat, kind : [objs : Nat, pages : Nat]]
<1>1. stack \in Seq(T)
  BY DEF HeapInv, TypeOK
<1>2. T \subseteq Frames /\ \A f \in T : f.cache \in CacheIds
  BY CacheTypes DEF Frames
<1> HIDE DEF T
<1>3. stack \in Seq(Frames) /\ \A i \in DOMAIN stack : stack[i] \in T
  BY <1>1, <1>2
<1>4. \A g \in ToSet(stack) : FrameOK(g)
  BY <1>2, <1>3 DEF ToSet, FrameOK, HeapInv, CachesInv
<1>5. Apart(stack)
  BY HeldIs DEF HeapInv, SlabsInv
<1>6. stack # <<>> => Top \in ToSet(stack)
  BY StackParts
<1> QED
  BY <1>3, <1>4, <1>5, <1>6

\* Booting, by frames instead of positions.
LEMMA BootingIs ==
    /\ Booting <=> \E g \in ToSet(stack) : g.at = "boot"
    /\ Booting' <=> \E g \in ToSet(stack') : g.at = "boot"
BY DEF Booting, ToSet

\* The function that moves on keeps its parameters.
LEMMA MovedOK ==
    ASSUME HeapInv, stack # <<>>, NEW p \in Places, NEW f, f = [Top EXCEPT !.at = p],
           p # "register", p \in RegionPlaces => Top.at \in RegionPlaces
    PROVE  /\ f \in Frames /\ f.at = p /\ f.cache = Top.cache /\ FrameOK(f)
           /\ p \in HoldPlaces <=> Top.at \in HoldPlaces => HeldBy(f) = HeldBy(Top)
<1>1. FrameOK(Top)
  BY FramesNow
<1>2. Top \in Frames /\ f \in Frames /\ f.at = p /\ f.cache = Top.cache
      /\ f.slab = Top.slab /\ f.kind = Top.kind
  BY <1>1, Moved DEF FrameOK
<1> QED
  BY <1>1, <1>2 DEF FrameOK, HeldBy

SpecialTops == {"create2", "alloc4", "boot", "register"}

\* A step that only moves the stack, between functions that SlabsInv and
\* CachesInv say nothing particular of.
Quiet ==
    /\ UNCHANGED <<cache, slab, freeV, usedV, ret>>
    /\ stack' \in Seq(Frames) /\ \A g \in ToSet(stack') : FrameOK(g)
    /\ HeldIn(stack') = HeldIn(stack) /\ Apart(stack')
    /\ Booting' <=> Booting
    /\ ~TopAt(SpecialTops) /\ ~TopAt(SpecialTops)'

\* Moving on is quiet when lists, regions and held objects stay.
LEMMA GotoQuiet ==
    ASSUME HeapInv, stack # <<>>, UNCHANGED <<cache, slab, freeV, usedV, ret>>,
           NEW f, FrameOK(f), Goto(f), HeldBy(f) = HeldBy(Top),
           Top.at \notin SpecialTops, f.at \notin SpecialTops
    PROVE  Quiet
<1>1. f \in Frames
  BY DEF FrameOK
<1>2. /\ stack' \in Seq(Frames) /\ stack' # <<>> /\ Top' = f
      /\ ToSet(stack') = ToSet(Rest) \cup {f}
      /\ HeldIn(stack') = HeldBy(f) \cup HeldIn(Rest)
      /\ Apart(stack') <=> Apart(Rest) /\ HeldBy(f) \cap HeldIn(Rest) = {}
  BY <1>1, GotoParts
<1>3. /\ ToSet(stack) = ToSet(Rest) \cup {Top}
      /\ HeldIn(stack) = HeldBy(Top) \cup HeldIn(Rest)
      /\ Apart(stack) <=> Apart(Rest) /\ HeldBy(Top) \cap HeldIn(Rest) = {}
  BY StackParts
<1>4. \A g \in ToSet(stack') : FrameOK(g)
  BY <1>2, <1>3, FramesNow
<1>5. Booting' <=> Booting
  BY <1>2, <1>3, BootingIs DEF SpecialTops
<1>6. ~TopAt(SpecialTops) /\ ~TopAt(SpecialTops)'
  BY <1>2 DEF TopAt
<1> QED
  BY <1>2, <1>3, <1>4, <1>5, <1>6, FramesNow DEF Quiet

\* So is a call of a function that holds nothing yet.
LEMMA EnterQuiet ==
    ASSUME HeapInv, stack # <<>>, UNCHANGED <<cache, slab, freeV, usedV, ret>>,
           NEW e, FrameOK(e), NEW f, FrameOK(f), Enter(e, f), HeldBy(f) = HeldBy(Top),
           HeldBy(e) = {}, Top.at \notin SpecialTops, e.at \notin SpecialTops, f.at # "boot"
    PROVE  Quiet
<1>1. e \in Frames /\ f \in Frames
  BY DEF FrameOK
<1>2. /\ stack' \in Seq(Frames) /\ stack' # <<>> /\ Top' = e
      /\ ToSet(stack') = ToSet(Rest) \cup {e, f}
      /\ HeldIn(stack') = HeldBy(e) \cup HeldBy(f) \cup HeldIn(Rest)
      /\ Apart(stack') <=> /\ Apart(Rest) /\ HeldBy(f) \cap HeldIn(Rest) = {}
                           /\ HeldBy(e) \cap (HeldBy(f) \cup HeldIn(Rest)) = {}
  BY <1>1, EnterParts
<1>3. /\ ToSet(stack) = ToSet(Rest) \cup {Top}
      /\ HeldIn(stack) = HeldBy(Top) \cup HeldIn(Rest)
      /\ Apart(stack) <=> Apart(Rest) /\ HeldBy(Top) \cap HeldIn(Rest) = {}
  BY StackParts
<1>4. \A g \in ToSet(stack') : FrameOK(g)
  BY <1>2, <1>3, FramesNow
<1>5. Booting' <=> Booting
  BY <1>2, <1>3, BootingIs DEF SpecialTops
<1>6. ~TopAt(SpecialTops) /\ ~TopAt(SpecialTops)'
  BY <1>2 DEF TopAt
<1> QED
  BY <1>2, <1>3, <1>4, <1>5, <1>6, FramesNow DEF Quiet

\* After a return.
LEMMA ReturnParts ==
    ASSUME HeapInv, stack # <<>>, Return
    PROVE  /\ stack' = Rest /\ stack' \in Seq(Frames)
           /\ stack' # <<>> => Top' = Below(1)
           /\ stack' = <<>> => Below(1).at = "none"
           /\ \A g \in ToSet(stack') : FrameOK(g)
           /\ Apart(stack') /\ HeldIn(stack) = HeldBy(Top) \cup HeldIn(stack')
           /\ HeldBy(Top) \cap HeldIn(stack') = {}
           /\ Top.at # "boot" => (Booting' <=> Booting)
<1>1. stack' = Rest
  BY DEF Return, Rest
<1>2. /\ stack' \in Seq(Frames) /\ (stack' # <<>> => Top' = Below(1))
      /\ stack' = <<>> => Below(1).at = "none"
  BY FramesNow, ReturnStack DEF HeapInv, Frame, FrameOf
<1>3. /\ ToSet(stack) = ToSet(Rest) \cup {Top}
      /\ HeldIn(stack) = HeldBy(Top) \cup HeldIn(Rest)
      /\ Apart(stack) <=> Apart(Rest) /\ HeldBy(Top) \cap HeldIn(Rest) = {}
  BY StackParts
<1>4. Top.at # "boot" => (Booting' <=> Booting)
  BY <1>1, <1>3, BootingIs
<1> QED
  BY <1>1, <1>2, <1>3, <1>4, FramesNow

\* So is a return from a function that holds nothing any more.
LEMMA ReturnQuiet ==
    ASSUME HeapInv, stack # <<>>, UNCHANGED <<cache, slab, freeV, usedV, ret>>, Return,
           HeldBy(Top) = {}, Top.at \notin SpecialTops, Below(1).at \notin SpecialTops
    PROVE  Quiet
<1>1. ~TopAt(SpecialTops) /\ ~TopAt(SpecialTops)'
  BY ReturnParts DEF TopAt
<1> QED
  BY <1>1, ReturnParts DEF Quiet, SpecialTops

(***************************************************************************)
(* The quiet steps, one by one.                                            *)
(***************************************************************************)
\* The frames of new calls.
LEMMA FrameIsOK ==
    ASSUME HeapInv, NEW p \in Places \ (HoldPlaces \cup RegionPlaces \cup {"register"}),
           NEW c \in CacheIds, NEW f, f = Frame(p, c)
    PROVE  FrameOK(f) /\ f.at = p /\ f.cache = c /\ HeldBy(f) = {}
<1>1. c \in Nat
  BY CacheTypes
<1>2. f \in Frames /\ f.at = p /\ f.cache = c
  BY <1>1, CallFrame
<1> QED
  BY <1>2 DEF FrameOK, HeldBy

\* The frame of a search for a region is a proper one.
LEMMA RegionCallIsOK ==
    ASSUME HeapInv, NEW p \in RegionPlaces, NEW n \in Lengths, NEW f, f = RegionCall(p, n)
    PROVE  FrameOK(f) /\ f.at = p /\ HeldBy(f) = {}
<1>1. n \in Nat
  BY KindsAssumption DEF Lengths
<1>2. f \in Frames /\ f.at = p /\ f.cache = VregionCache /\ f.kind.pages = n
  BY <1>1, NewRegionCall
<1>3. f.cache \in CacheIds
  BY <1>2, Counters
<1>4. f.at \notin HoldPlaces /\ f.at # "register"
  BY <1>2 DEF RegionPlaces, HoldPlaces
<1> QED
  BY <1>2, <1>3, <1>4 DEF FrameOK, HeldBy

\* A function that may call another, and otherwise goes on.
LEMMA CallIfQuiet ==
    ASSUME HeapInv, stack # <<>>, UNCHANGED <<cache, slab, freeV, usedV, ret>>,
           NEW test, NEW e, FrameOK(e), NEW f, FrameOK(f), CallIf(test, e, f),
           HeldBy(f) = HeldBy(Top), HeldBy(e) = {},
           Top.at \notin SpecialTops, e.at \notin SpecialTops, f.at \notin SpecialTops
    PROVE  Quiet
<1>1. CASE test
  <2>1. Enter(e, f) /\ f.at # "boot"
    BY <1>1 DEF CallIf, SpecialTops
  <2> QED
    BY <2>1, EnterQuiet
<1>2. CASE ~test
  <2>1. Goto(f)
    BY <1>2 DEF CallIf
  <2> QED
    BY <2>1, GotoQuiet
<1> QED
  BY <1>1, <1>2

\* objs_cache_alloc calls the refill of Slab objects and changes no list.
LEMMA AllocEnterQuiet ==
    ASSUME HeapInv, AllocEnter, cause' = "none" PROVE Quiet
<1> DEFINE f == [Top EXCEPT !.at = "alloc2"]
           e == Frame("special", SlabCache)
<1>1. /\ stack # <<>> /\ Top.at = "alloc" /\ UNCHANGED <<cache, slab, freeV, usedV, ret>>
      /\ CallIf(cache[SlabCache].free = MinSlab, e, f)
  BY DEF AllocEnter, At, Halt, heap, regions
<1>2. f \in Frames /\ f.at = "alloc2" /\ FrameOK(f) /\ HeldBy(f) = HeldBy(Top)
  BY <1>1, MovedOK DEF Places, HoldPlaces, RegionPlaces
<1>3. FrameOK(e) /\ e.at = "special" /\ HeldBy(e) = {}
  BY Counters, FrameIsOK DEF Places, HoldPlaces, RegionPlaces
<1> HIDE DEF e, f
<1> QED
  BY <1>1, <1>2, <1>3, CallIfQuiet DEF SpecialTops

\* objs_cache_alloc calls the refill of Vregions and changes no list.
LEMMA AllocRefillQuiet ==
    ASSUME HeapInv, AllocRefillVregion PROVE Quiet
<1> DEFINE f == [Top EXCEPT !.at = "alloc3"]
           e == Frame("special", VregionCache)
<1>1. /\ stack # <<>> /\ Top.at = "alloc2" /\ UNCHANGED <<cache, slab, freeV, usedV, ret>>
      /\ CallIf(cache[VregionCache].free = MinVregion, e, f)
  BY DEF AllocRefillVregion, At, heap, regions
<1>2. f \in Frames /\ f.at = "alloc3" /\ FrameOK(f) /\ HeldBy(f) = HeldBy(Top)
  BY <1>1, MovedOK DEF Places, HoldPlaces, RegionPlaces
<1>3. FrameOK(e) /\ e.at = "special" /\ HeldBy(e) = {}
  BY Counters, FrameIsOK DEF Places, HoldPlaces, RegionPlaces
<1> HIDE DEF e, f
<1> QED
  BY <1>1, <1>2, <1>3, CallIfQuiet DEF SpecialTops

\* objs_cache_alloc calls create_slab and changes no list.
LEMMA AllocNeedsSlabQuiet ==
    ASSUME HeapInv, AllocNeedsSlab PROVE Quiet
<1> DEFINE f == [Top EXCEPT !.at = "alloc4"]
           g == [Top EXCEPT !.at = "alloc5"]
           e == Frame("create", Top.cache)
<1>1. /\ stack # <<>> /\ Top.at = "alloc3" /\ UNCHANGED <<cache, slab, freeV, usedV, ret>>
      /\ Enter(e, f) \/ Goto(g)
  BY DEF AllocNeedsSlab, At, heap, regions
<1>2. /\ f \in Frames /\ f.at = "alloc4" /\ FrameOK(f) /\ HeldBy(f) = HeldBy(Top)
      /\ g \in Frames /\ g.at = "alloc5" /\ FrameOK(g) /\ HeldBy(g) = HeldBy(Top)
  BY <1>1, MovedOK DEF Places, HoldPlaces, RegionPlaces
<1>3. FrameOK(e) /\ e.at = "create" /\ HeldBy(e) = {}
  <2>1. Top.cache \in CacheIds
    BY <1>1, TopFacts
  <2>2. "create" \in Places \ (HoldPlaces \cup RegionPlaces \cup {"register"})
    BY DEF Places, HoldPlaces, RegionPlaces
  <2> QED
    BY <2>1, <2>2, FrameIsOK
<1> HIDE DEF e, f, g
<1>4. CASE Enter(e, f)
  BY <1>1, <1>2, <1>3, <1>4, EnterQuiet DEF SpecialTops
<1>5. CASE Goto(g)
  BY <1>1, <1>2, <1>3, <1>5, GotoQuiet DEF SpecialTops
<1> QED
  BY <1>1, <1>4, <1>5

\* create_slab calls for a Slab object and changes no list.
LEMMA CreateSlabObjectQuiet ==
    ASSUME HeapInv, CreateSlabObject PROVE Quiet
<1> DEFINE f == [Top EXCEPT !.at = "create2"]
           e == Frame("alloc", SlabCache)
<1>1. /\ stack # <<>> /\ Top.at = "create" /\ UNCHANGED <<cache, slab, freeV, usedV, ret>>
      /\ Enter(e, f)
  BY DEF CreateSlabObject, At, heap, regions
<1>2. f \in Frames /\ f.at = "create2" /\ FrameOK(f) /\ HeldBy(f) = HeldBy(Top)
  BY <1>1, MovedOK DEF Places, HoldPlaces, RegionPlaces
<1>3. FrameOK(e) /\ e.at = "alloc" /\ HeldBy(e) = {}
  BY Counters, FrameIsOK DEF Places, HoldPlaces, RegionPlaces
<1> HIDE DEF e, f
<1> QED
  BY <1>1, <1>2, <1>3, EnterQuiet DEF SpecialTops

\* Asking for physical pages changes no list.
LEMMA CreatePagesQuiet ==
    ASSUME HeapInv, CreatePages, cause' = "none" PROVE Quiet
<1> DEFINE f == [Top EXCEPT !.at = "create4"]
<1>1. /\ stack # <<>> /\ Top.at = "create3" /\ UNCHANGED <<cache, slab, freeV, usedV, ret>>
      /\ Goto(f)
  BY DEF CreatePages, At, Halt, regions
<1>2. f \in Frames /\ f.at = "create4" /\ FrameOK(f) /\ HeldBy(f) = HeldBy(Top)
  BY <1>1, MovedOK DEF Places, HoldPlaces, RegionPlaces
<1> HIDE DEF f
<1> QED
  BY <1>1, <1>2, GotoQuiet DEF SpecialTops

\* Mapping a region changes no list.
LEMMA MapsQuiet ==
    ASSUME HeapInv, CreateMaps \/ SpecialMaps PROVE Quiet
<1>1. PICK place \in {"create4", "special3"}, then \in {"create5", "special4"} :
          MapSlab(place, then)
  BY DEF CreateMaps, SpecialMaps
<1> DEFINE f == [Top EXCEPT !.at = then]
<1>2. /\ stack # <<>> /\ Top.at = place /\ UNCHANGED <<cache, slab, freeV, usedV, ret>>
      /\ Goto(f)
  BY <1>1 DEF MapSlab, At, regions
<1>3. f \in Frames /\ f.at = then /\ FrameOK(f) /\ HeldBy(f) = HeldBy(Top)
  BY <1>2, MovedOK DEF Places, HoldPlaces, RegionPlaces
<1> HIDE DEF f
<1> QED
  BY <1>2, <1>3, GotoQuiet DEF SpecialTops

\* vregion_alloc goes on to search and changes no list.
LEMMA RegionAllocQuiet ==
    ASSUME HeapInv, RegionAlloc, cause' = "none" PROVE Quiet
<1> DEFINE f == [Top EXCEPT !.at = "_region"]
           e == Frame("special", VregionCache)
<1>1. /\ stack # <<>> /\ Top.at = "region" /\ UNCHANGED <<cache, slab, freeV, usedV, ret>>
      /\ CallIf(cache[VregionCache].free = MinVregion, e, f)
  BY DEF RegionAlloc, At, Halt, heap, regions
<1>2. f \in Frames /\ f.at = "_region" /\ FrameOK(f) /\ HeldBy(f) = HeldBy(Top)
  BY <1>1, MovedOK DEF Places, HoldPlaces, RegionPlaces
<1>3. FrameOK(e) /\ e.at = "special" /\ HeldBy(e) = {}
  BY Counters, FrameIsOK DEF Places, HoldPlaces, RegionPlaces
<1> HIDE DEF e, f
<1> QED
  BY <1>1, <1>2, <1>3, CallIfQuiet DEF SpecialTops

\* A search in vain changes no list.
LEMMA NoRegionFitsQuiet ==
    ASSUME HeapInv, NoRegionFits, cause' = "none" PROVE Quiet
<1>1. /\ stack # <<>> /\ Top.at = "_region" /\ UNCHANGED <<cache, slab, freeV, usedV, ret>>
      /\ Return
  BY DEF NoRegionFits, At, Halt, heap, regions
<1>2. Below(1).at \in {"none", "create3", "special2"}
  BY <1>1, TopFacts DEF MayCall, AllocPlaces, CreatePlaces, Refill
<1>3. HeldBy(Top) = {}
  BY <1>1 DEF HeldBy, HoldPlaces
<1> QED
  BY <1>1, <1>2, <1>3, ReturnQuiet DEF SpecialTops

\* A refill asks for a region and changes no list.
LEMMA SpecialRegionQuiet ==
    ASSUME HeapInv, SpecialRegion, cause' = "none" PROVE Quiet
<1> DEFINE f == [Top EXCEPT !.at = "special2"]
           e == RegionCall("_region", 1)
<1>1. /\ stack # <<>> /\ Top.at = "special" /\ UNCHANGED <<cache, slab, freeV, usedV, ret>>
      /\ Enter(e, f)
  BY DEF SpecialRegion, At, Halt, heap, regions
<1>2. f \in Frames /\ f.at = "special2" /\ FrameOK(f) /\ HeldBy(f) = HeldBy(Top)
  BY <1>1, MovedOK DEF Places, HoldPlaces, RegionPlaces
<1>3. FrameOK(e) /\ e.at = "_region" /\ HeldBy(e) = {}
  BY RegionCallIsOK DEF RegionPlaces, Lengths
<1> HIDE DEF e, f
<1> QED
  BY <1>1, <1>2, <1>3, EnterQuiet DEF SpecialTops

\* A refill calls the other one and changes no list.
LEMMA SpecialRefillsOtherQuiet ==
    ASSUME HeapInv, SpecialRefillsOther PROVE Quiet
<1> DEFINE f == [Top EXCEPT !.at = "special6"]
           c == Other(Top.cache)
           e == Frame("special", c)
<1>1. /\ stack # <<>> /\ Top.at = "special5" /\ UNCHANGED <<cache, slab, freeV, usedV, ret>>
      /\ CallIf(cache[c].free = Reserve(c) - 1, e, f)
  BY DEF SpecialRefillsOther, At, heap, regions
<1>2. f \in Frames /\ f.at = "special6" /\ FrameOK(f) /\ HeldBy(f) = HeldBy(Top)
  BY <1>1, MovedOK DEF Places, HoldPlaces, RegionPlaces
<1>3. FrameOK(e) /\ e.at = "special" /\ HeldBy(e) = {}
  <2>1. c \in CacheIds
    BY Counters DEF Other
  <2> HIDE DEF c
  <2> QED
    BY <2>1, FrameIsOK DEF Places, HoldPlaces, RegionPlaces
<1> DEFINE test == cache[c].free = Reserve(c) - 1
<1>4. CallIf(test, e, f)
  BY <1>1
<1> HIDE DEF e, f, test
<1> QED
  BY <1>1, <1>2, <1>3, <1>4, CallIfQuiet DEF SpecialTops

\* A refill returns and changes no list.
LEMMA SpecialReturnsQuiet ==
    ASSUME HeapInv, SpecialReturns PROVE Quiet
<1>1. /\ stack # <<>> /\ Top.at = "special6" /\ UNCHANGED <<cache, slab, freeV, usedV, ret>>
      /\ Return
  BY DEF SpecialReturns, At, heap, regions
<1>2. Below(1).at \notin SpecialTops
  BY <1>1, RefillTop DEF SpecialTops, Refill
<1>3. HeldBy(Top) = {}
  BY <1>1 DEF HeldBy, HoldPlaces
<1> QED
  BY <1>1, <1>2, <1>3, ReturnQuiet DEF SpecialTops

\* A client's call.
LEMMA ClientQuiet ==
    ASSUME HeapInv, Client, cause' = "none" PROVE Quiet
<1>1. stack = <<>> /\ UNCHANGED <<cache, slab, freeV, usedV, ret>>
  BY DEF Client, ObjsCacheAlloc, ObjsCacheCreate, VregionAlloc, ObjsCacheFree, ClientCall,
         Idle, Halt, heap, regions
<1>2. HeldIn(stack) = {} /\ ~Booting /\ ~TopAt(SpecialTops)
  BY <1>1 DEF HeldIn, Booting, TopAt
\* One frame, or two.
<1>3. ASSUME NEW f, FrameOK(f), f.at \in {"alloc", "region"}, stack' = <<f>> PROVE Quiet
  <2>1. f \in Frames /\ HeldBy(f) = {}
    BY <1>3 DEF FrameOK, HeldBy, HoldPlaces
  <2>2. stack' \in Seq(Frames) /\ stack' # <<>> /\ DOMAIN stack' = {1} /\ stack'[1] = f
        /\ Head(stack') = f
    BY <1>3, <2>1
  <2>3. \A g \in ToSet(stack') : g = f
    BY <2>2 DEF ToSet
  <2>4. HeldIn(stack') = {} /\ Apart(stack')
    BY <2>1, <2>2 DEF HeldIn, Apart
  <2>5. ~Booting'
    BY <1>3, <2>3, BootingIs
  <2>6. ~TopAt(SpecialTops)'
    BY <1>3, <2>2 DEF TopAt, Top, SpecialTops
  <2> QED
    BY <1>1, <1>2, <1>3, <2>2, <2>3, <2>4, <2>5, <2>6 DEF Quiet
<1>4. ASSUME NEW e, NEW f, FrameOK(e), FrameOK(f), e.at = "alloc", f.at = "register",
             stack' = <<e, f>>
      PROVE Quiet
  <2>1. e \in Frames /\ f \in Frames /\ HeldBy(e) = {} /\ HeldBy(f) = {}
    BY <1>4 DEF FrameOK, HeldBy, HoldPlaces
  <2>2. /\ stack' \in Seq(Frames) /\ stack' # <<>> /\ DOMAIN stack' = {1, 2}
        /\ stack'[1] = e /\ stack'[2] = f /\ Head(stack') = e
    BY <1>4, <2>1
  <2>3. \A g \in ToSet(stack') : g = e \/ g = f
    BY <2>2 DEF ToSet
  <2>4. HeldIn(stack') = {} /\ Apart(stack')
    BY <2>1, <2>2 DEF HeldIn, Apart
  <2>5. ~Booting'
    BY <1>4, <2>3, BootingIs
  <2>6. ~TopAt(SpecialTops)'
    BY <1>4, <2>2 DEF TopAt, Top, SpecialTops
  <2> QED
    BY <1>1, <1>2, <1>4, <2>2, <2>3, <2>4, <2>5, <2>6 DEF Quiet
<1>5. ASSUME NEW c \in CacheIds, ObjsCacheAlloc(c) PROVE Quiet
  <2>1. stack' = <<Frame("alloc", c)>>
    BY <1>5 DEF ObjsCacheAlloc, ClientCall
  <2>2. FrameOK(Frame("alloc", c)) /\ Frame("alloc", c).at = "alloc"
    BY FrameIsOK DEF Places, HoldPlaces, RegionPlaces
  <2> QED
    BY <1>3, <2>1, <2>2
<1>6. ASSUME NEW kind \in Kinds, ObjsCacheCreate(kind) PROVE Quiet
  <2> DEFINE e == Frame("alloc", ObjsCache)
             f == FrameOf("register", ObjsCache, kind)
  <2>1. stack' = <<e, f>>
    BY <1>6 DEF ObjsCacheCreate, ClientCall
  <2>2. FrameOK(e) /\ e.at = "alloc"
    BY Counters, FrameIsOK DEF Places, HoldPlaces, RegionPlaces
  <2>3. kind \in [objs : Nat, pages : Nat]
    BY KindsAssumption
  <2>4. f \in Frames /\ f.at = "register" /\ f.cache = ObjsCache /\ f.kind = kind
    BY <2>3, NewFrame DEF Places, ObjsCache
  <2>5. FrameOK(f)
    BY <2>4, Counters DEF FrameOK, RegionPlaces
  <2> HIDE DEF e, f
  <2> QED
    BY <1>4, <2>1, <2>2, <2>4, <2>5
<1>7. ASSUME NEW kind \in Kinds, VregionAlloc(kind.pages) PROVE Quiet
  <2> DEFINE f == RegionCall("region", kind.pages)
  <2>1. stack' = <<f>>
    BY <1>7 DEF VregionAlloc, ClientCall
  <2>2. FrameOK(f) /\ f.at = "region"
    BY RegionCallIsOK DEF RegionPlaces, Lengths
  <2> HIDE DEF f
  <2> QED
    BY <1>3, <2>1, <2>2
<1>8. ~ObjsCacheFree
  BY DEF ObjsCacheFree, Halt
<1> QED
  BY <1>5, <1>6, <1>7, <1>8 DEF Client

(***************************************************************************)
(* The slabs, the caches and the regions after each step.                  *)
(***************************************************************************)
\* The Slab object that objs_cache_alloc has just returned to create_slab.
Fresh == IF TopAt({"create2"}) THEN {ret} ELSE {}
AllListed == UNION {Listed(cache[c]) : c \in CacheIds}

\* SlabsInv in terms of the Slab objects held on the stack.
SlabsInvParts ==
    /\ HeldIn(stack) \cup Fresh \subseteq 1..cache[SlabCache].used
    /\ DOMAIN slab = (1..cache[SlabCache].used) \ (HeldIn(stack) \cup Fresh)
    /\ Apart(stack) /\ Fresh \cap HeldIn(stack) = {}
    /\ Unlisted \subseteq DOMAIN slab /\ AllListed = DOMAIN slab \ Unlisted
    /\ TopAt({"alloc4"}) => slab[ret].free = cache[Top.cache].objs

\* SlabsInv, with the Slab objects held written by frames.
LEMMA SlabsInvIs == (SlabsInv <=> SlabsInvParts) /\ (SlabsInv' <=> SlabsInvParts')
<1>1. Pending = HeldIn(stack) \cup Fresh /\ Pending' = (HeldIn(stack) \cup Fresh)'
  BY HeldIs DEF Pending, Fresh
<1>2. /\ (TopAt({"create2"}) => \A i \in Holding : stack[i].slab # ret)
            <=> Fresh \cap {stack[i].slab : i \in Holding} = {}
      /\ (TopAt({"create2"}) => \A i \in Holding : stack[i].slab # ret)'
            <=> Fresh' \cap {stack'[i].slab : i \in Holding'} = {}
  BY DEF Fresh
<1> QED
  BY <1>1, <1>2, HeldIs DEF SlabsInv, SlabsInvParts, AllListed

\* What the frames on the stack owe CachesInv.
CacheParts ==
    /\ Len(cache) >= 3
    /\ cache[ObjsCache].objs = ObjsObjsCache /\ cache[SlabCache].objs = ObjsSlab
    /\ cache[VregionCache].objs = ObjsVregion
    /\ cache[SlabCache].pages = 1 /\ cache[VregionCache].pages = 1
    /\ \A c \in CacheIds : cache[c].objs > 0 /\ cache[c].pages \in Lengths
    /\ cache[VregionCache].used
          = Len(freeV) + Len(usedV) + (IF TopAt({"boot"}) THEN 1 ELSE 0)
    /\ cache[ObjsCache].used = Len(cache) + (IF TopAt({"register"}) THEN 1 ELSE 0)

\* CachesInv, with its conditions on frames written by frames.
LEMMA CachesInvIs ==
    /\ CachesInv => CacheParts
    /\ CacheParts' /\ (\A g \in ToSet(stack') : FrameOK(g)) => CachesInv'
<1>1. CachesInv => CacheParts
  BY DEF CachesInv, CacheParts
<1>2. ASSUME CacheParts', \A g \in ToSet(stack') : FrameOK(g) PROVE CachesInv'
  <2>1. \A i \in DOMAIN stack' : stack'[i] \in ToSet(stack')
    BY DEF ToSet
  <2>2. \A i \in DOMAIN stack' :
            /\ stack'[i].at = "register" => stack'[i].kind \in Kinds
            /\ stack'[i].at \in RegionPlaces => stack'[i].kind.pages \in Lengths
    BY <1>2, <2>1 DEF FrameOK
  <2> QED
    BY <1>2, <2>2 DEF CachesInv, CacheParts, Lengths, RegionPlaces
<1> QED
  BY <1>1, <1>2

Kept == /\ CachesSound' /\ SlabsInv' /\ CachesInv' /\ RegionsInv'
        /\ \A g \in ToSet(stack') : FrameOK(g)

\* A quiet step keeps slabs, caches and regions as the invariant says.
LEMMA QuietKeeps == HeapInv /\ Quiet => Kept
<1> SUFFICES ASSUME HeapInv, Quiet PROVE Kept
  OBVIOUS
<1>1. CachesSound'
  BY KeepsSound DEF Quiet
<1>2. /\ ~TopAt({"create2"}) /\ ~TopAt({"create2"})' /\ ~TopAt({"alloc4"})
      /\ ~TopAt({"alloc4"})' /\ ~TopAt({"boot"}) /\ ~TopAt({"boot"})'
      /\ ~TopAt({"register"}) /\ ~TopAt({"register"})'
  BY DEF Quiet, TopAt, SpecialTops
<1>3. SlabsInvParts /\ CacheParts
  BY SlabsInvIs, CachesInvIs DEF HeapInv
<1>4. SlabsInvParts'
  BY <1>2, <1>3 DEF Quiet, SlabsInvParts, Fresh, Unlisted, AllListed, CacheIds
<1>5. CacheParts'
  BY <1>2, <1>3 DEF Quiet, CacheParts, CacheIds
<1>6. RegionsInv'
  BY DEF Quiet, HeapInv, RegionsInv, Frontier
<1> QED
  BY <1>1, <1>4, <1>5, <1>6, SlabsInvIs, CachesInvIs DEF Quiet, Kept

\* So does a step that leaves all of this as it is.
LEMMA StoppedKeeps == HeapInv /\ UNCHANGED <<heap, regions, stack, ret>> => Kept
<1> SUFFICES ASSUME HeapInv, UNCHANGED <<heap, regions, stack, ret>> PROVE Kept
  OBVIOUS
<1>1. UNCHANGED <<cache, slab, freeV, usedV, stack, ret>>
  BY DEF heap, regions
<1>2. CachesSound'
  BY <1>1, KeepsSound
<1>3. SlabsInv'
  BY <1>1 DEF HeapInv, SlabsInv, Pending, Holding, Unlisted, TopAt, Top, CacheIds
<1>4. CachesInv'
  BY <1>1 DEF HeapInv, CachesInv, TopAt, Top, CacheIds
<1>5. RegionsInv'
  BY <1>1 DEF HeapInv, RegionsInv, Frontier, Booting
<1> QED
  BY <1>1, <1>2, <1>3, <1>4, <1>5, FramesNow DEF Kept

\* The window is handed over: the first region of the list of free ones.
LEMMA BootReturnsKeeps == HeapInv /\ BootReturns => Kept
<1> SUFFICES ASSUME HeapInv, BootReturns PROVE Kept
  OBVIOUS
<1>1. /\ stack # <<>> /\ Top.at = "boot" /\ Return
      /\ UNCHANGED <<cache, slab, usedV, ret>>
      /\ freeV' = <<Region(FirstVpn, LastVpn - FirstVpn + 1)>>
  BY DEF BootReturns, At, heap
<1>2. stack' = <<>>
  BY <1>1, LastReturns
<1>3. HeldIn(stack) = {} /\ HeldIn(stack') = {} /\ Apart(stack') /\ ToSet(stack') = {}
  <2>1. HeldIn(stack') = {} /\ ToSet(stack') = {}
    BY <1>2 DEF HeldIn, ToSet
  <2>2. HeldBy(Top) = {}
    BY <1>1 DEF HeldBy, HoldPlaces
  <2> QED
    BY <1>1, <2>1, <2>2, ReturnParts
<1>4. Booting /\ ~Booting'
  BY <1>1, <1>2, StackParts, BootingIs DEF Booting
<1>5. freeV = <<>> /\ Len(freeV) = 0
  BY <1>4 DEF HeapInv, RegionsInv
<1> DEFINE whole == Region(FirstVpn, LastVpn - FirstVpn + 1)
<1>6. whole.first = FirstVpn /\ whole.pages = LastVpn - FirstVpn + 1
  BY DEF Region
<1> HIDE DEF whole
<1>7. freeV' # <<>> /\ Len(freeV') = 1 /\ freeV'[1] = whole
  BY <1>1 DEF whole
<1>8. CachesSound'
  BY <1>1, KeepsSound
<1>9. SlabsInvParts /\ CacheParts
  BY SlabsInvIs, CachesInvIs DEF HeapInv
<1>10. ~TopAt({"create2"}) /\ ~TopAt({"alloc4"}) /\ TopAt({"boot"}) /\ ~TopAt({"register"})
  BY <1>1 DEF TopAt
<1>11. ~TopAt({"create2"})' /\ ~TopAt({"alloc4"})' /\ ~TopAt({"boot"})' /\ ~TopAt({"register"})'
  BY <1>2 DEF TopAt
<1>12. SlabsInvParts'
  BY <1>1, <1>3, <1>9, <1>10, <1>11 DEF SlabsInvParts, Fresh, Unlisted, AllListed, CacheIds
<1>13. CacheParts'
  <2>1. Len(usedV) \in Nat
    BY RegionTypes
  <2>2. cache'[VregionCache].used = Len(freeV') + Len(usedV') + 0
    BY <1>1, <1>5, <1>7, <1>9, <1>10, <2>1 DEF CacheParts
  <2> QED
    BY <1>1, <1>9, <1>10, <1>11, <2>2 DEF CacheParts, CacheIds
<1>14. RegionsInv'
  <2>1. Frontier = FirstVpn /\ Frontier' = FirstVpn
    BY <1>4, <1>6, <1>7 DEF Frontier
  <2>2. whole.pages > 0 /\ whole.first >= FirstVpn /\ whole.first + whole.pages = LastVpn + 1
    BY <1>6, WindowAssumption
  <2> QED
    BY <1>1, <1>4, <1>7, <2>1, <2>2 DEF HeapInv, RegionsInv
<1> QED
  BY <1>3, <1>8, <1>12, <1>13, <1>14, SlabsInvIs, CachesInvIs DEF Kept

\* The slab that create_slab returned is put into its cache.
LEMMA AllocAddSlabKeeps == HeapInv /\ AllocAddSlab /\ cause' = "none" => Kept
<1> SUFFICES ASSUME HeapInv, AllocAddSlab, cause' = "none" PROVE Kept
  OBVIOUS
<1> DEFINE f == [Top EXCEPT !.at = "alloc5"]
           c == Top.cache
<1>1. /\ stack # <<>> /\ Top.at = "alloc4" /\ Goto(f)
      /\ UNCHANGED <<slab, freeV, usedV, ret>> /\ slab[ret].free = cache[c].objs
      /\ cache' = [cache EXCEPT ![c] = WithSlab(@, ret)]
  BY DEF AllocAddSlab, At, Halt, regions
<1>2. f \in Frames /\ f.at = "alloc5" /\ FrameOK(f) /\ HeldBy(f) = HeldBy(Top)
  BY <1>1, MovedOK DEF Places, HoldPlaces, RegionPlaces
<1> HIDE DEF f
<1>3. c \in CacheIds
  BY <1>1, TopFacts
<1> HIDE DEF c
<1>4. SlabsInvParts /\ CacheParts
  BY SlabsInvIs, CachesInvIs DEF HeapInv
<1>5. ~TopAt({"create2"}) /\ TopAt({"alloc4"}) /\ ~TopAt({"boot"}) /\ ~TopAt({"register"})
  BY <1>1 DEF TopAt
<1>6. ret \in DOMAIN slab /\ AllListed = DOMAIN slab \ {ret}
  BY <1>4, <1>5 DEF SlabsInvParts, Unlisted
<1>7. Adds(c, ret)
  <2>1. slab[ret] \in SlabRecord
    BY <1>6, SoundNow DEF CachesSound
  <2> QED
    BY <1>1, <1>6, <2>1 DEF Adds, AllListed
<1>8. /\ CachesSound' /\ CacheIds' = CacheIds
      /\ \A d \in CacheIds : /\ cache'[d].objs = cache[d].objs
                             /\ cache'[d].pages = cache[d].pages
                             /\ cache'[d].used = cache[d].used
      /\ \A d \in CacheIds : d # c => cache'[d] = cache[d]
      /\ Listed(cache'[c]) = Listed(cache[c]) \cup {ret}
  BY <1>3, <1>7, AddsSound
<1>9. AllListed' = AllListed \cup {ret}
  BY <1>3, <1>8 DEF AllListed
<1>10. /\ stack' # <<>> /\ Top' = f
       /\ ToSet(stack') = ToSet(Rest) \cup {f}
       /\ HeldIn(stack') = HeldBy(f) \cup HeldIn(Rest)
       /\ Apart(stack') <=> Apart(Rest) /\ HeldBy(f) \cap HeldIn(Rest) = {}
  BY <1>1, <1>2, GotoParts
<1>11. /\ ToSet(stack) = ToSet(Rest) \cup {Top}
       /\ HeldIn(stack) = HeldBy(Top) \cup HeldIn(Rest)
       /\ Apart(stack) <=> Apart(Rest) /\ HeldBy(Top) \cap HeldIn(Rest) = {}
  BY <1>1, StackParts
<1>12. \A g \in ToSet(stack') : FrameOK(g)
  BY <1>2, <1>10, <1>11, FramesNow
<1>13. Booting' <=> Booting
  BY <1>1, <1>2, <1>10, <1>11, BootingIs
<1>14. ~TopAt({"create2"})' /\ ~TopAt({"alloc4"})' /\ ~TopAt({"boot"})' /\ ~TopAt({"register"})'
  BY <1>2, <1>10 DEF TopAt
<1>15. SlabCache \in CacheIds /\ VregionCache \in CacheIds /\ ObjsCache \in CacheIds
  BY Counters
<1>16. HeldIn(stack') = HeldIn(stack) /\ Apart(stack')
  BY <1>2, <1>10, <1>11, FramesNow
<1>17. SlabsInvParts'
  BY <1>1, <1>4, <1>5, <1>6, <1>8, <1>9, <1>14, <1>15, <1>16
     DEF SlabsInvParts, Fresh, Unlisted
<1>18. CacheParts'
  <2>1. Len(cache') = Len(cache)
    BY <1>1, <1>3, AddedTo
  <2> QED
    BY <1>1, <1>4, <1>5, <1>8, <1>14, <1>15, <2>1 DEF CacheParts
<1>19. RegionsInv'
  BY <1>1, <1>13 DEF HeapInv, RegionsInv, Frontier
<1> QED
  BY <1>8, <1>12, <1>17, <1>18, <1>19, SlabsInvIs, CachesInvIs DEF Kept

\* An object is taken and returned: a Slab object to create_slab, a Vregion
\* object to the boot code, an Objs_cache to objs_cache_create, another to a
\* client.
LEMMA AllocObjectKeeps == HeapInv /\ AllocObject /\ cause' = "none" => Kept
<1> SUFFICES ASSUME HeapInv, AllocObject, cause' = "none" PROVE Kept
  OBVIOUS
<1> DEFINE c == Top.cache
<1>1. /\ stack # <<>> /\ Top.at = "alloc5" /\ Return /\ CanRetrieve(c)
      /\ UNCHANGED <<freeV, usedV>> /\ ret' = cache[c].used + 1
      /\ cache' = [cache EXCEPT ![c] = Retrieved(@)] /\ slab' = SlabAfterRetrieve(c)
  BY DEF AllocObject, At, Halt, regions
<1>2. Takes(c)
  BY <1>1 DEF Takes
<1>3. \/ c = SlabCache /\ Below(1).at = "create2"
      \/ c = VregionCache /\ Below(1).at = "boot"
      \/ c = ObjsCache /\ Below(1).at = "register"
      \/ c > VregionCache /\ Below(1).at = "none"
  BY <1>1, TopFacts DEF MayCall, CreatePlaces, RegionPlaces, Refill
<1>4. c \in CacheIds /\ c \in Nat /\ SlabCache = 2 /\ VregionCache = 3 /\ ObjsCache = 1
  BY <1>1, TopFacts, CacheTypes DEF SlabCache, VregionCache, ObjsCache
<1> HIDE DEF c
<1>5. SlabsInvParts /\ CacheParts
  BY SlabsInvIs, CachesInvIs DEF HeapInv
<1>6. ~TopAt({"create2"}) /\ ~TopAt({"alloc4"}) /\ ~TopAt({"boot"}) /\ ~TopAt({"register"})
  BY <1>1 DEF TopAt
<1>7. /\ CachesSound' /\ CacheIds' = CacheIds /\ DOMAIN slab' = DOMAIN slab
      /\ \A d \in CacheIds : /\ Listed(cache'[d]) = Listed(cache[d])
                             /\ cache'[d].objs = cache[d].objs
                             /\ cache'[d].pages = cache[d].pages
      /\ cache'[c].used = cache[c].used + 1
      /\ \A d \in CacheIds : d # c => cache'[d] = cache[d]
  BY <1>2, <1>4, TakesSound
<1>8. AllListed' = AllListed
  BY <1>7 DEF AllListed
<1>9. HeldBy(Top) = {}
  BY <1>1 DEF HeldBy, HoldPlaces
<1>10. /\ stack' # <<>> => Top' = Below(1)
       /\ stack' = <<>> => Below(1).at = "none"
       /\ \A g \in ToSet(stack') : FrameOK(g)
       /\ Apart(stack') /\ HeldIn(stack) = HeldIn(stack')
       /\ Booting' <=> Booting
  BY <1>1, <1>9, ReturnParts
<1>11. /\ SlabCache \in CacheIds /\ VregionCache \in CacheIds /\ ObjsCache \in CacheIds
       /\ \A d \in CacheIds : cache[d].used \in Nat
  BY Counters
<1>12. ~TopAt({"alloc4"})'
  BY <1>3, <1>10 DEF TopAt
<1>13. /\ TopAt({"create2"})' <=> c = SlabCache
       /\ TopAt({"boot"})' <=> c = VregionCache
       /\ TopAt({"register"})' <=> c = ObjsCache
  BY <1>3, <1>4, <1>10 DEF TopAt
<1>14. SlabsInvParts'
  <2>1. /\ HeldIn(stack) \subseteq 1..cache[SlabCache].used
        /\ DOMAIN slab = (1..cache[SlabCache].used) \ HeldIn(stack)
        /\ AllListed = DOMAIN slab
    BY <1>5, <1>6 DEF SlabsInvParts, Fresh, Unlisted
  <2>2. Unlisted' = {}
    BY <1>12 DEF Unlisted
  <2>3. CASE c = SlabCache
    <3> DEFINE u == cache[SlabCache].used
               n == cache'[SlabCache].used
    <3>1. u \in Nat /\ n = u + 1 /\ Fresh' = {u + 1}
      BY <1>1, <1>7, <1>11, <1>13, <2>3 DEF Fresh
    <3>2. HeldIn(stack) \subseteq 1..u /\ DOMAIN slab = (1..u) \ HeldIn(stack)
      BY <2>1
    <3> HIDE DEF u, n
    <3>3. /\ HeldIn(stack) \cup {u + 1} \subseteq 1..n
          /\ DOMAIN slab = (1..n) \ (HeldIn(stack) \cup {u + 1})
          /\ {u + 1} \cap HeldIn(stack) = {}
      BY <3>1, <3>2
    <3> QED
      BY <1>7, <1>8, <1>10, <1>12, <2>1, <2>2, <3>1, <3>3 DEF SlabsInvParts, n
  <2>4. CASE c # SlabCache
    <3>1. cache'[SlabCache] = cache[SlabCache] /\ Fresh' = {}
      BY <1>7, <1>11, <1>13, <2>4 DEF Fresh
    <3> QED
      BY <1>7, <1>8, <1>10, <1>12, <2>1, <2>2, <3>1 DEF SlabsInvParts
  <2> QED
    BY <2>3, <2>4
<1>15. CacheParts'
  <2>1. Len(cache') = Len(cache)
    BY <1>1, <1>4, RetrievedFrom
  <2>2. /\ cache[VregionCache].used = Len(freeV) + Len(usedV)
        /\ cache[ObjsCache].used = Len(cache)
    <3>1. Len(freeV) \in Nat /\ Len(usedV) \in Nat /\ Len(cache) \in Nat
      BY RegionTypes, CacheTypes
    <3> QED
      BY <1>5, <1>6, <3>1 DEF CacheParts
  <2>3. cache'[VregionCache].used
            = Len(freeV') + Len(usedV') + (IF TopAt({"boot"})' THEN 1 ELSE 0)
    <3> DEFINE u == cache[VregionCache].used
               n == cache'[VregionCache].used
    <3>1. n = u + (IF c = VregionCache THEN 1 ELSE 0) /\ u \in Nat
      BY <1>7, <1>11
    <3>2. u = Len(freeV') + Len(usedV')
      BY <1>1, <2>2
    <3> HIDE DEF u, n
    <3>3. n = Len(freeV') + Len(usedV') + (IF TopAt({"boot"})' THEN 1 ELSE 0)
      BY <1>13, <3>1, <3>2
    <3> QED
      BY <3>3 DEF n
  <2>4. cache'[ObjsCache].used = Len(cache') + (IF TopAt({"register"})' THEN 1 ELSE 0)
    <3> DEFINE u == cache[ObjsCache].used
               n == cache'[ObjsCache].used
    <3>1. n = u + (IF c = ObjsCache THEN 1 ELSE 0) /\ u \in Nat
      BY <1>7, <1>11
    <3>2. u = Len(cache')
      BY <2>1, <2>2
    <3> HIDE DEF u, n
    <3>3. n = Len(cache') + (IF TopAt({"register"})' THEN 1 ELSE 0)
      BY <1>13, <3>1, <3>2
    <3> QED
      BY <3>3 DEF n
  <2> QED
    BY <1>5, <1>7, <1>11, <2>1, <2>3, <2>4 DEF CacheParts
<1>16. RegionsInv'
  BY <1>1, <1>10 DEF HeapInv, RegionsInv, Frontier
<1> QED
  BY <1>7, <1>10, <1>14, <1>15, <1>16, SlabsInvIs, CachesInvIs DEF Kept

\* Without one of these functions at the top nothing is between two hands.
LEMMA PlainTops ==
    /\ ~TopAt(SpecialTops) => /\ Fresh = {} /\ Unlisted = {} /\ ~TopAt({"create2"})
                              /\ ~TopAt({"alloc4"}) /\ ~TopAt({"boot"}) /\ ~TopAt({"register"})
    /\ ~TopAt(SpecialTops)' =>
          /\ Fresh' = {} /\ Unlisted' = {} /\ ~TopAt({"create2"})'
          /\ ~TopAt({"alloc4"})' /\ ~TopAt({"boot"})' /\ ~TopAt({"register"})'
BY DEF TopAt, SpecialTops, Fresh, Unlisted

\* A function that goes on, with another Slab object or none.
LEMMA GotoFrames ==
    ASSUME HeapInv, stack # <<>>, NEW f, FrameOK(f), Goto(f),
           Top.at \notin SpecialTops, f.at \notin SpecialTops
    PROVE  /\ \A g \in ToSet(stack') : FrameOK(g)
           /\ Booting' <=> Booting
           /\ ~TopAt(SpecialTops) /\ ~TopAt(SpecialTops)'
           /\ HeldIn(stack') = HeldBy(f) \cup HeldIn(Rest)
           /\ HeldIn(stack) = HeldBy(Top) \cup HeldIn(Rest)
           /\ HeldBy(Top) \cap HeldIn(Rest) = {}
           /\ Apart(stack') <=> HeldBy(f) \cap HeldIn(Rest) = {}
<1>1. f \in Frames
  BY DEF FrameOK
<1>2. /\ stack' \in Seq(Frames) /\ stack' # <<>> /\ Top' = f
      /\ ToSet(stack') = ToSet(Rest) \cup {f}
      /\ HeldIn(stack') = HeldBy(f) \cup HeldIn(Rest)
      /\ Apart(stack') <=> Apart(Rest) /\ HeldBy(f) \cap HeldIn(Rest) = {}
  BY <1>1, GotoParts
<1>3. /\ ToSet(stack) = ToSet(Rest) \cup {Top}
      /\ HeldIn(stack) = HeldBy(Top) \cup HeldIn(Rest)
      /\ Apart(stack) <=> Apart(Rest) /\ HeldBy(Top) \cap HeldIn(Rest) = {}
  BY StackParts
<1>4. \A g \in ToSet(stack') : FrameOK(g)
  BY <1>2, <1>3, FramesNow
<1>5. Booting' <=> Booting
  BY <1>2, <1>3, BootingIs DEF SpecialTops
<1>6. ~TopAt(SpecialTops) /\ ~TopAt(SpecialTops)'
  BY <1>2 DEF TopAt
<1> QED
  BY <1>2, <1>3, <1>4, <1>5, <1>6, FramesNow

\* A refill takes a Slab object from the reserve.
LEMMA SpecialPagesKeeps == HeapInv /\ SpecialPages /\ cause' = "none" => Kept
<1> SUFFICES ASSUME HeapInv, SpecialPages, cause' = "none" PROVE Kept
  OBVIOUS
<1> DEFINE u == cache[SlabCache].used
           n == cache'[SlabCache].used
           f == [Top EXCEPT !.at = "special3", !.slab = u + 1]
<1>1. /\ stack # <<>> /\ Top.at = "special2" /\ Goto(f) /\ CanRetrieve(SlabCache)
      /\ UNCHANGED <<freeV, usedV, ret>>
      /\ cache' = [cache EXCEPT ![SlabCache] = Retrieved(@)]
      /\ slab' = SlabAfterRetrieve(SlabCache)
  BY DEF SpecialPages, At, Halt, regions
<1>2. Takes(SlabCache)
  BY <1>1 DEF Takes
<1>3. /\ SlabCache \in CacheIds /\ VregionCache \in CacheIds /\ ObjsCache \in CacheIds
      /\ \A d \in CacheIds : cache[d].used \in Nat
      /\ SlabCache # VregionCache /\ SlabCache # ObjsCache
  BY Counters DEF SlabCache, VregionCache, ObjsCache
<1>4. FrameOK(Top) /\ Top.at \notin SpecialTops /\ HeldBy(Top) = {}
  BY <1>1, FramesNow DEF SpecialTops, HeldBy, HoldPlaces
<1>5. f.at = "special3" /\ f.slab = u + 1 /\ f.cache = Top.cache /\ f \in Frames
  <2>1. u + 1 \in Nat
    BY <1>3
  <2> QED
    <3>1. Top \in Frames /\ "special3" \in Places
      BY <1>4 DEF FrameOK, Places
    <3>2. \A m \in Nat : \A g : g = [Top EXCEPT !.at = "special3", !.slab = m] =>
              g \in Frames /\ g.at = "special3" /\ g.slab = m /\ g.cache = Top.cache
      BY <3>1 DEF Frames
    <3> QED
      BY <2>1, <3>2
<1>6. FrameOK(f) /\ HeldBy(f) = {u + 1} /\ f.at \notin SpecialTops
  BY <1>4, <1>5 DEF FrameOK, HeldBy, HoldPlaces, RegionPlaces, SpecialTops
<1>7. u \in Nat
  BY <1>3
<1> HIDE DEF f
<1>8. SlabsInvParts /\ CacheParts
  BY SlabsInvIs, CachesInvIs DEF HeapInv
<1>9. /\ \A g \in ToSet(stack') : FrameOK(g)
      /\ Booting' <=> Booting
      /\ ~TopAt(SpecialTops) /\ ~TopAt(SpecialTops)'
      /\ HeldIn(stack') = {u + 1} \cup HeldIn(Rest)
      /\ HeldIn(stack) = HeldIn(Rest)
      /\ Apart(stack') <=> {u + 1} \cap HeldIn(Rest) = {}
  BY <1>1, <1>4, <1>6, GotoFrames
<1>10. /\ CachesSound' /\ CacheIds' = CacheIds /\ DOMAIN slab' = DOMAIN slab
       /\ \A d \in CacheIds : /\ Listed(cache'[d]) = Listed(cache[d])
                              /\ cache'[d].objs = cache[d].objs
                              /\ cache'[d].pages = cache[d].pages
       /\ cache'[SlabCache].used = cache[SlabCache].used + 1
       /\ \A d \in CacheIds : d # SlabCache => cache'[d] = cache[d]
  BY <1>2, <1>3, TakesSound
<1>11. AllListed' = AllListed
  BY <1>10 DEF AllListed
<1>12. SlabsInvParts'
  <2>1. n = u + 1
    BY <1>10
  <2>2. /\ HeldIn(stack) \subseteq 1..u /\ DOMAIN slab = (1..u) \ HeldIn(stack)
        /\ AllListed = DOMAIN slab
    BY <1>8, <1>9, PlainTops DEF SlabsInvParts
  <2> HIDE DEF u, n
  <2>3. /\ HeldIn(stack') \subseteq 1..n /\ DOMAIN slab' = (1..n) \ HeldIn(stack')
        /\ {u + 1} \cap HeldIn(Rest) = {}
    BY <1>7, <1>9, <1>10, <2>1, <2>2
  <2>4. Fresh' = {} /\ Unlisted' = {} /\ ~TopAt({"alloc4"})'
    BY <1>9, PlainTops
  <2> QED
    BY <1>9, <1>10, <1>11, <2>2, <2>3, <2>4 DEF SlabsInvParts, n
<1>13. CacheParts'
  <2>1. Len(cache') = Len(cache)
    BY <1>1, <1>3, RetrievedFrom
  <2>2. cache'[VregionCache] = cache[VregionCache] /\ cache'[ObjsCache] = cache[ObjsCache]
    BY <1>3, <1>10
  <2>3. ~TopAt({"boot"}) /\ ~TopAt({"register"}) /\ ~TopAt({"boot"})' /\ ~TopAt({"register"})'
    BY <1>9, PlainTops
  <2> QED
    BY <1>1, <1>3, <1>8, <1>10, <2>1, <2>2, <2>3 DEF CacheParts
<1>14. RegionsInv'
  BY <1>1, <1>9 DEF HeapInv, RegionsInv, Frontier
<1> QED
  BY <1>9, <1>10, <1>12, <1>13, <1>14, SlabsInvIs, CachesInvIs DEF Kept

\* What initialize_slab makes of the Slab objects.
LEMMA SetUp ==
    ASSUME NEW s, NEW n, NEW r, slab' = InitializedSlab(slab, s, n, r)
    PROVE  /\ DOMAIN slab' = DOMAIN slab \cup {s} /\ slab'[s].free = n /\ slab'[s].region = r
           /\ n \in Nat /\ r \in Regions => slab'[s] \in SlabRecord
           /\ \A t \in DOMAIN slab : t # s => slab'[t] = slab[t]
BY DEF InitializedSlab, SlabRecord

\* A refill makes a slab of its Slab object, and adds it to its cache.
LEMMA SpecialAddsSlabKeeps == HeapInv /\ SpecialAddsSlab /\ cause' = "none" => Kept
<1> SUFFICES ASSUME HeapInv, SpecialAddsSlab, cause' = "none" PROVE Kept
  OBVIOUS
<1> DEFINE c == Top.cache
           s == Top.slab
           f == [Top EXCEPT !.at = "special5"]
<1>1. /\ stack # <<>> /\ Top.at = "special4" /\ Goto(f)
      /\ UNCHANGED <<freeV, usedV, ret>>
      /\ cache' = [cache EXCEPT ![c] = WithSlab(@, s)]
      /\ slab' = InitializedSlab(slab, s, cache[c].objs, got)
  BY DEF SpecialAddsSlab, At, Halt, regions
<1>2. /\ c \in CacheIds /\ SlabCache \in CacheIds /\ VregionCache \in CacheIds
      /\ ObjsCache \in CacheIds /\ cache[c].objs \in Nat /\ got \in Regions
  BY <1>1, TopFacts, Counters, RegionTypes
<1>3. Top.at \notin SpecialTops /\ HeldBy(Top) = {s}
  BY <1>1 DEF SpecialTops, HeldBy, HoldPlaces
<1>4. f.at = "special5" /\ FrameOK(f)
  BY <1>1, MovedOK DEF Places, RegionPlaces, HoldPlaces
<1>5. HeldBy(f) = {} /\ f.at \notin SpecialTops
  BY <1>4 DEF HeldBy, HoldPlaces, SpecialTops
<1> HIDE DEF f, c, s
<1>6. SlabsInvParts /\ CacheParts
  BY SlabsInvIs, CachesInvIs DEF HeapInv
<1>7. /\ \A g \in ToSet(stack') : FrameOK(g)
      /\ Booting' <=> Booting
      /\ ~TopAt(SpecialTops) /\ ~TopAt(SpecialTops)'
      /\ HeldIn(stack') = HeldIn(Rest)
      /\ HeldIn(stack) = {s} \cup HeldIn(Rest)
      /\ {s} \cap HeldIn(Rest) = {}
      /\ Apart(stack')
  BY <1>1, <1>3, <1>4, <1>5, GotoFrames
<1>8. /\ HeldIn(stack) \subseteq 1..cache[SlabCache].used
      /\ DOMAIN slab = (1..cache[SlabCache].used) \ HeldIn(stack)
      /\ AllListed = DOMAIN slab
  BY <1>6, <1>7, PlainTops DEF SlabsInvParts
<1>9. s \in HeldIn(stack) /\ s \notin DOMAIN slab
  BY <1>7, <1>8
<1>10. /\ DOMAIN slab' = DOMAIN slab \cup {s} /\ slab'[s].free = cache[c].objs
       /\ slab'[s] \in SlabRecord
       /\ \A t \in DOMAIN slab : t # s => slab'[t] = slab[t]
  BY <1>1, <1>2, SetUp
<1>11. Adds(c, s)
  <2>1. \A d \in CacheIds : s \notin Listed(cache[d])
    BY <1>8, <1>9 DEF AllListed
  <2> QED
    BY <1>1, <1>10, <2>1 DEF Adds
<1>12. /\ CachesSound' /\ CacheIds' = CacheIds
       /\ \A d \in CacheIds : /\ cache'[d].objs = cache[d].objs
                              /\ cache'[d].pages = cache[d].pages
                              /\ cache'[d].used = cache[d].used
       /\ \A d \in CacheIds : d # c => cache'[d] = cache[d]
       /\ Listed(cache'[c]) = Listed(cache[c]) \cup {s}
  BY <1>2, <1>11, AddsSound
<1>13. AllListed' = AllListed \cup {s}
  BY <1>2, <1>12 DEF AllListed
<1>14. Fresh' = {} /\ Unlisted' = {} /\ ~TopAt({"alloc4"})'
  BY <1>7, PlainTops
<1>15. SlabsInvParts'
  <2>1. cache'[SlabCache].used = cache[SlabCache].used
    BY <1>2, <1>12
  <2>2. DOMAIN slab' = (1..cache[SlabCache].used) \ HeldIn(stack')
    BY <1>7, <1>8, <1>9, <1>10
  <2> QED
    BY <1>7, <1>8, <1>10, <1>13, <1>14, <2>1, <2>2 DEF SlabsInvParts
<1>16. CacheParts'
  <2>1. Len(cache') = Len(cache)
    BY <1>1, <1>2, AddedTo
  <2>2. ~TopAt({"boot"}) /\ ~TopAt({"register"}) /\ ~TopAt({"boot"})' /\ ~TopAt({"register"})'
    BY <1>7, PlainTops
  <2> QED
    BY <1>1, <1>2, <1>6, <1>12, <2>1, <2>2 DEF CacheParts
<1>17. RegionsInv'
  BY <1>1, <1>7 DEF HeapInv, RegionsInv, Frontier
<1> QED
  BY <1>7, <1>12, <1>15, <1>16, <1>17, SlabsInvIs, CachesInvIs DEF Kept

\* create_slab has its Slab object and asks for a region.
LEMMA CreateRegionKeeps == HeapInv /\ CreateRegion => Kept
<1> SUFFICES ASSUME HeapInv, CreateRegion PROVE Kept
  OBVIOUS
<1> DEFINE f == [Top EXCEPT !.at = "create3", !.slab = ret]
           n == cache[Top.cache].pages
           e == RegionCall("region", n)
<1>1. /\ stack # <<>> /\ Top.at = "create2" /\ Enter(e, f)
      /\ UNCHANGED <<cache, slab, freeV, usedV, ret>>
  BY DEF CreateRegion, At, heap, regions
<1>2. FrameOK(Top) /\ HeldBy(Top) = {} /\ Top.cache \in CacheIds /\ ret \in Nat
  BY <1>1, FramesNow DEF HeldBy, HoldPlaces, HeapInv, TypeOK, FrameOK
<1>3. f.at = "create3" /\ f.slab = ret /\ f.cache = Top.cache /\ f \in Frames
  <2>1. Top \in Frames /\ "create3" \in Places
    BY <1>2 DEF FrameOK, Places
  <2>2. \A m \in Nat : \A g : g = [Top EXCEPT !.at = "create3", !.slab = m] =>
            g \in Frames /\ g.at = "create3" /\ g.slab = m /\ g.cache = Top.cache
    BY <2>1 DEF Frames
  <2> QED
    BY <1>2, <2>2
<1>4. FrameOK(f) /\ HeldBy(f) = {ret}
  BY <1>2, <1>3 DEF FrameOK, HeldBy, HoldPlaces, RegionPlaces
<1>5. n \in Lengths
  BY <1>2 DEF HeapInv, CachesInv
<1> HIDE DEF n
<1>6. FrameOK(e) /\ e.at = "region" /\ HeldBy(e) = {}
  BY <1>5, RegionCallIsOK DEF RegionPlaces
<1>7. e \in Frames
  BY <1>6 DEF FrameOK
<1> HIDE DEF e, f
<1>8. /\ stack' # <<>> /\ Top' = e
      /\ ToSet(stack') = ToSet(Rest) \cup {e, f}
      /\ HeldIn(stack') = HeldBy(e) \cup HeldBy(f) \cup HeldIn(Rest)
      /\ Apart(stack') <=> /\ Apart(Rest) /\ HeldBy(f) \cap HeldIn(Rest) = {}
                           /\ HeldBy(e) \cap (HeldBy(f) \cup HeldIn(Rest)) = {}
  BY <1>1, <1>3, <1>7, EnterParts
<1>9. /\ ToSet(stack) = ToSet(Rest) \cup {Top}
      /\ HeldIn(stack) = HeldBy(Top) \cup HeldIn(Rest)
      /\ Apart(stack) <=> Apart(Rest) /\ HeldBy(Top) \cap HeldIn(Rest) = {}
  BY <1>1, StackParts
<1>10. \A g \in ToSet(stack') : FrameOK(g)
  BY <1>4, <1>6, <1>8, <1>9, FramesNow
<1>11. Booting' <=> Booting
  BY <1>1, <1>3, <1>6, <1>8, <1>9, BootingIs
<1>12. CachesSound'
  BY <1>1, KeepsSound
<1>13. SlabsInvParts /\ CacheParts
  BY SlabsInvIs, CachesInvIs DEF HeapInv
<1>14. /\ ~TopAt({"alloc4"}) /\ ~TopAt({"boot"}) /\ ~TopAt({"register"})
       /\ Fresh = {ret} /\ Unlisted = {}
  BY <1>1 DEF TopAt, Fresh, Unlisted
<1>15. ~TopAt(SpecialTops)'
  BY <1>6, <1>8 DEF TopAt, SpecialTops
<1>16. /\ Fresh' = {} /\ Unlisted' = {} /\ ~TopAt({"alloc4"})' /\ ~TopAt({"boot"})'
       /\ ~TopAt({"register"})'
  BY <1>15, PlainTops
<1>17. SlabsInvParts'
  <2>1. HeldIn(stack') = HeldIn(stack) \cup {ret} /\ {ret} \cap HeldIn(stack) = {}
        /\ Apart(stack')
    BY <1>2, <1>4, <1>6, <1>8, <1>9, <1>13, <1>14, FramesNow DEF SlabsInvParts
  <2> QED
    BY <1>1, <1>13, <1>14, <1>16, <2>1 DEF SlabsInvParts, AllListed, CacheIds
<1>18. CacheParts'
  BY <1>1, <1>13, <1>14, <1>16 DEF CacheParts, CacheIds
<1>19. RegionsInv'
  BY <1>1, <1>11 DEF HeapInv, RegionsInv, Frontier
<1> QED
  BY <1>10, <1>12, <1>17, <1>18, <1>19, SlabsInvIs, CachesInvIs DEF Kept

\* create_slab makes a slab of its Slab object and returns it.
LEMMA CreateReturnsKeeps == HeapInv /\ CreateReturns /\ cause' = "none" => Kept
<1> SUFFICES ASSUME HeapInv, CreateReturns, cause' = "none" PROVE Kept
  OBVIOUS
<1> DEFINE c == Top.cache
           s == Top.slab
<1>1. /\ stack # <<>> /\ Top.at = "create5" /\ Return
      /\ UNCHANGED <<cache, freeV, usedV>> /\ ret' = s
      /\ slab' = InitializedSlab(slab, s, cache[c].objs, got)
  BY DEF CreateReturns, At, Halt, regions
<1>2. c \in CacheIds /\ cache[c].objs \in Nat /\ got \in Regions
  BY <1>1, TopFacts, Counters, RegionTypes
<1>3. HeldBy(Top) = {s}
  BY <1>1 DEF HeldBy, HoldPlaces
<1>4. Below(1).at = "alloc4" /\ Below(1).cache = c
  BY <1>1, TopFacts DEF MayCall, AllocPlaces, Refill
<1> HIDE DEF c, s
<1>5. /\ stack' # <<>> /\ Top' = Below(1)
      /\ \A g \in ToSet(stack') : FrameOK(g)
      /\ Apart(stack') /\ HeldIn(stack) = {s} \cup HeldIn(stack')
      /\ {s} \cap HeldIn(stack') = {}
      /\ Booting' <=> Booting
  BY <1>1, <1>3, <1>4, ReturnParts
<1>6. SlabsInvParts /\ CacheParts
  BY SlabsInvIs, CachesInvIs DEF HeapInv
<1>7. ~TopAt(SpecialTops)
  BY <1>1 DEF TopAt, SpecialTops
<1>8. /\ HeldIn(stack) \subseteq 1..cache[SlabCache].used
      /\ DOMAIN slab = (1..cache[SlabCache].used) \ HeldIn(stack)
      /\ AllListed = DOMAIN slab
  BY <1>6, <1>7, PlainTops DEF SlabsInvParts
<1>9. s \notin DOMAIN slab
  BY <1>5, <1>8
<1>10. /\ DOMAIN slab' = DOMAIN slab \cup {s} /\ slab'[s].free = cache[c].objs
       /\ slab'[s] \in SlabRecord
       /\ \A t \in DOMAIN slab : t # s => slab'[t] = slab[t]
  BY <1>1, <1>2, SetUp
<1>11. CachesSound'
  BY <1>1, <1>9, <1>10, SetUpSound
<1>12. /\ ~TopAt({"create2"})' /\ ~TopAt({"boot"})' /\ ~TopAt({"register"})'
       /\ Fresh' = {} /\ Unlisted' = {s} /\ Top'.cache = c
  BY <1>1, <1>4, <1>5 DEF TopAt, Fresh, Unlisted
<1>13. AllListed' = AllListed
  BY <1>1 DEF AllListed, CacheIds
<1>14. SlabsInvParts'
  <2>1. DOMAIN slab' = (1..cache[SlabCache].used) \ HeldIn(stack')
    BY <1>5, <1>8, <1>10
  <2>2. slab'[ret'].free = cache'[Top'.cache].objs
    BY <1>1, <1>10, <1>12
  <2> QED
    BY <1>1, <1>5, <1>8, <1>9, <1>10, <1>12, <1>13, <2>1, <2>2 DEF SlabsInvParts
<1>15. CacheParts'
  <2>1. ~TopAt({"boot"}) /\ ~TopAt({"register"})
    BY <1>7, PlainTops
  <2> QED
    BY <1>1, <1>6, <1>12, <2>1 DEF CacheParts, CacheIds
<1>16. RegionsInv'
  BY <1>1, <1>5 DEF HeapInv, RegionsInv, Frontier
<1> QED
  BY <1>5, <1>11, <1>14, <1>15, <1>16, SlabsInvIs, CachesInvIs DEF Kept

\* A new cache is linked.
LEMMA ObjsCacheInitKeeps == HeapInv /\ ObjsCacheInit => Kept
<1> SUFFICES ASSUME HeapInv, ObjsCacheInit PROVE Kept
  OBVIOUS
<1> DEFINE kind == Top.kind
           n == Len(cache) + 1
<1>1. /\ stack # <<>> /\ Top.at = "register" /\ Return
      /\ UNCHANGED <<slab, freeV, usedV, ret>> /\ cache' = Append(cache, NewCache(kind))
  BY DEF ObjsCacheInit, At, regions
<1>2. kind \in Kinds /\ kind \in [objs : Nat, pages : Nat] /\ kind.objs > 0
      /\ kind.pages \in Lengths
  BY <1>1, FramesNow, KindsAssumption DEF FrameOK, Lengths
<1> HIDE DEF kind
<1>3. stack' = <<>>
  BY <1>1, LastReturns
<1>4. HeldBy(Top) = {} /\ ToSet(stack') = {}
  BY <1>1, <1>3 DEF HeldBy, HoldPlaces, ToSet
<1>5. /\ \A g \in ToSet(stack') : FrameOK(g)
      /\ Apart(stack') /\ HeldIn(stack) = HeldIn(stack')
      /\ Booting' <=> Booting
  BY <1>1, <1>4, ReturnParts
<1>6. SlabsInvParts /\ CacheParts
  BY SlabsInvIs, CachesInvIs DEF HeapInv
<1>7. ~TopAt({"create2"}) /\ ~TopAt({"alloc4"}) /\ ~TopAt({"boot"}) /\ TopAt({"register"})
  BY <1>1 DEF TopAt
<1>8. /\ ~TopAt({"create2"})' /\ ~TopAt({"alloc4"})' /\ ~TopAt({"boot"})'
      /\ ~TopAt({"register"})'
  BY <1>3 DEF TopAt
<1>9. /\ CachesSound' /\ CacheIds' = CacheIds \cup {n}
      /\ \A d \in CacheIds : cache'[d] = cache[d]
      /\ cache'[n].objs = kind.objs /\ cache'[n].pages = kind.pages
      /\ Listed(cache'[n]) = {} /\ Len(cache') = n
  BY <1>1, <1>2, CreatedSound
<1>10. /\ SlabCache \in CacheIds /\ VregionCache \in CacheIds /\ ObjsCache \in CacheIds
       /\ Len(cache) \in Nat
  BY Counters
<1> HIDE DEF n
<1>11. AllListed' = AllListed
  BY <1>9 DEF AllListed
<1>12. SlabsInvParts'
  <2>1. cache'[SlabCache] = cache[SlabCache]
    BY <1>9, <1>10
  <2> QED
    BY <1>1, <1>5, <1>6, <1>7, <1>8, <1>11, <2>1 DEF SlabsInvParts, Fresh, Unlisted
<1>13. CacheParts'
  <2>1. /\ cache'[SlabCache] = cache[SlabCache] /\ cache'[VregionCache] = cache[VregionCache]
        /\ cache'[ObjsCache] = cache[ObjsCache]
    BY <1>9, <1>10
  <2>2. Len(cache') >= 3
    BY <1>6, <1>9, <1>10 DEF CacheParts, n
  <2>3. cache[ObjsCache].used = n
    BY <1>6, <1>7 DEF CacheParts, n
  <2>4. \A d \in CacheIds' : cache'[d].objs > 0 /\ cache'[d].pages \in Lengths
    BY <1>2, <1>6, <1>9 DEF CacheParts
  <2>5. cache'[ObjsCache].used = Len(cache') + (IF TopAt({"register"})' THEN 1 ELSE 0)
    BY <1>8, <1>9, <1>10, <2>1, <2>3 DEF n
  <2> QED
    BY <1>1, <1>6, <1>7, <1>8, <2>1, <2>2, <2>4, <2>5 DEF CacheParts, Lengths
<1>14. RegionsInv'
  BY <1>1, <1>5 DEF HeapInv, RegionsInv, Frontier
<1>15. \A g \in ToSet(stack') : FrameOK(g)
  BY <1>4
<1> QED
  BY <1>9, <1>12, <1>13, <1>14, <1>15, SlabsInvIs, CachesInvIs DEF Kept

\* Replacing the element of a list of one.
LEMMA OneReplaced ==
    ASSUME NEW T, NEW q \in Seq(T), Len(q) = 1, NEW e \in T,
           NEW t, t = [q EXCEPT ![1] = e]
    PROVE  t \in Seq(T) /\ Len(t) = 1 /\ t[1] = e /\ t # <<>>
  OBVIOUS

\* What the first fitting region becomes, and the list of used ones.
LEMMA RegionFitsRegions ==
    ASSUME HeapInv, RegionFits
    PROVE  LET n == Top.kind.pages
           IN  /\ n \in Nat /\ n > 0 /\ ~Booting /\ ~Booting'
               /\ Frontier \in Nat /\ Frontier >= FirstVpn
               /\ Frontier' = Frontier + n /\ Frontier' <= LastVpn + 1
               /\ got' = Region(Frontier, n) /\ usedV' = <<got'>> \o usedV
               /\ Len(usedV') = Len(usedV) + 1
               /\ Len(freeV) = 1 /\ Len(freeV') \in {0, 1}
               /\ IF Len(freeV') = 1
                  THEN /\ freeV' # <<>> /\ freeV'[1].pages > 0
                       /\ freeV'[1].first = Frontier'
                       /\ freeV'[1].first + freeV'[1].pages = LastVpn + 1
                       /\ freeV' \in Seq(Regions)
                       /\ Takes(VregionCache)
                  ELSE freeV' = <<>> /\ UNCHANGED <<cache, slab>>
<1> DEFINE n == Top.kind.pages
           old == freeV[1]
           taken == Region(old.first, n)
           upper == UpperPart(old, n)
<1>1. /\ stack # <<>> /\ Top.at = "_region" /\ Return
      /\ usedV' = <<taken>> \o usedV /\ got' = taken
      /\ IF upper.pages > 0
         THEN /\ freeV' = [freeV EXCEPT ![1] = upper]
              /\ CanRetrieve(VregionCache)
              /\ cache' = [cache EXCEPT ![VregionCache] = Retrieved(@)]
              /\ slab' = SlabAfterRetrieve(VregionCache)
         ELSE freeV' = RemoveAt(freeV, 1) /\ UNCHANGED <<cache, slab>>
  BY RegionFitsEffect
<1>2. Fitting # {}
  BY DEF RegionFits
<1>3. /\ Len(freeV) = 1 /\ 1 \in DOMAIN freeV
      /\ old.pages >= n /\ ~Booting /\ Frontier = old.first /\ old \in Regions
      /\ old.pages > 0 /\ old.first >= FirstVpn /\ old.first + old.pages = LastVpn + 1
  BY <1>2, OnlyOneFits
<1>4. n \in Lengths
  BY <1>1, FramesNow DEF FrameOK, RegionPlaces
<1>5. n \in Nat /\ n > 0
  BY <1>4, KindsAssumption DEF Lengths
<1>6. ~Booting'
  BY <1>1, <1>3, ReturnParts
<1>7. /\ freeV \in Seq(Regions) /\ usedV \in Seq(Regions) /\ LastVpn \in Nat
      /\ FirstVpn \in Nat /\ old.first \in 0..LastVpn /\ old.pages \in 0..LastVpn
  BY <1>3, RegionTypes
<1>8. upper.first = old.first + n /\ upper.pages = old.pages - n
      /\ upper = [first |-> old.first + n, pages |-> old.pages - n]
  BY DEF UpperPart, Region
<1> DEFINE F == old.first
           P == old.pages
<1>9. F \in Nat /\ P \in Nat /\ P >= n /\ F >= FirstVpn /\ F + P = LastVpn + 1
  BY <1>3, <1>7
<1>10. upper.first = F + n /\ upper.pages = P - n
  BY <1>8
<1> HIDE DEF F, P, n
<1>11. CASE upper.pages > 0
  <2>1. upper.first \in 0..LastVpn /\ upper.pages \in 0..LastVpn
    BY <1>5, <1>7, <1>9, <1>10, <1>11
  <2>2. upper \in Regions
    BY <1>8, <2>1 DEF Regions
  <2>9. freeV' = [freeV EXCEPT ![1] = upper]
    BY <1>1, <1>11
  <2> HIDE DEF upper
  <2>3. freeV' \in Seq(Regions) /\ Len(freeV') = 1 /\ freeV'[1] = upper /\ freeV' # <<>>
    BY <1>3, <1>7, <2>2, <2>9, OneReplaced
  <2>4. Frontier' = F + n
    BY <1>6, <1>10, <2>3 DEF Frontier
  <2>5. Takes(VregionCache)
    BY <1>1, <1>11 DEF Takes
  <2>6. /\ freeV'[1].pages > 0 /\ freeV'[1].first = Frontier'
        /\ freeV'[1].first + freeV'[1].pages = LastVpn + 1
        /\ Frontier' <= LastVpn + 1
    <3> DEFINE a == upper.first
               b == upper.pages
    <3>0. LastVpn \in Nat
      BY <1>7
    <3>1. a = F + n /\ b = P - n /\ b > 0
      BY <1>10, <1>11
    <3> HIDE DEF a, b
    <3>2. b > 0 /\ a = F + n /\ a + b = LastVpn + 1 /\ F + n <= LastVpn + 1
      BY <1>5, <1>9, <3>0, <3>1
    <3> QED
      BY <2>3, <2>4, <3>2 DEF a, b
  <2>7. usedV' = <<got'>> \o usedV /\ Len(usedV') = Len(usedV) + 1 /\ got' = Region(Frontier, n)
    BY <1>1, <1>3, <1>7 DEF n, F
  <2> QED
    BY <1>3, <1>5, <1>6, <1>9, <2>3, <2>4, <2>5, <2>6, <2>7 DEF n, F
<1>12. CASE ~(upper.pages > 0)
  <2>1. P = n
    BY <1>5, <1>9, <1>10, <1>12
  <2>2. freeV' = <<>> /\ Len(freeV') = 0
    BY <1>1, <1>3, <1>7, <1>12 DEF RemoveAt
  <2>3. Frontier' = F + n /\ Frontier' = LastVpn + 1
    BY <1>6, <1>9, <2>1, <2>2 DEF Frontier
  <2>4. usedV' = <<got'>> \o usedV /\ Len(usedV') = Len(usedV) + 1 /\ got' = Region(Frontier, n)
    BY <1>1, <1>3, <1>7 DEF n, F
  <2> QED
    BY <1>1, <1>3, <1>5, <1>6, <1>7, <1>9, <1>12, <2>2, <2>3, <2>4 DEF n, F
<1> QED
  BY <1>11, <1>12

\* The elements of a list after one was put in front.
LEMMA FirstThenRest ==
    ASSUME NEW T, NEW q \in Seq(T), NEW e \in T, NEW u, u = <<e>> \o q
    PROVE  /\ u \in Seq(T) /\ u # <<>> /\ DOMAIN u = 1..(Len(q) + 1) /\ u[1] = e
           /\ \A i \in 2..(Len(q) + 1) : u[i] = q[i - 1] /\ i - 1 \in DOMAIN q
           /\ \A i \in DOMAIN q : i + 1 \in DOMAIN u /\ u[i + 1] = q[i]
           /\ DOMAIN q = 1..Len(q) /\ Len(q) \in Nat
  OBVIOUS

\* The regions after the search of one.
LEMMA RegionFitsPartition == HeapInv /\ RegionFits => RegionsInv'
<1> SUFFICES ASSUME HeapInv, RegionFits PROVE RegionsInv'
  OBVIOUS
<1> DEFINE n == Top.kind.pages
           F == Frontier
           G == Frontier'
           taken == Region(F, n)
<1>1. /\ n \in Nat /\ n > 0 /\ ~Booting /\ ~Booting'
      /\ F \in Nat /\ F >= FirstVpn /\ G = F + n /\ G <= LastVpn + 1
      /\ usedV' = <<taken>> \o usedV /\ got' = taken
      /\ Len(freeV') \in {0, 1}
      /\ IF Len(freeV') = 1
         THEN /\ freeV' # <<>> /\ freeV'[1].pages > 0 /\ freeV'[1].first = G
              /\ freeV'[1].first + freeV'[1].pages = LastVpn + 1
         ELSE freeV' = <<>>
  <2>1. got' = taken
    BY RegionFitsRegions
  <2> QED
    BY <2>1, RegionFitsRegions
<1>2. taken.first = F /\ taken.pages = n
  BY DEF Region
<1>3. usedV \in Seq(Regions) /\ FirstVpn \in Nat /\ LastVpn \in Nat
  BY RegionTypes
<1>4. \A i \in DOMAIN usedV : /\ usedV[i] \in Regions /\ usedV[i].first \in Nat
                              /\ usedV[i].pages \in Nat
  <2>1. \A i \in DOMAIN usedV : usedV[i] \in Regions
    BY <1>3
  <2>2. \A r \in Regions : r.first \in Nat /\ r.pages \in Nat
    BY <1>3 DEF Regions
  <2> QED
    BY <2>1, <2>2
<1>5. /\ \A i \in DOMAIN usedV : /\ usedV[i].pages > 0 /\ usedV[i].first >= FirstVpn - 3
                                 /\ usedV[i].first + usedV[i].pages <= F
      /\ \A i, j \in DOMAIN usedV : i < j =>
            \/ usedV[i].first + usedV[i].pages <= usedV[j].first
            \/ usedV[j].first + usedV[j].pages <= usedV[i].first
      /\ \A v \in (FirstVpn - 3)..(F - 1) : \E i \in DOMAIN usedV : v \in PagesOf(usedV[i])
  BY DEF HeapInv, RegionsInv
<1>6. taken \in Regions
  <2>1. F \in 0..LastVpn /\ n \in 0..LastVpn
    <3> HIDE DEF F, G, n
    <3> QED
      BY <1>1, <1>3, WindowAssumption
  <2> QED
    BY <2>1 DEF Region, Regions
<1> DEFINE u == usedV'
<1> HIDE DEF F, G, n, taken
<1>7. /\ u # <<>> /\ DOMAIN u = 1..(Len(usedV) + 1) /\ u[1] = taken
      /\ \A i \in 2..(Len(usedV) + 1) : u[i] = usedV[i - 1] /\ i - 1 \in DOMAIN usedV
      /\ \A i \in DOMAIN usedV : i + 1 \in DOMAIN u /\ u[i + 1] = usedV[i]
      /\ DOMAIN usedV = 1..Len(usedV) /\ Len(usedV) \in Nat
  BY <1>1, <1>3, <1>6, FirstThenRest
<1> HIDE DEF u
<1>8. ASSUME NEW i \in DOMAIN u
      PROVE  u[i].pages > 0 /\ u[i].first >= FirstVpn - 3 /\ u[i].first + u[i].pages <= G
  <2>1. CASE i = 1
    BY <1>1, <1>2, <1>3, <1>7, <2>1
  <2>2. CASE i # 1
    <3>1. i \in 2..(Len(usedV) + 1)
      BY <1>7, <2>2
    <3> DEFINE a == usedV[i - 1].first
               b == usedV[i - 1].pages
    <3>2. u[i].first = a /\ u[i].pages = b
      BY <1>7, <3>1
    <3>3. a \in Nat /\ b \in Nat /\ b > 0 /\ a >= FirstVpn - 3 /\ a + b <= F
      BY <1>4, <1>5, <1>7, <3>1
    <3> HIDE DEF a, b
    <3>4. a + b <= G
      BY <1>1, <3>3
    <3> QED
      BY <3>2, <3>3, <3>4
  <2> QED
    BY <2>1, <2>2
<1>9. ASSUME NEW i \in DOMAIN u, NEW j \in DOMAIN u, i < j
      PROVE  u[i].first + u[i].pages <= u[j].first \/ u[j].first + u[j].pages <= u[i].first
  <2>1. j \in 2..(Len(usedV) + 1) /\ u[j] = usedV[j - 1] /\ j - 1 \in DOMAIN usedV
    BY <1>7, <1>9
  <2>2. CASE i = 1
    BY <1>2, <1>5, <1>7, <2>1, <2>2
  <2>3. CASE i # 1
    <3>1. i \in 2..(Len(usedV) + 1) /\ i - 1 < j - 1
      BY <1>7, <1>9, <2>1, <2>3
    <3>2. u[i] = usedV[i - 1] /\ i - 1 \in DOMAIN usedV
      BY <1>7, <3>1
    <3> QED
      BY <1>5, <2>1, <3>1, <3>2
  <2> QED
    BY <2>2, <2>3
<1>10. ASSUME NEW v \in (FirstVpn - 3)..(G - 1)
       PROVE  \E i \in DOMAIN u : v \in PagesOf(u[i])
  <2>1. CASE v < F
    <3>1. v \in (FirstVpn - 3)..(F - 1)
      BY <1>1, <1>3, <2>1
    <3>2. PICK i \in DOMAIN usedV : v \in PagesOf(usedV[i])
      BY <1>5, <3>1
    <3> QED
      BY <1>7, <3>2
  <2>2. CASE ~(v < F)
    <3>1. v \in F..(F + n - 1)
      BY <1>1, <1>3, <2>2
    <3>2. v \in PagesOf(taken)
      BY <1>2, <3>1 DEF PagesOf
    <3> QED
      BY <1>7, <3>2
  <2> QED
    BY <2>1, <2>2
<1>11. freeV' # <<>> => /\ Len(freeV') = 1 /\ freeV'[1].pages > 0 /\ freeV'[1].first >= FirstVpn
                        /\ freeV'[1].first + freeV'[1].pages = LastVpn + 1
  <2>1. G >= FirstVpn
    BY <1>1, <1>3
  <2> QED
    BY <1>1, <2>1
<1>12. /\ \A i \in DOMAIN usedV' : /\ usedV'[i].pages > 0 /\ usedV'[i].first >= FirstVpn - 3
                                   /\ usedV'[i].first + usedV'[i].pages <= Frontier'
       /\ \A i, j \in DOMAIN usedV' : i < j =>
             \/ usedV'[i].first + usedV'[i].pages <= usedV'[j].first
             \/ usedV'[j].first + usedV'[j].pages <= usedV'[i].first
       /\ \A v \in (FirstVpn - 3)..(Frontier' - 1) :
             \E i \in DOMAIN usedV' : v \in PagesOf(usedV'[i])
       /\ usedV' # <<>>
  BY <1>7, <1>8, <1>9, <1>10 DEF u, G
<1> QED
  BY <1>1, <1>11, <1>12 DEF RegionsInv, PagesOf

\* _vregion_alloc cuts the first region off that is long enough.
LEMMA RegionFitsKeeps == HeapInv /\ RegionFits => Kept
<1> SUFFICES ASSUME HeapInv, RegionFits PROVE Kept
  OBVIOUS
<1>1. stack # <<>> /\ Top.at = "_region" /\ Return /\ UNCHANGED ret
  BY RegionFitsEffect
<1>2. /\ Len(usedV') = Len(usedV) + 1 /\ Len(freeV) = 1
      /\ \/ Len(freeV') = 1 /\ Takes(VregionCache)
         \/ Len(freeV') = 0 /\ UNCHANGED <<cache, slab>>
  BY RegionFitsRegions
<1>3. Below(1).at \in {"none", "create3", "special2"}
  BY <1>1, TopFacts DEF MayCall, AllocPlaces, CreatePlaces, Refill
<1>4. HeldBy(Top) = {}
  BY <1>1 DEF HeldBy, HoldPlaces
<1>5. /\ stack' # <<>> => Top' = Below(1)
      /\ \A g \in ToSet(stack') : FrameOK(g)
      /\ Apart(stack') /\ HeldIn(stack) = HeldIn(stack')
  BY <1>1, <1>4, ReturnParts
<1>6. ~TopAt(SpecialTops) /\ ~TopAt(SpecialTops)'
  BY <1>1, <1>3, <1>5 DEF TopAt, SpecialTops
<1>7. /\ Fresh = {} /\ Unlisted = {} /\ ~TopAt({"alloc4"}) /\ ~TopAt({"boot"})
      /\ ~TopAt({"register"}) /\ Fresh' = {} /\ Unlisted' = {} /\ ~TopAt({"alloc4"})'
      /\ ~TopAt({"boot"})' /\ ~TopAt({"register"})'
  BY <1>6, PlainTops
<1>8. SlabsInvParts /\ CacheParts
  BY SlabsInvIs, CachesInvIs DEF HeapInv
<1>9. /\ {ObjsCache, SlabCache, VregionCache} \subseteq CacheIds
      /\ SlabCache # VregionCache /\ ObjsCache # VregionCache
      /\ \A c \in CacheIds : cache[c].used \in Nat
  BY Counters DEF ObjsCache, SlabCache, VregionCache
<1> DEFINE V == VregionCache
<1>10. /\ CachesSound' /\ CacheIds' = CacheIds /\ DOMAIN slab' = DOMAIN slab
       /\ \A d \in CacheIds : /\ Listed(cache'[d]) = Listed(cache[d])
                              /\ cache'[d].objs = cache[d].objs
                              /\ cache'[d].pages = cache[d].pages
       /\ \A d \in CacheIds : d # V => cache'[d] = cache[d]
       /\ Len(cache') = Len(cache)
       /\ cache'[V].used = cache[V].used + Len(freeV')
  <2>1. CASE Takes(V)
    <3>1. V \in CacheIds
      BY <1>9
    <3>2. Len(cache') = Len(cache)
      BY <2>1, <3>1, RetrievedFrom DEF Takes
    <3>3. /\ CachesSound' /\ CacheIds' = CacheIds /\ DOMAIN slab' = DOMAIN slab
          /\ \A d \in CacheIds : /\ Listed(cache'[d]) = Listed(cache[d])
                                 /\ cache'[d].objs = cache[d].objs
                                 /\ cache'[d].pages = cache[d].pages
          /\ \A d \in CacheIds : d # V => cache'[d] = cache[d]
          /\ cache'[V].used = cache[V].used + 1
      BY <2>1, <3>1, TakesSound
    <3>4. Len(freeV') = 1
      <4>1. cache'[V].used # cache[V].used
        BY <1>9, <3>3
      <4> QED
        BY <1>2, <4>1
    <3> QED
      BY <3>2, <3>3, <3>4
  <2>2. CASE Len(freeV') = 0 /\ UNCHANGED <<cache, slab>>
    BY <1>9, <2>2, KeepsSound DEF CacheIds
  <2> QED
    BY <1>2, <2>1, <2>2
<1>11. AllListed' = AllListed
  BY <1>10 DEF AllListed
<1>12. SlabsInvParts'
  BY <1>1, <1>5, <1>7, <1>8, <1>9, <1>10, <1>11 DEF SlabsInvParts
<1>13. CacheParts'
  <2>1. cache'[V].used = Len(freeV') + Len(usedV')
    <3> DEFINE a == cache[V].used
               b == cache'[V].used
               l == Len(usedV)
               m == Len(usedV')
               k == Len(freeV')
    <3>1. a \in Nat /\ l \in Nat /\ a = 1 + l /\ m = l + 1 /\ b = a + k /\ k \in {0, 1}
      <4>1. l \in Nat
        BY RegionTypes
      <4> QED
        BY <1>2, <1>7, <1>8, <1>9, <1>10, <4>1 DEF CacheParts
    <3> HIDE DEF a, b, l, m, k
    <3>2. b = k + m
      BY <3>1
    <3> QED
      BY <3>2 DEF b, k, m
  <2>2. Len(freeV') \in Nat /\ Len(usedV') \in Nat
    <3>1. Len(usedV) \in Nat
      BY RegionTypes
    <3> QED
      BY <1>2, <3>1
  <2>3. cache'[ObjsCache] = cache[ObjsCache] /\ cache'[SlabCache] = cache[SlabCache]
    BY <1>9, <1>10
  <2> QED
    BY SMTT(30), <1>7, <1>8, <1>9, <1>10, <2>1, <2>2, <2>3 DEF CacheParts
<1> QED
  BY <1>5, <1>10, <1>12, <1>13, SlabsInvIs, CachesInvIs, RegionFitsPartition DEF Kept

\* A step stops the kernel and leaves the rest as it is, or the kernel goes on.
Stays == UNCHANGED <<heap, regions, stack, ret, got>>

\* A step either stops the kernel, changing nothing else, or goes on.
LEMMA StopsOrGoes ==
    HeapInv /\ [Next]_vars => cause' \in Causes /\ ((Next /\ cause' = "none") \/ Stays)
<1> SUFFICES ASSUME HeapInv, [Next]_vars
             PROVE  cause' \in Causes /\ ((Next /\ cause' = "none") \/ Stays)
  OBVIOUS
<1> USE DEF Stays, Causes, At
<1>1. ASSUME NEW why \in Causes, Halt(why) PROVE cause' \in Causes /\ Stays
  BY <1>1 DEF Halt
<1>2. {"reserve", "noobject", "notfree", "order", "novirtual", "wild", "objsfree", "nomem",
       "fault", "free"} \subseteq Causes
  OBVIOUS
<1> DEFINE Ends == cause' \in Causes /\ (cause' = "none" \/ Stays)
<1>3. cause' = "none" => Ends
  OBVIOUS
<1> HIDE DEF Ends, Causes, Stays
<1>4. ASSUME NEW why \in {"reserve", "noobject", "notfree", "order", "novirtual", "wild",
                          "objsfree", "nomem", "fault", "free"}, Halt(why)
      PROVE Ends
  BY <1>1, <1>2, <1>4 DEF Ends
<1>5. CASE UNCHANGED vars
  <2>1. Stays /\ cause' = cause
    BY <1>5 DEF vars, Stays, heap, memory, regions
  <2> QED
    BY <2>1 DEF HeapInv, TypeOK
<1>6. CASE Next
  <2>1. CASE Halted
    BY <1>5, <2>1 DEF Halted
  <2>2. CASE Client
    <3>1. CASE ObjsCacheFree
      BY <1>4, <1>6, <3>1 DEF ObjsCacheFree, Ends
    <3>2. CASE ~ObjsCacheFree
      <4>1. cause' = "none"
        BY <2>2, <3>2 DEF Client, ObjsCacheAlloc, ObjsCacheCreate, VregionAlloc, ClientCall, Idle
      <4> QED
        BY <1>3, <1>6, <4>1 DEF Ends
    <3> QED
      BY <3>1, <3>2
  <2>3. CASE Step
    <3>1. BootReturns => Ends
      BY <1>3 DEF BootReturns
    <3>2. RegionAlloc => Ends
      BY <1>3, <1>4 DEF RegionAlloc
    <3>3. NoRegionFits => Ends
      BY <1>3, <1>4 DEF NoRegionFits
    <3>4. RegionFits => Ends
      BY <1>3, <1>4 DEF RegionFits
    <3>5. AllocEnter => Ends
      BY <1>3, <1>4 DEF AllocEnter
    <3>6. AllocRefillVregion \/ AllocNeedsSlab => Ends
      BY <1>3, <1>4 DEF AllocRefillVregion, AllocNeedsSlab
    <3>7. AllocAddSlab \/ AllocObject => Ends
      BY <1>3, <1>4 DEF AllocAddSlab, AllocObject
    <3>8. CreateSlabObject \/ CreateRegion \/ CreatePages => Ends
      BY <1>3, <1>4 DEF CreateSlabObject, CreateRegion, CreatePages
    <3>9. CreateMaps \/ CreateReturns => Ends
      BY <1>3, <1>4 DEF CreateMaps, MapSlab, CreateReturns
    <3>10. SpecialRegion \/ SpecialPages \/ SpecialMaps => Ends
      BY <1>3, <1>4 DEF SpecialRegion, SpecialPages, SpecialMaps, MapSlab
    <3>11. SpecialAddsSlab \/ SpecialRefillsOther \/ SpecialReturns => Ends
      BY <1>3, <1>4 DEF SpecialAddsSlab, SpecialRefillsOther, SpecialReturns
    <3>12. ObjsCacheInit => Ends
      BY <1>3 DEF ObjsCacheInit
    <3>13. Ends
      BY <2>3, <3>1, <3>2, <3>3, <3>4, <3>5, <3>6, <3>7, <3>8, <3>9, <3>10, <3>11, <3>12
         DEF Step
    <3> QED
      BY <1>6, <3>13 DEF Ends
  <2> QED
    BY <1>6, <2>1, <2>2, <2>3 DEF Next
<1> QED
  BY <1>5, <1>6

\* Every step keeps the slabs, caches and regions as the invariant says.
LEMMA AlwaysKeeps == HeapInv /\ [Next]_vars => Kept
<1> SUFFICES ASSUME HeapInv, [Next]_vars PROVE Kept
  OBVIOUS
<1>1. CASE Stays
  BY <1>1, StoppedKeeps DEF Stays
<1>2. CASE Next /\ cause' = "none"
  <2>1. CASE Halted
    <3>1. Stays
      BY <2>1 DEF Halted, vars, Stays, heap, memory, regions
    <3> QED
      BY <1>1, <3>1
  <2>2. CASE Client
    BY <1>2, <2>2, ClientQuiet, QuietKeeps
  <2>3. CASE Step
    <3>1. BootReturns \/ RegionFits \/ AllocAddSlab \/ AllocObject => Kept
      BY <1>2, BootReturnsKeeps, RegionFitsKeeps, AllocAddSlabKeeps, AllocObjectKeeps
    <3>2. CreateRegion \/ CreateReturns \/ SpecialPages \/ SpecialAddsSlab \/ ObjsCacheInit
             => Kept
      BY <1>2, CreateRegionKeeps, CreateReturnsKeeps, SpecialPagesKeeps, SpecialAddsSlabKeeps,
         ObjsCacheInitKeeps
    <3>3. RegionAlloc \/ NoRegionFits \/ AllocEnter \/ AllocRefillVregion \/ AllocNeedsSlab
             => Quiet
      BY <1>2, RegionAllocQuiet, NoRegionFitsQuiet, AllocEnterQuiet, AllocRefillQuiet,
         AllocNeedsSlabQuiet
    <3>4. CreateSlabObject \/ CreatePages \/ CreateMaps \/ SpecialMaps => Quiet
      BY <1>2, CreateSlabObjectQuiet, CreatePagesQuiet, MapsQuiet
    <3>5. SpecialRegion \/ SpecialRefillsOther \/ SpecialReturns => Quiet
      BY <1>2, SpecialRegionQuiet, SpecialRefillsOtherQuiet, SpecialReturnsQuiet
    <3> QED
      BY <2>3, <3>1, <3>2, <3>3, <3>4, <3>5, QuietKeeps DEF Step
  <2> QED
    BY <1>2, <2>1, <2>2, <2>3 DEF Next
<1> QED
  BY <1>1, <1>2, StopsOrGoes

(***************************************************************************)
(* The regions of slabs, and the region that a call has found.             *)
(***************************************************************************)
FindTops == {"create3", "create4", "create5", "special2", "special3", "special4"}

\* No two slabs have the same region, and all of these are used ones.
RegionsOwned ==
    /\ \A s \in DOMAIN slab : slab[s].region \in ToSet(usedV)
    /\ \A s, t \in DOMAIN slab : s # t => slab[s].region # slab[t].region

\* The region found is used, and is not yet a slab's.
Found ==
    /\ TopAt({"create4", "create5", "special3", "special4"}) => got # NoRegion
    /\ TopAt(FindTops) /\ got # NoRegion =>
          got \in ToSet(usedV) /\ \A s \in DOMAIN slab : slab[s].region # got

\* GotInv in two parts: the regions of slabs, and the region just found.
LEMMA GotInvIs == (GotInv <=> RegionsOwned /\ Found) /\ (GotInv' <=> RegionsOwned' /\ Found')
BY DEF GotInv, RegionsOwned, Found, FindTops

\* The first frame of a stack with one or two frames put in front.
LEMMA TopOfCat ==
    ASSUME NEW T, NEW s \in Seq(T), NEW e, NEW f
    PROVE  /\ <<f>> \o s # <<>> /\ Head(<<f>> \o s) = f
           /\ <<e, f>> \o s # <<>> /\ Head(<<e, f>> \o s) = e
<1> DEFINE U == T \cup {e, f}
<1>1. s \in Seq(U) /\ e \in U /\ f \in U
  OBVIOUS
<1> HIDE DEF U
<1> QED
  BY <1>1

\* The function at the top after each kind of move.
LEMMA TopAfter ==
    ASSUME HeapInv, stack # <<>>
    PROVE  /\ \A f : Goto(f) => stack' # <<>> /\ Top' = f
           /\ \A e, f : Enter(e, f) => stack' # <<>> /\ Top' = e
           /\ \A p : [Top EXCEPT !.at = p].at = p
           /\ \A p, n : [Top EXCEPT !.at = p, !.slab = n].at = p
<1>1. Rest \in Seq(Frames) /\ Top \in Frames
  BY StackParts
<1>2. ASSUME NEW f, Goto(f) PROVE stack' # <<>> /\ Top' = f
  <2>1. stack' = <<f>> \o Rest
    BY <1>2 DEF Goto, Rest
  <2> QED
    BY <1>1, <2>1, TopOfCat DEF Top
<1>3. ASSUME NEW e, NEW f, Enter(e, f) PROVE stack' # <<>> /\ Top' = e
  <2>1. stack' = <<e, f>> \o Rest
    BY <1>3 DEF Enter, Rest
  <2> QED
    BY <1>1, <2>1, TopOfCat DEF Top
<1> QED
  BY <1>1, <1>2, <1>3 DEF Frames

\* Slabs keep their regions while used regions only grow.
LEMMA OwnedKept ==
    ASSUME HeapInv, DOMAIN slab' = DOMAIN slab,
           \A s \in DOMAIN slab : slab'[s].region = slab[s].region,
           ToSet(usedV) \subseteq ToSet(usedV')
    PROVE  RegionsOwned'
BY GotInvIs DEF HeapInv, RegionsOwned

\* The region found becomes that of the slab.
LEMMA OwnedSetUp ==
    ASSUME HeapInv, NEW s, s \notin DOMAIN slab, usedV' = usedV,
           TopAt({"create4", "create5", "special3", "special4"}),
           DOMAIN slab' = DOMAIN slab \cup {s}, slab'[s].region = got,
           \A t \in DOMAIN slab : t # s => slab'[t] = slab[t]
    PROVE  RegionsOwned'
<1>1. got \in ToSet(usedV) /\ \A t \in DOMAIN slab : slab[t].region # got
  BY GotInvIs DEF HeapInv, Found, TopAt, FindTops
<1> QED
  BY <1>1, GotInvIs DEF HeapInv, RegionsOwned

\* The function at the top is not one that has found a region.
LEMMA NothingFound == ~TopAt(FindTops)' => Found'
BY DEF Found, TopAt, FindTops

\* A function goes on with the region it has found.
LEMMA StillFound ==
    ASSUME HeapInv, TopAt(FindTops), got # NoRegion, got' = got, usedV' = usedV,
           DOMAIN slab' = DOMAIN slab, \A s \in DOMAIN slab : slab'[s].region = slab[s].region
    PROVE  Found'
BY GotInvIs DEF HeapInv, Found

\* The slabs and the used regions stay, and no region has been found.
LEMMA PlainGot ==
    ASSUME HeapInv, UNCHANGED <<slab, usedV>>, ~TopAt(FindTops)'
    PROVE  GotInv'
BY OwnedKept, NothingFound, GotInvIs

\* Moving on to a place without a region in hand.
LEMMA GotoGot ==
    ASSUME HeapInv, UNCHANGED <<slab, usedV>>, stack # <<>>,
           NEW p, p \notin FindTops, Goto([Top EXCEPT !.at = p])
    PROVE  GotInv' /\ ~TopAt(FindTops)'
<1>1. ~TopAt(FindTops)'
  BY TopAfter DEF TopAt, FindTops
<1> QED
  BY <1>1, PlainGot

\* Calling a function without a region in hand.
LEMMA EnterGot ==
    ASSUME HeapInv, UNCHANGED <<slab, usedV>>, stack # <<>>,
           NEW e, e.at \notin FindTops, NEW f, Enter(e, f)
    PROVE  GotInv' /\ ~TopAt(FindTops)'
<1>1. ~TopAt(FindTops)'
  BY TopAfter DEF TopAt, FindTops
<1> QED
  BY <1>1, PlainGot

\* The place of a new frame.
LEMMA CallFrameAt ==
    /\ \A p, c : Frame(p, c).at = p
    /\ \A p, n : RegionCall(p, n).at = p
    /\ \A p, c, k : FrameOf(p, c, k).at = p
BY DEF Frame, FrameOf, RegionCall

\* The steps that call, go on or start without a region in their hands.
LEMMA CallsGot ==
    ASSUME HeapInv, cause' = "none",
           \/ RegionAlloc \/ AllocEnter \/ AllocRefillVregion \/ AllocNeedsSlab
           \/ AllocAddSlab \/ CreateSlabObject \/ CreateRegion \/ SpecialRegion
           \/ SpecialRefillsOther
    PROVE  GotInv' /\ ~TopAt(FindTops)'
<1> USE CallFrameAt
<1>1. UNCHANGED <<slab, usedV>> /\ stack # <<>>
  BY DEF RegionAlloc, AllocEnter, AllocRefillVregion, AllocNeedsSlab, AllocAddSlab,
         CreateSlabObject, CreateRegion, SpecialRegion, SpecialRefillsOther, At, Halt,
         heap, regions
<1>2. \/ \E p \in {"_region", "alloc2", "alloc3", "alloc5", "special6"} :
            Goto([Top EXCEPT !.at = p])
      \/ \E e, f : Enter(e, f) /\ e.at \in {"special", "create", "alloc", "region", "_region"}
  <2>1. CASE RegionAlloc
    <3>1. \/ Goto([Top EXCEPT !.at = "_region"])
          \/ Enter(Frame("special", VregionCache), [Top EXCEPT !.at = "_region"])
      BY <2>1 DEF RegionAlloc, Halt, At, CallIf
    <3> QED
      BY <3>1
  <2>2. CASE AllocEnter
    <3>1. \/ Goto([Top EXCEPT !.at = "alloc2"])
          \/ Enter(Frame("special", SlabCache), [Top EXCEPT !.at = "alloc2"])
      BY <2>2 DEF AllocEnter, Halt, At, CallIf
    <3> QED
      BY <3>1
  <2>3. CASE AllocRefillVregion
    <3>1. \/ Goto([Top EXCEPT !.at = "alloc3"])
          \/ Enter(Frame("special", VregionCache), [Top EXCEPT !.at = "alloc3"])
      BY <2>3 DEF AllocRefillVregion, At, CallIf
    <3> QED
      BY <3>1
  <2>4. CASE AllocNeedsSlab
    <3>1. \/ Goto([Top EXCEPT !.at = "alloc5"])
          \/ Enter(Frame("create", Top.cache), [Top EXCEPT !.at = "alloc4"])
      BY <2>4 DEF AllocNeedsSlab, At
    <3> QED
      BY <3>1
  <2>5. CASE AllocAddSlab
    <3>1. Goto([Top EXCEPT !.at = "alloc5"])
      BY <2>5 DEF AllocAddSlab, Halt, At
    <3> QED
      BY <3>1
  <2>6. CASE CreateSlabObject
    <3>1. Enter(Frame("alloc", SlabCache), [Top EXCEPT !.at = "create2"])
      BY <2>6 DEF CreateSlabObject
    <3> QED
      BY <3>1
  <2>7. CASE CreateRegion
    <3>1. Enter(RegionCall("region", cache[Top.cache].pages),
                [Top EXCEPT !.at = "create3", !.slab = ret])
      BY <2>7 DEF CreateRegion
    <3> QED
      BY <3>1
  <2>8. CASE SpecialRegion
    <3>1. Enter(RegionCall("_region", 1), [Top EXCEPT !.at = "special2"])
      BY <2>8 DEF SpecialRegion, Halt, At
    <3> QED
      BY <3>1
  <2>9. CASE SpecialRefillsOther
    <3> DEFINE c == Other(Top.cache)
    <3>1. \/ Goto([Top EXCEPT !.at = "special6"])
          \/ Enter(Frame("special", c), [Top EXCEPT !.at = "special6"])
      BY <2>9 DEF SpecialRefillsOther, CallIf
    <3> QED
      BY <3>1
  <2> QED
    BY <2>1, <2>2, <2>3, <2>4, <2>5, <2>6, <2>7, <2>8, <2>9
<1>3. /\ \A p \in {"_region", "alloc2", "alloc3", "alloc5", "special6"} : p \notin FindTops
      /\ \A p \in {"special", "create", "alloc", "region", "_region"} : p \notin FindTops
  BY DEF FindTops
<1>4. CASE \E p \in {"_region", "alloc2", "alloc3", "alloc5", "special6"} :
              Goto([Top EXCEPT !.at = p])
  BY <1>1, <1>3, <1>4, GotoGot
<1>5. CASE \E e, f : Enter(e, f)
                     /\ e.at \in {"special", "create", "alloc", "region", "_region"}
  BY <1>1, <1>3, <1>5, EnterGot
<1> QED
  BY <1>2, <1>4, <1>5

\* The steps that end a call, but not a search, and those of clients.
LEMMA EndsGot ==
    ASSUME HeapInv, cause' = "none",
           BootReturns \/ ObjsCacheInit \/ SpecialReturns \/ AllocObject \/ Client
    PROVE  GotInv' /\ ~TopAt(FindTops)'
<1>1. CASE BootReturns \/ ObjsCacheInit
  <2>1. stack # <<>> /\ Top.at \in {"boot", "register"} /\ Return /\ UNCHANGED <<slab, usedV>>
    BY <1>1 DEF BootReturns, ObjsCacheInit, At, heap, regions
  <2>2. ~TopAt(FindTops)'
    BY <2>1, LastReturns DEF TopAt
  <2> QED
    BY <2>1, <2>2, PlainGot
<1>2. CASE SpecialReturns
  <2>1. stack # <<>> /\ Top.at = "special6" /\ Return /\ UNCHANGED <<slab, usedV>>
    BY <1>2 DEF SpecialReturns, At, heap, regions
  <2>2. Below(1).at \notin FindTops
    BY <2>1, RefillTop DEF FindTops, Refill
  <2>3. ~TopAt(FindTops)'
    BY <2>1, <2>2, ReturnParts DEF TopAt, FindTops
  <2> QED
    BY <2>1, <2>3, PlainGot
<1>3. CASE AllocObject
  <2> DEFINE c == Top.cache
  <2>1. stack # <<>> /\ Top.at = "alloc5" /\ Return /\ usedV' = usedV /\ Takes(c)
    BY <1>3 DEF AllocObject, At, Halt, regions, Takes
  <2>2. Below(1).at \in {"create2", "boot", "register", "none"}
    BY <2>1, TopFacts DEF MayCall, CreatePlaces, RegionPlaces, Refill
  <2>3. ~TopAt(FindTops)'
    BY <2>1, <2>2, ReturnParts DEF TopAt, FindTops
  <2>4. c \in CacheIds
    BY <2>1, TopFacts
  <2> HIDE DEF c
  <2>5. DOMAIN slab' = DOMAIN slab /\ \A s \in DOMAIN slab : slab'[s].region = slab[s].region
    BY <2>1, <2>4, TakesSound
  <2> QED
    BY <2>1, <2>3, <2>5, OwnedKept, NothingFound, GotInvIs
<1>4. CASE Client
  <2>1. UNCHANGED <<slab, usedV>>
    BY <1>4 DEF Client, ObjsCacheAlloc, ObjsCacheCreate, VregionAlloc, ObjsCacheFree,
       ClientCall, Halt, heap, regions
  <2>2. Head(stack').at \in {"alloc", "region"}
    <3>1. \/ \E c : stack' = <<Frame("alloc", c)>>
          \/ \E n : stack' = <<RegionCall("region", n)>>
          \/ \E e : stack' = <<Frame("alloc", ObjsCache), e>>
      BY <1>4 DEF Client, ObjsCacheAlloc, ObjsCacheCreate, VregionAlloc, ObjsCacheFree,
         ClientCall, Halt
    <3> QED
      BY <3>1, CallFrameAt
  <2>3. ~TopAt(FindTops)'
    BY <2>2 DEF TopAt, FindTops, Top
  <2> QED
    BY <2>1, <2>3, PlainGot
<1> QED
  BY <1>1, <1>2, <1>3, <1>4

\* The steps that make a slab of the region found.
LEMMA SetUpGot ==
    ASSUME HeapInv, cause' = "none", CreateReturns \/ SpecialAddsSlab
    PROVE  GotInv' /\ ~TopAt(FindTops)'
<1> DEFINE s == Top.slab
           n == cache[Top.cache].objs
<1>1. /\ stack # <<>> /\ Top.at \in {"create5", "special4"} /\ usedV' = usedV
      /\ slab' = InitializedSlab(slab, s, n, got)
      /\ \/ Top.at = "create5" /\ Return
         \/ Goto([Top EXCEPT !.at = "special5"])
  BY DEF CreateReturns, SpecialAddsSlab, At, Halt, regions
<1>2. s \notin DOMAIN slab
  <2>1. HeldBy(Top) = {s}
    BY <1>1 DEF HeldBy, HoldPlaces
  <2>2. s \in HeldIn(stack)
    BY <1>1, <2>1, StackParts
  <2> QED
    BY <2>2, SlabsInvIs DEF HeapInv, SlabsInvParts
<1>3. /\ DOMAIN slab' = DOMAIN slab \cup {s} /\ slab'[s].region = got
      /\ \A t \in DOMAIN slab : t # s => slab'[t] = slab[t]
  <2>1. slab' = InitializedSlab(slab, s, n, got)
    BY <1>1
  <2> HIDE DEF s, n
  <2> QED
    BY <2>1, SetUp
<1>4. RegionsOwned'
  <2>1. TopAt({"create4", "create5", "special3", "special4"})
    BY <1>1 DEF TopAt
  <2> HIDE DEF s
  <2> QED
    BY <1>1, <1>2, <1>3, <2>1, OwnedSetUp
<1>5. ~TopAt(FindTops)'
  <2>1. CASE Top.at = "create5" /\ Return
    <3>1. Below(1).at = "alloc4"
      BY <1>1, <2>1, TopFacts DEF MayCall, AllocPlaces, Refill
    <3> QED
      BY <1>1, <2>1, <3>1, ReturnParts DEF TopAt, FindTops
  <2>2. CASE Goto([Top EXCEPT !.at = "special5"])
    <3>1. Top' = [Top EXCEPT !.at = "special5"]
      BY <1>1, <2>2, TopAfter
    <3>2. Top'.at = "special5"
      BY <1>1, <3>1, TopAfter
    <3> QED
      BY <3>2 DEF TopAt, FindTops
  <2> QED
    BY <1>1, <2>1, <2>2
<1> QED
  BY <1>4, <1>5, NothingFound, GotInvIs

\* The steps between the search of a region and the set-up of the slab.
LEMMA WithGot ==
    ASSUME HeapInv, cause' = "none",
           CreatePages \/ CreateMaps \/ SpecialMaps \/ SpecialPages
    PROVE  GotInv'
<1>1. /\ stack # <<>> /\ Top.at \in FindTops
      /\ UNCHANGED <<usedV, got>> /\ (slab' = slab \/ Takes(SlabCache))
      /\ Top.at \in {"create3", "special2"} => got # NoRegion
  BY DEF CreatePages, CreateMaps, SpecialMaps, MapSlab, SpecialPages, At, Halt, regions, Takes,
     FindTops
<1>2. TopAt(FindTops)
  BY <1>1 DEF TopAt
<1>3. got # NoRegion
  <2>1. CASE Top.at \in {"create3", "special2"}
    BY <1>1, <2>1
  <2>2. CASE Top.at \notin {"create3", "special2"}
    <3>1. TopAt({"create4", "create5", "special3", "special4"})
      BY <1>1, <2>2 DEF TopAt, FindTops
    <3> QED
      BY <3>1, GotInvIs DEF HeapInv, Found
  <2> QED
    BY <2>1, <2>2
<1>4. DOMAIN slab' = DOMAIN slab /\ \A s \in DOMAIN slab : slab'[s].region = slab[s].region
  BY <1>1, Counters, TakesSound
<1> QED
  BY <1>1, <1>2, <1>3, <1>4, StillFound, OwnedKept, GotInvIs

\* The search of a region.
LEMMA SearchGot ==
    ASSUME HeapInv, cause' = "none", RegionFits \/ NoRegionFits
    PROVE  GotInv'
<1>1. stack # <<>> /\ Top.at = "_region" /\ Return
  BY RegionFitsEffect DEF NoRegionFits, At, Halt
<1>2. Below(1).at \in {"none", "create3", "special2"}
  BY <1>1, TopFacts DEF MayCall, AllocPlaces, CreatePlaces, Refill
<1>3. ~TopAt({"create4", "create5", "special3", "special4"})'
  BY <1>1, <1>2, ReturnParts DEF TopAt
<1>4. CASE NoRegionFits
  <2>1. got' = NoRegion /\ UNCHANGED <<slab, usedV>>
    BY <1>4 DEF NoRegionFits, At, Halt, heap, regions
  <2>2. Found'
    BY <1>3, <2>1 DEF Found, NoRegion
  <2> QED
    BY <2>1, <2>2, OwnedKept, GotInvIs
<1>5. CASE RegionFits
  <2> DEFINE n == Top.kind.pages
  <2>1. /\ Frontier \in Nat /\ n \in Nat /\ got' = Region(Frontier, n)
        /\ Takes(VregionCache) \/ UNCHANGED <<cache, slab>>
    BY <1>5, RegionFitsRegions
  <2>2. DOMAIN slab' = DOMAIN slab /\ \A s \in DOMAIN slab : slab'[s].region = slab[s].region
    BY <2>1, Counters, TakesSound
  <2>3. usedV' = <<got'>> \o usedV
    BY <1>5, RegionFitsRegions
  <2>4. ToSet(usedV') = ToSet(usedV) \cup {got'}
    <3>1. usedV \in Seq(ToSet(usedV) \cup {got'})
      <4>1. usedV \in Seq(Regions)
        BY RegionTypes
      <4>2. \A i \in DOMAIN usedV : usedV[i] \in ToSet(usedV)
        BY DEF ToSet
      <4> QED
        BY <4>1, <4>2
    <3> DEFINE T == ToSet(usedV) \cup {got'}
    <3>2. got' \in T
      OBVIOUS
    <3> HIDE DEF T
    <3>3. ToSet(<<got'>> \o usedV) = ToSet(usedV) \cup {got'}
      BY <3>1, <3>2, FirstAdded DEF T
    <3> QED
      BY <2>3, <3>3
  <2>5. \A r \in ToSet(usedV) : r # got'
    <3>1. got'.first = Frontier
      BY <2>1 DEF Region
    <3>2. ASSUME NEW i \in DOMAIN usedV PROVE usedV[i].first # Frontier
      <4>1. usedV[i].pages > 0 /\ usedV[i].first + usedV[i].pages <= Frontier
        BY DEF HeapInv, RegionsInv
      <4>2. usedV[i] \in Regions
        BY RegionTypes
      <4>3. usedV[i].first \in Nat /\ usedV[i].pages \in Nat
        BY <4>2, RegionTypes DEF Regions
      <4> QED
        BY <2>1, <4>1, <4>3
    <3> QED
      BY <3>1, <3>2 DEF ToSet
  <2>6. RegionsOwned'
    BY <2>2, <2>4, OwnedKept
  <2>7. \A s \in DOMAIN slab' : slab'[s].region # got'
    BY <2>2, <2>5, GotInvIs DEF HeapInv, RegionsOwned
  <2>8. Found'
    BY <1>3, <2>4, <2>7 DEF Found
  <2> QED
    BY <2>6, <2>8, GotInvIs
<1> QED
  BY <1>4, <1>5

\* Every step keeps the regions of slabs apart, and apart from one just found.
LEMMA AlwaysGot == HeapInv /\ [Next]_vars => GotInv'
<1> SUFFICES ASSUME HeapInv, [Next]_vars PROVE GotInv'
  OBVIOUS
<1>1. CASE Stays
  <2>1. UNCHANGED <<slab, usedV, stack, got>>
    BY <1>1 DEF Stays, heap, regions
  <2> QED
    BY <2>1 DEF HeapInv, GotInv, TopAt, Top
<1>2. CASE Next /\ cause' = "none"
  <2>1. CASE Halted
    <3>1. Stays
      BY <2>1 DEF Halted, vars, Stays, heap, memory, regions
    <3> QED
      BY <1>1, <3>1
  <2>2. CASE Client
    BY <1>2, <2>2, EndsGot
  <2>3. CASE Step
    BY <1>2, <2>3, EndsGot, CallsGot, SetUpGot, WithGot, SearchGot DEF Step
  <2> QED
    BY <1>2, <2>1, <2>2, <2>3 DEF Next
<1> QED
  BY <1>1, <1>2, StopsOrGoes

(***************************************************************************)
(* The types of what remains: the stack, the pages and the mappings.       *)
(***************************************************************************)
\* What a step makes of the stack.
Moves ==
    \/ stack' = stack
    \/ stack # <<>> /\ stack' = Rest
    \/ stack # <<>> /\ \E f : stack' = <<f>> \o Rest
    \/ stack # <<>> /\ \E e, f : stack' = <<e, f>> \o Rest
    \/ \E f : stack' = <<f>>
    \/ \E e, f : stack' = <<e, f>>

\* Every step moves the stack in one of the ways the code has.
LEMMA AlwaysMoves == HeapInv /\ [Next]_vars => Moves
<1> SUFFICES ASSUME HeapInv, [Next]_vars PROVE Moves
  OBVIOUS
<1>1. CASE Stays
  BY <1>1 DEF Stays, Moves
<1>2. CASE Next /\ cause' = "none"
  <2>1. CASE Halted
    BY <2>1 DEF Halted, vars, Moves
  <2>2. CASE Client
    BY <1>2, <2>2 DEF Client, ObjsCacheAlloc, ObjsCacheCreate, VregionAlloc, ObjsCacheFree,
       ClientCall, Halt, Moves
  <2>3. CASE Step
    <3>1. stack # <<>>
      BY <2>3, RegionFitsEffect DEF Step, BootReturns, RegionAlloc, NoRegionFits, RegionFits,
         AllocEnter, AllocRefillVregion, AllocNeedsSlab, AllocAddSlab, AllocObject,
         CreateSlabObject, CreateRegion, CreatePages, CreateMaps, CreateReturns,
         SpecialRegion, SpecialPages, SpecialMaps, MapSlab, SpecialAddsSlab,
         SpecialRefillsOther, SpecialReturns, ObjsCacheInit, At
    <3> USE DEF Halt
    <3>2. CASE \/ BootReturns \/ NoRegionFits \/ AllocObject \/ CreateReturns
               \/ SpecialReturns \/ ObjsCacheInit \/ RegionFits
      <4>1. Return
        BY <1>2, <3>2, RegionFitsEffect DEF BootReturns, NoRegionFits, AllocObject,
           CreateReturns, SpecialReturns, ObjsCacheInit, At
      <4> QED
        BY <3>1, <4>1 DEF Moves, Return, Rest
    <3>3. CASE AllocAddSlab \/ CreatePages \/ CreateMaps \/ SpecialPages \/ SpecialMaps
               \/ SpecialAddsSlab
      <4>1. \E f : Goto(f)
        BY <1>2, <3>3 DEF AllocAddSlab, CreatePages, CreateMaps, SpecialPages, SpecialMaps,
           SpecialAddsSlab, MapSlab, At
      <4> QED
        BY <3>1, <4>1 DEF Moves, Goto, Rest
    <3>4. CASE RegionAlloc \/ AllocEnter \/ AllocRefillVregion \/ AllocNeedsSlab
               \/ SpecialRefillsOther
      <4>1. (\E f : Goto(f)) \/ (\E e, f : Enter(e, f))
        BY <1>2, <3>4 DEF RegionAlloc, AllocEnter, AllocRefillVregion, AllocNeedsSlab,
           SpecialRefillsOther, CallIf, At
      <4> QED
        BY <3>1, <4>1 DEF Moves, Goto, Enter, Rest
    <3>5. CASE CreateSlabObject \/ CreateRegion \/ SpecialRegion
      <4>1. \E e, f : Enter(e, f)
        BY <1>2, <3>5 DEF CreateSlabObject, CreateRegion, SpecialRegion, At
      <4> QED
        BY <3>1, <4>1 DEF Moves, Enter, Rest
    <3> QED
      BY <2>3, <3>2, <3>3, <3>4, <3>5 DEF Step
  <2> QED
    BY <1>2, <2>1, <2>2, <2>3 DEF Next
<1> QED
  BY <1>1, <1>2, StopsOrGoes

\* Frames put in front of a typed stack.
LEMMA CatTyped ==
    ASSUME NEW T, NEW s \in Seq(T), NEW e, NEW f
    PROVE  /\ <<f>> \o s \in Seq(T \cup {e, f})
           /\ <<e, f>> \o s \in Seq(T \cup {e, f})
<1> DEFINE U == T \cup {e, f}
<1>1. s \in Seq(U) /\ e \in U /\ f \in U
  OBVIOUS
<1> HIDE DEF U
<1>2. <<f>> \o s \in Seq(U) /\ <<e, f>> \o s \in Seq(U)
  BY <1>1
<1> QED
  BY <1>2 DEF U

\* A cache is never destroyed.
LEMMA CachesStay == HeapInv /\ [Next]_vars => CacheIds \subseteq CacheIds'
<1> SUFFICES ASSUME HeapInv, [Next]_vars PROVE CacheIds \subseteq CacheIds'
  OBVIOUS
<1>1. cache' = cache => CacheIds \subseteq CacheIds'
  BY DEF CacheIds
<1>2. CASE Stays
  BY <1>1, <1>2 DEF Stays, heap
<1>3. CASE Next /\ cause' = "none"
  <2>1. CASE AllocAddSlab \/ AllocObject \/ SpecialPages \/ SpecialAddsSlab
    <3>1. \/ cache' = cache
          \/ \E c : \E k : cache' = [cache EXCEPT ![c] = k]
      BY <2>1 DEF AllocAddSlab, AllocObject, SpecialPages, SpecialAddsSlab, Halt, heap
    <3> QED
      BY <1>1, <3>1 DEF CacheIds
  <2>2. CASE RegionFits
    <3>1. cache' = cache \/ \E k : cache' = [cache EXCEPT ![VregionCache] = k]
      BY <2>2, RegionFitsEffect
    <3> QED
      BY <1>1, <3>1 DEF CacheIds
  <2>3. CASE ObjsCacheInit
    <3>1. stack # <<>> /\ Top.at = "register" /\ cache' = Append(cache, NewCache(Top.kind))
      BY <2>3 DEF ObjsCacheInit, At
    <3>2. cache \in Seq(CacheRecords)
      BY CacheTypes
    <3> QED
      BY <3>1, <3>2 DEF CacheIds
  <2>4. CASE Client \/ Halted \/ (Step /\ ~(AllocAddSlab \/ AllocObject \/ SpecialPages
               \/ SpecialAddsSlab \/ RegionFits \/ ObjsCacheInit))
    <3>1. cache' = cache
      BY <2>4 DEF Client, ObjsCacheAlloc, ObjsCacheCreate, VregionAlloc, ObjsCacheFree,
         ClientCall, Halt, heap, Halted, vars, Step, BootReturns, RegionAlloc, NoRegionFits,
         AllocEnter, AllocRefillVregion, AllocNeedsSlab, CreateSlabObject, CreateRegion,
         CreatePages, CreateMaps, CreateReturns, SpecialRegion, SpecialMaps, MapSlab,
         SpecialRefillsOther, SpecialReturns
    <3> QED
      BY <1>1, <3>1
  <2> QED
    BY <1>3, <2>1, <2>2, <2>3, <2>4 DEF Next
<1> QED
  BY <1>2, <1>3, StopsOrGoes

\* Every step leaves a stack of typed frames.
LEMMA StackTyped ==
    HeapInv /\ [Next]_vars =>
        stack' \in Seq([at : Places, cache : CacheIds', slab : Nat,
                        kind : [objs : Nat, pages : Nat]])
<1> SUFFICES ASSUME HeapInv, [Next]_vars
             PROVE  stack' \in Seq([at : Places, cache : CacheIds', slab : Nat,
                                    kind : [objs : Nat, pages : Nat]])
  OBVIOUS
<1>1. stack \in Seq(Frames) /\ (stack # <<>> => Rest \in Seq(Frames))
  BY FramesNow, StackParts
<1>2. PICK T : stack' \in Seq(T)
  <2>1. CASE stack' = stack \/ (stack # <<>> /\ stack' = Rest)
    BY <1>1, <2>1
  <2>2. CASE stack # <<>> /\ \E f : stack' = <<f>> \o Rest
    <3>1. PICK f : stack' = <<f>> \o Rest
      BY <2>2
    <3>2. stack' \in Seq(Frames \cup {f})
      BY <1>1, <2>2, <3>1, CatTyped
    <3> QED
      BY <3>2
  <2>3. CASE stack # <<>> /\ \E e, f : stack' = <<e, f>> \o Rest
    <3>1. PICK e, f : stack' = <<e, f>> \o Rest
      BY <2>3
    <3>2. stack' \in Seq(Frames \cup {e, f})
      BY <1>1, <2>3, <3>1, CatTyped
    <3> QED
      BY <3>2
  <2>4. CASE \E f : stack' = <<f>>
    <3>1. PICK f : stack' = <<f>>
      BY <2>4
    <3>2. stack' \in Seq({f})
      BY <3>1
    <3> QED
      BY <3>2
  <2>5. CASE \E e, f : stack' = <<e, f>>
    <3>1. PICK e, f : stack' = <<e, f>>
      BY <2>5
    <3>2. stack' \in Seq({e, f})
      BY <3>1
    <3> QED
      BY <3>2
  <2> QED
    BY <2>1, <2>2, <2>3, <2>4, <2>5, AlwaysMoves DEF Moves
<1>3. CacheIds \subseteq CacheIds'
  BY CachesStay
<1> DEFINE F == [at : Places, cache : CacheIds', slab : Nat,
                 kind : [objs : Nat, pages : Nat]]
<1>4. \A g \in ToSet(stack') : g \in F
  BY <1>3, AlwaysKeeps DEF Kept, FrameOK, Frames
<1> HIDE DEF F
<1>5. \A i \in DOMAIN stack' : stack'[i] \in F
  BY <1>4 DEF ToSet
<1>6. stack' \in Seq(F)
  BY <1>2, <1>5
<1> QED
  BY <1>6 DEF F

\* The first of the numbers of a set.
LEMMA LeastOf ==
    ASSUME NEW S \in SUBSET Nat, S # {}
    PROVE  Min(S) \in S
<1>1. PICK x \in S : \A y \in S : ~(<<y, x>> \in OpToRel(<, Nat))
  BY NatLessThanWellFounded, WFMin
<1>2. \A y \in S : ~(y < x)
  BY <1>1 DEF OpToRel
<1>3. \A y \in S : x <= y
  BY <1>2
<1> QED
  BY <1>3 DEF Min

\* ppages_alloc grants a block of some power of two.
LEMMA GrantTyped ==
    ASSUME HeapInv, NEW n \in Lengths, PpagesAlloc(n)
    PROVE  granted' \in Seq(Seq(Nat)) /\ Len(granted') = Len(granted) + 1
<1> DEFINE S == {2^o : o \in 0..n} \cap n..(2 * n)
           size == Min(S)
<1>1. n \in Nat
  BY KindsAssumption DEF Lengths
<1>2. S # {} /\ S \in SUBSET Nat
  <2>1. PICK o \in 0..n : 2^o \in n..(2 * n)
    BY PowerAssumption DEF Lengths
  <2>2. n..(2 * n) \subseteq Nat
    BY <1>1
  <2> QED
    BY <2>1, <2>2
<1>3. size \in Nat
  BY <1>2, LeastOf
<1>4. granted' = Append(granted, [i \in 1..size |-> 0])
  BY DEF PpagesAlloc
<1> HIDE DEF size
<1>5. [i \in 1..size |-> 0] \in Seq(Nat)
  BY <1>3
<1>6. granted \in Seq(Seq(Nat))
  BY DEF HeapInv, TypeOK
<1> DEFINE Block == [i \in 1..size |-> 0]
           T == Seq(Nat)
<1>7. Block \in T /\ granted \in Seq(T) /\ granted' = Append(granted, Block)
  BY <1>4, <1>5, <1>6
<1> HIDE DEF Block, T
<1>8. granted' \in Seq(T) /\ Len(granted') = Len(granted) + 1
  BY <1>7
<1> QED
  BY <1>8 DEF T

\* ppages_set_slab marks the first pages of a block.
LEMMA MarkTyped ==
    ASSUME HeapInv, NEW b, NEW n, NEW s \in Nat, granted' = PpagesSetSlab(b, n, s)
    PROVE  granted' \in Seq(Seq(Nat)) /\ Len(granted') = Len(granted)
<1>1. granted \in Seq(Seq(Nat))
  BY DEF HeapInv, TypeOK
<1> DEFINE block == [i \in DOMAIN granted[b] |-> IF i <= n THEN s ELSE granted[b][i]]
<1>2. granted' = [granted EXCEPT ![b] = block]
  BY DEF PpagesSetSlab
<1>3. b \in DOMAIN granted => block \in Seq(Nat)
  <2> SUFFICES ASSUME b \in DOMAIN granted PROVE block \in Seq(Nat)
    OBVIOUS
  <2>1. granted[b] \in Seq(Nat)
    BY <1>1
  <2> DEFINE q == granted[b]
  <2>2. q \in Seq(Nat) /\ block = [i \in 1..Len(q) |-> IF i <= n THEN s ELSE q[i]]
    BY <2>1
  <2> HIDE DEF q, block
  <2>3. \A i \in 1..Len(q) : (IF i <= n THEN s ELSE q[i]) \in Nat
    BY <2>2
  <2>4. [i \in 1..Len(q) |-> IF i <= n THEN s ELSE q[i]] \in Seq(Nat)
    BY <2>2, <2>3
  <2> QED
    BY <2>2, <2>4
<1> DEFINE T == Seq(Nat)
<1>4. granted \in Seq(T) /\ (b \in DOMAIN granted => block \in T)
  BY <1>1, <1>3
<1> HIDE DEF T, block
<1>5. granted' \in Seq(T) /\ Len(granted') = Len(granted)
  <2>1. CASE b \in DOMAIN granted
    <3>1. block \in T
      BY <1>4, <2>1
    <3> QED
      BY <1>2, <1>4, <2>1, <3>1
  <2>2. CASE b \notin DOMAIN granted
    <3>1. granted' = granted
      BY <1>2, <1>4, <2>2
    <3> QED
      BY <1>4, <3>1
  <2> QED
    BY <2>1, <2>2
<1> QED
  BY <1>5 DEF T

Mappings(blocks) == [WholeWindow -> [block : 0..blocks, page : Nat]]

\* Mappings to the blocks granted so far remain so when more are granted.
LEMMA MappingsGrow ==
    ASSUME NEW a \in Nat, NEW b \in Nat, a <= b, NEW m \in Mappings(a)
    PROVE  m \in Mappings(b)
<1>1. [block : 0..a, page : Nat] \subseteq [block : 0..b, page : Nat]
  OBVIOUS
<1> DEFINE A == [block : 0..a, page : Nat]
           B == [block : 0..b, page : Nat]
<1>2. A \subseteq B /\ m \in [WholeWindow -> A]
  BY <1>1 DEF Mappings
<1> HIDE DEF A, B
<1>3. m \in [WholeWindow -> B]
  BY <1>2
<1> QED
  BY <1>3 DEF B, Mappings

\* map_pages maps to pages of a block that there is.
LEMMA MapTyped ==
    ASSUME HeapInv, NEW n, NEW first \in Nat, mapped' = MapPages(Len(granted), first, n)
    PROVE  mapped' \in Mappings(Len(granted))
<1>1. Len(granted) \in Nat /\ mapped \in Mappings(Len(granted))
  BY DEF HeapInv, TypeOK, Mappings
<1>2. \A v \in WholeWindow : v \in Int
  BY WindowAssumption DEF WholeWindow
<1> DEFINE e == Len(granted)
           B == [block : 0..e, page : Nat]
           M(v) == IF v \in first..(first + n - 1) THEN Page(e, v - first + 1) ELSE mapped[v]
<1>3. ASSUME NEW v \in WholeWindow PROVE M(v) \in B
  <2>1. CASE v \in first..(first + n - 1)
    <3>1. v - first + 1 \in Nat /\ e \in 0..e
      BY <1>1, <1>2, <2>1
    <3> HIDE DEF e
    <3> QED
      BY <2>1, <3>1 DEF Page
  <2>2. CASE v \notin first..(first + n - 1)
    BY <1>1, <2>2 DEF Mappings
  <2> QED
    BY <2>1, <2>2
<1>4. mapped' = [v \in WholeWindow |-> M(v)]
  BY DEF MapPages
<1> HIDE DEF M, B
<1>5. mapped' \in [WholeWindow -> B]
  BY <1>3, <1>4
<1> QED
  BY <1>5 DEF B, Mappings

\* Every step leaves typed blocks and mappings.
LEMMA MemoryTyped ==
    HeapInv /\ [Next]_vars =>
        granted' \in Seq(Seq(Nat)) /\ mapped' \in Mappings(Len(granted'))
<1> SUFFICES ASSUME HeapInv, [Next]_vars
             PROVE  granted' \in Seq(Seq(Nat)) /\ mapped' \in Mappings(Len(granted'))
  OBVIOUS
<1>1. granted \in Seq(Seq(Nat)) /\ mapped \in Mappings(Len(granted)) /\ Len(granted) \in Nat
  BY DEF HeapInv, TypeOK, Mappings
<1>2. CASE UNCHANGED memory
  BY <1>1, <1>2 DEF memory
<1>3. CASE CreatePages \/ SpecialPages
  <2>1. \/ UNCHANGED memory
        \/ mapped' = mapped /\ \E n \in Lengths : PpagesAlloc(n)
    <3>1. CASE CreatePages
      <4>1. Top.cache \in CacheIds
        BY <3>1, TopFacts DEF CreatePages, At
      <4>2. cache[Top.cache].pages \in Lengths
        BY <4>1 DEF HeapInv, CachesInv
      <4> QED
        BY <3>1, <4>2 DEF CreatePages, Halt, heap
    <3>2. CASE SpecialPages
      BY <3>2 DEF SpecialPages, Halt, heap, Lengths
    <3> QED
      BY <1>3, <3>1, <3>2
  <2>2. CASE mapped' = mapped /\ \E n \in Lengths : PpagesAlloc(n)
    <3>1. granted' \in Seq(Seq(Nat)) /\ Len(granted') = Len(granted) + 1
      BY <2>2, GrantTyped
    <3>2. mapped \in Mappings(Len(granted'))
      BY <1>1, <3>1, MappingsGrow
    <3> QED
      BY <2>2, <3>1, <3>2
  <2> QED
    BY <1>2, <2>1, <2>2
<1>4. CASE CreateMaps \/ SpecialMaps
  <2> DEFINE n == cache[Top.cache].pages
             first == got.first
  <2>1. mapped' = MapPages(Len(granted), first, n) /\ granted' = granted
    BY <1>4 DEF CreateMaps, SpecialMaps, MapSlab
  <2>2. first \in Nat
    BY RegionTypes
  <2> HIDE DEF n, first
  <2>3. mapped' \in Mappings(Len(granted))
    BY <2>1, <2>2, MapTyped
  <2> QED
    BY <1>1, <2>1, <2>3
<1>5. CASE CreateReturns
  <2> DEFINE b == Len(granted)
             n == cache[Top.cache].pages
             s == Top.slab
  <2>1. \/ UNCHANGED memory
        \/ granted' = PpagesSetSlab(b, n, s) /\ mapped' = mapped
    BY <1>5 DEF CreateReturns, Halt, heap
  <2>2. s \in Nat
    <3>1. stack # <<>>
      BY <1>5 DEF CreateReturns, At
    <3> QED
      BY <3>1, TopFacts DEF Frames
  <2>3. CASE granted' = PpagesSetSlab(b, n, s) /\ mapped' = mapped
    <3> HIDE DEF b, n, s
    <3>1. granted' \in Seq(Seq(Nat)) /\ Len(granted') = Len(granted)
      BY <2>2, <2>3, MarkTyped
    <3> QED
      BY <1>1, <2>3, <3>1
  <2> QED
    BY <1>2, <2>1, <2>3
<1>6. CASE RegionFits
  BY <1>2, <1>6, RegionFitsEffect
<1>7. CASE BootReturns \/ RegionAlloc \/ NoRegionFits \/ AllocEnter \/ AllocRefillVregion
           \/ AllocNeedsSlab \/ AllocAddSlab \/ AllocObject \/ CreateSlabObject
           \/ CreateRegion \/ SpecialRegion \/ SpecialAddsSlab \/ SpecialRefillsOther
           \/ SpecialReturns \/ ObjsCacheInit
  <2>1. UNCHANGED memory
    BY <1>7 DEF BootReturns, RegionAlloc, NoRegionFits, AllocEnter, AllocRefillVregion,
       AllocNeedsSlab, AllocAddSlab, AllocObject, CreateSlabObject, CreateRegion,
       SpecialRegion, SpecialAddsSlab, SpecialRefillsOther, SpecialReturns, ObjsCacheInit,
       Halt, heap
  <2> QED
    BY <1>2, <2>1
<1>8. CASE Client
  <2>1. UNCHANGED memory
    BY <1>8 DEF Client, ObjsCacheAlloc, ObjsCacheCreate, VregionAlloc, ObjsCacheFree,
       ClientCall, Halt, heap
  <2> QED
    BY <1>2, <2>1
<1>9. CASE Halted \/ UNCHANGED vars
  BY <1>2, <1>9 DEF Halted, vars, memory
<1> QED
  BY <1>3, <1>4, <1>5, <1>6, <1>7, <1>8, <1>9 DEF Next, Step

\* The lists of regions and what functions return.
LEMMA RegionsTyped ==
    HeapInv /\ [Next]_vars =>
        /\ freeV' \in Seq(Regions) /\ usedV' \in Seq(Regions) /\ tailV' \in {"null", "wild"}
        /\ ret' \in Nat /\ got' \in Regions
<1> DEFINE Goal == /\ freeV' \in Seq(Regions) /\ usedV' \in Seq(Regions)
                   /\ tailV' \in {"null", "wild"} /\ ret' \in Nat /\ got' \in Regions
<1> SUFFICES ASSUME HeapInv, [Next]_vars PROVE Goal
  OBVIOUS
<1>1. /\ freeV \in Seq(Regions) /\ usedV \in Seq(Regions) /\ tailV \in {"null", "wild"}
      /\ ret \in Nat /\ got \in Regions
  BY DEF HeapInv, TypeOK
<1>2. CASE UNCHANGED <<regions, ret, got>>
  BY <1>1, <1>2 DEF regions
<1>3. CASE BootReturns
  <2>1. /\ freeV' = <<Region(FirstVpn, LastVpn - FirstVpn + 1)>>
        /\ tailV' \in {"null", "wild"} /\ UNCHANGED <<usedV, ret, got>>
    BY <1>3 DEF BootReturns
  <2>2. FirstVpn \in 0..LastVpn /\ LastVpn - FirstVpn + 1 \in 0..LastVpn
    BY WindowAssumption
  <2> DEFINE whole == Region(FirstVpn, LastVpn - FirstVpn + 1)
  <2>3. whole \in Regions
    BY <2>2 DEF Region, Regions
  <2> HIDE DEF whole
  <2>4. <<whole>> \in Seq(Regions)
    BY <2>3
  <2> QED
    BY <1>1, <2>1, <2>4 DEF whole
<1>4. CASE RegionFits
  <2> DEFINE n == Top.kind.pages
  <2>1. /\ n \in Nat /\ n > 0 /\ Frontier \in Nat /\ Frontier >= FirstVpn
        /\ Frontier' = Frontier + n /\ Frontier' <= LastVpn + 1
        /\ got' = Region(Frontier, n) /\ usedV' = <<got'>> \o usedV
        /\ freeV' \in Seq(Regions) \/ freeV' = <<>>
    BY <1>4, RegionFitsRegions
  <2>2. UNCHANGED <<tailV, ret>>
    BY <1>4, RegionFitsEffect
  <2>3. Frontier \in 0..LastVpn /\ n \in 0..LastVpn
    <3> DEFINE F == Frontier
               G == Frontier'
    <3>1. n \in Nat /\ n > 0 /\ F \in Nat /\ F >= FirstVpn /\ G = F + n /\ G <= LastVpn + 1
      BY <2>1
    <3> HIDE DEF F, G, n
    <3>2. F \in 0..LastVpn /\ n \in 0..LastVpn
      BY <3>1, WindowAssumption
    <3> QED
      BY <3>2 DEF F
  <2>4. got' \in Regions
    BY <2>1, <2>3 DEF Region, Regions
  <2>5. usedV' \in Seq(Regions)
    BY <1>1, <2>1, <2>4
  <2>6. freeV' \in Seq(Regions)
    <3>1. freeV' \in Seq(Regions) \/ freeV' = <<>>
      BY <2>1
    <3>2. <<>> \in Seq(Regions)
      OBVIOUS
    <3> QED
      BY <3>1, <3>2
  <2> QED
    BY <1>1, <2>2, <2>4, <2>5, <2>6
<1>5. CASE NoRegionFits
  <2>1. UNCHANGED <<regions, ret>> /\ (got' = got \/ got' = NoRegion)
    BY <1>5 DEF NoRegionFits, Halt
  <2>2. NoRegion \in Regions
    BY WindowAssumption DEF NoRegion, Region, Regions
  <2> QED
    BY <1>1, <2>1, <2>2 DEF regions
<1>6. CASE AllocObject
  <2> DEFINE c == Top.cache
  <2>1. UNCHANGED <<regions, got>> /\ (ret' = ret \/ ret' = cache[c].used + 1) /\ stack # <<>>
    BY <1>6 DEF AllocObject, Halt, At
  <2>2. c \in CacheIds
    BY <2>1, TopFacts
  <2>3. cache[c].used \in Nat
    BY <2>2, Counters
  <2> QED
    BY <1>1, <2>1, <2>3 DEF regions
<1>7. CASE CreateReturns
  <2>1. UNCHANGED <<regions, got>> /\ (ret' = ret \/ ret' = Top.slab) /\ stack # <<>>
    BY <1>7 DEF CreateReturns, Halt, At
  <2>2. Top.slab \in Nat
    BY <2>1, TopFacts DEF Frames
  <2> QED
    BY <1>1, <2>1, <2>2 DEF regions
<1>8. CASE RegionAlloc \/ AllocEnter \/ AllocRefillVregion \/ CreatePages \/ CreateMaps
           \/ AllocNeedsSlab \/ AllocAddSlab \/ CreateSlabObject \/ SpecialPages
           \/ CreateRegion \/ SpecialRegion \/ SpecialAddsSlab \/ SpecialRefillsOther
           \/ SpecialReturns \/ ObjsCacheInit \/ SpecialMaps
  <2>1. UNCHANGED <<regions, ret, got>>
    BY <1>8 DEF RegionAlloc, AllocEnter, AllocRefillVregion, CreatePages, CreateMaps,
       AllocNeedsSlab, AllocAddSlab, CreateSlabObject, SpecialPages, CreateRegion,
       SpecialRegion, SpecialAddsSlab, SpecialRefillsOther, SpecialReturns, ObjsCacheInit,
       SpecialMaps, MapSlab, Halt
  <2> QED
    BY <1>2, <2>1
<1>9. CASE Client
  <2>1. UNCHANGED <<regions, ret, got>>
    BY <1>9 DEF Client, ObjsCacheAlloc, ObjsCacheCreate, VregionAlloc, ObjsCacheFree,
       ClientCall, Halt
  <2> QED
    BY <1>2, <2>1
<1>10. CASE Halted \/ UNCHANGED vars
  BY <1>2, <1>10 DEF Halted, vars, regions
<1> QED
  BY <1>3, <1>4, <1>5, <1>6, <1>7, <1>8, <1>9, <1>10 DEF Next, Step

(***************************************************************************)
(* The invariant.                                                          *)
(***************************************************************************)
LEMMA AlwaysTyped == HeapInv /\ [Next]_vars => TypeOK'
<1> SUFFICES ASSUME HeapInv, [Next]_vars PROVE TypeOK'
  OBVIOUS
<1>1. /\ cache' \in Seq(CacheRecord(DOMAIN slab'))
      /\ \A s \in DOMAIN slab' : slab'[s] \in SlabRecord
  BY AlwaysKeeps DEF Kept, CachesSound
<1>2. granted' \in Seq(Seq(Nat)) /\ mapped' \in Mappings(Len(granted'))
  BY MemoryTyped
<1>3. /\ freeV' \in Seq(Regions) /\ usedV' \in Seq(Regions) /\ tailV' \in {"null", "wild"}
      /\ ret' \in Nat /\ got' \in Regions
  BY RegionsTyped
<1>4. cause' \in Causes
  BY StopsOrGoes
<1>5. stack' \in Seq([at : Places, cache : CacheIds', slab : Nat,
                      kind : [objs : Nat, pages : Nat]])
  BY StackTyped
<1> QED
  BY <1>1, <1>2, <1>3, <1>4, <1>5
     DEF TypeOK, CacheRecord, SlabRecord, Mappings, Places, Causes, Regions, WholeWindow

\* The invariant is inductive.
LEMMA HeapStep == HeapInv /\ [Next]_vars => HeapInv'
<1> SUFFICES ASSUME HeapInv, [Next]_vars PROVE HeapInv'
  OBVIOUS
<1>1. StackInv' /\ ReserveInv' /\ ReservesHold'
  BY AlwaysGoesOn DEF GoesOn, ReservesHold
<1>2. CountsAgree' /\ SlabsInv' /\ CachesInv' /\ RegionsInv'
  BY AlwaysKeeps DEF Kept, CachesSound
<1> QED
  BY <1>1, <1>2, AlwaysTyped, AlwaysGot DEF HeapInv

\* The three regions of the first slabs.
LEMMA BootRegions ==
    \A i \in 1..3 : /\ BootRegion(i) \in Regions
                    /\ BootRegion(i).first = FirstVpn - 4 + i /\ BootRegion(i).pages = 1
<1> SUFFICES ASSUME NEW i \in 1..3
             PROVE  /\ BootRegion(i) \in Regions
                    /\ BootRegion(i).first = FirstVpn - 4 + i /\ BootRegion(i).pages = 1
  OBVIOUS
<1>1. FirstVpn - 4 + i \in 0..LastVpn /\ 1 \in 0..LastVpn
  BY WindowAssumption
<1> QED
  BY <1>1 DEF BootRegion, Region, Regions

\* What the boot code leaves, in the terms of the invariant.
LEMMA InitFacts ==
    ASSUME Init
    PROVE  /\ DOMAIN cache = 1..3 /\ Len(cache) = 3 /\ CacheIds = 1..3
           /\ cache[ObjsCache].objs = ObjsObjsCache /\ cache[SlabCache].objs = ObjsSlab
           /\ cache[VregionCache].objs = ObjsVregion
           /\ cache \in Seq(CacheRecord(1..3)) /\ DOMAIN slab = 1..3
           /\ \A c \in 1..3 :
                 /\ cache[c].objs \in Nat /\ cache[c].objs > 3 /\ cache[c].pages = 1
                 /\ cache[c].free = cache[c].objs - 3 /\ cache[c].used = 3
                 /\ cache[c].slabs = 1 /\ cache[c].freeSlabs = <<>>
                 /\ cache[c].partialSlabs = <<c>> /\ cache[c].fullSlabs = <<>>
                 /\ slab[c].free = cache[c].objs - 3 /\ slab[c].region = BootRegion(c)
                 /\ slab[c] \in SlabRecord
<1> DEFINE objs == <<ObjsObjsCache, ObjsSlab, ObjsVregion>>
<1>1. /\ cache = [c \in 1..3 |-> BootCache(objs[c], c)]
      /\ slab = [s \in 1..3 |-> [free |-> objs[s] - 3, region |-> BootRegion(s)]]
  BY DEF Init
<1>2. /\ \A c \in 1..3 : objs[c] \in Nat /\ objs[c] > 3
      /\ objs[1] = ObjsObjsCache /\ objs[2] = ObjsSlab /\ objs[3] = ObjsVregion
  BY ReserveAssumption
<1> HIDE DEF objs
<1>3. ASSUME NEW c \in 1..3
      PROVE  /\ BootCache(objs[c], c) \in CacheRecord(1..3)
             /\ cache[c].objs = objs[c] /\ cache[c].pages = 1
             /\ cache[c].free = objs[c] - 3 /\ cache[c].used = 3
             /\ cache[c].slabs = 1 /\ cache[c].freeSlabs = <<>>
             /\ cache[c].partialSlabs = <<c>> /\ cache[c].fullSlabs = <<>>
             /\ slab[c].free = objs[c] - 3 /\ slab[c].region = BootRegion(c)
             /\ slab[c] \in SlabRecord
  <2> DEFINE n == objs[c]
  <2>1. n \in Nat /\ n - 3 \in Nat
    BY <1>2
  <2>2. cache[c] = BootCache(n, c)
    BY <1>1
  <2>3. slab[c] = [free |-> n - 3, region |-> BootRegion(c)]
    BY <1>1
  <2> HIDE DEF n
  <2> DEFINE k == BootCache(n, c)
  <2>4. k = [objs |-> n, pages |-> 1, free |-> n - 3, used |-> 3, slabs |-> 1,
             freeSlabs |-> <<>>, partialSlabs |-> <<c>>, fullSlabs |-> <<>>]
    <3> DEFINE k0 == NewCache(Kind(n, 1))
               k1 == [k0 EXCEPT !.free = n - 3]
               k2 == [k1 EXCEPT !.used = 3]
               k3 == [k2 EXCEPT !.slabs = 1]
               k4 == [k3 EXCEPT !.partialSlabs = <<c>>]
    <3>1. k0 = [objs |-> n, pages |-> 1, free |-> 0, used |-> 0, slabs |-> 0,
                freeSlabs |-> <<>>, partialSlabs |-> <<>>, fullSlabs |-> <<>>]
      BY DEF NewCache, Kind
    <3>2. k = k4
      BY DEF BootCache
    <3> HIDE DEF k, k0
    <3>3. k1 = [objs |-> n, pages |-> 1, free |-> n - 3, used |-> 0, slabs |-> 0,
                freeSlabs |-> <<>>, partialSlabs |-> <<>>, fullSlabs |-> <<>>]
      BY <3>1
    <3> HIDE DEF k1
    <3>4. k2 = [objs |-> n, pages |-> 1, free |-> n - 3, used |-> 3, slabs |-> 0,
                freeSlabs |-> <<>>, partialSlabs |-> <<>>, fullSlabs |-> <<>>]
      BY <3>3
    <3> HIDE DEF k2
    <3>5. k3 = [objs |-> n, pages |-> 1, free |-> n - 3, used |-> 3, slabs |-> 1,
                freeSlabs |-> <<>>, partialSlabs |-> <<>>, fullSlabs |-> <<>>]
      BY <3>4
    <3> HIDE DEF k3
    <3> QED
      BY <3>2, <3>5
  <2>5. <<>> \in Seq(1..3) /\ <<c>> \in Seq(1..3)
    OBVIOUS
  <2>6. k \in CacheRecord(1..3)
    BY <2>1, <2>4, <2>5 DEF CacheRecord
  <2>7. slab[c] \in SlabRecord
    BY <2>1, <2>3, BootRegions DEF SlabRecord
  <2> QED
    BY <2>2, <2>3, <2>4, <2>6, <2>7 DEF n
<1>4. cache \in Seq(CacheRecord(1..3)) /\ Len(cache) = 3
  <2> DEFINE T == CacheRecord(1..3)
  <2>1. \A c \in 1..3 : BootCache(objs[c], c) \in T
    BY <1>3
  <2> HIDE DEF T
  <2>2. cache \in Seq(T) /\ Len(cache) = 3
    BY <1>1, <2>1
  <2> QED
    BY <2>2 DEF T
<1>5. DOMAIN cache = 1..3 /\ CacheIds = 1..3 /\ DOMAIN slab = 1..3
  BY <1>1 DEF CacheIds
<1> QED
  BY <1>2, <1>3, <1>4, <1>5 DEF ObjsCache, SlabCache, VregionCache

\* The two calls in progress at boot.
LEMMA InitStack ==
    ASSUME Init
    PROVE  /\ DOMAIN stack = {1, 2} /\ Len(stack) = 2 /\ stack # <<>> /\ Top = stack[1]
           /\ stack[1] \in Frames /\ stack[1].at = "alloc" /\ stack[1].cache = VregionCache
           /\ stack[2] \in Frames /\ stack[2].at = "boot" /\ stack[2].cache = VregionCache
           /\ Below(1) = stack[2] /\ Below(2) = Frame("none", 0)
<1> DEFINE e == Frame("alloc", VregionCache)
           f == Frame("boot", VregionCache)
<1>1. stack = <<e, f>>
  BY DEF Init
<1>2. /\ e \in Frames /\ e.at = "alloc" /\ e.cache = VregionCache
      /\ f \in Frames /\ f.at = "boot" /\ f.cache = VregionCache
  BY CallFrame DEF Places, VregionCache
<1> HIDE DEF e, f
<1> QED
  BY <1>1, <1>2 DEF Top, Below

\* The state at the end of objs_cache_boot_init, part by part.
LEMMA InitTyped == Init => TypeOK
<1> SUFFICES ASSUME Init PROVE TypeOK
  OBVIOUS
<1>1. cache \in Seq(CacheRecord(DOMAIN slab)) /\ \A s \in DOMAIN slab : slab[s] \in SlabRecord
  BY InitFacts
<1>2. freeV \in Seq(Regions) /\ usedV \in Seq(Regions) /\ tailV \in {"null", "wild"}
  BY BootRegions DEF Init
<1>3. stack \in Seq([at : Places, cache : CacheIds, slab : Nat,
                     kind : [objs : Nat, pages : Nat]])
  <2> DEFINE F == [at : Places, cache : CacheIds, slab : Nat,
                   kind : [objs : Nat, pages : Nat]]
  <2>1. VregionCache \in CacheIds
    BY InitFacts DEF VregionCache
  <2>2. stack[1] \in F /\ stack[2] \in F
    BY <2>1, InitStack DEF Frames
  <2>3. stack = <<stack[1], stack[2]>>
    BY DEF Init
  <2> DEFINE a == stack[1]
             b == stack[2]
  <2>5. a \in F /\ b \in F /\ stack = <<a, b>>
    BY <2>2, <2>3
  <2> HIDE DEF F, a, b
  <2>4. stack \in Seq(F)
    BY <2>5
  <2> QED
    BY <2>4 DEF F
<1>4. granted = <<<<1>>, <<2>>, <<3>>>> /\ Len(granted) = 3
  BY DEF Init
<1>5. granted \in Seq(Seq(Nat))
  <2> DEFINE T == Seq(Nat)
  <2>1. <<1>> \in T /\ <<2>> \in T /\ <<3>> \in T
    OBVIOUS
  <2> HIDE DEF T
  <2>2. granted \in Seq(T)
    BY <1>4, <2>1
  <2> QED
    BY <2>2 DEF T
<1>6. mapped \in [WholeWindow -> [block : 0..Len(granted), page : Nat]]
  <2> DEFINE M(v) == IF v < FirstVpn THEN Page(v - FirstVpn + 4, 1) ELSE NoPage
             B == [block : 0..3, page : Nat]
  <2>1. mapped = [v \in WholeWindow |-> M(v)]
    BY DEF Init
  <2>2. ASSUME NEW v \in WholeWindow PROVE M(v) \in B
    <3>1. v < FirstVpn => v - FirstVpn + 4 \in 0..3
      BY WindowAssumption DEF WholeWindow
    <3> QED
      BY <3>1 DEF Page, NoPage
  <2> HIDE DEF M, B
  <2>3. mapped \in [WholeWindow -> B]
    BY <2>1, <2>2
  <2> QED
    BY <1>4, <2>3 DEF B
<1>7. ret \in Nat /\ got \in Regions /\ cause \in Causes
  BY WindowAssumption DEF Init, NoRegion, Region, Regions, Causes
<1> QED
  BY <1>1, <1>2, <1>3, <1>5, <1>6, <1>7 DEF TypeOK, CacheRecord, SlabRecord

\* The two calls in progress at boot may be where they are.
LEMMA InitStackInv == Init => StackInv /\ ReserveInv
<1> SUFFICES ASSUME Init PROVE StackInv /\ ReserveInv
  OBVIOUS
<1>1. MayCall(stack[1], Below(1)) /\ MayCall(stack[2], Below(2))
  BY InitStack DEF MayCall, AllocPlaces, Frame, FrameOf
<1>2. stack[1].at \notin Refill /\ stack[2].at \notin Refill
  BY InitStack DEF Refill
<1>3. StackInv
  BY <1>1, <1>2, InitStack DEF StackInv, NoReentry
<1>4. Left(3, 3)
  <2> DEFINE s == cache[SlabCache].free
             v == cache[VregionCache].free
  <2>1. s = ObjsSlab - 3 /\ v = ObjsVregion - 3
    BY InitFacts DEF SlabCache, VregionCache
  <2> HIDE DEF s, v
  <2>2. s >= 3 /\ v >= 3
    BY <2>1, ReserveAssumption
  <2> QED
    BY <2>2 DEF Left, s, v
<1>5. Left(2, 2) /\ Left(2, 3)
  <2>1. cache[SlabCache].free \in Int /\ cache[VregionCache].free \in Int
    BY InitFacts DEF SlabCache, VregionCache
  <2> QED
    BY <1>4, <2>1 DEF Left
<1>6. AllocInv(Top)
  BY <1>4, <1>5, InitStack DEF AllocInv
<1>7. RefillInv(Top, Below(1)) /\ RegionInv(Top, Below(1), Below(2))
  BY InitStack DEF RefillInv, RegionInv
<1> QED
  BY <1>3, <1>6, <1>7, InitStack DEF ReserveInv

\* The three slabs that boot has made are in their lists and counted.
LEMMA InitLists == Init => CountsAgree /\ SlabsInv /\ CachesInv
<1> SUFFICES ASSUME Init PROVE CountsAgree /\ SlabsInv /\ CachesInv
  OBVIOUS
<1>1. ASSUME NEW c \in 1..3
      PROVE  Sound(cache[c], slab) /\ Listed(cache[c]) = {c}
  <2> DEFINE k == cache[c]
             n == cache[c].objs
  <2>1. /\ n \in Nat /\ n > 3 /\ k.objs = n /\ k.free = n - 3 /\ k.used = 3
        /\ k.slabs = 1 /\ k.freeSlabs = <<>> /\ k.partialSlabs = <<c>>
        /\ k.fullSlabs = <<>> /\ slab[c].free = n - 3
    BY InitFacts
  <2> HIDE DEF k, n
  <2>2. /\ ToSet(k.freeSlabs) = {} /\ ToSet(k.partialSlabs) = {c} /\ ToSet(k.fullSlabs) = {}
        /\ IsInjective(k.freeSlabs) /\ IsInjective(k.fullSlabs)
        /\ Len(k.freeSlabs) = 0 /\ Len(k.partialSlabs) = 1 /\ Len(k.fullSlabs) = 0
        /\ Head(k.partialSlabs) = c /\ k.partialSlabs # <<>>
    BY <2>1, EmptyAndSingle
  <2>3. Listed(k) = {c} /\ ListsApart(k)
    BY <2>2 DEF Listed, ListsApart
  <2>4. InState(k, slab)
    <3>1. n - 3 \in 1..(n - 1)
      BY <2>1
    <3> QED
      BY <2>1, <2>2, <3>1 DEF InState
  <2>5. Numbers(k, slab)
    <3>1. n - 3 = 0 * n + (n - 3) /\ n - 3 + 3 = 1 * n
      BY <2>1
    <3> QED
      BY <2>1, <2>2, <3>1 DEF Numbers
  <2> QED
    BY <2>3, <2>4, <2>5 DEF Sound, k
<1>2. CacheIds = 1..3 /\ DOMAIN slab = 1..3 /\ Len(cache) = 3
  BY InitFacts
<1>3. CountsAgree
  BY <1>1, <1>2, CountsAgreeIs
<1>4. ~TopAt({"create2"}) /\ ~TopAt({"alloc4"}) /\ ~TopAt({"boot"}) /\ ~TopAt({"register"})
  BY InitStack DEF TopAt
<1>5. HeldIn(stack) = {} /\ Apart(stack)
  <2>1. HeldBy(stack[1]) = {} /\ HeldBy(stack[2]) = {}
    BY InitStack DEF HeldBy, HoldPlaces
  <2> QED
    BY <2>1, InitStack DEF HeldIn, Apart
<1>6. cache[SlabCache].used = 3 /\ cache[VregionCache].used = 3 /\ cache[ObjsCache].used = 3
  BY InitFacts DEF ObjsCache, SlabCache, VregionCache
<1>7. SlabsInv
  <2>1. AllListed = 1..3
    BY <1>1, <1>2 DEF AllListed
  <2> QED
    BY <1>2, <1>4, <1>5, <1>6, <2>1, SlabsInvIs DEF SlabsInvParts, Fresh, Unlisted
<1>8. CachesInv
  <2>1. Len(freeV) = 0 /\ Len(usedV) = 3
    BY DEF Init
  <2>2. \A i \in DOMAIN stack : stack[i].at # "register" /\ stack[i].at \notin RegionPlaces
    BY InitStack DEF RegionPlaces
  <2>3. \A c \in CacheIds : cache[c].objs > 0 /\ cache[c].pages \in Lengths
    BY <1>2, InitFacts DEF Lengths
  <2>4. cache[SlabCache].pages = 1 /\ cache[VregionCache].pages = 1
    BY InitFacts DEF SlabCache, VregionCache
  <2>5. /\ cache[ObjsCache].objs = ObjsObjsCache /\ cache[SlabCache].objs = ObjsSlab
        /\ cache[VregionCache].objs = ObjsVregion
    BY InitFacts
  <2> QED
    BY <1>2, <1>4, <1>6, <2>1, <2>2, <2>3, <2>4, <2>5 DEF CachesInv
<1> QED
  BY <1>3, <1>7, <1>8

\* The regions of these slabs and the free one make up the window.
LEMMA InitRegions == Init => RegionsInv /\ GotInv
<1> SUFFICES ASSUME Init PROVE RegionsInv /\ GotInv
  OBVIOUS
<1>1. freeV = <<>> /\ usedV = [i \in 1..3 |-> BootRegion(i)] /\ got = NoRegion
  BY DEF Init
<1>2. Booting /\ Frontier = FirstVpn
  BY InitStack DEF Booting, Frontier
<1>3. /\ DOMAIN usedV = 1..3 /\ usedV # <<>>
      /\ \A i \in 1..3 : usedV[i].first = FirstVpn - 4 + i /\ usedV[i].pages = 1
  BY <1>1, BootRegions
<1>4. FirstVpn \in Nat /\ FirstVpn > 3
  BY WindowAssumption
<1>5. ASSUME NEW v \in (FirstVpn - 3)..(Frontier - 1)
      PROVE  \E i \in DOMAIN usedV : v \in PagesOf(usedV[i])
  <2> DEFINE i == v - FirstVpn + 4
  <2>1. i \in 1..3 /\ v \in Int /\ FirstVpn - 4 + i = v
    BY <1>2, <1>4
  <2> HIDE DEF i
  <2>2. v \in PagesOf(usedV[i])
    BY <1>3, <2>1 DEF PagesOf
  <2> QED
    BY <1>3, <2>1, <2>2
<1>6. RegionsInv
  BY <1>1, <1>2, <1>3, <1>4, <1>5 DEF RegionsInv
<1>7. GotInv
  <2>1. DOMAIN slab = 1..3 /\ \A s \in 1..3 : slab[s].region = usedV[s]
    BY <1>1, InitFacts
  <2>2. RegionsOwned
    BY <1>3, <1>4, <2>1 DEF RegionsOwned, ToSet
  <2>3. Found
    BY InitStack DEF Found, TopAt, FindTops
  <2> QED
    BY <2>2, <2>3, GotInvIs
<1> QED
  BY <1>6, <1>7

\* The invariant holds at first.
LEMMA HeapInit == Init => HeapInv
<1>1. Init => ReservesHold
  BY DEF Init, ReservesHold
<1> QED
  BY <1>1, InitTyped, InitStackInv, InitLists, InitRegions DEF HeapInv

(***************************************************************************)
(* The theorems.                                                           *)
(***************************************************************************)
\* However allocations, refills and searches nest, the calls, the counters, the
\* lists of slabs and the regions stay as HeapInv says.
THEOREM HeapInvariant == Spec => []HeapInv
<1>1. Init => HeapInv
  BY HeapInit
<1>2. HeapInv /\ [Next]_vars => HeapInv'
  BY HeapStep
<1> QED
  BY <1>1, <1>2, PTL DEF Spec

\* None of the assertions on the reserves of Slab and Vregion objects fails, and
\* an object taken from a reserve is there (slab.c:467, 592, 622 and
\* virtual_pages.c:210), with the smallest reserves the boot code accepts.
THEOREM ReservesSuffice == Spec => []ReservesHold
<1>1. HeapInv => ReservesHold
  BY DEF HeapInv
<1> QED
  BY <1>1, HeapInvariant, PTL

\* Neither refill function is entered while it is running: the recursion of
\* _create_slab_for_cache_Slab and _create_slab_for_cache_Vregion is bounded.
THEOREM RefillsDoNotNest == Spec => []NoReentry
<1>1. HeapInv => NoReentry
  BY DEF HeapInv, StackInv
<1> QED
  BY <1>1, HeapInvariant, PTL

\* The counters of every cache agree with its lists, and each slab is in the
\* list of its state and in no other.
THEOREM CountersAgreeWithLists == Spec => []CountsAgree
<1>1. HeapInv => CountsAgree
  BY DEF HeapInv
<1> QED
  BY <1>1, HeapInvariant, PTL

\* Between two calls no Slab, Vregion or Objs_cache object is lost.
THEOREM NoObjectIsLost == Spec => []ObjectsAccounted
<1>1. HeapInv => ObjectsAccounted
  <2> SUFFICES ASSUME HeapInv, stack = <<>> PROVE
          /\ AllListed = 1..cache[SlabCache].used
          /\ cache[VregionCache].used = Len(freeV) + Len(usedV)
          /\ cache[ObjsCache].used = Len(cache)
    BY DEF ObjectsAccounted, Idle, AllListed
  <2>1. ~TopAt({"create2"}) /\ ~TopAt({"alloc4"}) /\ ~TopAt({"boot"}) /\ ~TopAt({"register"})
    BY DEF TopAt
  <2>2. HeldIn(stack) = {} /\ Fresh = {} /\ Unlisted = {}
    BY <2>1 DEF HeldIn, Fresh, Unlisted
  <2>3. AllListed = 1..cache[SlabCache].used
    BY <2>2, SlabsInvIs DEF HeapInv, SlabsInvParts
  <2>4. Len(freeV) \in Nat /\ Len(usedV) \in Nat /\ Len(cache) \in Nat
    BY RegionTypes, CacheTypes
  <2> QED
    BY <2>1, <2>3, <2>4, CachesInvIs DEF HeapInv, CacheParts
<1> QED
  BY <1>1, HeapInvariant, PTL

\* Two used regions that meet are the same.
LEMMA UsedApart ==
    ASSUME HeapInv
    PROVE  /\ \A i \in DOMAIN usedV :
                 /\ usedV[i].first \in Nat /\ usedV[i].pages \in Nat /\ usedV[i].pages > 0
                 /\ usedV[i].first >= FirstVpn - 3
                 /\ usedV[i].first + usedV[i].pages <= Frontier
           /\ \A i, j \in DOMAIN usedV : i # j =>
                 \/ usedV[i].first + usedV[i].pages <= usedV[j].first
                 \/ usedV[j].first + usedV[j].pages <= usedV[i].first
           /\ Frontier \in Nat /\ Frontier >= FirstVpn /\ Frontier <= LastVpn + 1
           /\ ~Booting /\ freeV = <<>> => Frontier = LastVpn + 1
           /\ freeV # <<>> => /\ Len(freeV) = 1 /\ DOMAIN freeV = {1} /\ freeV[1].first = Frontier
                              /\ freeV[1].pages = LastVpn + 1 - Frontier
                              /\ freeV[1].pages > 0
<1>1. /\ freeV \in Seq(Regions) /\ usedV \in Seq(Regions)
      /\ LastVpn \in Nat /\ FirstVpn \in Nat /\ FirstVpn > 3 /\ FirstVpn <= LastVpn
      /\ \A r \in Regions : r.first \in 0..LastVpn /\ r.pages \in 0..LastVpn
  BY RegionTypes
<1>2. RegionsInv
  BY DEF HeapInv
<1>3. \A i \in DOMAIN usedV : /\ usedV[i].first \in Nat /\ usedV[i].pages \in Nat
                              /\ usedV[i].pages > 0 /\ usedV[i].first >= FirstVpn - 3
                              /\ usedV[i].first + usedV[i].pages <= Frontier
  <2>1. \A i \in DOMAIN usedV : usedV[i] \in Regions
    BY <1>1
  <2>2. \A i \in DOMAIN usedV : usedV[i].first \in Nat /\ usedV[i].pages \in Nat
    BY <1>1, <2>1
  <2> QED
    BY <1>2, <2>2 DEF RegionsInv
<1>4. \A i, j \in DOMAIN usedV : i # j =>
          \/ usedV[i].first + usedV[i].pages <= usedV[j].first
          \/ usedV[j].first + usedV[j].pages <= usedV[i].first
  <2>1. \A i, j \in DOMAIN usedV : i # j => i < j \/ j < i
    BY <1>1
  <2> QED
    BY <1>2, <2>1 DEF RegionsInv
<1>5. ASSUME freeV # <<>>
      PROVE  /\ Len(freeV) = 1 /\ DOMAIN freeV = {1} /\ freeV[1].first = Frontier
             /\ freeV[1].pages = LastVpn + 1 - Frontier /\ freeV[1].pages > 0
             /\ Frontier \in Nat /\ Frontier >= FirstVpn /\ Frontier <= LastVpn + 1
  <2>1. /\ Len(freeV) = 1 /\ freeV[1].pages > 0 /\ freeV[1].first >= FirstVpn
        /\ freeV[1].first + freeV[1].pages = LastVpn + 1 /\ ~Booting
    BY <1>2, <1>5 DEF RegionsInv
  <2>a. DOMAIN freeV = 1..Len(freeV) /\ \A k \in 1..Len(freeV) : freeV[k] \in Regions
    BY <1>1
  <2>b. Len(freeV) = 1
    BY <2>1
  <2>2. DOMAIN freeV = {1} /\ freeV[1] \in Regions
    BY <2>a, <2>b
  <2>3. Frontier = freeV[1].first
    BY <1>5, <2>1 DEF Frontier
  <2> DEFINE F == freeV[1].first
             P == freeV[1].pages
  <2>4. F \in 0..LastVpn /\ P \in 0..LastVpn /\ F >= FirstVpn /\ P > 0 /\ F + P = LastVpn + 1
    BY <1>1, <2>1, <2>2
  <2> HIDE DEF F, P
  <2>5. P = LastVpn + 1 - F /\ F <= LastVpn + 1 /\ F \in Nat
    BY <1>1, <2>4
  <2> QED
    BY <2>1, <2>2, <2>3, <2>4, <2>5 DEF F, P
<1>6. ASSUME freeV = <<>>
      PROVE  /\ Frontier \in Nat /\ Frontier >= FirstVpn /\ Frontier <= LastVpn + 1
             /\ ~Booting => Frontier = LastVpn + 1
  BY <1>1, <1>6 DEF Frontier
<1> QED
  BY <1>3, <1>4, <1>5, <1>6

\* A sequence in front of which another stands, which is empty or a single
\* element.
LEMMA ListsTogether ==
    ASSUME NEW T, NEW p \in Seq(T), NEW q \in Seq(T), p = <<>> \/ Len(p) = 1
    PROVE  /\ \A i \in DOMAIN (p \o q) :
                 \/ i = 1 /\ p # <<>> /\ (p \o q)[i] = p[1]
                 \/ \E k \in DOMAIN q : i = k + Len(p) /\ (p \o q)[i] = q[k]
           /\ \A k \in DOMAIN q : \E i \in DOMAIN (p \o q) : (p \o q)[i] = q[k]
           /\ p # <<>> => \E i \in DOMAIN (p \o q) : (p \o q)[i] = p[1]
<1>1. p # <<>> <=> Len(p) = 1
  <2>1. CASE p = <<>>
    BY <2>1
  <2>2. CASE Len(p) = 1
    <3>1. p # <<>>
      BY <2>2
    <3> QED
      BY <2>2, <3>1
  <2> QED
    BY <2>1, <2>2
<1>2. Len(p) \in Nat /\ Len(q) \in Nat /\ DOMAIN q = 1..Len(q)
  OBVIOUS
<1>3. Len(p) = 0 \/ Len(p) = 1
  <2>1. p = <<>> => Len(p) = 0
    OBVIOUS
  <2> QED
    BY <2>1
<1>4. DOMAIN (p \o q) = 1..(Len(p) + Len(q))
  OBVIOUS
<1>5. \A k \in 1..Len(q) : (p \o q)[k + Len(p)] = q[k]
  BY <1>2
<1>6. p # <<>> => (p \o q)[1] = p[1]
  BY <1>1, <1>2
<1> DEFINE all == p \o q
           P == Len(p)
           Q == Len(q)
<1>7. \A i \in 1..(P + Q) : (i = 1 /\ p # <<>>) \/ \E k \in 1..Q : i = k + P
  <2> HIDE DEF P, Q
  <2>1. TAKE i \in 1..(P + Q)
  <2>2. CASE P = 0
    BY <1>2, <2>2 DEF P, Q
  <2>3. CASE P = 1 /\ i = 1
    BY <1>1, <2>3 DEF P
  <2>4. CASE P = 1 /\ i # 1
    <3>1. i - 1 \in 1..Q /\ i = (i - 1) + P
      BY <2>4, <1>2 DEF Q
    <3> QED
      BY <3>1
  <2> QED
    BY <2>2, <2>3, <2>4, <1>3 DEF P
<1>8. \A k \in 1..Q : k + P \in 1..(P + Q)
  BY <1>2
<1>9. p # <<>> => 1 \in 1..(P + Q)
  BY <1>1, <1>2
<1>10. \A i \in 1..(P + Q) :
          \/ i = 1 /\ p # <<>> /\ all[i] = p[1]
          \/ \E k \in 1..Q : i = k + P /\ all[i] = q[k]
  BY <1>5, <1>6, <1>7
<1> QED
  BY <1>2, <1>4, <1>5, <1>6, <1>8, <1>9, <1>10

\* Free and used regions never overlap and together make up the window, and
\* no two slabs have the same region.
THEOREM RegionsMakeUpTheWindow == Spec => []RegionsPartition
<1>1. HeapInv => RegionsPartition
  <2> SUFFICES ASSUME HeapInv PROVE RegionsPartition
    OBVIOUS
  <2>1. /\ freeV \in Seq(Regions) /\ usedV \in Seq(Regions)
        /\ LastVpn \in Nat /\ FirstVpn \in Nat /\ FirstVpn > 3 /\ FirstVpn <= LastVpn
    BY RegionTypes
  <2>2. freeV = <<>> \/ Len(freeV) = 1
    BY UsedApart
  <2> DEFINE all == freeV \o usedV
  <2>3. /\ \A i \in DOMAIN all : \/ i = 1 /\ freeV # <<>> /\ all[i] = freeV[1]
                                 \/ \E k \in DOMAIN usedV :
                                       i = k + Len(freeV) /\ all[i] = usedV[k]
        /\ \A k \in DOMAIN usedV : \E i \in DOMAIN all : all[i] = usedV[k]
        /\ freeV # <<>> => \E i \in DOMAIN all : all[i] = freeV[1]
    <3> HIDE DEF Regions
    <3> QED
      BY <2>1, <2>2, ListsTogether
  <2>4. Len(all) \in Nat /\ DOMAIN all = 1..Len(all) /\ ToSet(all) = {all[i] : i \in DOMAIN all}
    BY <2>1 DEF ToSet
  <2>5. \A k \in DOMAIN usedV :
           /\ usedV[k].first \in Nat /\ usedV[k].pages \in Nat /\ usedV[k].pages > 0
           /\ usedV[k].first >= FirstVpn - 3
           /\ usedV[k].first + usedV[k].pages <= Frontier
    BY UsedApart
  <2>6. \A k, l \in DOMAIN usedV : k # l =>
           \/ usedV[k].first + usedV[k].pages <= usedV[l].first
           \/ usedV[l].first + usedV[l].pages <= usedV[k].first
    BY UsedApart
  <2>7. Frontier \in Nat /\ Frontier >= FirstVpn /\ Frontier <= LastVpn + 1
    BY UsedApart
  <2>8. freeV # <<>> => /\ freeV[1].first = Frontier
                        /\ freeV[1].pages = LastVpn + 1 - Frontier /\ freeV[1].pages > 0
    BY UsedApart
  <2>9. ~Booting /\ freeV = <<>> => Frontier = LastVpn + 1
    BY UsedApart
  <2>10. \A v \in (FirstVpn - 3)..(Frontier - 1) :
            \E k \in DOMAIN usedV : v \in PagesOf(usedV[k])
    BY DEF HeapInv, RegionsInv
  <2>11. \A k \in DOMAIN usedV : PagesOf(usedV[k]) \subseteq (FirstVpn - 3)..(Frontier - 1)
    BY <2>1, <2>5, <2>7 DEF PagesOf
  <2>12. \A k, l \in DOMAIN usedV : k # l => PagesOf(usedV[k]) \cap PagesOf(usedV[l]) = {}
    BY <2>5, <2>6 DEF PagesOf
  <2>13. freeV # <<>> => PagesOf(freeV[1]) = Frontier..LastVpn
    <3> DEFINE r == freeV[1]
    <3> SUFFICES ASSUME freeV # <<>> PROVE PagesOf(r) = Frontier..LastVpn
      OBVIOUS
    <3>1. PagesOf(r) = Frontier..(Frontier + (LastVpn + 1 - Frontier) - 1)
      BY <2>8 DEF PagesOf
    <3>2. Frontier + (LastVpn + 1 - Frontier) - 1 = LastVpn
      BY <2>1, <2>7
    <3> QED
      BY <3>1, <3>2
  <2> HIDE DEF all
  <2>14. \A i, j \in DOMAIN all : i # j => PagesOf(all[i]) \cap PagesOf(all[j]) = {}
    <3> DEFINE FreePages == Frontier..LastVpn
               UsedPages == (FirstVpn - 3)..(Frontier - 1)
    <3>0. FreePages \cap UsedPages = {}
      BY <2>1, <2>7
    <3> HIDE DEF FreePages, UsedPages
    <3> SUFFICES ASSUME NEW i \in DOMAIN all, NEW j \in DOMAIN all, i # j
                 PROVE  PagesOf(all[i]) \cap PagesOf(all[j]) = {}
      OBVIOUS
    <3>1. \A n \in DOMAIN all :
             \/ n = 1 /\ freeV # <<>> /\ PagesOf(all[n]) = FreePages
             \/ \E k \in DOMAIN usedV : n = k + Len(freeV) /\ all[n] = usedV[k]
                                        /\ PagesOf(all[n]) \subseteq UsedPages
      BY <2>3, <2>11, <2>13 DEF FreePages, UsedPages
    <3>2. CASE \E k, l \in DOMAIN usedV :
                  /\ i = k + Len(freeV) /\ all[i] = usedV[k]
                  /\ j = l + Len(freeV) /\ all[j] = usedV[l]
      <4>1. PICK k, l \in DOMAIN usedV : /\ i = k + Len(freeV) /\ all[i] = usedV[k]
                                         /\ j = l + Len(freeV) /\ all[j] = usedV[l]
        BY <3>2
      <4>2. k # l
        BY <4>1
      <4> QED
        BY <4>1, <4>2, <2>12
    <3>3. CASE PagesOf(all[i]) = FreePages /\ PagesOf(all[j]) \subseteq UsedPages
      BY <3>0, <3>3
    <3>4. CASE PagesOf(all[j]) = FreePages /\ PagesOf(all[i]) \subseteq UsedPages
      BY <3>0, <3>4
    <3> QED
      BY <3>1, <3>2, <3>3, <3>4
  <2>15. ASSUME ~Booting PROVE UNION {PagesOf(r) : r \in ToSet(all)} = WholeWindow
    <3>1. WholeWindow = (FirstVpn - 3)..LastVpn
      BY DEF WholeWindow
    <3>2. \A r \in ToSet(all) : PagesOf(r) \subseteq WholeWindow
      <4>1. (FirstVpn - 3)..(Frontier - 1) \subseteq WholeWindow
            /\ Frontier..LastVpn \subseteq WholeWindow
        BY <2>1, <2>7, <3>1
      <4>2. ASSUME NEW i \in DOMAIN all PROVE PagesOf(all[i]) \subseteq WholeWindow
        <5>1. CASE i = 1 /\ freeV # <<>> /\ all[i] = freeV[1]
          BY <5>1, <4>1, <2>13
        <5>2. CASE \E k \in DOMAIN usedV : i = k + Len(freeV) /\ all[i] = usedV[k]
          BY <5>2, <4>1, <2>11
        <5> QED
          BY <5>1, <5>2, <2>3
      <4> QED
        BY <4>2, <2>4
    <3>3. ASSUME NEW v \in WholeWindow PROVE \E r \in ToSet(all) : v \in PagesOf(r)
      <4>1. CASE v \in (FirstVpn - 3)..(Frontier - 1)
        BY <4>1, <2>3, <2>4, <2>10
      <4>2. CASE v \in Frontier..LastVpn
        <5>1. freeV # <<>>
          BY <4>2, <2>1, <2>7, <2>9, <2>15
        <5> QED
          BY <5>1, <4>2, <2>3, <2>4, <2>13
      <4> QED
        BY <4>1, <4>2, <3>1, <3>3, <2>1, <2>7
    <3> QED
      BY <3>2, <3>3
  <2>16. /\ \A s \in DOMAIN slab : slab[s].region \in ToSet(usedV)
         /\ \A s, t \in DOMAIN slab : s # t => slab[s].region # slab[t].region
    BY DEF HeapInv, GotInv
  <2> QED
    BY <2>14, <2>15, <2>16 DEF RegionsPartition, Booting, all
<1> QED
  BY <1>1, HeapInvariant, PTL

\* What the refinement mapping yields: each region of a set in which no two
\* start at the same page gives the size of the run at its first page.
LEMMA SizesOfRegions ==
    ASSUME NEW used, \A r, s \in used : r.first = s.first => r = s
    PROVE  /\ \A r \in used : r.first \in Window => SizeIn(used)[r.first] = r.pages
           /\ \A p \in Window : (\A r \in used : r.first # p) => SizeIn(used)[p] = 0
           /\ SizeIn(used) = [p \in Window |-> SizeIn(used)[p]]
<1>1. ASSUME NEW r \in used, r.first \in Window PROVE SizeIn(used)[r.first] = r.pages
  <2> DEFINE c == CHOOSE x \in used : x.first = r.first
  <2>1. c \in used /\ c.first = r.first
    OBVIOUS
  <2>2. c = r
    BY <2>1
  <2> QED
    BY <1>1, <2>2 DEF SizeIn
<1> QED
  BY <1>1 DEF SizeIn

\* Only the search of vregion_alloc changes the used regions, and a kernel that
\* has stopped does not go on.
LEMMA OnlySearchGrants ==
    ASSUME [Next]_vars, ~RegionFits
    PROVE  UNCHANGED usedV /\ (cause # "none" => cause' # "none")
<1>1. CASE UNCHANGED vars
  BY <1>1 DEF vars
<1>2. CASE Client
  BY <1>2 DEF Client, ObjsCacheAlloc, ObjsCacheCreate, VregionAlloc, ObjsCacheFree, ClientCall,
              Halt, heap, regions
<1>3. CASE Halted
  BY <1>3 DEF Halted, vars
<1>4. CASE BootReturns \/ RegionAlloc \/ NoRegionFits
  BY <1>4 DEF BootReturns, RegionAlloc, NoRegionFits, Halt, heap, regions
<1>5. CASE AllocEnter \/ AllocRefillVregion \/ AllocNeedsSlab \/ AllocAddSlab \/ AllocObject
  BY <1>5 DEF AllocEnter, AllocRefillVregion, AllocNeedsSlab, AllocAddSlab, AllocObject,
              Halt, heap, regions
<1>6. CASE CreateSlabObject \/ CreateRegion \/ CreatePages \/ CreateMaps \/ CreateReturns
  BY <1>6 DEF CreateSlabObject, CreateRegion, CreatePages, CreateMaps, MapSlab, CreateReturns,
              Halt, heap, regions
<1>7. CASE SpecialRegion \/ SpecialPages \/ SpecialMaps \/ SpecialAddsSlab
           \/ SpecialRefillsOther \/ SpecialReturns \/ ObjsCacheInit
  BY <1>7 DEF SpecialRegion, SpecialPages, SpecialMaps, MapSlab, SpecialAddsSlab,
              SpecialRefillsOther, SpecialReturns, ObjsCacheInit, Halt, heap, regions
<1> QED
  BY <1>1, <1>2, <1>3, <1>4, <1>5, <1>6, <1>7 DEF Next, Step

\* Regions of virtual pages are granted as PageGrants says: a whole region at
\* once, inside the window and clear of every other, whoever asks for it.
THEOREM HeapImplementsGrants == Spec => ImplementsGrants
<1>1. Init => Grants!Init
  <2> SUFFICES ASSUME Init PROVE Grants!Init
    OBVIOUS
  <2>1. \A r \in ToSet(usedV) : \E i \in 1..3 : r = BootRegion(i)
    <3>1. usedV = [i \in 1..3 |-> BootRegion(i)]
      BY DEF Init
    <3> HIDE DEF Init
    <3>2. DOMAIN usedV = 1..3 /\ \A i \in DOMAIN usedV : usedV[i] = BootRegion(i)
      BY <3>1
    <3>3. ToSet(usedV) = {usedV[i] : i \in DOMAIN usedV}
      BY DEF ToSet
    <3> QED
      BY <3>2, <3>3
  <2>2. \A i \in 1..3 : BootRegion(i).first < FirstVpn
    BY WindowAssumption DEF BootRegion, Region
  <2>3. \A p \in Window : \A r \in ToSet(usedV) : r.first # p
    BY <2>1, <2>2, WindowAssumption DEF Window
  <2>4. RegionSize = [p \in Window |-> 0]
    BY <2>3 DEF RegionSize, SizeIn
  <2> QED
    BY <2>4 DEF Init, Grants!Init
<1>2. HeapInv /\ [Next]_vars => [Grants!GrantOnly]_<<RegionSize, cause # "none">>
  <2> SUFFICES ASSUME HeapInv, [Next]_vars
               PROVE  Grants!GrantOnly \/ UNCHANGED <<RegionSize, cause # "none">>
    OBVIOUS
  <2>1. CASE RegionFits
    <3> DEFINE n == Top.kind.pages
               F == Frontier
               taken == Region(F, n)
               used == ToSet(usedV)
               after == ToSet(usedV')
    <3>1. /\ n \in Nat /\ n > 0 /\ F \in Nat /\ F >= FirstVpn /\ F + n <= LastVpn + 1
          /\ usedV' = <<taken>> \o usedV
      BY <2>1, RegionFitsRegions
    <3>2. cause = "none" /\ cause' = "none" /\ n \in Lengths
      <4>1. stack # <<>> /\ Top.at = "_region" /\ cause = "none"
        BY <2>1 DEF RegionFits, At
      <4>2. cause' = cause
        BY <2>1, RegionFitsEffect
      <4>3. 1 \in DOMAIN stack /\ Top = stack[1]
        <5>1. stack \in Seq(Frames)
          BY <4>1, TopFacts
        <5> HIDE DEF Frames
        <5> QED
          BY <4>1, <5>1 DEF Top
      <4>4. n \in Lengths
        BY <4>1, <4>3 DEF HeapInv, CachesInv, RegionPlaces
      <4> QED
        BY <4>1, <4>2, <4>4
    <3>3. usedV \in Seq(Regions) /\ FirstVpn \in Nat /\ LastVpn \in Nat
      BY RegionTypes
    <3>4. used = {usedV[i] : i \in DOMAIN usedV}
      BY DEF ToSet
    <3>5. \A r \in used : /\ r.first \in Nat /\ r.pages \in Nat /\ r.pages > 0
                          /\ r.first + r.pages <= F
      BY <3>4, UsedApart
    <3>6. \A r, s \in used : r.first = s.first => r = s
      <4> SUFFICES ASSUME NEW i \in DOMAIN usedV, NEW j \in DOMAIN usedV,
                          usedV[i].first = usedV[j].first, i # j
                   PROVE  FALSE
        BY <3>4
      <4> QED
        BY UsedApart
    <3>7. after = used \cup {taken}
      <4> HIDE DEF taken, F, n
      <4> DEFINE later == <<taken>> \o usedV
      <4>1. /\ DOMAIN later = 1..(Len(usedV) + 1) /\ later[1] = taken
            /\ \A i \in DOMAIN usedV : later[i + 1] = usedV[i]
            /\ DOMAIN usedV = 1..Len(usedV) /\ Len(usedV) \in Nat
        BY <3>3
      <4>2. after = {later[i] : i \in DOMAIN later}
        BY <3>1 DEF ToSet
      <4> HIDE DEF later
      <4>3. \A i \in DOMAIN later : i = 1 \/ (i - 1 \in DOMAIN usedV /\ i = (i - 1) + 1)
        BY <4>1
      <4>4. \A i \in DOMAIN usedV : i + 1 \in DOMAIN later
        BY <4>1
      <4>5. 1 \in DOMAIN later
        BY <4>1
      <4>6. after \subseteq used \cup {taken}
        BY <4>1, <4>2, <4>3, <3>4
      <4>7. used \cup {taken} \subseteq after
        BY <4>1, <4>2, <4>4, <4>5, <3>4
      <4> QED
        BY <4>6, <4>7
    <3>8. taken.first = F /\ taken.pages = n
      BY DEF Region
    <3> HIDE DEF n, F, taken, used, after
    <3>9. \A r, s \in after : r.first = s.first => r = s
      <4>1. \A r \in used : r.first # F
        BY <3>1, <3>5
      <4> QED
        BY <4>1, <3>6, <3>7, <3>8
    <3>10. F \in Window /\ F .. (F + n - 1) \subseteq Window
      BY <3>1, <3>3 DEF Window
    <3>11. RegionSize' = [RegionSize EXCEPT ![F] = n]
      <4>1. SizeIn(after)[F] = n
        BY <3>7, <3>8, <3>9, <3>10, SizesOfRegions
      <4>2. ASSUME NEW p \in Window, p # F PROVE SizeIn(after)[p] = SizeIn(used)[p]
        <5>1. CASE \E r \in used : r.first = p
          <6>1. PICK r \in used : r.first = p
            BY <5>1
          <6>2. r \in after
            BY <6>1, <3>7
          <6>3. SizeIn(used)[r.first] = r.pages
            BY <6>1, <3>6, SizesOfRegions
          <6>4. SizeIn(after)[r.first] = r.pages
            BY <6>1, <6>2, <3>9, SizesOfRegions
          <6> QED
            BY <6>1, <6>3, <6>4
        <5>2. CASE \A r \in used : r.first # p
          <6>1. \A r \in after : r.first # p
            BY <5>2, <4>2, <3>7, <3>8
          <6>2. SizeIn(after)[p] = 0
            BY <6>1, <3>9, SizesOfRegions
          <6>3. SizeIn(used)[p] = 0
            BY <5>2, <3>6, SizesOfRegions
          <6> QED
            BY <6>2, <6>3
        <5> QED
          BY <5>1, <5>2
      <4>3. SizeIn(after) = [p \in Window |-> SizeIn(after)[p]]
            /\ SizeIn(used) = [p \in Window |-> SizeIn(used)[p]]
        BY <3>6, <3>9, SizesOfRegions
      <4>4. RegionSize' = SizeIn(after) /\ RegionSize = SizeIn(used)
        BY DEF RegionSize, after, used, SizeIn, Window
      <4>5. SizeIn(after) = [SizeIn(used) EXCEPT ![F] = n]
        BY <4>1, <4>2, <4>3
      <4> QED
        BY <4>4, <4>5
    <3>12. ASSUME NEW q \in Window, RegionSize[q] > 0 PROVE q + RegionSize[q] <= F
      <4>1. RegionSize = SizeIn(used)
        BY DEF RegionSize, used
      <4>2. \E r \in used : r.first = q
        <5>1. SUFFICES ASSUME \A r \in used : r.first # q PROVE FALSE
          OBVIOUS
        <5>2. SizeIn(used)[q] = 0
          BY <5>1, <3>6, SizesOfRegions
        <5> QED
          BY <5>2, <4>1, <3>12
      <4>3. PICK r \in used : r.first = q
        BY <4>2
      <4>4. SizeIn(used)[r.first] = r.pages
        BY <4>3, <3>6, SizesOfRegions
      <4> QED
        BY <4>1, <4>3, <4>4, <3>5
    <3>13. Grants!Grant(F, n)
      BY <3>2, <3>10, <3>11, <3>12 DEF Grants!Grant, Grants!Runs
    <3> QED
      BY <3>2, <3>10, <3>13 DEF Grants!GrantOnly
  <2>2. CASE ~RegionFits
    <3>1. UNCHANGED usedV /\ (cause # "none" => cause' # "none")
      BY <2>2, OnlySearchGrants
    <3>2. UNCHANGED RegionSize
      BY <3>1 DEF RegionSize, SizeIn, Window
    <3>3. CASE cause' # "none"
      BY <3>2, <3>3 DEF Grants!GrantOnly, Grants!Stop
    <3>4. CASE cause' = "none"
      BY <3>1, <3>2, <3>4
    <3> QED
      BY <3>3, <3>4
  <2> QED
    BY <2>1, <2>2
<1> QED
  BY <1>1, <1>2, HeapInvariant, PTL DEF Spec, ImplementsGrants, Grants!GrantSpec
=============================================================================
