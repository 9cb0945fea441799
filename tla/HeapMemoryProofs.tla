-------------------------- MODULE HeapMemoryProofs --------------------------
(***************************************************************************)
(* The memory of slabs: each slab has mapped pages of its own, across the  *)
(* page allocator, the regions and the page table.                         *)
(***************************************************************************)
EXTENDS KernelHeapProofs

(***************************************************************************)
(* Who asks for a region.                                                  *)
(***************************************************************************)
\* The calls of a stack, each with its caller.
Calls(s) == {<<s[i], IF i < Len(s) THEN s[i + 1] ELSE Frame("none", 0)>> : i \in DOMAIN s}

\* The region asked for is as long as the slabs it is for.
AsksRight(f, g) == f.at \in RegionPlaces /\ g.at \in {"create3", "special2"} =>
                       f.kind.pages = cache[g.cache].pages
AskedRight == \A c \in Calls(stack) : AsksRight(c[1], c[2])

\* The region found is as long as the slab it is for.
RightLength == TopAt(FindTops) /\ got # NoRegion => got.pages = cache[Top.cache].pages

\* LengthsInv, call by call.
LEMMA LengthsInvIs ==
    /\ LengthsInv <=> AskedRight /\ RightLength
    /\ LengthsInv' <=> AskedRight' /\ RightLength'
<1>1. {"create3", "special2"} \cup MapTops \cup WriteTops = FindTops
  BY DEF MapTops, WriteTops, FindTops
<1>2. AskedRight <=> \A i \in DOMAIN stack : AsksRight(stack[i], Below(i))
  <2>1. Calls(stack) = {<<stack[i], Below(i)>> : i \in DOMAIN stack}
    BY DEF Calls, Below
  <2>2. AskedRight <=> \A i \in DOMAIN stack :
                          AsksRight(<<stack[i], Below(i)>>[1], <<stack[i], Below(i)>>[2])
    BY <2>1 DEF AskedRight
  <2> QED
    BY <2>2
<1>3. AskedRight' <=> \A i \in DOMAIN stack' : AsksRight(stack[i], Below(i))'
  <2>1. Calls(stack)' = {<<stack[i], Below(i)>>' : i \in DOMAIN stack'}
    BY DEF Calls, Below
  <2>2. AskedRight' <=> \A c \in Calls(stack)' : (c[1].at \in RegionPlaces
           /\ c[2].at \in {"create3", "special2"} => c[1].kind.pages = cache'[c[2].cache].pages)
    BY DEF AskedRight, AsksRight
  <2> DEFINE R(f, g) == f.at \in RegionPlaces /\ g.at \in {"create3", "special2"}
                           => f.kind.pages = cache'[g.cache].pages
  <2>4. AskedRight' <=> \A c \in Calls(stack)' : R(c[1], c[2])
    BY <2>2
  <2> HIDE DEF R
  <2>5. AskedRight' <=> \A i \in DOMAIN stack' : R(stack'[i], Below(i)')
    <3>1. Calls(stack)' = {<<stack'[i], Below(i)'>> : i \in DOMAIN stack'}
      BY <2>1
    <3>2. \A i : <<stack'[i], Below(i)'>>[1] = stack'[i] /\ <<stack'[i], Below(i)'>>[2] = Below(i)'
      OBVIOUS
    <3> QED
      BY <2>4, <3>1, <3>2
  <2>3. AskedRight' <=> \A i \in DOMAIN stack' :
           (stack'[i].at \in RegionPlaces /\ Below(i)'.at \in {"create3", "special2"}
              => stack'[i].kind.pages = cache'[Below(i)'.cache].pages)
    BY <2>5 DEF R
  <2> QED
    BY <2>3 DEF AsksRight
<1>4. LengthsInv <=> AskedRight /\ RightLength
  BY <1>1, <1>2 DEF LengthsInv, RightLength, AsksRight
<1>5. LengthsInv' <=> AskedRight' /\ RightLength'
  BY <1>1, <1>3 DEF LengthsInv, RightLength, AsksRight
<1> QED
  BY <1>4, <1>5

\* The calls of the rest of a stack are calls of the stack.
LEMMA CallsOfRest ==
    ASSUME NEW T, NEW s \in Seq(T), s # <<>>
    PROVE  Calls(Tail(s)) \subseteq Calls(s)
<1> DEFINE t == Tail(s)
<1>1. /\ Len(s) \in Nat /\ Len(t) = Len(s) - 1 /\ DOMAIN t = 1..(Len(s) - 1)
      /\ DOMAIN s = 1..Len(s) /\ \A i \in 1..(Len(s) - 1) : t[i] = s[i + 1]
  OBVIOUS
<1> HIDE DEF t
<1>2. ASSUME NEW i \in DOMAIN t
      PROVE  <<t[i], IF i < Len(t) THEN t[i + 1] ELSE Frame("none", 0)>> \in Calls(s)
  <2>1. i + 1 \in DOMAIN s /\ t[i] = s[i + 1] /\ (i < Len(t) <=> i + 1 < Len(s))
    BY <1>1
  <2>2. i < Len(t) => t[i + 1] = s[i + 1 + 1]
    BY <1>1
  <2> QED
    BY <2>1, <2>2 DEF Calls
<1>3. Calls(t) \subseteq Calls(s)
  BY <1>2 DEF Calls
<1> QED
  BY <1>3 DEF t

\* A frame put on a stack is called by the frame that was its first.
LEMMA CallsOfCat ==
    ASSUME NEW T, NEW t \in Seq(T), NEW f \in T
    PROVE  Calls(<<f>> \o t) \subseteq
               Calls(t) \cup {<<f, IF t = <<>> THEN Frame("none", 0) ELSE t[1]>>}
<1> DEFINE s == <<f>> \o t
           base == IF t = <<>> THEN Frame("none", 0) ELSE t[1]
<1>1. /\ Len(t) \in Nat /\ Len(s) = Len(t) + 1 /\ DOMAIN s = 1..(Len(t) + 1)
      /\ DOMAIN t = 1..Len(t) /\ s[1] = f /\ \A i \in 1..Len(t) : s[i + 1] = t[i]
      /\ t = <<>> <=> Len(t) = 0
  OBVIOUS
<1> HIDE DEF s
<1>2. ASSUME NEW i \in DOMAIN s
      PROVE  <<s[i], IF i < Len(s) THEN s[i + 1] ELSE Frame("none", 0)>>
                 \in Calls(t) \cup {<<f, base>>}
  <2>1. CASE i = 1
    <3>1. (IF i < Len(s) THEN s[i + 1] ELSE Frame("none", 0)) = base
      BY <1>1, <2>1
    <3> QED
      BY <1>1, <2>1, <3>1
  <2>2. CASE i # 1
    <3> DEFINE j == i - 1
    <3>1. j \in 1..Len(t) /\ i = j + 1
      BY <1>1, <2>2
    <3> HIDE DEF j
    <3>2. s[i] = t[j] /\ (i < Len(s) <=> j < Len(t))
      BY <1>1, <3>1
    <3>3. j < Len(t) => s[i + 1] = t[j + 1]
      BY <1>1, <3>1
    <3> QED
      BY <1>1, <3>1, <3>2, <3>3 DEF Calls
  <2> QED
    BY <2>1, <2>2
<1>3. Calls(s) \subseteq Calls(t) \cup {<<f, base>>}
  BY <1>2 DEF Calls
<1> QED
  BY <1>3 DEF s

\* The first frame of the rest of the stack is the caller of the one at the top.
LEMMA CallerOfTop ==
    ASSUME HeapInv, stack # <<>>
    PROVE  /\ Rest \in Seq(Frames)
           /\ Below(1) = IF Rest = <<>> THEN Frame("none", 0) ELSE Rest[1]
           /\ <<Top, Below(1)>> \in Calls(stack)
<1>1. stack \in Seq(Frames)
  BY TopFacts
<1> HIDE DEF Frames
<1>2. /\ Rest \in Seq(Frames) /\ Len(stack) \in Nat /\ Len(stack) > 0
      /\ Len(Rest) = Len(stack) - 1
      /\ Top = stack[1] /\ 1 \in DOMAIN stack
  BY <1>1 DEF Rest, Top
<1>6. Len(stack) > 1 => Rest[1] = stack[2]
  BY <1>1 DEF Rest
<1>7. Rest = <<>> <=> ~(1 < Len(stack))
  <2>1. Rest = <<>> <=> Len(Rest) = 0
    BY <1>2
  <2> DEFINE a == Len(Rest)
             b == Len(stack)
  <2>2. a = b - 1 /\ b \in Nat /\ b > 0
    BY <1>2
  <2> HIDE DEF a, b
  <2>3. a = 0 <=> ~(1 < b)
    BY <2>2
  <2> QED
    BY <2>1, <2>3 DEF a, b
<1>3. Below(1) = IF 1 < Len(stack) THEN stack[2] ELSE Frame("none", 0)
  BY DEF Below
<1>4. Below(1) = IF Rest = <<>> THEN Frame("none", 0) ELSE Rest[1]
  BY <1>2, <1>3, <1>6, <1>7
<1>5. <<Top, Below(1)>> \in Calls(stack)
  <2>1. <<stack[1], IF 1 < Len(stack) THEN stack[1 + 1] ELSE Frame("none", 0)>>
            \in Calls(stack)
    BY <1>2 DEF Calls
  <2> QED
    BY <1>2, <1>3, <2>1
<1> QED
  BY <1>2, <1>4, <1>5

\* What each move does to the calls.
LEMMA CallsAfter ==
    ASSUME HeapInv, stack # <<>>
    PROVE  /\ Return => Calls(stack') \subseteq Calls(stack)
           /\ \A f \in Frames : Goto(f) =>
                 Calls(stack') \subseteq Calls(stack) \cup {<<f, Below(1)>>}
           /\ \A e, f \in Frames : Enter(e, f) =>
                 Calls(stack') \subseteq Calls(stack) \cup {<<f, Below(1)>>, <<e, f>>}
<1>1. stack \in Seq(Frames) /\ Rest \in Seq(Frames)
      /\ Below(1) = IF Rest = <<>> THEN Frame("none", 0) ELSE Rest[1]
  BY TopFacts, CallerOfTop
<1> HIDE DEF Frames
<1>2. Calls(Rest) \subseteq Calls(stack)
  BY <1>1, CallsOfRest DEF Rest
<1>3. ASSUME NEW f \in Frames
      PROVE  Calls(<<f>> \o Rest) \subseteq Calls(stack) \cup {<<f, Below(1)>>}
  BY <1>1, <1>2, CallsOfCat
<1>4. ASSUME NEW e \in Frames, NEW f \in Frames
      PROVE  Calls(<<e, f>> \o Rest) \subseteq Calls(stack) \cup {<<f, Below(1)>>, <<e, f>>}
  <2> DEFINE t == <<f>> \o Rest
  <2>1. t \in Seq(Frames) /\ t # <<>> /\ t[1] = f
    BY <1>1
  <2>2. <<e, f>> \o Rest = <<e>> \o t
    BY <1>1, TwoAdded
  <2>3. Calls(t) \subseteq Calls(stack) \cup {<<f, Below(1)>>}
    BY <1>3
  <2> HIDE DEF t
  <2>4. Calls(<<e>> \o t) \subseteq Calls(t) \cup {<<e, f>>}
    BY <2>1, CallsOfCat
  <2> QED
    BY <2>2, <2>3, <2>4
<1> QED
  BY <1>2, <1>3, <1>4 DEF Return, Goto, Enter, Rest

\* No step changes the length of the slabs of a cache.
LEMMA PagesKept ==
    HeapInv /\ [Next]_vars => \A c \in CacheIds : cache'[c].pages = cache[c].pages
<1> SUFFICES ASSUME HeapInv, [Next]_vars
             PROVE  \A c \in CacheIds : cache'[c].pages = cache[c].pages
  OBVIOUS
<1>1. ASSUME NEW d \in CacheIds, NEW k,
             k.pages = cache[d].pages, cache' = [cache EXCEPT ![d] = k]
      PROVE  \A c \in CacheIds : cache'[c].pages = cache[c].pages
  BY <1>1, CacheTypes DEF CacheIds
<1>2. \A c \in CacheIds : \A k : k = Retrieved(cache[c]) => k.pages = cache[c].pages
  BY CacheTypes, RetrievedCounts
<1>3. ASSUME NEW c \in CacheIds, NEW s, NEW k, k = WithSlab(cache[c], s)
      PROVE  k.pages = cache[c].pages
  <2>1. cache[c] \in CacheRecords
    BY CacheTypes
  <2>2. WithSlab(cache[c], s).pages = cache[c].pages
    BY <2>1, WithSlabCounts
  <2> QED
    BY <1>3, <2>2
<1>4. CASE cache' = cache
  BY <1>4
<1>5. ASSUME NEW d \in CacheIds, NEW k, cache' = [cache EXCEPT ![d] = k],
             k = Retrieved(cache[d]) \/ \E s : k = WithSlab(cache[d], s)
      PROVE  \A c \in CacheIds : cache'[c].pages = cache[c].pages
  <2>1. k.pages = cache[d].pages
    BY <1>2, <1>3, <1>5
  <2> QED
    BY <1>1, <1>5, <2>1
<1>6. CASE Stays
  BY <1>4, <1>6 DEF Stays, heap
<1>7. CASE Next /\ cause' = "none"
  <2>1. CASE AllocAddSlab \/ SpecialAddsSlab \/ AllocObject
    <3>1. Top.cache \in CacheIds
      BY <2>1, TopFacts DEF AllocAddSlab, SpecialAddsSlab, AllocObject, At
    <3>2. \/ \E s : cache' = [cache EXCEPT ![Top.cache] = WithSlab(cache[Top.cache], s)]
          \/ cache' = [cache EXCEPT ![Top.cache] = Retrieved(cache[Top.cache])]
      BY <1>7, <2>1 DEF AllocAddSlab, SpecialAddsSlab, AllocObject, Halt, At
    <3> QED
      BY <1>5, <3>1, <3>2
  <2>2. CASE SpecialPages \/ RegionFits
    <3>1. \/ cache' = cache
          \/ \E d \in {SlabCache, VregionCache} :
                cache' = [cache EXCEPT ![d] = Retrieved(cache[d])]
      BY <1>7, <2>2, RegionFitsEffect DEF SpecialPages, Halt, At
    <3> QED
      BY <1>4, <1>5, <3>1, Counters
  <2>3. CASE ObjsCacheInit
    <3>1. stack # <<>> /\ cache' = Append(cache, NewCache(Top.kind))
      BY <2>3 DEF ObjsCacheInit, At
    <3>2. cache \in Seq(CacheRecords)
      BY CacheTypes
    <3> QED
      BY <3>1, <3>2 DEF CacheIds
  <2>4. CASE Client \/ Halted \/ (Step /\ ~(AllocAddSlab \/ AllocObject \/ SpecialPages
               \/ SpecialAddsSlab \/ RegionFits \/ ObjsCacheInit))
    <3>1. cache' = cache
      BY <2>4 DEF Client, ObjsCacheAlloc, ObjsCacheCreate, VregionAlloc, ObjsCacheFree,
         ClientCall, Halt, heap, Halted, vars, Step, BootReturns, RegionAlloc, NoRegionFits,
         AllocEnter, AllocRefillVregion, AllocNeedsSlab, CreateSlabObject, CreateRegion,
         CreatePages, CreateMaps, CreateReturns, SpecialRegion, SpecialMaps, MapSlab,
         SpecialRefillsOther, SpecialReturns
    <3> QED
      BY <1>4, <3>1
  <2> QED
    BY <1>7, <2>1, <2>2, <2>3, <2>4 DEF Next
<1> QED
  BY <1>6, <1>7, StopsOrGoes

\* A search for a region that goes on is for the slab it was for.
Searches(f) == f.at \in RegionPlaces => Top.at \in RegionPlaces /\ f.kind = Top.kind

\* A new search is for as many pages as the slabs of its caller have.
AsksFor(e, f) ==
    e.at \in RegionPlaces /\ f.at \in {"create3", "special2"} =>
        f.cache \in CacheIds /\ e.kind.pages = cache[f.cache].pages

\* What each move owes to the regions asked for.
LEMMA AskedAfter ==
    ASSUME HeapInv, LengthsInv, [Next]_vars, stack # <<>>,
           \/ Return
           \/ \E f \in Frames : Goto(f) /\ Searches(f)
           \/ \E e, f \in Frames : Enter(e, f) /\ Searches(f) /\ AsksFor(e, f)
    PROVE  AskedRight'
<1> DEFINE Held(e, f) == e.at \in RegionPlaces /\ f.at \in {"create3", "special2"} =>
                             e.kind.pages = cache'[f.cache].pages
<1>1. AskedRight /\ \A c \in CacheIds : cache'[c].pages = cache[c].pages
  BY PagesKept, LengthsInvIs
<1>2. \A c \in Calls(stack) : Held(c[1], c[2])
  <2> SUFFICES ASSUME NEW i \in DOMAIN stack PROVE Held(stack[i], Below(i))
    BY DEF Calls, Below
  <2>1. <<stack[i], Below(i)>> \in Calls(stack)
    BY DEF Calls, Below
  <2>2. AsksRight(stack[i], Below(i))
    BY <1>1, <2>1 DEF AskedRight
  <2>3. Below(i).at \in {"create3", "special2"} => Below(i).cache \in CacheIds
    <3>1. Below(i).at # "none" => Below(i) \in ToSet(stack)
      BY FramesNow DEF Below, Frame, FrameOf, ToSet
    <3> QED
      BY <3>1, FramesNow DEF FrameOK
  <2> QED
    BY <1>1, <2>2, <2>3 DEF AsksRight
<1>3. <<Top, Below(1)>> \in Calls(stack)
  BY CallerOfTop
<1>4. ASSUME NEW f, Searches(f) PROVE Held(f, Below(1))
  BY <1>2, <1>3, <1>4 DEF Searches
<1>5. ASSUME NEW e, NEW f, AsksFor(e, f) PROVE Held(e, f)
  BY <1>1, <1>5 DEF AsksFor
<1>6. (\A c \in Calls(stack') : Held(c[1], c[2])) => AskedRight'
  BY DEF AskedRight, AsksRight, Calls
<1> HIDE DEF Held
<1>7. \A c \in Calls(stack') : Held(c[1], c[2])
  <2>1. CASE Return
    BY <1>2, <2>1, CallsAfter
  <2>2. CASE \E f \in Frames : Goto(f) /\ Searches(f)
    <3>1. PICK f \in Frames : Goto(f) /\ Searches(f)
      BY <2>2
    <3>2. Calls(stack') \subseteq Calls(stack) \cup {<<f, Below(1)>>}
      BY <3>1, CallsAfter
    <3> QED
      BY <1>2, <1>4, <3>1, <3>2
  <2>3. CASE \E e, f \in Frames : Enter(e, f) /\ Searches(f) /\ AsksFor(e, f)
    <3>1. PICK e \in Frames, f \in Frames : Enter(e, f) /\ Searches(f) /\ AsksFor(e, f)
      BY <2>3
    <3>2. Calls(stack') \subseteq Calls(stack) \cup {<<f, Below(1)>>, <<e, f>>}
      BY <3>1, CallsAfter
    <3> QED
      BY <1>2, <1>4, <1>5, <3>1, <3>2
  <2> QED
    BY <2>1, <2>2, <2>3
<1> QED
  BY <1>6, <1>7

\* The frames that moves put on the stack.
LEMMA FrameMoved ==
    ASSUME HeapInv, stack # <<>>, NEW p \in Places
    PROVE  /\ [Top EXCEPT !.at = p] \in Frames /\ [Top EXCEPT !.at = p].at = p
           /\ [Top EXCEPT !.at = p].cache = Top.cache
           /\ [Top EXCEPT !.at = p].kind = Top.kind
           /\ \A n \in Nat : /\ [Top EXCEPT !.at = p, !.slab = n] \in Frames
                             /\ [Top EXCEPT !.at = p, !.slab = n].at = p
                             /\ [Top EXCEPT !.at = p, !.slab = n].cache = Top.cache
BY TopFacts DEF Frames

\* Every step asks for regions as long as the slabs they are for.
LEMMA AlwaysAsks == MemoryInv /\ [Next]_vars => AskedRight'
<1> SUFFICES ASSUME MemoryInv, [Next]_vars PROVE AskedRight'
  OBVIOUS
<1>1. HeapInv /\ LengthsInv /\ AskedRight
  BY LengthsInvIs DEF MemoryInv
<1>2. CASE Stays
  <2>1. stack' = stack /\ cache' = cache
    BY <1>2 DEF Stays, heap
  <2> QED
    BY <1>1, <2>1 DEF AskedRight, AsksRight
<1>3. CASE Client /\ cause' = "none"
  <2>1. \/ \E e : stack' = <<e>>
        \/ \E e, k : stack' = <<e, FrameOf("register", ObjsCache, k)>>
    BY <1>3 DEF Client, ObjsCacheAlloc, ObjsCacheCreate, VregionAlloc, ObjsCacheFree,
       ClientCall, Halt
  <2>2. \A c \in Calls(stack') : c[2].at \in {"none", "register"}
    BY <2>1, CallFrameAt DEF Calls
  <2> QED
    BY <2>2 DEF AskedRight, AsksRight, Calls
<1>4. CASE Step /\ cause' = "none"
  <2> USE DEF At, Halt
  <2>1. stack # <<>>
    BY <1>4, <1>1, RegionFitsEffect DEF Step, BootReturns, RegionAlloc, NoRegionFits, RegionFits,
       AllocEnter, AllocRefillVregion, AllocNeedsSlab, AllocAddSlab, AllocObject,
       CreateSlabObject, CreateRegion, CreatePages, CreateMaps, CreateReturns,
       SpecialRegion, SpecialPages, SpecialMaps, MapSlab, SpecialAddsSlab,
       SpecialRefillsOther, SpecialReturns, ObjsCacheInit
  <2>9. ASSUME NEW f \in Frames, Goto(f), Searches(f) PROVE AskedRight'
    BY <1>1, <2>1, <2>9, AskedAfter
  <2>2. CASE \/ BootReturns \/ NoRegionFits \/ AllocObject \/ CreateReturns
             \/ SpecialReturns \/ ObjsCacheInit \/ RegionFits
    <3>1. Return
      BY <1>1, <1>4, <2>2, RegionFitsEffect DEF BootReturns, NoRegionFits, AllocObject,
         CreateReturns, SpecialReturns, ObjsCacheInit
    <3> QED
      BY <1>1, <2>1, <3>1, AskedAfter
  <2>3. CASE AllocAddSlab \/ CreatePages \/ CreateMaps \/ SpecialMaps \/ SpecialAddsSlab
    <3>1. \E p \in Places \ RegionPlaces : Goto([Top EXCEPT !.at = p])
      BY <1>4, <2>3 DEF AllocAddSlab, CreatePages, CreateMaps, SpecialMaps,
         SpecialAddsSlab, MapSlab, Places, RegionPlaces
    <3>2. PICK p \in Places \ RegionPlaces : Goto([Top EXCEPT !.at = p])
      BY <3>1
    <3> DEFINE f == [Top EXCEPT !.at = p]
    <3>3. f \in Frames /\ f.at = p
      BY <1>1, <2>1, FrameMoved
    <3>4. Goto(f)
      BY <3>2
    <3> HIDE DEF f
    <3> QED
      BY <2>9, <3>3, <3>4 DEF Searches
  <2>4. CASE SpecialPages
    <3> DEFINE n == cache[SlabCache].used + 1
    <3>1. Goto([Top EXCEPT !.at = "special3", !.slab = n])
      BY <1>4, <2>4 DEF SpecialPages
    <3>2. n \in Nat
      BY <1>1, Counters
    <3> HIDE DEF n
    <3> DEFINE f == [Top EXCEPT !.at = "special3", !.slab = n]
    <3>3. "special3" \in Places /\ "special3" \notin RegionPlaces
      BY DEF Places, RegionPlaces
    <3>4. f \in Frames /\ f.at = "special3"
      BY <1>1, <2>1, <3>2, <3>3, FrameMoved
    <3>5. Goto(f)
      BY <3>1
    <3> HIDE DEF f
    <3> QED
      BY <2>9, <3>3, <3>4, <3>5 DEF Searches
  <2>5. CASE RegionAlloc \/ AllocEnter \/ AllocRefillVregion \/ SpecialRefillsOther
    <3>1. \E p \in Places : /\ p \in RegionPlaces => Top.at \in RegionPlaces
                            /\ p \notin {"create3", "special2"}
                            /\ \/ Goto([Top EXCEPT !.at = p])
                               \/ \E c \in {SlabCache, VregionCache} :
                                     Enter(Frame("special", c), [Top EXCEPT !.at = p])
      BY <1>4, <2>5 DEF RegionAlloc, AllocEnter, AllocRefillVregion, SpecialRefillsOther,
         CallIf, Places, RegionPlaces, Other
    <3>2. PICK p \in Places : /\ p \in RegionPlaces => Top.at \in RegionPlaces
                              /\ p \notin {"create3", "special2"}
                              /\ \/ Goto([Top EXCEPT !.at = p])
                                 \/ \E c \in {SlabCache, VregionCache} :
                                       Enter(Frame("special", c), [Top EXCEPT !.at = p])
      BY <3>1
    <3> DEFINE f == [Top EXCEPT !.at = p]
    <3>3. f \in Frames /\ f.at = p /\ f.kind = Top.kind /\ Searches(f)
      BY <1>1, <2>1, <3>2, FrameMoved DEF Searches
    <3>4. \A c \in {SlabCache, VregionCache} : /\ Frame("special", c) \in Frames
                                              /\ Frame("special", c).at \notin RegionPlaces
      BY NewSpecial DEF RegionPlaces
    <3>5. Goto(f) \/ \E c \in {SlabCache, VregionCache} : Enter(Frame("special", c), f)
      BY <3>2
    <3> HIDE DEF f
    <3> QED
      BY <1>1, <2>1, <3>3, <3>4, <3>5, AskedAfter DEF AsksFor
  <2>6. CASE AllocNeedsSlab \/ CreateSlabObject
    <3>1. \E p \in Places \ RegionPlaces :
             \/ Goto([Top EXCEPT !.at = p])
             \/ \E q \in Places \ RegionPlaces, c \in CacheIds :
                   Enter(Frame(q, c), [Top EXCEPT !.at = p])
      <4>1. Top.cache \in CacheIds /\ SlabCache \in CacheIds
        BY <1>1, <2>1, TopFacts, Counters
      <4> QED
        BY <1>4, <2>6, <4>1 DEF AllocNeedsSlab, CreateSlabObject, Places, RegionPlaces
    <3>2. ASSUME NEW q \in Places \ RegionPlaces, NEW c \in CacheIds
          PROVE  Frame(q, c) \in Frames /\ Frame(q, c).at \notin RegionPlaces
      <4>1. c \in Nat
        BY <1>1, CacheTypes
      <4> QED
        BY <4>1, CallFrame
    <3>3. PICK p \in Places \ RegionPlaces :
             \/ Goto([Top EXCEPT !.at = p])
             \/ \E q \in Places \ RegionPlaces, c \in CacheIds :
                   Enter(Frame(q, c), [Top EXCEPT !.at = p])
      BY <3>1
    <3> DEFINE f == [Top EXCEPT !.at = p]
    <3>4. f \in Frames /\ Searches(f)
      BY <1>1, <2>1, <3>3, FrameMoved DEF Searches
    <3>5. Goto(f) \/ \E q \in Places \ RegionPlaces, c \in CacheIds : Enter(Frame(q, c), f)
      BY <3>3
    <3> HIDE DEF f
    <3> QED
      BY <1>1, <2>1, <3>2, <3>4, <3>5, AskedAfter DEF AsksFor
  <2>7. CASE CreateRegion
    <3> DEFINE n == cache[Top.cache].pages
               e == RegionCall("region", n)
               f == [Top EXCEPT !.at = "create3", !.slab = ret]
    <3>1. Enter(e, f)
      BY <2>7 DEF CreateRegion
    <3>2. Top.cache \in CacheIds /\ n \in Nat /\ ret \in Nat
      BY <1>1, <2>1, TopFacts, Counters DEF HeapInv, TypeOK
    <3>3. f \in Frames /\ f.cache = Top.cache /\ f.at = "create3"
      <4>1. "create3" \in Places
        BY DEF Places
      <4> QED
        BY <1>1, <2>1, <3>2, <4>1, FrameMoved
    <3>4. e \in Frames /\ e.kind.pages = n
      <4> HIDE DEF n
      <4> QED
        BY <3>2, NewRegionCall DEF RegionPlaces
    <3>5. Searches(f) /\ AsksFor(e, f)
      BY <3>2, <3>3, <3>4 DEF Searches, AsksFor, RegionPlaces
    <3> HIDE DEF e, f
    <3> QED
      BY <1>1, <2>1, <3>1, <3>3, <3>4, <3>5, AskedAfter
  <2>8. CASE SpecialRegion
    <3> DEFINE e == RegionCall("_region", 1)
               f == [Top EXCEPT !.at = "special2"]
    <3>1. Enter(e, f) /\ Top.at = "special"
      BY <1>4, <2>8 DEF SpecialRegion
    <3>2. Top.cache \in CacheIds /\ cache[Top.cache].pages = 1
      <4>1. Top.cache \in {SlabCache, VregionCache}
        BY <1>1, <2>1, <3>1, RefillTop DEF Refill
      <4>2. CachesInv /\ Top.cache \in CacheIds
        BY <1>1, <2>1, TopFacts DEF HeapInv
      <4>3. cache[SlabCache].pages = 1 /\ cache[VregionCache].pages = 1
        BY <4>2 DEF CachesInv
      <4> QED
        BY <4>1, <4>2, <4>3
    <3>3. f \in Frames /\ f.cache = Top.cache /\ f.at = "special2"
      <4>1. "special2" \in Places
        BY DEF Places
      <4> QED
        BY <1>1, <2>1, <4>1, FrameMoved
    <3>4. e \in Frames /\ e.kind.pages = 1
      BY NewRegionCall DEF RegionPlaces
    <3>5. Searches(f) /\ AsksFor(e, f)
      BY <3>2, <3>3, <3>4 DEF Searches, AsksFor, RegionPlaces
    <3> HIDE DEF e, f
    <3> QED
      BY <1>1, <2>1, <3>1, <3>3, <3>4, <3>5, AskedAfter
  <2> QED
    BY <1>4, <2>2, <2>3, <2>4, <2>5, <2>6, <2>7, <2>8 DEF Step
<1>5. CASE Halted
  <2>1. Stays
    BY <1>5 DEF Halted, vars, Stays, heap, memory, regions
  <2> QED
    BY <1>2, <2>1
<1> QED
  BY <1>1, <1>2, <1>3, <1>4, <1>5, StopsOrGoes DEF Next

\* The step of a function that has found a region, or just searched for one.
HasFound == \/ CreatePages \/ CreateMaps \/ SpecialMaps \/ SpecialPages
            \/ RegionFits \/ NoRegionFits

\* After any other step no region is in hand.
LEMMA OthersFindNothing ==
    ASSUME HeapInv, [Next]_vars, cause' = "none", ~HasFound, ~Stays
    PROVE  ~TopAt(FindTops)'
<1>1. Next
  BY StopsOrGoes
<1>2. CASE Client
  BY <1>2, EndsGot
<1>3. CASE Step
  BY <1>3, EndsGot, CallsGot, SetUpGot DEF Step, HasFound
<1>4. CASE Halted
  BY <1>4 DEF Halted, vars, Stays, heap, memory, regions
<1> QED
  BY <1>1, <1>2, <1>3, <1>4 DEF Next

\* Every step that has a region in hand goes on with its length.
LEMMA AlwaysRight == MemoryInv /\ [Next]_vars => RightLength'
<1> SUFFICES ASSUME MemoryInv, [Next]_vars PROVE RightLength'
  OBVIOUS
<1>1. HeapInv /\ AskedRight /\ RightLength
  BY LengthsInvIs DEF MemoryInv
<1>2. \A c \in CacheIds : cache'[c].pages = cache[c].pages
  BY <1>1, PagesKept
<1>3. CASE Stays
  <2>1. UNCHANGED <<stack, cache, got>>
    BY <1>3 DEF Stays, heap
  <2> QED
    BY <1>1, <2>1 DEF RightLength, TopAt, Top
<1>4. CASE ~HasFound /\ ~Stays /\ cause' = "none"
  BY <1>1, <1>4, OthersFindNothing DEF RightLength
<1>5. CASE (CreatePages \/ CreateMaps \/ SpecialMaps \/ SpecialPages) /\ cause' = "none"
  <2>1. /\ stack # <<>> /\ got' = got /\ Top.at \in FindTops
        /\ \/ \E p \in Places : Goto([Top EXCEPT !.at = p])
           \/ \E p \in Places : \E n \in Nat : Goto([Top EXCEPT !.at = p, !.slab = n])
    <3>1. cache[SlabCache].used + 1 \in Nat
      BY <1>1, Counters
    <3> QED
      BY <1>5, <3>1 DEF CreatePages, CreateMaps, SpecialMaps, SpecialPages, MapSlab, At, Halt,
         Places, FindTops
  <2>2. Top'.cache = Top.cache
    <3>1. \A f : Goto(f) => Top' = f
      BY <1>1, <2>1, TopAfter
    <3>2. \A p \in Places : [Top EXCEPT !.at = p].cache = Top.cache
      BY <1>1, <2>1, FrameMoved
    <3>3. \A p \in Places : \A n \in Nat : [Top EXCEPT !.at = p, !.slab = n].cache = Top.cache
      BY <1>1, <2>1, FrameMoved
    <3>4. ASSUME NEW p \in Places, Goto([Top EXCEPT !.at = p]) PROVE Top'.cache = Top.cache
      <4>1. Top' = [Top EXCEPT !.at = p]
        BY <3>1, <3>4
      <4> QED
        BY <3>2, <4>1
    <3>5. ASSUME NEW p \in Places, NEW n \in Nat, Goto([Top EXCEPT !.at = p, !.slab = n])
          PROVE  Top'.cache = Top.cache
      <4>1. Top' = [Top EXCEPT !.at = p, !.slab = n]
        BY <3>1, <3>5
      <4> QED
        BY <3>3, <4>1
    <3> QED
      BY <2>1, <3>4, <3>5
  <2>3. Top.cache \in CacheIds
    BY <1>1, <2>1, TopFacts
  <2>4. got # NoRegion => got.pages = cache[Top.cache].pages
    <3>1. TopAt(FindTops)
      BY <2>1 DEF TopAt
    <3> QED
      BY <1>1, <3>1 DEF RightLength
  <2>5. got # NoRegion => got.pages = cache'[Top'.cache].pages
    BY <1>2, <2>2, <2>3, <2>4
  <2>6. got' # NoRegion => got'.pages = cache'[Top'.cache].pages
    BY <2>1, <2>5
  <2> QED
    BY <2>6, ZenonT(60) DEF RightLength
<1>6. CASE NoRegionFits /\ cause' = "none"
  BY <1>6 DEF NoRegionFits, Halt, At, RightLength
<1>7. CASE RegionFits
  <2>1. stack # <<>> /\ Top.at = "_region" /\ Return /\ got'.pages = Top.kind.pages
    BY <1>1, <1>7, RegionFitsEffect DEF Region
  <2>2. SUFFICES ASSUME TopAt(FindTops)' PROVE got'.pages = cache'[Top'.cache].pages
    BY DEF RightLength
  <2>3. Top' = Below(1) /\ Below(1).at \in {"create3", "special2"}
    <3>1. Below(1).at \in {"none", "create3", "special2"}
      BY <1>1, <2>1, TopFacts DEF MayCall, AllocPlaces, CreatePlaces, Refill
    <3> QED
      BY <1>1, <2>1, <2>2, <3>1, ReturnParts DEF TopAt, FindTops
  <2>4. Top.kind.pages = cache[Below(1).cache].pages
    BY <1>1, <2>1, <2>3, CallerOfTop DEF AskedRight, AsksRight, RegionPlaces
  <2>5. Below(1).cache \in CacheIds
    <3>1. Below(1) \in ToSet(stack)
      BY <2>3, <1>1, FramesNow DEF Below, Frame, FrameOf, ToSet
    <3> QED
      BY <1>1, <3>1, FramesNow DEF FrameOK
  <2> QED
    BY <1>2, <2>1, <2>3, <2>4, <2>5
<1> QED
  BY <1>1, <1>3, <1>4, <1>5, <1>6, <1>7, StopsOrGoes, RegionFitsEffect DEF HasFound

\* LengthsInv is kept by every step.
LEMMA AlwaysLengths == MemoryInv /\ [Next]_vars => LengthsInv'
BY AlwaysAsks, AlwaysRight, LengthsInvIs

(***************************************************************************)
(* The memory of slabs, part by part.                                      *)
(***************************************************************************)
\* The pages of each slab are mapped to one block.
PagesBacked ==
    \A s \in DOMAIN slab : \E b \in DOMAIN granted : \A v \in PagesOf(slab[s].region) :
        mapped[v] = Page(b, v - slab[s].region.first + 1)

\* No page of a block is mapped twice.
PagesApart == \A u, v \in WholeWindow : u # v /\ mapped[u] # NoPage => mapped[u] # mapped[v]

\* What is mapped is a slab's, or will be.
SlabsMapped ==
    \A v \in WholeWindow : mapped[v] # NoPage =>
        \/ \E s \in DOMAIN slab : v \in PagesOf(slab[s].region)
        \/ TopAt(WriteTops) /\ v \in PagesOf(got)

\* The marks on the pages of blocks name the slabs mapped to them.
MarksTrue ==
    \A b \in DOMAIN granted : \A i \in DOMAIN granted[b] : granted[b][i] # 0 =>
        /\ granted[b][i] \in DOMAIN slab
        /\ \E v \in PagesOf(slab[granted[b][i]].region) : mapped[v] = Page(b, i)

\* The block just granted, before and after it is mapped.
BlockInHand ==
    /\ TopAt(MapTops \cup WriteTops) =>
          \A i \in DOMAIN granted[LastBlock] : granted[LastBlock][i] = 0
    /\ TopAt(MapTops) => \A v \in WholeWindow : mapped[v].block # LastBlock
    /\ TopAt(WriteTops) =>
          \A v \in PagesOf(got) : mapped[v] = Page(LastBlock, v - got.first + 1)

MemoryParts == /\ granted # <<>> /\ PagesBacked /\ PagesApart /\ SlabsMapped /\ MarksTrue
               /\ BlockInHand

\* The invariant of the memory is its parts, and that no slab is written too early.
LEMMA MemoryPartsNow == MemoryInv => HeapInv /\ LengthsInv /\ MemoryParts /\ cause # "fault"
<1> SUFFICES ASSUME MemoryInv PROVE HeapInv /\ LengthsInv /\ MemoryParts /\ cause # "fault"
  OBVIOUS
<1>1. HeapInv /\ LengthsInv /\ BlocksInv /\ SlabsBacked
  BY DEF MemoryInv
<1>2. PagesBacked /\ PagesApart
  BY <1>1 DEF SlabsBacked, PagesBacked, PagesApart
<1>3. MarksTrue
  BY <1>1 DEF BlocksInv, SlabsBacked, MarksTrue
<1>4. granted # <<>> /\ SlabsMapped /\ BlockInHand
  BY <1>1 DEF BlocksInv, SlabsMapped, BlockInHand
<1>5. cause # "fault"
  BY <1>1 DEF SlabsBacked
<1> QED
  BY <1>1, <1>2, <1>3, <1>4, <1>5 DEF MemoryParts

\* From the parts back to the invariant, after a step.
LEMMA MemoryPartsThen ==
    ASSUME MemoryParts', cause' # "fault", NEW T, stack' \in Seq(T)
    PROVE  BlocksInv' /\ SlabsBacked'
<1>1. BlocksInv'
  BY DEF MemoryParts, MarksTrue, SlabsMapped, BlockInHand, BlocksInv
<1>2. (\A i \in DOMAIN stack' : stack'[i].at \notin WriteTops) => ~TopAt(WriteTops)'
  BY DEF TopAt, Top
<1>3. (\A i \in DOMAIN stack' : stack'[i].at \notin {"create5", "special4"}) =>
         \A v \in WholeWindow : mapped'[v] # NoPage =>
             \E s \in DOMAIN slab' : v \in PagesOf(slab'[s].region)
  BY <1>2 DEF MemoryParts, SlabsMapped, WriteTops
<1> QED
  BY <1>1, <1>3 DEF SlabsBacked, MemoryParts, PagesBacked, PagesApart, MarksTrue

\* The types of blocks and mappings.
LEMMA MemoryTypes ==
    ASSUME HeapInv
    PROVE  /\ granted \in Seq(Seq(Nat)) /\ LastBlock \in Nat /\ DOMAIN granted = 1..LastBlock
           /\ \A b \in DOMAIN granted : granted[b] \in Seq(Nat)
           /\ \A v \in WholeWindow : /\ mapped[v].block \in 0..LastBlock
                                     /\ mapped[v] = Page(mapped[v].block, mapped[v].page)
           /\ WholeWindow \subseteq Int /\ DOMAIN mapped = WholeWindow
<1>1. granted \in Seq(Seq(Nat)) /\ mapped \in [WholeWindow -> [block : 0..Len(granted), page : Nat]]
  BY DEF HeapInv, TypeOK
<1>2. Len(granted) \in Nat /\ DOMAIN granted = 1..Len(granted)
      /\ \A b \in DOMAIN granted : granted[b] \in Seq(Nat)
  BY <1>1
<1>3. WholeWindow \subseteq Int
  BY WindowAssumption DEF WholeWindow
<1> QED
  BY <1>1, <1>2, <1>3 DEF LastBlock, Page

\* Slabs and regions stay as they are, up to the free objects of a slab.
RegionsStay == /\ DOMAIN slab' = DOMAIN slab
               /\ \A s \in DOMAIN slab : slab'[s].region = slab[s].region

\* A step that leaves blocks, mappings and the regions of slabs alone, between
\* functions that have no block in hand.
LEMMA PlainMemory ==
    ASSUME HeapInv, MemoryParts, UNCHANGED memory, RegionsStay,
           ~TopAt(WriteTops), ~TopAt(MapTops \cup WriteTops)'
    PROVE  MemoryParts'
<1>1. UNCHANGED <<granted, mapped>>
  BY DEF memory
<1>2. granted' # <<>> /\ PagesBacked' /\ PagesApart' /\ MarksTrue'
  BY <1>1 DEF MemoryParts, PagesBacked, PagesApart, MarksTrue, RegionsStay
<1>3. SlabsMapped'
  BY <1>1 DEF MemoryParts, SlabsMapped, RegionsStay
<1>4. BlockInHand'
  BY DEF BlockInHand, TopAt
<1> QED
  BY <1>2, <1>3, <1>4 DEF MemoryParts

\* ppages_alloc grants a new block.
LEMMA GrantMemory ==
    ASSUME HeapInv, MemoryParts, NEW n \in Lengths, PpagesAlloc(n), mapped' = mapped,
           RegionsStay, ~TopAt(WriteTops), ~TopAt(WriteTops)'
    PROVE  MemoryParts'
<1>1. PICK size : granted' = Append(granted, [i \in 1..size |-> 0])
  BY DEF PpagesAlloc
<1>2. /\ LastBlock \in Nat /\ LastBlock' = LastBlock + 1
      /\ DOMAIN granted = 1..LastBlock /\ DOMAIN granted' = 1..LastBlock'
      /\ granted' # <<>>
      /\ \A b \in DOMAIN granted : granted'[b] = granted[b]
      /\ granted'[LastBlock'] = [i \in 1..size |-> 0]
  <2>1. granted \in Seq(Seq(Nat)) /\ Len(granted') = Len(granted) + 1 /\ granted' \in Seq(Seq(Nat))
    BY GrantTyped, MemoryTypes
  <2> DEFINE T == Seq(Nat)
             e == [i \in 1..size |-> 0]
  <2>2. granted \in Seq(T) /\ granted' \in Seq(T) /\ Len(granted') = Len(granted) + 1
        /\ granted' = Append(granted, e)
    BY <1>1, <2>1
  <2> HIDE DEF T, e
  <2>3. /\ \A b \in 1..Len(granted) : granted'[b] = granted[b]
        /\ granted'[Len(granted) + 1] = e
        /\ Len(granted) \in Nat /\ DOMAIN granted = 1..Len(granted)
        /\ DOMAIN granted' = 1..(Len(granted) + 1) /\ granted' # <<>>
    BY <2>2
  <2> QED
    BY <2>2, <2>3 DEF LastBlock, e
<1>3. \A b \in DOMAIN granted' : b \in DOMAIN granted \/ b = LastBlock'
  BY <1>2
<1>4. \A i \in DOMAIN granted'[LastBlock'] : granted'[LastBlock'][i] = 0
  BY <1>2
<1>5. PagesBacked'
  BY <1>2 DEF MemoryParts, PagesBacked, RegionsStay
<1>6. PagesApart' /\ SlabsMapped'
  BY DEF MemoryParts, PagesApart, SlabsMapped, RegionsStay
<1>7. MarksTrue'
  <2>1. SUFFICES ASSUME NEW b \in DOMAIN granted', NEW i \in DOMAIN granted'[b],
                        granted'[b][i] # 0
                 PROVE  /\ granted'[b][i] \in DOMAIN slab'
                        /\ \E v \in PagesOf(slab'[granted'[b][i]].region) : mapped'[v] = Page(b, i)
    BY DEF MarksTrue
  <2>2. b \in DOMAIN granted /\ granted'[b] = granted[b]
    BY <1>2, <1>3, <1>4, <2>1
  <2>3. /\ granted[b][i] \in DOMAIN slab
        /\ \E v \in PagesOf(slab[granted[b][i]].region) : mapped[v] = Page(b, i)
    BY <2>1, <2>2 DEF MemoryParts, MarksTrue
  <2> QED
    BY <2>2, <2>3 DEF RegionsStay
<1>8. BlockInHand'
  <2>1. \A v \in WholeWindow : mapped'[v].block # LastBlock'
    BY <1>2, MemoryTypes
  <2> QED
    BY <1>4, <2>1 DEF BlockInHand, TopAt
<1> QED
  BY <1>2, <1>5, <1>6, <1>7, <1>8 DEF MemoryParts

\* The region that a function has found is in the window, apart from all slabs.
LEMMA FoundRegion ==
    ASSUME HeapInv, TopAt(FindTops), got # NoRegion
    PROVE  /\ got.first \in Nat /\ got.pages \in Nat /\ got.pages > 0
           /\ PagesOf(got) \subseteq WholeWindow
           /\ \A s \in DOMAIN slab : PagesOf(slab[s].region) \cap PagesOf(got) = {}
<1>1. PICK i \in DOMAIN usedV : got = usedV[i]
  BY GotInvIs DEF HeapInv, Found, ToSet
<1>2. \A s \in DOMAIN slab : \E j \in DOMAIN usedV : slab[s].region = usedV[j] /\ j # i
  BY <1>1, GotInvIs DEF HeapInv, Found, RegionsOwned, ToSet
<1> DEFINE f(j) == usedV[j].first
           n(j) == usedV[j].pages
<1>3. \A j \in DOMAIN usedV : /\ f(j) \in Nat /\ n(j) \in Nat /\ n(j) > 0
                              /\ f(j) >= FirstVpn - 3 /\ f(j) + n(j) <= LastVpn + 1
                              /\ PagesOf(usedV[j]) = f(j) .. (f(j) + n(j) - 1)
  <2>1. Frontier \in Nat /\ Frontier <= LastVpn + 1 /\ LastVpn \in Nat
    BY UsedApart, WindowAssumption
  <2>2. ASSUME NEW j \in DOMAIN usedV
        PROVE  /\ f(j) \in Nat /\ n(j) \in Nat /\ n(j) > 0 /\ f(j) >= FirstVpn - 3
               /\ f(j) + n(j) <= Frontier
    BY UsedApart
  <2>3. ASSUME NEW j \in DOMAIN usedV PROVE PagesOf(usedV[j]) = f(j) .. (f(j) + n(j) - 1)
    BY DEF PagesOf
  <2> HIDE DEF f, n
  <2> QED
    BY <2>1, <2>2, <2>3
<1>4. \A j \in DOMAIN usedV : j # i => f(i) + n(i) <= f(j) \/ f(j) + n(j) <= f(i)
  BY UsedApart
<1>5. got.first = f(i) /\ got.pages = n(i)
  BY <1>1
<1> HIDE DEF f, n
<1>6. \A j \in DOMAIN usedV : j # i => PagesOf(usedV[j]) \cap PagesOf(usedV[i]) = {}
  <2> SUFFICES ASSUME NEW j \in DOMAIN usedV, j # i
               PROVE  (f(j) .. (f(j) + n(j) - 1)) \cap (f(i) .. (f(i) + n(i) - 1)) = {}
    BY <1>3
  <2> DEFINE a == f(i)
             b == n(i)
             c == f(j)
             d == n(j)
  <2>1. a \in Nat /\ b \in Nat /\ c \in Nat /\ d \in Nat /\ (a + b <= c \/ c + d <= a)
    BY <1>3, <1>4
  <2> HIDE DEF a, b, c, d
  <2>2. (c .. (c + d - 1)) \cap (a .. (a + b - 1)) = {}
    BY <2>1
  <2> QED
    BY <2>2 DEF a, b, c, d
<1>7. PagesOf(usedV[i]) \subseteq WholeWindow
  BY <1>3, WindowAssumption DEF WholeWindow
<1> QED
  BY <1>1, <1>2, <1>3, <1>5, <1>6, <1>7

\* map_pages maps the region found to the block just granted.
LEMMA MapMemory ==
    ASSUME HeapInv, LengthsInv, MemoryParts, TopAt(MapTops), got # NoRegion,
           mapped' = MapPages(Len(granted), got.first, cache[Top.cache].pages),
           UNCHANGED <<granted, got>>, RegionsStay, TopAt(WriteTops)', ~TopAt(MapTops)'
    PROVE  MemoryParts'
<1> DEFINE b == LastBlock
<1>1. TopAt(FindTops) /\ got.pages = cache[Top.cache].pages
  BY LengthsInvIs DEF RightLength, TopAt, MapTops, FindTops
<1>2. /\ got.first \in Nat /\ got.pages \in Nat /\ PagesOf(got) \subseteq WholeWindow
      /\ \A s \in DOMAIN slab : PagesOf(slab[s].region) \cap PagesOf(got) = {}
  BY <1>1, FoundRegion
<1>3. mapped' = [v \in WholeWindow |-> IF v \in PagesOf(got)
                                       THEN Page(b, v - got.first + 1) ELSE mapped[v]]
  BY <1>1 DEF MapPages, PagesOf, LastBlock
<1>4. /\ \A v \in PagesOf(got) : mapped'[v] = Page(b, v - got.first + 1)
      /\ \A v \in WholeWindow : v \notin PagesOf(got) => mapped'[v] = mapped[v]
  BY <1>2, <1>3
<1>6. b \in Nat /\ b > 0
  BY MemoryTypes DEF MemoryParts
<1>7. \A v \in WholeWindow : v \in Int /\ mapped[v].block # b
  BY MemoryTypes DEF MemoryParts, BlockInHand
<1>8. \A m, n : Page(b, m).block = b /\ Page(b, m).page = m /\ NoPage.block = 0
  BY DEF Page, NoPage
<1> HIDE DEF b
<1>9. \A s \in DOMAIN slab : \A v \in PagesOf(slab[s].region) :
         v \in WholeWindow /\ mapped'[v] = mapped[v]
  <2>1. \A s \in DOMAIN slab : PagesOf(slab[s].region) \subseteq WholeWindow
    <3> SUFFICES ASSUME NEW s \in DOMAIN slab, NEW v \in PagesOf(slab[s].region)
                 PROVE  v \in WholeWindow
      OBVIOUS
    <3>1. PICK j \in DOMAIN usedV : slab[s].region = usedV[j]
      BY GotInvIs DEF HeapInv, RegionsOwned, ToSet
    <3> DEFINE f == usedV[j].first
               n == usedV[j].pages
    <3>2. /\ f \in Nat /\ n \in Nat /\ f >= FirstVpn - 3 /\ f + n <= Frontier
          /\ Frontier \in Nat /\ Frontier <= LastVpn + 1 /\ v \in f .. (f + n - 1)
      BY <3>1, UsedApart DEF PagesOf
    <3> HIDE DEF f, n
    <3> QED
      BY <3>2, WindowAssumption DEF WholeWindow
  <2> QED
    BY <1>2, <1>4, <2>1
<1>10. PagesBacked'
  BY <1>9 DEF MemoryParts, PagesBacked, RegionsStay
<1>11. PagesApart'
  <2> SUFFICES ASSUME NEW u \in WholeWindow, NEW v \in WholeWindow, u # v, mapped'[u] # NoPage
               PROVE  mapped'[u] # mapped'[v]
    BY DEF PagesApart
  <2>1. CASE u \in PagesOf(got) /\ v \in PagesOf(got)
    <3>1. u - got.first + 1 # v - got.first + 1
      BY <1>2, <1>7
    <3> QED
      BY <1>4, <1>8, <2>1, <3>1
  <2>2. CASE u \in PagesOf(got) /\ v \notin PagesOf(got)
    BY <1>4, <1>7, <1>8, <2>2
  <2>3. CASE u \notin PagesOf(got) /\ v \in PagesOf(got)
    BY <1>4, <1>7, <1>8, <2>3
  <2>4. CASE u \notin PagesOf(got) /\ v \notin PagesOf(got)
    BY <1>4, <2>4 DEF MemoryParts, PagesApart
  <2> QED
    BY <2>1, <2>2, <2>3, <2>4
<1>12. SlabsMapped'
  <2>1. ~TopAt(WriteTops)
    BY DEF TopAt, MapTops, WriteTops
  <2> QED
    BY <1>4, <2>1 DEF MemoryParts, SlabsMapped, RegionsStay
<1>13. MarksTrue'
  <2>1. SUFFICES ASSUME NEW c \in DOMAIN granted, NEW i \in DOMAIN granted[c],
                        granted[c][i] # 0
                 PROVE  /\ granted[c][i] \in DOMAIN slab'
                        /\ \E v \in PagesOf(slab'[granted[c][i]].region) : mapped'[v] = Page(c, i)
    BY DEF MarksTrue
  <2>2. /\ granted[c][i] \in DOMAIN slab
        /\ \E v \in PagesOf(slab[granted[c][i]].region) : mapped[v] = Page(c, i)
    BY <2>1 DEF MemoryParts, MarksTrue
  <2> QED
    BY <1>9, <2>2 DEF RegionsStay
<1>14. BlockInHand'
  <2>1. TopAt(MapTops \cup WriteTops)
    BY DEF TopAt
  <2> QED
    BY <1>4, <2>1 DEF MemoryParts, BlockInHand, LastBlock, b
<1> QED
  BY <1>10, <1>11, <1>12, <1>13, <1>14 DEF MemoryParts

\* A slab is set up in the region mapped, and its block may be marked with it.
LEMMA SetUpMemory ==
    ASSUME HeapInv, LengthsInv, MemoryParts, TopAt(WriteTops), got # NoRegion,
           NEW s, s \notin DOMAIN slab,
           DOMAIN slab' = DOMAIN slab \cup {s}, slab'[s].region = got,
           \A t \in DOMAIN slab : t # s => slab'[t] = slab[t],
           mapped' = mapped, ~TopAt(MapTops \cup WriteTops)',
           \/ granted' = granted
           \/ granted' = PpagesSetSlab(Len(granted), cache[Top.cache].pages, s)
    PROVE  MemoryParts'
<1> DEFINE b == LastBlock
           n == got.pages
           first == got.first
<1>1. TopAt(FindTops) /\ n = cache[Top.cache].pages
  BY LengthsInvIs DEF RightLength, TopAt, WriteTops, FindTops
<1>2. first \in Nat /\ n \in Nat /\ PagesOf(got) = first .. (first + n - 1)
  BY <1>1, FoundRegion DEF PagesOf
<1>3. b \in Nat /\ b \in DOMAIN granted /\ DOMAIN granted = 1..b /\ granted[b] \in Seq(Nat)
  <2>1. b \in Nat /\ DOMAIN granted = 1..b /\ granted \in Seq(Seq(Nat)) /\ granted # <<>>
    BY MemoryTypes DEF MemoryParts
  <2>2. b > 0
    BY <2>1 DEF LastBlock
  <2>3. b \in DOMAIN granted
    BY <2>1, <2>2
  <2> QED
    BY <2>1, <2>3, MemoryTypes
<1>4. /\ \A i \in DOMAIN granted[b] : granted[b][i] = 0
      /\ \A v \in PagesOf(got) : mapped[v] = Page(b, v - first + 1)
  <2>1. TopAt(MapTops \cup WriteTops)
    BY DEF TopAt
  <2> QED
    BY <2>1 DEF MemoryParts, BlockInHand
<1>5. /\ DOMAIN granted' = DOMAIN granted /\ granted' # <<>>
      /\ \A c \in DOMAIN granted : DOMAIN granted'[c] = DOMAIN granted[c]
      /\ \A c \in DOMAIN granted : \A i \in DOMAIN granted[c] :
            \/ granted'[c][i] = granted[c][i]
            \/ c = b /\ i <= n /\ granted'[c][i] = s
  <2>1. CASE granted' = granted
    BY <2>1 DEF MemoryParts
  <2>2. CASE granted' = PpagesSetSlab(Len(granted), cache[Top.cache].pages, s)
    <3> DEFINE marked == [i \in DOMAIN granted[b] |-> IF i <= n THEN s ELSE granted[b][i]]
    <3>1. granted' = [granted EXCEPT ![b] = marked]
      BY <1>1, <2>2 DEF PpagesSetSlab, LastBlock
    <3>2. /\ DOMAIN marked = DOMAIN granted[b]
          /\ \A i \in DOMAIN granted[b] :
                marked[i] = granted[b][i] \/ (i <= n /\ marked[i] = s)
      OBVIOUS
    <3> HIDE DEF marked, b, n
    <3>3. /\ DOMAIN granted' = DOMAIN granted /\ granted'[b] = marked
          /\ \A c \in DOMAIN granted : c # b => granted'[c] = granted[c]
      BY <1>3, <3>1
    <3> QED
      BY <1>3, <3>2, <3>3
  <2> QED
    BY <2>1, <2>2
<1> HIDE DEF b, n, first
<1>6. \A t \in DOMAIN slab : t # s /\ slab'[t] = slab[t] /\ t \in DOMAIN slab'
  OBVIOUS
<1>7. PagesBacked'
  <2>1. ASSUME NEW t \in DOMAIN slab
        PROVE  \E c \in DOMAIN granted' : \A v \in PagesOf(slab'[t].region) :
                  mapped'[v] = Page(c, v - slab'[t].region.first + 1)
    BY <1>5, <1>6 DEF MemoryParts, PagesBacked
  <2>2. \E c \in DOMAIN granted' : \A v \in PagesOf(slab'[s].region) :
                  mapped'[v] = Page(c, v - slab'[s].region.first + 1)
    BY <1>3, <1>4, <1>5 DEF first
  <2> QED
    BY <2>1, <2>2 DEF PagesBacked
<1>8. PagesApart'
  BY DEF MemoryParts, PagesApart
<1>9. SlabsMapped'
  BY <1>6 DEF MemoryParts, SlabsMapped
<1>10. MarksTrue'
  <2>1. SUFFICES ASSUME NEW c \in DOMAIN granted', NEW i \in DOMAIN granted'[c],
                        granted'[c][i] # 0
                 PROVE  /\ granted'[c][i] \in DOMAIN slab'
                        /\ \E v \in PagesOf(slab'[granted'[c][i]].region) :
                              mapped'[v] = Page(c, i)
    BY DEF MarksTrue
  <2>2. c \in DOMAIN granted /\ i \in DOMAIN granted[c]
    BY <1>5
  <2>3. CASE granted'[c][i] = granted[c][i]
    <3>1. /\ granted[c][i] \in DOMAIN slab
          /\ \E v \in PagesOf(slab[granted[c][i]].region) : mapped[v] = Page(c, i)
      BY <2>1, <2>2, <2>3 DEF MemoryParts, MarksTrue
    <3> QED
      BY <1>6, <2>3, <3>1
  <2>4. CASE c = b /\ i <= n /\ granted'[c][i] = s
    <3>1. i \in Nat /\ i > 0
      BY <1>3, <2>2, <2>4
    <3> DEFINE v == first + i - 1
    <3>2. v \in PagesOf(got) /\ v - first + 1 = i
      BY <1>2, <2>4, <3>1
    <3> HIDE DEF v
    <3>3. mapped'[v] = Page(c, i)
      BY <1>4, <2>4, <3>2
    <3> QED
      BY <2>4, <3>2, <3>3
  <2> QED
    BY <1>5, <2>2, <2>3, <2>4
<1>11. BlockInHand'
  BY DEF BlockInHand, TopAt
<1> QED
  BY <1>5, <1>7, <1>8, <1>9, <1>10, <1>11 DEF MemoryParts

(***************************************************************************)
(* The steps.                                                              *)
(***************************************************************************)
\* No slab is written before it is mapped.
LEMMA NeverFaulty ==
    ASSUME HeapInv, MemoryParts, cause # "fault", [Next]_vars
    PROVE  cause' # "fault"
<1>1. CASE CreateReturns \/ SpecialAddsSlab
  <2>1. TopAt(WriteTops)
    BY <1>1 DEF CreateReturns, SpecialAddsSlab, At, TopAt, WriteTops
  <2>2. TopAt(FindTops) /\ TopAt({"create4", "create5", "special3", "special4"})
    BY <2>1 DEF TopAt, WriteTops, FindTops
  <2>3. got # NoRegion
    BY <2>2, GotInvIs DEF HeapInv, Found
  <2>4. got.first \in Nat /\ got.pages \in Nat /\ got.pages > 0
    BY <2>2, <2>3, FoundRegion
  <2>5. got.first \in PagesOf(got)
    BY <2>4 DEF PagesOf
  <2>6. mapped[got.first] = Page(LastBlock, got.first - got.first + 1)
    BY <2>1, <2>5 DEF MemoryParts, BlockInHand
  <2>7. mapped[got.first] # NoPage
    <3>1. got.first - got.first + 1 = 1
      BY <2>4
    <3> QED
      BY <2>6, <3>1 DEF Page, NoPage
  <2> QED
    BY <1>1, <2>7 DEF CreateReturns, SpecialAddsSlab, At
<1>2. CASE Next /\ ~(CreateReturns \/ SpecialAddsSlab)
  <2>1. CASE Halted
    BY <2>1 DEF Halted, vars
  <2>2. CASE Client
    BY <2>2 DEF Client, ObjsCacheAlloc, ObjsCacheCreate, VregionAlloc, ObjsCacheFree,
       ClientCall, Halt
  <2>3. CASE Step
    <3> USE DEF Halt
    <3>1. CASE BootReturns \/ RegionAlloc \/ NoRegionFits \/ RegionFits
      BY <3>1, RegionFitsEffect DEF BootReturns, RegionAlloc, NoRegionFits
    <3>2. CASE AllocEnter \/ AllocRefillVregion \/ AllocNeedsSlab \/ AllocAddSlab \/ AllocObject
      BY <3>2 DEF AllocEnter, AllocRefillVregion, AllocNeedsSlab, AllocAddSlab, AllocObject
    <3>3. CASE CreateSlabObject \/ CreateRegion \/ CreatePages \/ CreateMaps
      BY <3>3 DEF CreateSlabObject, CreateRegion, CreatePages, CreateMaps, MapSlab
    <3>4. CASE SpecialRegion \/ SpecialPages \/ SpecialMaps \/ SpecialRefillsOther
               \/ SpecialReturns \/ ObjsCacheInit
      BY <3>4 DEF SpecialRegion, SpecialPages, SpecialMaps, MapSlab, SpecialRefillsOther,
         SpecialReturns, ObjsCacheInit
    <3> QED
      BY <1>2, <2>3, <3>1, <3>2, <3>3, <3>4 DEF Step
  <2> QED
    BY <1>2, <2>1, <2>2, <2>3 DEF Next
<1>3. CASE UNCHANGED vars
  BY <1>3 DEF vars
<1> QED
  BY <1>1, <1>2, <1>3

\* Which places have a region in hand, and which a block.
LEMMA HandPlaces ==
    /\ ~TopAt(FindTops) => ~TopAt(MapTops \cup WriteTops)
    /\ ~TopAt(FindTops)' => ~TopAt(MapTops \cup WriteTops)'
BY DEF TopAt, FindTops, MapTops, WriteTops

\* The steps that only take objects, move the stack or search for a region.
LEMMA PlainKeepsMemory ==
    ASSUME HeapInv, MemoryParts, Next, cause' = "none", ~Stays,
           ~(CreateReturns \/ SpecialAddsSlab \/ CreatePages \/ SpecialPages
             \/ CreateMaps \/ SpecialMaps)
    PROVE  MemoryParts'
<1> USE DEF At, Halt
<1>1. UNCHANGED memory /\ RegionsStay /\ ~TopAt(WriteTops)
  <2>1. CASE RegionFits
    <3>1. UNCHANGED memory /\ stack # <<>> /\ Top.at = "_region"
      BY <2>1, RegionFitsEffect
    <3>2. Takes(VregionCache) \/ UNCHANGED slab
      BY <2>1, RegionFitsRegions
    <3>3. RegionsStay
      BY <3>2, Counters, TakesSound DEF RegionsStay
    <3> QED
      BY <3>1, <3>3 DEF TopAt, WriteTops
  <2>2. CASE AllocObject
    <3>1. UNCHANGED memory /\ stack # <<>> /\ Top.at = "alloc5" /\ Takes(Top.cache)
      BY <2>2 DEF AllocObject, Takes
    <3>2. Top.cache \in CacheIds
      BY <3>1, TopFacts
    <3>3. RegionsStay
      BY <3>1, <3>2, TakesSound DEF RegionsStay
    <3> QED
      BY <3>1, <3>3 DEF TopAt, WriteTops
  <2>3. CASE Client
    <3>1. UNCHANGED <<memory, slab>> /\ stack = <<>>
      BY <2>3 DEF Client, ObjsCacheAlloc, ObjsCacheCreate, VregionAlloc, ObjsCacheFree,
         ClientCall, heap, Idle
    <3> QED
      BY <3>1 DEF TopAt, RegionsStay
  <2>4. CASE Halted
    <3>1. Stays
      BY <2>4 DEF Halted, vars, Stays, heap, memory, regions
    <3> QED
      BY <3>1
  <2>5. CASE Step /\ ~(RegionFits \/ AllocObject)
    <3>1. UNCHANGED <<memory, slab>>
      BY <2>5 DEF Step, BootReturns, RegionAlloc, NoRegionFits, AllocEnter, AllocRefillVregion,
         AllocNeedsSlab, AllocAddSlab, CreateSlabObject, CreateRegion, SpecialRegion,
         SpecialRefillsOther, SpecialReturns, ObjsCacheInit, heap
    <3>2. ~TopAt(WriteTops)
      BY <2>5 DEF Step, BootReturns, RegionAlloc, NoRegionFits, AllocEnter, AllocRefillVregion,
         AllocNeedsSlab, AllocAddSlab, CreateSlabObject, CreateRegion, SpecialRegion,
         SpecialRefillsOther, SpecialReturns, ObjsCacheInit, TopAt, WriteTops
    <3> QED
      BY <3>1, <3>2 DEF RegionsStay
  <2> QED
    BY <2>1, <2>2, <2>3, <2>4, <2>5 DEF Next
<1>2. ~TopAt(MapTops \cup WriteTops)'
  <2>1. CASE RegionFits \/ NoRegionFits
    <3>1. stack # <<>> /\ Top.at = "_region" /\ Return
      BY <2>1, RegionFitsEffect DEF NoRegionFits
    <3>2. Below(1).at \in {"none", "create3", "special2"}
      BY <3>1, TopFacts DEF MayCall, AllocPlaces, CreatePlaces, Refill
    <3> QED
      BY <3>1, <3>2, ReturnParts DEF TopAt, MapTops, WriteTops
  <2>2. CASE ~(RegionFits \/ NoRegionFits)
    <3>1. ~TopAt(FindTops)'
      BY <2>2, OthersFindNothing DEF HasFound
    <3> QED
      BY <3>1, HandPlaces
  <2> QED
    BY <2>1, <2>2
<1> QED
  BY <1>1, <1>2, PlainMemory

\* The steps that grant, map and set up.
LEMMA HandKeepsMemory ==
    ASSUME HeapInv, LengthsInv, MemoryParts, Next, cause' = "none", ~Stays,
           CreateReturns \/ SpecialAddsSlab \/ CreatePages \/ SpecialPages
             \/ CreateMaps \/ SpecialMaps
    PROVE  MemoryParts'
<1>0. {"create5", "special4"} = WriteTops /\ {"create4", "special3"} = MapTops
  BY DEF MapTops, WriteTops
<1>1. CASE CreatePages \/ SpecialPages
  <2>1. /\ stack # <<>> /\ Top.at \in {"create3", "special2"} /\ mapped' = mapped
        /\ \/ PpagesAlloc(cache[Top.cache].pages)
           \/ PpagesAlloc(1)
        /\ slab' = slab \/ Takes(SlabCache)
        /\ \/ Goto([Top EXCEPT !.at = "create4"])
           \/ Goto([Top EXCEPT !.at = "special3", !.slab = cache[SlabCache].used + 1])
    BY <1>1 DEF CreatePages, SpecialPages, At, Halt, Takes
  <2>2. cache[Top.cache].pages \in Lengths /\ 1 \in Lengths
    BY <2>1, TopFacts DEF HeapInv, CachesInv, Lengths
  <2>3. \E n \in Lengths : PpagesAlloc(n)
    BY <2>1, <2>2
  <2>4. RegionsStay
    BY <2>1, Counters, TakesSound DEF RegionsStay
  <2>5. stack' # <<>> /\ Top'.at \in {"create4", "special3"}
    <3> DEFINE m == cache[SlabCache].used + 1
    <3>1. \A f : Goto(f) => stack' # <<>> /\ Top' = f
      BY <2>1, TopAfter
    <3>2. [Top EXCEPT !.at = "create4"].at = "create4"
      BY <2>1, TopAfter
    <3>3. [Top EXCEPT !.at = "special3", !.slab = m].at = "special3"
      BY <2>1, TopAfter
    <3>4. Goto([Top EXCEPT !.at = "create4"]) \/ Goto([Top EXCEPT !.at = "special3", !.slab = m])
      BY <2>1
    <3> HIDE DEF m
    <3>5. CASE Goto([Top EXCEPT !.at = "create4"])
      BY <3>1, <3>2, <3>5
    <3>6. CASE Goto([Top EXCEPT !.at = "special3", !.slab = m])
      BY <3>1, <3>3, <3>6
    <3> QED
      BY <3>4, <3>5, <3>6
  <2>6. ~TopAt(WriteTops) /\ ~TopAt(WriteTops)'
    BY <2>1, <2>5 DEF TopAt, WriteTops
  <2> QED
    BY <2>1, <2>3, <2>4, <2>6, GrantMemory
<1>2. CASE CreateMaps \/ SpecialMaps
  <2>1. /\ stack # <<>> /\ Top.at \in {"create4", "special3"}
        /\ mapped' = MapPages(Len(granted), got.first, cache[Top.cache].pages)
        /\ UNCHANGED <<slab, granted, got>>
        /\ \E p \in {"create5", "special4"} : Goto([Top EXCEPT !.at = p])
    BY <1>2 DEF CreateMaps, SpecialMaps, MapSlab, At
  <2>2. TopAt(MapTops) /\ TopAt({"create4", "create5", "special3", "special4"})
    BY <2>1 DEF TopAt, MapTops
  <2>3. got # NoRegion
    BY <2>2, GotInvIs DEF HeapInv, Found
  <2>4. stack' # <<>> /\ Top'.at \in {"create5", "special4"}
    BY <2>1, TopAfter
  <2>5. TopAt(WriteTops)' /\ ~TopAt(MapTops)'
    BY <2>4 DEF TopAt, WriteTops, MapTops
  <2>6. RegionsStay
    BY <2>1 DEF RegionsStay
  <2> QED
    BY <2>1, <2>2, <2>3, <2>5, <2>6, MapMemory
<1>3. CASE CreateReturns \/ SpecialAddsSlab
  <2> DEFINE s == Top.slab
             n == cache[Top.cache].objs
  <2>1. /\ stack # <<>> /\ Top.at \in {"create5", "special4"} /\ mapped' = mapped
        /\ slab' = InitializedSlab(slab, s, n, got)
        /\ \/ granted' = granted
           \/ granted' = PpagesSetSlab(Len(granted), cache[Top.cache].pages, s)
    BY <1>3 DEF CreateReturns, SpecialAddsSlab, At, Halt, memory
  <2>2. s \notin DOMAIN slab
    <3>1. HeldBy(Top) = {s}
      BY <2>1 DEF HeldBy, HoldPlaces
    <3>2. s \in HeldIn(stack)
      BY <2>1, <3>1, StackParts
    <3> QED
      BY <3>2, SlabsInvIs DEF HeapInv, SlabsInvParts
  <2>3. TopAt(WriteTops) /\ TopAt({"create4", "create5", "special3", "special4"})
    BY <2>1 DEF TopAt, WriteTops
  <2>4. got # NoRegion
    BY <2>3, GotInvIs DEF HeapInv, Found
  <2>5. ~TopAt(MapTops \cup WriteTops)'
    BY <1>3, SetUpGot, HandPlaces
  <2> HIDE DEF s, n
  <2>6. /\ DOMAIN slab' = DOMAIN slab \cup {s} /\ slab'[s].region = got
        /\ \A t \in DOMAIN slab : t # s => slab'[t] = slab[t]
    BY <2>1, SetUp
  <2> QED
    BY <2>1, <2>2, <2>3, <2>4, <2>5, <2>6, SetUpMemory
<1> QED
  BY <1>1, <1>2, <1>3

\* Every step keeps the memory of slabs.
LEMMA MemoryStep == MemoryInv /\ [Next]_vars => MemoryInv'
<1> SUFFICES ASSUME MemoryInv, [Next]_vars PROVE MemoryInv'
  OBVIOUS
<1>1. HeapInv /\ LengthsInv /\ MemoryParts /\ cause # "fault"
  BY MemoryPartsNow
<1>2. HeapInv' /\ LengthsInv' /\ cause' # "fault"
  BY <1>1, HeapStep, AlwaysLengths, NeverFaulty
<1>3. MemoryParts'
  <2>1. CASE Stays
    <3>1. UNCHANGED <<slab, granted, mapped, stack, got>>
      BY <2>1 DEF Stays, heap, memory
    <3> QED
      BY <1>1, <3>1 DEF MemoryParts, PagesBacked, PagesApart, SlabsMapped, MarksTrue,
         BlockInHand, TopAt, Top, LastBlock
  <2>2. CASE Next /\ cause' = "none" /\ ~Stays
    BY <1>1, <2>2, PlainKeepsMemory, HandKeepsMemory
  <2> QED
    BY <1>1, <2>1, <2>2, StopsOrGoes
<1>4. \E T : stack' \in Seq(T)
  BY <1>1, StackTyped
<1>5. BlocksInv' /\ SlabsBacked'
  BY <1>2, <1>3, <1>4, MemoryPartsThen
<1> QED
  BY <1>2, <1>5 DEF MemoryInv

\* Boot has set up three slabs of one page each, mapped and marked.
LEMMA MemoryInit == Init => MemoryInv
<1> SUFFICES ASSUME Init PROVE MemoryInv
  OBVIOUS
<1>1. HeapInv
  BY HeapInit
<1>2. /\ granted = <<<<1>>, <<2>>, <<3>>>> /\ got = NoRegion /\ cause = "none"
      /\ mapped = [v \in WholeWindow |-> IF v < FirstVpn THEN Page(v - FirstVpn + 4, 1)
                                          ELSE NoPage]
      /\ DOMAIN slab = 1..3 /\ \A c \in 1..3 : slab[c].region = BootRegion(c)
  BY InitFacts DEF Init
<1>3. /\ DOMAIN granted = 1..3 /\ granted # <<>>
      /\ \A c \in 1..3 : DOMAIN granted[c] = {1} /\ granted[c][1] = c
  BY <1>2
<1>4. ~TopAt(FindTops) /\ ~TopAt(MapTops) /\ ~TopAt(WriteTops) /\ ~TopAt(MapTops \cup WriteTops)
  BY InitStack DEF TopAt, FindTops, MapTops, WriteTops
<1>5. /\ FirstVpn \in Nat /\ FirstVpn > 3 /\ LastVpn \in Nat /\ FirstVpn <= LastVpn
      /\ WholeWindow = (FirstVpn - 3)..LastVpn
  BY WindowAssumption DEF WholeWindow
<1>6. \A c \in 1..3 : /\ BootRegion(c).first = FirstVpn - 4 + c
                      /\ PagesOf(BootRegion(c)) = {FirstVpn - 4 + c}
  BY <1>5 DEF BootRegion, Region, PagesOf
<1>7. \A c \in 1..3 : /\ FirstVpn - 4 + c \in WholeWindow
                      /\ mapped[FirstVpn - 4 + c] = Page(c, 1)
  <2> SUFFICES ASSUME NEW c \in 1..3
               PROVE  /\ FirstVpn - 4 + c \in WholeWindow
                      /\ mapped[FirstVpn - 4 + c] = Page(c, 1)
    OBVIOUS
  <2>1. /\ FirstVpn - 4 + c \in WholeWindow /\ FirstVpn - 4 + c < FirstVpn
        /\ (FirstVpn - 4 + c) - FirstVpn + 4 = c
    BY <1>5
  <2> QED
    BY <1>2, <2>1
<1>8. \A v \in WholeWindow : mapped[v] # NoPage =>
          v \in {FirstVpn - 4 + c : c \in 1..3} /\ mapped[v] = Page(v - FirstVpn + 4, 1)
  <2> SUFFICES ASSUME NEW v \in WholeWindow, mapped[v] # NoPage
               PROVE  v \in {FirstVpn - 4 + c : c \in 1..3}
                      /\ mapped[v] = Page(v - FirstVpn + 4, 1)
    OBVIOUS
  <2>1. v < FirstVpn /\ mapped[v] = Page(v - FirstVpn + 4, 1)
    BY <1>2
  <2> DEFINE c == v - FirstVpn + 4
  <2>2. c \in 1..3 /\ v = FirstVpn - 4 + c
    BY <1>5, <2>1
  <2> QED
    BY <2>1, <2>2
<1>9. LengthsInv
  <2>1. RightLength
    BY <1>4 DEF RightLength
  <2>2. Below(1).at = "boot" /\ Below(2).at = "none"
    BY InitStack, CallFrameAt
  <2>3. \A i \in DOMAIN stack : Below(i).at \in {"boot", "none"}
    BY <2>2, InitStack
  <2>4. \A c \in Calls(stack) : c[2].at \in {"boot", "none"}
    BY <2>3 DEF Calls, Below
  <2> QED
    BY <2>1, <2>4, LengthsInvIs DEF AskedRight, AsksRight
<1>10. PagesBacked
  <2> SUFFICES ASSUME NEW c \in 1..3
               PROVE  \A v \in PagesOf(slab[c].region) :
                          mapped[v] = Page(c, v - slab[c].region.first + 1)
    BY <1>2, <1>3 DEF PagesBacked
  <2>1. (FirstVpn - 4 + c) - (FirstVpn - 4 + c) + 1 = 1
    BY <1>5
  <2> QED
    BY <1>2, <1>6, <1>7, <2>1
<1>11. PagesApart
  <2> SUFFICES ASSUME NEW u \in WholeWindow, NEW v \in WholeWindow, u # v, mapped[u] # NoPage
               PROVE  mapped[u] # mapped[v]
    BY DEF PagesApart
  <2>1. mapped[u] = Page(u - FirstVpn + 4, 1)
    BY <1>8
  <2>2. CASE mapped[v] = NoPage
    BY <2>2
  <2>3. CASE mapped[v] # NoPage
    <3>1. mapped[v] = Page(v - FirstVpn + 4, 1)
      BY <1>8, <2>3
    <3>2. u - FirstVpn + 4 # v - FirstVpn + 4
      BY <1>5
    <3> QED
      BY <2>1, <3>1, <3>2 DEF Page
  <2> QED
    BY <2>2, <2>3
<1>12. SlabsMapped
  BY <1>2, <1>6, <1>8 DEF SlabsMapped
<1>13. MarksTrue
  <2> SUFFICES ASSUME NEW c \in 1..3
               PROVE  c \in DOMAIN slab /\ \E v \in PagesOf(slab[c].region) : mapped[v] = Page(c, 1)
    BY <1>3 DEF MarksTrue
  <2> QED
    BY <1>2, <1>6, <1>7
<1>14. MemoryParts
  BY <1>3, <1>4, <1>10, <1>11, <1>12, <1>13 DEF MemoryParts, BlockInHand
<1>15. BlocksInv
  BY <1>14 DEF MemoryParts, MarksTrue, SlabsMapped, BlockInHand, BlocksInv
<1>16. SlabsBacked
  <2>1. \A v \in WholeWindow : mapped[v] # NoPage =>
            \E s \in DOMAIN slab : v \in PagesOf(slab[s].region)
    BY <1>4, <1>12 DEF SlabsMapped
  <2> QED
    BY <1>2, <1>14, <2>1 DEF SlabsBacked, MemoryParts, PagesBacked, PagesApart, MarksTrue
<1> QED
  BY <1>1, <1>9, <1>15, <1>16 DEF MemoryInv

\* The invariant of the heap and of the memory of its slabs.
THEOREM MemoryInvariant == Spec => []MemoryInv
<1>1. Init => MemoryInv
  BY MemoryInit
<1>2. MemoryInv /\ [Next]_vars => MemoryInv'
  BY MemoryStep
<1> QED
  BY <1>1, <1>2, PTL DEF Spec

\* Each slab lies in its own region, mapped page after page to a block of its
\* own, which ppages_set_slab marks with no other slab; nothing else is mapped;
\* and initialize_slab never writes to a page that is not there (slab.c:124).
THEOREM SlabsHaveTheirMemory == Spec => []SlabsBacked
<1>1. MemoryInv => SlabsBacked
  BY DEF MemoryInv
<1> QED
  BY <1>1, MemoryInvariant, PTL
=============================================================================
