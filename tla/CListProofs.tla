---------------------------- MODULE CListProofs ----------------------------
(***************************************************************************)
(* What the list macros preserve, for any elements E and any part S of     *)
(* them: the facts the proofs about the allocators rest on.                *)
(***************************************************************************)
EXTENDS CList, TLAPS

\* The two link fields of the elements E.
IsLinks(prev, next, E) ==
    /\ prev \in [E -> E \cup {NULL}]
    /\ next \in [E -> E \cup {NULL}]

\* What the macros leave behind, as predicates so that a lemma can be cited for
\* lists that are large expressions: the result r, from the links prev and
\* next, of pushing el ...
Pushed(E, S, prev, next, el, r) ==
    /\ ~r.fault /\ r.list \in S \cup {el}
    /\ IsLinks(r.prev, r.next, E)
    /\ \A e \in E \ (S \cup {el}) : r.prev[e] = prev[e] /\ r.next[e] = next[e]

PushedOnRing(E, S, prev, next, el, r) ==
    Pushed(E, S, prev, next, el, r) /\ Linked(r.prev, r.next, S \cup {el})

PushedInside(E, S, prev, next, el, r) ==
    Pushed(E, S, prev, next, el, r) /\ LinksInside(r.prev, r.next, S \cup {el})

\* ... and of removing the head el.
Popped(E, S, prev, next, el, r) ==
    /\ ~r.fault /\ r.list \in (S \ {el}) \cup {NULL}
    /\ IsLinks(r.prev, r.next, E)
    /\ Linked(r.prev, r.next, S \ {el})
    /\ \A e \in E \ S : r.prev[e] = prev[e] /\ r.next[e] = next[e]

\* clist_push_tail of a new element keeps a ring a ring, never dereferences
\* NULL, and writes only the links of the ring and of the element.
LEMMA PushTailLinked ==
    ASSUME NEW E, NULL \notin E, NEW prev, NEW next, IsLinks(prev, next, E),
           NEW S \in SUBSET E, Linked(prev, next, S),
           NEW list \in S \cup {NULL}, NEW el \in E, el \notin S
    PROVE  PushedOnRing(E, S, prev, next, el, PushTail(Ring(list, prev, next), el))
<1> DEFINE r == PushTail(Ring(list, prev, next), el)
<1>1. CASE list = NULL
  <2>1. r = [list |-> el, prev |-> [prev EXCEPT ![el] = el],
             next |-> [next EXCEPT ![el] = el], fault |-> FALSE]
    BY <1>1 DEF PushTail, Ring, IsEmpty
  <2> QED
    BY <2>1 DEF IsLinks, Linked, Pushed, PushedOnRing
<1>2. CASE list # NULL
  <2> DEFINE tail == prev[list]
  <2>1. list \in S /\ tail \in S /\ tail # NULL /\ next[tail] = list
    BY <1>2 DEF Linked
  <2>2. r = [list |-> list,
             prev |-> [prev EXCEPT ![el] = tail, ![list] = el],
             next |-> [next EXCEPT ![el] = list, ![tail] = el],
             fault |-> FALSE]
    BY <1>2, <2>1 DEF PushTail, Ring, IsEmpty
  <2> HIDE DEF r, tail
  <2>3. /\ r.prev = [prev EXCEPT ![el] = tail, ![list] = el]
        /\ r.next = [next EXCEPT ![el] = list, ![tail] = el]
        /\ r.list = list /\ ~r.fault
    BY <2>2
  <2>4. IsLinks(r.prev, r.next, E)
    BY <2>1, <2>3 DEF IsLinks
  <2>5. /\ \A e \in E : r.prev[e] = IF e = list THEN el
                                    ELSE IF e = el THEN tail ELSE prev[e]
        /\ \A e \in E : r.next[e] = IF e = tail THEN el
                                    ELSE IF e = el THEN list ELSE next[e]
    BY <2>1, <2>3 DEF IsLinks
  <2>6. tail = prev[list]
    BY DEF tail
  <2>7. Linked(r.prev, r.next, S \cup {el})
    BY <2>1, <2>5, <2>6 DEF Linked
  <2> QED
    BY <2>1, <2>3, <2>4, <2>5, <2>7 DEF r, Pushed, PushedOnRing
<1> QED
  BY <1>1, <1>2

\* clist_pop_head, or clist_delete_el of the head, leaves the rest a ring and
\* writes only the links of the ring.
LEMMA PopHeadLinked ==
    ASSUME NEW E, NULL \notin E, NEW prev, NEW next, IsLinks(prev, next, E),
           NEW S \in SUBSET E, Linked(prev, next, S), NEW list \in S
    PROVE  Popped(E, S, prev, next, list, PopHead(Ring(list, prev, next)))
<1> DEFINE r == PopHead(Ring(list, prev, next))
           before == prev[list]
           after  == next[list]
<1>0. /\ list # NULL /\ before \in S /\ after \in S
      /\ next[before] = list /\ prev[after] = list
  BY DEF Linked
<1>1. CASE before = list /\ after = list
  <2>1. r = [list |-> NULL, prev |-> [prev EXCEPT ![list] = NULL],
             next |-> [next EXCEPT ![list] = NULL], fault |-> FALSE]
    BY <1>0, <1>1 DEF PopHead, DeleteEl, Ring, IsEmpty, IsSingleton
  <2> QED
    BY <2>1, <1>0, <1>1 DEF IsLinks, Linked, Popped
<1>2. CASE ~(before = list /\ after = list)
  <2>1. before # list /\ after # list
    BY <1>0, <1>2
  <2>2. r = [list |-> after, prev |-> [prev EXCEPT ![after] = before],
             next |-> [next EXCEPT ![before] = after], fault |-> FALSE]
    BY <1>0, <1>2 DEF PopHead, DeleteEl, Ring, IsEmpty, IsSingleton
  <2>3. before = prev[list] /\ after = next[list]
    OBVIOUS
  <2> HIDE DEF r, before, after
  <2>4. /\ r.prev = [prev EXCEPT ![after] = before]
        /\ r.next = [next EXCEPT ![before] = after]
        /\ r.list = after /\ ~r.fault
    BY <2>2
  <2>5. IsLinks(r.prev, r.next, E)
    BY <1>0, <2>4 DEF IsLinks
  <2>6. /\ \A e \in E : r.prev[e] = IF e = after THEN before ELSE prev[e]
        /\ \A e \in E : r.next[e] = IF e = before THEN after ELSE next[e]
    BY <1>0, <2>4 DEF IsLinks
  <2>7. Linked(r.prev, r.next, S \ {list})
    BY <1>0, <2>1, <2>3, <2>6 DEF Linked
  <2> QED
    BY <1>0, <2>1, <2>4, <2>5, <2>6, <2>7 DEF r, Popped
<1> QED
  BY <1>1, <1>2

\* clist_push_tail of any element, even one that is in the list already: the
\* rings may be ruined, but no link leaves the elements of the list.
LEMMA PushTailInside ==
    ASSUME NEW E, NULL \notin E, NEW prev, NEW next, IsLinks(prev, next, E),
           NEW S \in SUBSET E, LinksInside(prev, next, S),
           NEW list \in S \cup {NULL}, NEW el \in E
    PROVE  PushedInside(E, S, prev, next, el, PushTail(Ring(list, prev, next), el))
<1> DEFINE r == PushTail(Ring(list, prev, next), el)
<1>1. CASE list = NULL
  <2>1. r = [list |-> el, prev |-> [prev EXCEPT ![el] = el],
             next |-> [next EXCEPT ![el] = el], fault |-> FALSE]
    BY <1>1 DEF PushTail, Ring, IsEmpty
  <2> QED
    BY <2>1 DEF IsLinks, LinksInside, Pushed, PushedInside
<1>2. CASE list # NULL
  <2> DEFINE tail == prev[list]
  <2>1. list \in S /\ tail \in S /\ tail # NULL
    BY <1>2 DEF LinksInside
  <2>2. r = [list |-> list,
             prev |-> [prev EXCEPT ![el] = tail, ![list] = el],
             next |-> [next EXCEPT ![el] = list, ![tail] = el],
             fault |-> FALSE]
    BY <1>2, <2>1 DEF PushTail, Ring, IsEmpty
  <2> HIDE DEF r, tail
  <2>3. /\ r.prev = [prev EXCEPT ![el] = tail, ![list] = el]
        /\ r.next = [next EXCEPT ![el] = list, ![tail] = el]
        /\ r.list = list /\ ~r.fault
    BY <2>2
  <2>4. /\ \A e \in E : r.prev[e] = IF e = list THEN el
                                    ELSE IF e = el THEN tail ELSE prev[e]
        /\ \A e \in E : r.next[e] = IF e = tail THEN el
                                    ELSE IF e = el THEN list ELSE next[e]
    BY <2>1, <2>3 DEF IsLinks
  <2>5. IsLinks(r.prev, r.next, E)
    BY <2>1, <2>3 DEF IsLinks
  <2>6. LinksInside(r.prev, r.next, S \cup {el})
    BY <2>1, <2>4 DEF LinksInside
  <2> QED
    BY <2>1, <2>3, <2>4, <2>5, <2>6 DEF r, Pushed, PushedInside
<1> QED
  BY <1>1, <1>2-----------------------------------------------------------------------------
\* A ring is one whatever happens to other elements.
LEMMA RingKept ==
    ASSUME NEW S, NEW list, NEW prev, NEW next, IsRing(list, prev, next, S),
           NEW prev2, NEW next2, \A e \in S : prev2[e] = prev[e] /\ next2[e] = next[e]
    PROVE  IsRing(list, prev2, next2, S)
<1>1. CASE list = NULL
  BY <1>1 DEF IsRing
<1>2. CASE list # NULL
  <2>1. list \in S /\ Linked(prev, next, S) /\ Reaches(list, next, S)
    BY <1>2 DEF IsRing
  <2>2. Linked(prev2, next2, S)
    BY <2>1 DEF Linked
  <2>3. Reaches(list, next2, S)
    <3> SUFFICES ASSUME NEW T \in SUBSET S, list \in T, \A e \in T : next2[e] \in T
                 PROVE  T = S
      BY DEF Reaches
    <3>1. \A e \in T : next[e] \in T
      OBVIOUS
    <3> QED
      BY <2>1, <3>1 DEF Reaches
  <2> QED
    BY <1>2, <2>1, <2>2, <2>3 DEF IsRing
<1> QED
  BY <1>1, <1>2

\* clist_push_tail of a new element makes a ring of one element more.
LEMMA PushTailRing ==
    ASSUME NEW E, NULL \notin E, NEW prev, NEW next, IsLinks(prev, next, E),
           NEW S \in SUBSET E, NEW list, IsRing(list, prev, next, S),
           NEW el \in E, el \notin S
    PROVE  LET r == PushTail(Ring(list, prev, next), el)
           IN  IsRing(r.list, r.prev, r.next, S \cup {el})
<1> DEFINE r == PushTail(Ring(list, prev, next), el)
<1>1. CASE list = NULL
  <2>1. r = [list |-> el, prev |-> [prev EXCEPT ![el] = el],
             next |-> [next EXCEPT ![el] = el], fault |-> FALSE]
    BY <1>1 DEF PushTail, Ring, IsEmpty
  <2>2. S = {} /\ el # NULL
    BY <1>1 DEF IsRing
  <2>3. r.prev[el] = el /\ r.next[el] = el /\ r.list = el
    BY <2>1 DEF IsLinks
  <2> HIDE DEF r
  <2>4. S \cup {el} = {el}
    BY <2>2
  <2>5. IsRing(r.list, r.prev, r.next, {el})
    BY <2>2, <2>3 DEF IsRing, Linked, Reaches
  <2> QED
    BY <2>4, <2>5 DEF r
<1>2. CASE list # NULL
  <2> DEFINE tail == prev[list]
  <2>1. /\ list \in S /\ Linked(prev, next, S) /\ Reaches(list, next, S)
        /\ tail \in S /\ tail # NULL /\ next[tail] = list
    BY <1>2 DEF IsRing, Linked
  <2>2. r = [list |-> list,
             prev |-> [prev EXCEPT ![el] = tail, ![list] = el],
             next |-> [next EXCEPT ![el] = list, ![tail] = el],
             fault |-> FALSE]
    BY <1>2, <2>1 DEF PushTail, Ring, IsEmpty
  <2>3. PushedOnRing(E, S, prev, next, el, r)
    BY <2>1, PushTailLinked
  <2> HIDE DEF r, tail
  <2>4. r.next = [next EXCEPT ![el] = list, ![tail] = el] /\ r.list = list
    BY <2>2
  <2>5. \A e \in E : r.next[e] = IF e = tail THEN el ELSE IF e = el THEN list ELSE next[e]
    BY <2>1, <2>4 DEF IsLinks
  <2>6. Reaches(list, r.next, S \cup {el})
    <3> SUFFICES ASSUME NEW T \in SUBSET (S \cup {el}), list \in T,
                        \A e \in T : r.next[e] \in T
                 PROVE  T = S \cup {el}
      BY DEF Reaches
    <3> DEFINE U == T \ {el}
    <3>1. U \in SUBSET S /\ list \in U
      BY <2>1
    <3>2. ASSUME NEW e \in U PROVE next[e] \in U
      <4>1. CASE e = tail
        BY <2>1, <3>1, <4>1
      <4>2. CASE e # tail
        <5>1. r.next[e] = next[e] /\ next[e] \in S
          BY <2>1, <2>5, <3>1, <4>2 DEF Linked
        <5> QED
          BY <5>1
      <4> QED
        BY <4>1, <4>2
    <3>3. U = S
      BY <2>1, <3>1, <3>2 DEF Reaches
    <3>4. el \in T
      BY <2>1, <2>5, <3>3
    <3> QED
      BY <3>3, <3>4
  <2>7. Linked(r.prev, r.next, S \cup {el})
    BY <2>3 DEF PushedOnRing
  <2>8. IsRing(r.list, r.prev, r.next, S \cup {el})
    BY <1>2, <2>1, <2>4, <2>6, <2>7 DEF IsRing
  <2> QED
    BY <2>8 DEF r
<1> QED
  BY <1>1, <1>2

\* clist_pop_head makes a ring of one element less.
LEMMA PopHeadRing ==
    ASSUME NEW E, NULL \notin E, NEW prev, NEW next, IsLinks(prev, next, E),
           NEW S \in SUBSET E, NEW list \in S, IsRing(list, prev, next, S)
    PROVE  LET r == PopHead(Ring(list, prev, next))
           IN  IsRing(r.list, r.prev, r.next, S \ {list})
<1> DEFINE r == PopHead(Ring(list, prev, next))
           before == prev[list]
           after  == next[list]
<1>0. /\ list # NULL /\ before \in S /\ after \in S
      /\ next[before] = list /\ prev[after] = list
      /\ Linked(prev, next, S) /\ Reaches(list, next, S)
  BY DEF IsRing, Linked
<1>1. CASE before = list /\ after = list
  <2>1. r = [list |-> NULL, prev |-> [prev EXCEPT ![list] = NULL],
             next |-> [next EXCEPT ![list] = NULL], fault |-> FALSE]
    BY <1>0, <1>1 DEF PopHead, DeleteEl, Ring, IsEmpty, IsSingleton
  <2>2. {list} = S
    <3>1. {list} \in SUBSET S /\ \A e \in {list} : next[e] \in {list}
      BY <1>1
    <3> QED
      BY <1>0, <3>1 DEF Reaches
  <2>3. r.list = NULL
    BY <2>1
  <2> QED
    BY <2>2, <2>3 DEF IsRing
<1>2. CASE ~(before = list /\ after = list)
  <2>1. before # list /\ after # list
    BY <1>0, <1>2
  <2>2. r = [list |-> after, prev |-> [prev EXCEPT ![after] = before],
             next |-> [next EXCEPT ![before] = after], fault |-> FALSE]
    BY <1>0, <1>2 DEF PopHead, DeleteEl, Ring, IsEmpty, IsSingleton
  <2>3. Popped(E, S, prev, next, list, r)
    BY <1>0, PopHeadLinked
  <2>4. after = next[list] /\ after # NULL
    BY <1>0
  <2> HIDE DEF r, before, after
  <2>5. r.next = [next EXCEPT ![before] = after] /\ r.list = after
    BY <2>2
  <2>6. \A e \in E : r.next[e] = IF e = before THEN after ELSE next[e]
    BY <1>0, <2>5 DEF IsLinks
  <2>7. Reaches(after, r.next, S \ {list})
    <3> SUFFICES ASSUME NEW T \in SUBSET (S \ {list}), after \in T,
                        \A e \in T : r.next[e] \in T
                 PROVE  T = S \ {list}
      BY DEF Reaches
    <3> DEFINE U == T \cup {list}
    <3>1. U \in SUBSET S /\ list \in U
      OBVIOUS
    <3>2. ASSUME NEW e \in U PROVE next[e] \in U
      <4>1. CASE e = list
        BY <2>4, <4>1
      <4>2. CASE e = before
        BY <1>0, <4>2
      <4>3. CASE e # list /\ e # before
        BY <2>6, <3>1, <4>3
      <4> QED
        BY <4>1, <4>2, <4>3
    <3>3. U = S
      BY <1>0, <3>1, <3>2 DEF Reaches
    <3> QED
      BY <3>3
  <2>8. Linked(r.prev, r.next, S \ {list})
    BY <2>3 DEF Popped
  <2>9. IsRing(r.list, r.prev, r.next, S \ {list})
    BY <1>0, <2>1, <2>4, <2>5, <2>7, <2>8 DEF IsRing
  <2> QED
    BY <2>9 DEF r
<1> QED
  BY <1>1, <1>2

\* What a macro leaves of a list, as a predicate: the result r, from the links
\* pv and nx, of a call on the list of S that changes the links of el too.
Left(E, S, pv, nx, el, r) ==
    /\ r.fault = FALSE /\ r.list \in E \cup {NULL} /\ IsLinks(r.prev, r.next, E)
    /\ \A e \in E \ (S \cup {el}) : r.prev[e] = pv[e] /\ r.next[e] = nx[e]

\* A ring can be entered anywhere: each element reaches all of them.
LEMMA RingFromAnywhere ==
    ASSUME NEW S, NEW lst \in S, NEW pv, NEW nx, IsRing(lst, pv, nx, S), lst # NULL,
           NEW c \in S, c # NULL
    PROVE  IsRing(c, pv, nx, S)
<1> DEFINE Closed(T) == T \in SUBSET S /\ \A e \in T : nx[e] \in T
<1>1. Linked(pv, nx, S) /\ Reaches(lst, nx, S)
  BY DEF IsRing
<1>2. \A T : Closed(T) /\ lst \in T => T = S
  BY <1>1 DEF Reaches
<1>3. ASSUME NEW T, Closed(T), nx[lst] \in T PROVE lst \in T
  <2>1. Closed(T \cup {lst})
    BY <1>3
  <2>2. T \cup {lst} = S
    BY <1>2, <2>1
  <2>3. pv[lst] \in S /\ nx[pv[lst]] = lst
    BY <1>1 DEF Linked
  <2> QED
    BY <1>3, <2>2, <2>3
<1> DEFINE P == {d \in S : \A T \in SUBSET S : Closed(T) /\ d \in T => lst \in T}
<1>4. ASSUME NEW d \in P PROVE nx[d] \in P
  <2>1. nx[d] \in S
    BY <1>1 DEF Linked
  <2>2. ASSUME NEW T \in SUBSET S, Closed(T), nx[d] \in T PROVE lst \in T
    <3>1. CASE d = lst
      BY <1>3, <2>2, <3>1
    <3>2. CASE d # lst
      <4>1. Closed(T \cup {d})
        BY <2>2
      <4>2. lst \in T \cup {d}
        BY <4>1
      <4> QED
        BY <3>2, <4>2
    <3> QED
      BY <3>1, <3>2
  <2> QED
    BY <2>1, <2>2
<1>5. Closed(P) /\ lst \in P
  BY <1>4
<1>6. P = S
  <2> HIDE DEF P
  <2> QED
    BY <1>2, <1>5
<1>7. Reaches(c, nx, S)
  <2> SUFFICES ASSUME NEW T \in SUBSET S, c \in T, \A e \in T : nx[e] \in T PROVE T = S
    BY DEF Reaches
  <2>1. Closed(T) /\ c \in P
    BY <1>6
  <2>2. lst \in T
    BY <2>1
  <2> QED
    BY <1>2, <2>1, <2>2
<1> QED
  BY <1>1, <1>7 DEF IsRing

\* What the elements of a ring are linked to.
LEMMA RingLinks ==
    ASSUME NEW S, NULL \notin S, NEW lst, NEW pv, NEW nx, IsRing(lst, pv, nx, S)
    PROVE  /\ lst = NULL => S = {}
           /\ lst # NULL => lst \in S
           /\ Linked(pv, nx, S)
           /\ lst \in S \cup {NULL}
BY DEF IsRing, Linked

\* clist_push_tail of a new element.
LEMMA PushTailKeeps ==
    ASSUME NEW E, NULL \notin E, NEW pv, NEW nx, IsLinks(pv, nx, E),
           NEW S \in SUBSET E, NEW lst, IsRing(lst, pv, nx, S), NEW el \in E \ S
    PROVE  LET r == PushTail(Ring(lst, pv, nx), el) IN
           /\ Left(E, S, pv, nx, el, r)
           /\ IsRing(r.list, r.prev, r.next, S \cup {el})
<1> DEFINE r == PushTail(Ring(lst, pv, nx), el)
<1>1. IsRing(r.list, r.prev, r.next, S \cup {el})
  BY PushTailRing
<1>2. PushedOnRing(E, S, pv, nx, el, r)
  BY RingLinks, PushTailLinked
<1>3. r.fault \in BOOLEAN
  BY DEF PushTail, Ring, Faulted
<1> HIDE DEF r
<1>4. Left(E, S, pv, nx, el, r)
  BY <1>2, <1>3 DEF Left, PushedOnRing, Pushed
<1> QED
  BY <1>1, <1>4 DEF r

\* clist_delete_el of any element of the ring.
LEMMA DeleteElKeeps ==
    ASSUME NEW E, NULL \notin E, NEW pv, NEW nx, IsLinks(pv, nx, E),
           NEW S \in SUBSET E, NEW lst, IsRing(lst, pv, nx, S), NEW el \in S
    PROVE  LET r == DeleteEl(Ring(lst, pv, nx), el) IN
           /\ Left(E, S, pv, nx, el, r)
           /\ IsRing(r.list, r.prev, r.next, S \ {el})
<1> DEFINE r == DeleteEl(Ring(lst, pv, nx), el)
           q == PopHead(Ring(el, pv, nx))
<1>1. lst \in S /\ lst # NULL /\ el # NULL /\ Linked(pv, nx, S)
  BY RingLinks
<1>2. IsRing(el, pv, nx, S)
  BY <1>1, RingFromAnywhere
<1>3. IsRing(q.list, q.prev, q.next, S \ {el})
  BY <1>2, PopHeadRing
<1>4. Popped(E, S, pv, nx, el, q)
  BY <1>1, PopHeadLinked
<1>0. q.fault \in BOOLEAN
  BY DEF PopHead, DeleteEl, Ring, Faulted
<1>5. CASE lst = el
  <2>1. r = q
    BY <1>5 DEF PopHead, Ring
  <2> HIDE DEF q, r
  <2>2. Left(E, S, pv, nx, el, r)
    BY <1>0, <1>4, <2>1 DEF Left, Popped
  <2> QED
    BY <1>3, <2>1, <2>2 DEF r
<1>6. CASE lst # el
  <2> DEFINE before == pv[el]
             after == nx[el]
  <2>1. before # NULL /\ after # NULL
    BY <1>1 DEF Linked
  <2>2. ~(pv[lst] = lst /\ nx[lst] = lst) /\ ~(pv[el] = el /\ nx[el] = el)
    <3>1. ASSUME NEW c \in {lst, el}, nx[c] = c PROVE FALSE
      <4>1. Reaches(c, nx, S) /\ {c} \in SUBSET S
        BY <1>1, <1>2 DEF IsRing
      <4>2. {c} = S
        BY <3>1, <4>1 DEF Reaches
      <4> QED
        BY <1>1, <1>6, <4>2
    <3> QED
      BY <3>1
  <2>3. q = [list |-> after, prev |-> [pv EXCEPT ![after] = before],
             next |-> [nx EXCEPT ![before] = after], fault |-> FALSE]
    BY <1>1, <2>1, <2>2 DEF PopHead, DeleteEl, Ring, IsEmpty, IsSingleton
  <2>4. r = [list |-> lst, prev |-> [pv EXCEPT ![after] = before],
             next |-> [nx EXCEPT ![before] = after], fault |-> FALSE]
    BY <1>1, <1>6, <2>1, <2>2 DEF DeleteEl, Ring, IsEmpty, IsSingleton
  <2>5. r.list = lst /\ r.prev = q.prev /\ r.next = q.next /\ r.fault = q.fault
    BY <2>3, <2>4
  <2> HIDE DEF q, r
  <2>6. IsRing(lst, q.prev, q.next, S \ {el})
    <3>1. q.list \in S \ {el} /\ q.list # NULL
      BY <1>1, <1>3, <1>6 DEF IsRing
    <3> QED
      BY <1>1, <1>3, <1>6, <3>1, RingFromAnywhere
  <2>7. Left(E, S, pv, nx, el, r)
    BY <1>0, <1>1, <1>4, <2>5 DEF Left, Popped
  <2> QED
    BY <2>5, <2>6, <2>7 DEF r
<1> QED
  BY <1>5, <1>6
=============================================================================
