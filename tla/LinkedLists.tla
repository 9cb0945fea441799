---------------------------- MODULE LinkedLists ----------------------------
(***************************************************************************)
(* The other macros of include/kernel/list.h, on the rings of CList:       *)
(* simple lists, whose last element is linked to NULL and which have no    *)
(* prev, double lists that end in NULL on both sides, and what CList does  *)
(* not have of the circular ones.  fault stands for a failed KASSERT too.  *)
(* cmp(a, b) is Rank[a] - Rank[b].                                         *)
(***************************************************************************)
EXTENDS CList, Integers, Sequences, FiniteSetsExt

CONSTANT Rank

\* cmp(el, e) > 0
Greater(el, e) == Rank[el] > Rank[e]

Follow(next, e) == IF e = NULL THEN NULL ELSE next[e]

\* The elements that a loop over the links visits, from first up to the one
\* before stop; too many of them when the loop does not end.
Walk(next, first, stop) ==
    LET n == Cardinality(DOMAIN next)
        at[i \in 0..n] == IF i = 0 THEN first ELSE Follow(next, at[i-1])
        ends == {i \in 1..n : at[i] = stop}
    IN IF first = NULL THEN <<>>
       ELSE [i \in 1..(IF ends = {} THEN n + 1 ELSE Min(ends)) |-> at[i-1]]
----------------------------------------------------------------------------
(***************************************************************************)
(* Simple lists.                                                           *)
(***************************************************************************)
\* list_push_head
SPush(r, el) == [r EXCEPT !.list = el, !.next = [@ EXCEPT ![el] = r.list]]

\* list_is_singleton
SSingleton(r) == r.next[r.list] = NULL

\* list_delete_head
SDeleteHead(r, el) ==
    IF IsEmpty(r) THEN Faulted(r)
    ELSE IF SSingleton(r) THEN [r EXCEPT !.list = NULL]
    ELSE [r EXCEPT !.list = r.next[el], !.next = [@ EXCEPT ![el] = NULL]]

\* list_pop_head; the popped element is r.list.
SPop(r) == SDeleteHead(r, r.list)

\* list_delete_el: the caller knows the element before el, NULL at the head.
SDelete(r, before, el) ==
    IF before = NULL /\ r.list # el THEN Faulted(r)
    ELSE IF r.list = el \/ before = NULL
    THEN [r EXCEPT !.list = r.next[el], !.next = [@ EXCEPT ![el] = NULL]]
    ELSE [r EXCEPT !.next = [@ EXCEPT ![before] = r.next[el], ![el] = NULL]]

\* list_insert_after
SInsertAfter(r, before, el) ==
    IF before # NULL
    THEN [r EXCEPT !.next = [@ EXCEPT ![el] = r.next[before], ![before] = el]]
    ELSE SPush(r, el)

\* list_insert_ordered: in front of the first element that is not smaller.
SInsertOrdered(r, el) ==
    LET path  == Walk(r.next, r.list, NULL)
        stops == {i \in DOMAIN path : ~Greater(el, path[i])}
    IN IF IsEmpty(r) THEN SPush(r, el)
       ELSE IF stops = {} THEN Faulted(r)
       ELSE SInsertAfter(r, IF Min(stops) = 1 THEN NULL ELSE path[Min(stops) - 1], el)

\* list_length
SLength(r) == Len(Walk(r.next, r.list, NULL))

\* What "each element is linked to the next one (last one is linked to the
\* empty list)" promises of the elements of one list.  Runs is said of any walk
\* over links, which a circular list stops where it started.
Runs(first, next, stop, elems) ==
    /\ first \in elems
    /\ \A e \in elems : next[e] \in (elems \ {first}) \cup {stop}
    /\ \A e, f \in elems : next[e] = next[f] => e = f
    /\ \A S \in SUBSET elems :
          first \in S /\ (\A e \in S : next[e] \in S \cup {stop}) => S = elems

IsSimple(list, next, elems) ==
    IF list = NULL THEN elems = {} ELSE Runs(list, next, NULL, elems)
----------------------------------------------------------------------------
(***************************************************************************)
(* Double lists.                                                           *)
(***************************************************************************)
\* Mutant of DPush: the old head is not linked back to el.
DPushOneWay(r, el) ==
    [r EXCEPT !.list = el,
              !.next = [@ EXCEPT ![el] = r.list],
              !.prev = [@ EXCEPT ![el] = NULL]]

\* dlist_push_head
DPush(r, el) ==
    [r EXCEPT !.list = el,
              !.next = [@ EXCEPT ![el] = r.list],
              !.prev = [e \in DOMAIN @ |-> IF e = el THEN NULL
                                           ELSE IF e = r.list THEN el ELSE @[e]]]

\* dlist_delete_head, of r.list; an element that was alone keeps its links,
\* which are NULL.
DDeleteHead(r, el) ==
    IF IsEmpty(r) THEN Faulted(r)
    ELSE IF SSingleton(r) THEN [r EXCEPT !.list = NULL]
    ELSE [r EXCEPT !.list = r.next[el],
                   !.prev = [@ EXCEPT ![r.next[el]] = NULL, ![el] = NULL],
                   !.next = [@ EXCEPT ![el] = NULL]]

\* Mutant of DDelete: the element after el keeps its link back.
DDeleteOneWay(r, el) ==
    IF r.list = el THEN DDeleteHead(r, el)
    ELSE IF r.prev[el] = NULL THEN Faulted(r)
    ELSE [r EXCEPT !.next = [@ EXCEPT ![r.prev[el]] = r.next[el], ![el] = NULL],
                   !.prev = [@ EXCEPT ![el] = NULL]]

\* dlist_delete_el
DDelete(r, el) ==
    IF r.list = el THEN DDeleteHead(r, el)
    ELSE IF r.prev[el] = NULL THEN Faulted(r)
    ELSE [r EXCEPT !.next = [@ EXCEPT ![r.prev[el]] = r.next[el], ![el] = NULL],
                   !.prev = [e \in DOMAIN @ |-> IF e = el THEN NULL
                                                ELSE IF e = r.next[el] THEN r.prev[el]
                                                ELSE @[e]]]

\* The same of "each element is linked to the previous and next ones".
IsDouble(list, prev, next, elems) ==
    /\ IsSimple(list, next, elems)
    /\ \A e \in elems : IF prev[e] = NULL THEN e = list
                                          ELSE prev[e] \in elems /\ next[prev[e]] = e
----------------------------------------------------------------------------
(***************************************************************************)
(* Circular lists.                                                         *)
(***************************************************************************)
\* clist_push_head
CPush(r, el) == [PushTail(r, el) EXCEPT !.list = el]

\* Mutant of CInsertOrdered: no test of the last element, so that an element
\* greater than all goes in front of the head that the loop comes back to.
CInsertOrderedRound(r, el) ==
    LET path  == Walk(r.next, r.list, r.list)
        stops == {i \in DOMAIN path : ~Greater(el, path[i])}
    IN IF IsEmpty(r) \/ ~Greater(el, r.list) \/ stops = {} THEN CPush(r, el)
       ELSE [CPush([r EXCEPT !.list = path[Min(stops)]], el) EXCEPT !.list = r.list]

\* clist_insert_ordered: an element greater than the last is pushed at the
\* tail; otherwise the loop stops before it comes round.
CInsertOrdered(r, el) ==
    LET path  == Walk(r.next, r.list, r.list)
        stops == {i \in DOMAIN path : ~Greater(el, path[i])}
    IN IF IsEmpty(r) \/ ~Greater(el, r.list) THEN CPush(r, el)
       ELSE IF Greater(el, r.prev[r.list]) THEN PushTail(r, el)
       ELSE [CPush([r EXCEPT !.list = path[Min(stops)]], el) EXCEPT !.list = r.list]
=============================================================================
