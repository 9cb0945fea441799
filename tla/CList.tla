------------------------------- MODULE CList -------------------------------
(***************************************************************************)
(* The circular doubly linked lists of include/kernel/list.h.              *)
(*                                                                         *)
(* The lists are intrusive: the links live in the elements.  Each macro is *)
(* an operator on a ring [list, prev, next, fault], where list is the      *)
(* macro's list variable (NULL when it is empty), prev and next are the    *)
(* link fields of every element, and fault says that the macro             *)
(* dereferenced NULL.  Page 0 of the kernel's address space is not mapped, *)
(* so such an access is a page fault and the machine stops.                *)
(***************************************************************************)
EXTENDS Naturals, FiniteSets

CONSTANT NULL

Ring(list, prev, next) ==
    [list |-> list, prev |-> prev, next |-> next, fault |-> FALSE]

Faulted(r) == [r EXCEPT !.fault = TRUE]

\* clist_is_empty_generic
IsEmpty(r) == r.list = NULL

\* clist_is_singleton_generic: the test is on the list, not on the element
\* that the caller is about to delete.
IsSingleton(r) == r.prev[r.list] = r.list /\ r.next[r.list] = r.list

\* Mutant of PushTail: the head of the list is not linked back to el.
PushTailOneWay(r, el) ==
    IF IsEmpty(r)
    THEN [r EXCEPT !.list = el,
                   !.prev = [@ EXCEPT ![el] = el],
                   !.next = [@ EXCEPT ![el] = el]]
    ELSE LET tail == r.prev[r.list] IN
         IF tail = NULL
         THEN Faulted(r)
         ELSE [r EXCEPT !.prev = [@ EXCEPT ![el] = tail],
                        !.next = [@ EXCEPT ![el] = r.list, ![tail] = el]]

\* clist_push_tail_generic.  The list variable does not move when it is not
\* empty: the new element becomes the predecessor of the head.
PushTail(r, el) ==
    IF IsEmpty(r)
    THEN [r EXCEPT !.list = el,
                   !.prev = [@ EXCEPT ![el] = el],
                   !.next = [@ EXCEPT ![el] = el]]
    ELSE LET tail == r.prev[r.list] IN
         IF tail = NULL
         THEN Faulted(r)
         ELSE [r EXCEPT !.prev = [@ EXCEPT ![el] = tail, ![r.list] = el],
                        !.next = [@ EXCEPT ![el] = r.list, ![tail] = el]]

\* Mutant of DeleteEl: the list keeps a deleted head.
DeleteElKeepsHead(r, el) ==
    IF IsEmpty(r) THEN Faulted(r)
    ELSE IF IsSingleton(r)
    THEN [r EXCEPT !.list = NULL,
                   !.prev = [@ EXCEPT ![el] = NULL],
                   !.next = [@ EXCEPT ![el] = NULL]]
    ELSE LET before == r.prev[el]
             after  == r.next[el] IN
         IF before = NULL \/ after = NULL
         THEN Faulted(r)
         ELSE [r EXCEPT !.next = [@ EXCEPT ![before] = after],
                        !.prev = [@ EXCEPT ![after] = before]]

\* clist_delete_el_generic.  A list that is empty, or an element without
\* links, makes the macro dereference NULL.
DeleteEl(r, el) ==
    IF IsEmpty(r) THEN Faulted(r)
    ELSE IF IsSingleton(r)
    THEN [r EXCEPT !.list = NULL,
                   !.prev = [@ EXCEPT ![el] = NULL],
                   !.next = [@ EXCEPT ![el] = NULL]]
    ELSE LET before == r.prev[el]
             after  == r.next[el] IN
         IF before = NULL \/ after = NULL
         THEN Faulted(r)
         ELSE [r EXCEPT !.next = [@ EXCEPT ![before] = after],
                        !.prev = [@ EXCEPT ![after] = before],
                        !.list = IF @ = el THEN after ELSE @]

\* Mutant of PopHead: the head is read and not deleted.
PopHeadKeeps(r) == r

\* clist_pop_head_generic: the popped element is r.list, and it keeps its own
\* links unless it was alone.
PopHead(r) == DeleteEl(r, r.list)

----------------------------------------------------------------------------
(***************************************************************************)
(* What "each element is linked to the previous and next ones" promises of *)
(* the elements of one list.  Linked is the local half, on which a proof   *)
(* can work; IsRing adds that the list variable reaches every element.     *)
(***************************************************************************)
Linked(prev, next, elems) ==
    \A e \in elems : /\ prev[e] \in elems /\ next[prev[e]] = e
                     /\ next[e] \in elems /\ prev[next[e]] = e

\* No link leaves the set: all that is left of some lists once an element was
\* pushed on two of them.
LinksInside(prev, next, elems) ==
    \A e \in elems : prev[e] \in elems /\ next[e] \in elems

\* Every element follows the first: no smaller set has it and all that is next.
Reaches(list, next, elems) ==
    \A S \in SUBSET elems :
        list \in S /\ (\A e \in S : next[e] \in S) => S = elems

IsRing(list, prev, next, elems) ==
    IF list = NULL
    THEN elems = {}
    ELSE /\ list \in elems
         /\ Linked(prev, next, elems)
         /\ Reaches(list, next, elems)
=============================================================================
