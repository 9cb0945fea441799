-------------------------------- MODULE Lists --------------------------------
(***************************************************************************)
(* The lists of include/kernel/list.h in the hands of clients that obey    *)
(* its interface: an element is inserted when it is on no list and deleted *)
(* from the list it is on, and elements go from list to list, as slabs and *)
(* blocks of pages do.  All lists are of one kind, since an element has    *)
(* the links of one.  What the links of an element held before it was      *)
(* first inserted is arbitrary.  Clients do not look at the elements'      *)
(* links, except that those of a simple list know the element before the   *)
(* one they delete, which they found by walking the list as vregion_alloc  *)
(* does.                                                                   *)
(***************************************************************************)
EXTENDS LinkedLists, Sequences, SequencesExt

CONSTANTS Elems, Names

ASSUME ElemsAssumption ==
    NULL \notin Elems /\ NULL \notin Names /\ IsFiniteSet(Elems) /\ Rank \in [Elems -> Nat]

VARIABLES
    kind,        \* the macros in use
    list,        \* the list variables
    prev, next,  \* the links of the elements
    fault,       \* NULL was followed, or a KASSERT failed
    where,       \* the clients' record: the list an element is on, or NULL
    last         \* the last call, and the element or number it is about

vars == <<kind, list, prev, next, fault, where, last>>

RingOf(l) == Ring(list[l], prev, next)

\* A macro leaves r behind and put el on list l, or took it off.
Done(l, r, el, place, call) ==
    /\ list' = [list EXCEPT ![l] = r.list]
    /\ prev' = r.prev /\ next' = r.next /\ fault' = r.fault
    /\ where' = [where EXCEPT ![el] = place]
    /\ last' = <<call, el>>
    /\ UNCHANGED kind

\* The elements of a list, in order, as the links tell.
Contents(l) == Walk(next, list[l], IF kind = "circular" THEN list[l] ELSE NULL)
Sorted(s) == \A i, j \in DOMAIN s : i < j => Rank[s[i]] <= Rank[s[j]]
----------------------------------------------------------------------------
(***************************************************************************)
(* The calls.                                                              *)
(***************************************************************************)
MayInsert(el) == ~fault /\ where[el] = NULL
MayDelete(l, el) == ~fault /\ where[el] = l

PushHead(l, el) ==
    /\ MayInsert(el)
    /\ Done(l, CASE kind = "simple" -> SPush(RingOf(l), el)
                 [] kind = "double" -> DPush(RingOf(l), el)
                 [] kind = "circular" -> CPush(RingOf(l), el), el, l, "push_head")

PushTailC(l, el) ==
    /\ kind = "circular" /\ MayInsert(el)
    /\ Done(l, PushTail(RingOf(l), el), el, l, "push_tail")

InsertAfter(l, before, el) ==
    /\ kind = "simple" /\ MayInsert(el)
    /\ before # NULL => where[before] = l
    /\ Done(l, SInsertAfter(RingOf(l), before, el), el, l, "insert_after")

\* Into a list that is sorted; and a simple one is walked off its end unless
\* one of its elements is not smaller.
InsertOrdered(l, el) ==
    /\ kind # "double" /\ MayInsert(el) /\ Sorted(Contents(l))
    /\ kind = "simple" => \/ list[l] = NULL
                          \/ \E e \in Elems : where[e] = l /\ ~Greater(el, e)
    /\ Done(l, IF kind = "simple" THEN SInsertOrdered(RingOf(l), el)
                                  ELSE CInsertOrdered(RingOf(l), el), el, l, "insert_ordered")

\* The element that a walk meets just before el.
Before(l, el) ==
    LET path == Contents(l)
        i    == Min({j \in DOMAIN path : path[j] = el})
    IN IF i = 1 THEN NULL ELSE path[i - 1]

DeleteElement(l, el) ==
    /\ MayDelete(l, el)
    /\ Done(l, CASE kind = "simple" -> SDelete(RingOf(l), Before(l, el), el)
                 [] kind = "double" -> DDelete(RingOf(l), el)
                 [] kind = "circular" -> DeleteEl(RingOf(l), el), el, NULL, "delete_el")

\* Of a list that is not empty.
TakeHead(l) ==
    /\ ~fault /\ list[l] # NULL
    /\ Done(l, CASE kind = "simple" -> SPop(RingOf(l))
                 [] kind = "double" -> DDeleteHead(RingOf(l), list[l])
                 [] kind = "circular" -> PopHead(RingOf(l)), list[l], NULL, "pop_head")

Length(l) ==
    /\ ~fault /\ kind = "simple"
    /\ last' = <<"length", SLength(RingOf(l))>>
    /\ UNCHANGED <<kind, list, prev, next, fault, where>>

Init ==
    /\ kind \in {"simple", "double", "circular"}
    /\ list = [l \in Names |-> NULL]
    /\ \E garbage \in Elems \cup {NULL} :
          prev = [e \in Elems |-> garbage] /\ next = [e \in Elems |-> garbage]
    /\ fault = FALSE /\ where = [e \in Elems |-> NULL] /\ last = <<"none", NULL>>

Next == \E l \in Names :
    \/ TakeHead(l) \/ Length(l)
    \/ \E el \in Elems : \/ PushHead(l, el) \/ PushTailC(l, el)
                         \/ InsertOrdered(l, el) \/ DeleteElement(l, el)
                         \/ \E before \in Elems \cup {NULL} : InsertAfter(l, before, el)

Spec == Init /\ [][Next]_vars
----------------------------------------------------------------------------
(***************************************************************************)
(* Properties.                                                             *)
(***************************************************************************)
Link == Elems \cup {NULL}

\* The variables hold elements or NULL, and no macro ever followed NULL.
TypeOK ==
    /\ kind \in {"simple", "double", "circular"}
    /\ list \in [Names -> Link] /\ where \in [Elems -> Names \cup {NULL}]
    /\ prev \in [Elems -> Link] /\ next \in [Elems -> Link]
    /\ fault = FALSE

\* "each element is linked to the previous and next ones": the two links of
\* the elements of a list are each other's inverse, whatever lists they were
\* on before, and every element can be reached from the list.
LinkedBothWays ==
    \A l \in Names :
        LET mine == {e \in Elems : where[e] = l}
        IN /\ kind = "circular" => IsRing(list[l], prev, next, mine)
           /\ kind = "double" =>
                \A e \in mine : /\ IF prev[e] = NULL THEN list[l] = e ELSE next[prev[e]] = e
                                /\ next[e] # NULL => prev[next[e]] = e
           /\ {Contents(l)[i] : i \in DOMAIN Contents(l)} = mine

\* The same without walking: what each kind of list is, as sets of elements.
\* Every call keeps it, and LinkedBothWays follows from it.
Mine(l) == {e \in Elems : where[e] = l}
IsList(k, first, pv, nx, elems) ==
    /\ k = "simple" => IsSimple(first, nx, elems)
    /\ k = "double" => IsDouble(first, pv, nx, elems)
    /\ k = "circular" => IsRing(first, pv, nx, elems)
ListsInv == TypeOK /\ \A l \in Names : IsList(kind, list[l], prev, next, Mine(l))

\* To their users the lists are sequences: each call inserts its element where
\* it says, takes away the one it says and no other, and returns the right
\* one, and an ordered insertion keeps a sorted list sorted.
Abstract == INSTANCE ElementLists WITH
    Lists <- Names, seq <- [l \in Names |-> Contents(l)]

ImplementsElementLists == Abstract!Spec
=============================================================================
