---------------------------- MODULE ElementLists ----------------------------
(***************************************************************************)
(* What lists are to their users, whatever links them: sequences of        *)
(* elements, of which none is twice on a list or on two lists.  last is    *)
(* the last call, with the element or number it is about.                  *)
(***************************************************************************)
EXTENDS Integers, Sequences, FiniteSets, SequencesExt

CONSTANTS Lists, Elems, Rank, NULL

VARIABLES seq, last

vars == <<seq, last>>

Elements(l) == {seq[l][i] : i \in DOMAIN seq[l]}
Unlinked(el) == \A l \in Lists : el \notin Elements(l)

Insert(l, i, el) == Unlinked(el) /\ seq' = [seq EXCEPT ![l] = InsertAt(@, i, el)]
TakeOff(l, el) ==
    \E i \in DOMAIN seq[l] : seq[l][i] = el /\ seq' = [seq EXCEPT ![l] = RemoveAt(@, i)]

\* Behind the elements that are smaller and in front of the others.
OrderedPlace(l, i, el) == \A j \in DOMAIN seq[l] : j < i <=> Rank[seq[l][j]] < Rank[el]

Sorted(s) == \A i, j \in DOMAIN s : i < j => Rank[s[i]] <= Rank[s[j]]

PushHead(l, el) == last' = <<"push_head", el>> /\ Insert(l, 1, el)
PushTail(l, el) == last' = <<"push_tail", el>> /\ Insert(l, Len(seq[l]) + 1, el)
InsertAfter(l, before, el) ==
    /\ last' = <<"insert_after", el>>
    /\ before \in Elements(l) \cup {NULL}
    /\ Insert(l, IF before = NULL THEN 1
                 ELSE 1 + (CHOOSE i \in DOMAIN seq[l] : seq[l][i] = before), el)
InsertOrdered(l, el) ==
    /\ last' = <<"insert_ordered", el>>
    /\ Sorted(seq[l])
    /\ \E i \in 1..(Len(seq[l]) + 1) : OrderedPlace(l, i, el) /\ Insert(l, i, el)
Delete(l, el) == last' = <<"delete_el", el>> /\ TakeOff(l, el)
PopHead(l) ==
    /\ seq[l] # <<>> /\ last' = <<"pop_head", Head(seq[l])>>
    /\ seq' = [seq EXCEPT ![l] = Tail(@)]
Length(l) == last' = <<"length", Len(seq[l])>> /\ UNCHANGED seq

Init == seq = [l \in Lists |-> <<>>] /\ last = <<"none", NULL>>

Next == \E l \in Lists :
    \/ PopHead(l) \/ Length(l)
    \/ \E el \in Elems : \/ PushHead(l, el) \/ PushTail(l, el)
                         \/ InsertOrdered(l, el) \/ Delete(l, el)
                         \/ \E before \in Elems \cup {NULL} : InsertAfter(l, before, el)

Spec == Init /\ [][Next]_vars
=============================================================================
