---------------------------- MODULE PageGrants ----------------------------
(***************************************************************************)
(* What an allocator of physical pages promises its clients, whatever it   *)
(* keeps to do so: a client is given a run of contiguous pages, all of     *)
(* them pages that may be given, none of them in the hands of another      *)
(* client, until the client returns the whole run; and the allocator may   *)
(* give up for good.  size[p] is the length of the run that starts at page *)
(* p, 0 when no run starts there.                                          *)
(***************************************************************************)
EXTENDS Integers

CONSTANTS Pages,      \* the page numbers
          Grantable,  \* the pages that may be given
          Lengths     \* the lengths of a run

VARIABLES size, stopped

Runs == {p \in Pages : size[p] > 0}

Init == size = [p \in Pages |-> 0] /\ stopped = FALSE

Grant(p, n) ==
    /\ ~stopped
    /\ size' = [size EXCEPT ![p] = n]
    /\ p .. (p + n - 1) \subseteq Grantable
    /\ \A q \in Runs : q + size[q] <= p \/ p + n <= q
    /\ UNCHANGED stopped

Return(p) ==
    /\ ~stopped /\ p \in Runs
    /\ size' = [size EXCEPT ![p] = 0]
    /\ UNCHANGED stopped

Stop == stopped' = TRUE /\ UNCHANGED size

GrantOnly == (\E p \in Pages, n \in Lengths : Grant(p, n)) \/ Stop
Next == GrantOnly \/ \E p \in Pages : Return(p)

\* The clients of an allocator that never takes a run back.
GrantSpec == Init /\ [][GrantOnly]_<<size, stopped>>
Spec == Init /\ [][Next]_<<size, stopped>>
=============================================================================
