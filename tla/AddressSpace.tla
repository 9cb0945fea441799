---------------------------- MODULE AddressSpace ----------------------------
(***************************************************************************)
(* What the kernel's address space is to its users: a map from virtual     *)
(* pages to frames, set up at once at boot, of which a call changes one    *)
(* page at a time and only pages that are not the kernel's own.            *)
(***************************************************************************)
CONSTANTS Pages,      \* the virtual pages
          Frames,     \* the frames that users map
          NoFrame,    \* a page that is not mapped
          Users,      \* the virtual pages that users map
          BootMap     \* the map after boot

VARIABLES map, up, stopped

Init == map = [v \in Pages |-> NoFrame] /\ up = FALSE /\ stopped = FALSE

Start == ~up /\ up' = TRUE /\ map' = BootMap /\ UNCHANGED stopped

Map(v, f) == up /\ ~stopped /\ map' = [map EXCEPT ![v] = f] /\ UNCHANGED <<up, stopped>>

Stop == stopped' = TRUE /\ UNCHANGED <<map, up>>

Next == Start \/ Stop \/ \E v \in Users, f \in Frames \cup {NoFrame} : Map(v, f)

Spec == Init /\ [][Next]_<<map, up, stopped>>
=============================================================================
