------------------------------- MODULE Dictionary -------------------------------
(***************************************************************************)
(* What btree.hpp promises: a map from keys to records that only grows.    *)
(* insert adds a key that is absent, or throws and changes nothing.        *)
(***************************************************************************)
CONSTANTS Keys, Records, NoRecord

VARIABLE map    \* map[k]: what find(k) points to

Init == map = [k \in Keys |-> NoRecord]

Insert(k, r) ==
    /\ map[k] = NoRecord
    /\ map' = [map EXCEPT ![k] = r]

Next == \E k \in Keys, r \in Records : Insert(k, r)

Spec == Init /\ [][Next]_map
=================================================================================
