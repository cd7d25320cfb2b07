------------------------------- MODULE KeyMap -------------------------------
(***************************************************************************)
(* What a map of the runtime promises: keys with a value each, and calls   *)
(* that return what they should.                                           *)
(***************************************************************************)
CONSTANTS Key, Value

VARIABLES
    map,    \* a function on the keys that are in
    last    \* the last call and what it returned

Init == map = <<>> /\ last = <<"new">>

Put(k, v) ==
    /\ map' = [l \in DOMAIN map \cup {k} |-> IF l = k THEN v ELSE map[l]]
    /\ last' = <<"put", k, v>>
Remove(k) ==
    /\ map' = [l \in DOMAIN map \ {k} |-> map[l]]
    /\ last' = <<"remove", k, k \in DOMAIN map>>
Get(k) ==
    /\ k \in DOMAIN map /\ last' = <<"get", k, map[k]>>
    /\ UNCHANGED map
Clear == map' = <<>> /\ last' = <<"clear">>

Next ==
    \/ \E k \in Key, v \in Value : Put(k, v)
    \/ \E k \in Key : Remove(k) \/ Get(k)
    \/ Clear

Spec == Init /\ [][Next]_<<map, last>>
=============================================================================
