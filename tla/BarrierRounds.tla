--------------------------- MODULE BarrierRounds ---------------------------
(***************************************************************************)
(* What a barrier promises: threads leave it in groups of Need, and no     *)
(* thread of a group leaves before the whole group has arrived.            *)
(***************************************************************************)
EXTENDS Integers, FiniteSets

CONSTANTS Thread, Need

VARIABLES
    here,       \* the arrived threads of the group that is not complete
    released    \* threads of complete groups that have not left yet

Init == here = {} /\ released = {}

Arrive(t) ==
    /\ t \notin here \cup released
    /\ Cardinality(here) + 1 < Need
    /\ here' = here \cup {t}
    /\ UNCHANGED released

\* The last of a group goes through and releases the others.
Complete(t) ==
    /\ t \notin here \cup released
    /\ Cardinality(here) + 1 = Need
    /\ here' = {}
    /\ released' = released \cup here

Leave(t) ==
    /\ t \in released
    /\ released' = released \ {t}
    /\ UNCHANGED here

Next == \E t \in Thread : Arrive(t) \/ Complete(t) \/ Leave(t)

Spec == Init /\ [][Next]_<<here, released>>
=============================================================================
