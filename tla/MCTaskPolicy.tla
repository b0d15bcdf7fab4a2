---------------------------- MODULE MCTaskPolicy ----------------------------
(* Desktop profile, three user tasks of the default weight: two can sleep   *)
(* and wake by turns, boosted, while the third waits.                       *)
EXTENDS TaskPolicy

CONSTANTS a, b, c

MCWeight == [t \in Tasks |-> 100]
=============================================================================
