---------------------------- MODULE MCVirtualTime ----------------------------
(* Three tasks on two CPUs, one of them of half the default weight; a unit is *)
(* one slice, and one queued task halves the lag a frequent sleeper keeps.    *)
EXTENDS VirtualTime

CONSTANTS full1, full2, half

MCWeight == [t \in Tasks |-> IF t = half THEN 50 ELSE 100]
=============================================================================
