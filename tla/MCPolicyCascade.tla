-------------------------- MODULE MCPolicyCascade --------------------------
(* Desktop profile, two tasks of high weight (between nice -9 and -10; the   *)
(* charges divide without remainder) and one of the default weight.          *)
EXTENDS TaskPolicy

CONSTANTS a, b, c

MCWeight == [t \in Tasks |-> IF t = c THEN 100 ELSE 800]
=============================================================================
