------------------------------- MODULE PidMap -------------------------------
(***************************************************************************)
(* What the fixed-size per-PID tables promise (TrustTable in ai/trust.rs,  *)
(* the lifetime table in main.rs): a map from PIDs to what was observed of *)
(* them since they were first seen, here a count, 0 for an unknown PID.    *)
(* The data of another PID is lost only when every slot is in use.         *)
(***************************************************************************)
EXTENDS Naturals, FiniteSets

CONSTANTS Pids, Size, MaxObs

VARIABLE seen   \* seen[p]: observations of p, up to MaxObs

Known == {p \in Pids : seen[p] # 0}

More(n) == IF n < MaxObs THEN n + 1 ELSE n

Init == seen = [p \in Pids |-> 0]

Observe(p) == seen' = [seen EXCEPT ![p] = More(@)]

\* A new PID takes the slot of another one.
Replace(p, victim) ==
    /\ Cardinality(Known) = Size
    /\ p \notin Known /\ victim \in Known
    /\ seen' = [seen EXCEPT ![p] = More(0), ![victim] = 0]

Forget(p) == seen' = [seen EXCEPT ![p] = 0]

Next == \E p \in Pids :
          Observe(p) \/ Forget(p) \/ \E victim \in Pids : Replace(p, victim)

Spec == Init /\ [][Next]_seen
=============================================================================
