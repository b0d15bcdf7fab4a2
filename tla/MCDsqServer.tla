----------------------------- MODULE MCDsqServer -----------------------------
(* Detection on every small host, and server mode with the tables that detect    *)
(* exports for a host of two CPUs that share one LLC: the instance in which the  *)
(* depth checks of overflow_dsq race.  RT work may take both CPUs, so that tasks *)
(* pile up in the hierarchy.  The host has one more CPU, whose number lies   *)
(* beyond the tables, in an LLC and a node of its own.                           *)
EXTENDS ExportedDsq, TLC

CONSTANTS t1, t2, t3, t4

MCHost == [probed |-> TRUE, cpus |-> {0, 1, 3}, nodes |-> {0, 3},
           llc |-> [c \in {0, 1, 3} |-> IF c = 3 THEN 0 ELSE 1],
           node |-> [c \in {0, 1, 3} |-> IF c = 3 THEN 0 ELSE 3]]
MCRunHosts == {MCHost}
MCLlcOf == [c \in {0, 1} |-> 0]
MCLlcNode == [l \in {0} |-> 0]
MCTasks == {t1, t2, t3, t4}
MCAllowed == [t \in MCTasks |-> {0, 1}]
MCKthreads == {}
MCSym == Permutations(MCTasks)
=============================================================================
