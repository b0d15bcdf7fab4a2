---------------------------- MODULE MCDsqDesktop ----------------------------
(* Desktop mode on a kernel without scx_bpf_select_cpu_and(), on two CPUs, each *)
(* its own LLC and node, so that every tier of the hierarchy and every steal    *)
(* function is reachable.  Two free tasks and a kernel thread pinned to CPU 0;  *)
(* RT work may take CPU 0.                                                      *)
EXTENDS CognisDsq

CONSTANTS free1, free2, kthread

MCLlcOf == [c \in {0, 1} |-> c]
MCNodeOf == [c \in {0, 1} |-> c]
MCLlcNode == [l \in {0, 1} |-> l]
MCTasks == {free1, free2, kthread}
MCAllowed == [t \in MCTasks |-> IF t = kthread THEN {0} ELSE {0, 1}]
=============================================================================
