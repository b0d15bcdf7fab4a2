--------------------------- MODULE TaskScheduler ---------------------------
(***************************************************************************)
(* What tasks are promised of a CPU scheduler: a task that has woken up    *)
(* stays runnable until it blocks itself, it runs on one CPU at a time and *)
(* on CPUs of its affinity mask only.  Which task runs where and when is   *)
(* left open.                                                              *)
(***************************************************************************)
CONSTANTS
    CPUs,
    Tasks,
    Allowed   \* Allowed[t]: the affinity mask of t

VARIABLES
    awake,    \* the tasks that run or are going to
    running   \* running[c]: the task on CPU c, or "none"

vars == <<awake, running>>

Init == awake = {} /\ running = [c \in CPUs |-> "none"]

Wake(t) ==
    /\ t \notin awake
    /\ awake' = awake \cup {t}
    /\ UNCHANGED running

Run(c, t) ==
    /\ t \in awake /\ c \in Allowed[t]
    /\ running[c] = "none" /\ \A b \in CPUs : running[b] # t
    /\ running' = [running EXCEPT ![c] = t]
    /\ UNCHANGED awake

Preempt(c) ==
    /\ running[c] \in Tasks
    /\ running' = [running EXCEPT ![c] = "none"]
    /\ UNCHANGED awake

Block(c) ==
    /\ running[c] \in Tasks
    /\ awake' = awake \ {running[c]}
    /\ running' = [running EXCEPT ![c] = "none"]

Next ==
    \/ \E t \in Tasks : Wake(t)
    \/ \E c \in CPUs, t \in Tasks : Run(c, t)
    \/ \E c \in CPUs : Preempt(c) \/ Block(c)

Spec == Init /\ [][Next]_vars
=============================================================================
