----------------------------- MODULE VirtualTime -----------------------------
(***************************************************************************)
(* Virtual time in main.bpf.c: how cognis_enable, cognis_runnable, task_dl,*)
(* cognis_running and cognis_stopping move p->scx.dsq_vtime, awake_vtime   *)
(* and the global front vtime_now, and in which order one vtime-ordered    *)
(* DSQ is served.  CPUs race on vtime_now: cognis_running compares and     *)
(* stores it without a lock.                                               *)
(*                                                                         *)
(* Virtual times are kept relative to vtime_now (the code compares them    *)
(* with time_before/time_after, so only differences matter), and times far *)
(* behind the front are told apart down to -Floor only: task_dl lifts a    *)
(* task that joins the queue above that.  Tasks that bypass the DSQs       *)
(* (kernel threads, sticky tasks of the desktop mode, idle CPUs) are left  *)
(* to CognisDsq; fallback dispatches to TaskPolicy.  scx_bpf_dsq_insert_   *)
(* vtime, which makes the deadline the task's dsq_vtime, is the kernel's.  *)
(***************************************************************************)
EXTENDS Integers, FiniteSets

CONSTANTS
    CPUs, Tasks,
    Weight,        \* Weight[t]: p->scx.weight, 100 by default
    SliceNs,       \* slice_ns
    SliceLagNs,    \* slice_lag_ns
    StarvationNs,  \* STARVATION_NS
    Freqs,         \* the values wakeup_freq takes
    Bursts,        \* the differences cognis_stopping computes: run time plus the
                   \* skew between scx_bpf_now() and bpf_ktime_get_ns()
    Floor,         \* how far behind the front virtual times are told apart
    RaceBound,     \* how far the front moves while a CPU holds a stale comparison
    MaxJoins       \* how often tasks join the scheduler

\* scale_by_task_weight and scale_by_task_weight_inverse
ByWeight(t, n) == (n * Weight[t]) \div 100
ByWeightInverse(t, n) == (n * 100) \div Weight[t]

Larger(m, n) == IF m > n THEN m ELSE n
Smaller(m, n) == IF m < n THEN m ELSE n

NoTask == "none"

ASSUME VirtualTimeAssumption ==
    /\ IsFiniteSet(CPUs) /\ CPUs # {} /\ IsFiniteSet(Tasks) /\ NoTask \notin Tasks
    /\ Weight \in [Tasks -> Nat \ {0}]
    /\ SliceNs \in Nat \ {0} /\ SliceLagNs \in Nat /\ StarvationNs \in Nat
    /\ Freqs \subseteq Nat /\ Bursts \subseteq Nat
    /\ \A t \in Tasks, b \in Bursts : ByWeightInverse(t, b) > 0
    /\ RaceBound \in Nat /\ MaxJoins \in Nat
    /\ Floor \in Nat /\ RaceBound <= Floor
    /\ \A t \in Tasks, f \in Freqs : ByWeight(t, SliceLagNs * Larger(f, 1)) < Floor

VARIABLES
    st,      \* st[t]: "asleep", "queued" or "running"
    vt,      \* vt[t]: p->scx.dsq_vtime - vtime_now
    awake,   \* awake[t]: tctx->awake_vtime
    curr,    \* curr[c]: the task c runs, or NoTask
    write,   \* write[c]: the value (relative to vtime_now) that cognis_running has
             \* found ahead and is about to store: a set of at most one
    joins    \* cognis_enable calls so far

vars == <<st, vt, awake, curr, write, joins>>

Init ==
    /\ st = [t \in Tasks |-> "asleep"]
    /\ vt = [t \in Tasks |-> 0] /\ awake = [t \in Tasks |-> 0]
    /\ curr = [c \in CPUs |-> NoTask] /\ write = [c \in CPUs |-> {}]
    /\ joins = 0

Queued == {t \in Tasks : st[t] = "queued"}

-----------------------------------------------------------------------------
\* lag_scale of task_dl, for a task with wakeup frequency f that finds nrWait
\* tasks queued.
LagScale(f, nrWait) ==
    LET qThresh == Larger(StarvationNs \div SliceNs, 1) IN
    IF nrWait * SliceNs >= StarvationNs THEN 1
    ELSE Larger((Larger(f, 1) * qThresh) \div (qThresh + nrWait), 1)

\* vtime_min of task_dl.
VtimeMin(t, f) == - ByWeight(t, SliceLagNs * LagScale(f, Cardinality(Queued)))

\* awake_max of task_dl.
AwakeMax(t) == ByWeightInverse(t, SliceLagNs)

\* Mutant: the awake time is added without its cap.
EnqueueUncapped(t, v, a) ==
    /\ st' = [st EXCEPT ![t] = "queued"]
    /\ awake' = [awake EXCEPT ![t] = a]
    /\ \E f \in Freqs : vt' = [vt EXCEPT ![t] = Larger(v, VtimeMin(t, f)) + a]

\* cognis_enqueue of t with virtual time v and awake time a:
\* task_dl lifts v and caps a, and scx_bpf_dsq_insert_vtime makes their sum the
\* task's dsq_vtime.
Enqueue(t, v, a) ==
    /\ st' = [st EXCEPT ![t] = "queued"]
    /\ awake' = [awake EXCEPT ![t] = Smaller(a, AwakeMax(t))]
    /\ \E f \in Freqs : vt' = [vt EXCEPT ![t] = Larger(v, VtimeMin(t, f)) + awake'[t]]

\* cognis_enable: the task joins at the front.
Join(t) ==
    /\ st[t] = "asleep" /\ joins < MaxJoins
    /\ joins' = joins + 1
    /\ vt' = [vt EXCEPT ![t] = 0]
    /\ UNCHANGED <<st, awake, curr, write>>

\* cognis_runnable and cognis_enqueue of a task that wakes up.
Wake(t) ==
    /\ st[t] = "asleep"
    /\ Enqueue(t, vt[t], 0)
    /\ UNCHANGED <<curr, write, joins>>

\* Mutant: any queued task may be taken, as from an unordered queue.
RunAny(c) ==
    /\ curr[c] = NoTask
    /\ \E t \in Queued :
         /\ st' = [st EXCEPT ![t] = "running"]
         /\ curr' = [curr EXCEPT ![c] = t]
         /\ write' = [write EXCEPT ![c] = {v \in {vt[t]} : v > 0}]
    /\ UNCHANGED <<vt, awake, joins>>

\* The head of the DSQ moves to CPU c; cognis_running compares it with vtime_now.
Run(c) ==
    /\ curr[c] = NoTask
    /\ \E t \in Queued :
         /\ \A u \in Queued : vt[t] <= vt[u]
         /\ st' = [st EXCEPT ![t] = "running"]
         /\ curr' = [curr EXCEPT ![c] = t]
         /\ write' = [write EXCEPT ![c] = {v \in {vt[t]} : v > 0}]
    /\ UNCHANGED <<vt, awake, joins>>

\* cognis_running stores the value: everything else moves relative to it.
Store(c) ==
    \E d \in write[c] :
      /\ \A e \in CPUs \ {c} : \A v \in write[e] : v - d >= - RaceBound
      /\ vt' = [t \in Tasks |-> Larger(vt[t] - d, - Floor)]
      /\ write' = [e \in CPUs |-> IF e = c THEN {} ELSE {v - d : v \in write[e]}]
      /\ UNCHANGED <<st, awake, curr, joins>>

\* Mutant: a run is not charged.
ChargeDropped(t, b) == vt[t]

\* The virtual time cognis_stopping leaves.
Charge(t, b) == vt[t] + ByWeightInverse(t, b)

\* cognis_stopping: the task is charged, and sleeps or is queued again.
Stop(c) ==
    /\ curr[c] # NoTask /\ write[c] = {}
    /\ curr' = [curr EXCEPT ![c] = NoTask]
    /\ \E b \in Bursts :
         LET t == curr[c]
             a == awake[t] + ByWeightInverse(t, b)
         IN  \/ Enqueue(t, Charge(t, b), a)
             \/ /\ st' = [st EXCEPT ![t] = "asleep"]
                /\ vt' = [vt EXCEPT ![t] = Charge(t, b)]
                /\ awake' = [awake EXCEPT ![t] = a]
    /\ UNCHANGED <<write, joins>>

Next ==
    \/ \E t \in Tasks : Wake(t) \/ Join(t)
    \/ \E c \in CPUs : Run(c) \/ Store(c) \/ Stop(c)

Spec == Init /\ [][Next]_vars

\* A CPU with work does not stand still, a store follows its comparison, and the
\* slice ends every run.
FairSpec == Spec /\ \A c \in CPUs : WF_vars(Run(c)) /\ WF_vars(Store(c)) /\ WF_vars(Stop(c))

-----------------------------------------------------------------------------
TypeOK ==
    /\ st \in [Tasks -> {"asleep", "queued", "running"}]
    /\ vt \in [Tasks -> Int] /\ awake \in [Tasks -> Nat]
    /\ curr \in [CPUs -> Tasks \cup {NoTask}]
    /\ write \in [CPUs -> SUBSET Int]
    /\ joins \in 0 .. MaxJoins

\* A queued task is at most one charged burst, the awake cap and the distance the
\* front can be set back by an unlocked store in cognis_running away from the
\* front: no sequence of wakeups, re-enqueues and racing stores pushes a deadline
\* of task_dl further out.
DeadlineBounded ==
    \A t \in Queued : \E b \in Bursts \cup {0} :
        vt[t] <= RaceBound + ByWeightInverse(t, b) + AwakeMax(t)

\* How far u is ahead of t: the virtual time u can use up before t goes first.
Lead(t, u) == Larger(vt[t] - vt[u], 0)

OvertakingStep ==
    \A t, u \in Tasks :
        (t # u /\ st[t] = "queued" /\ st'[t] = "queued" /\ joins' = joins) =>
            /\ Lead(t, u)' <= Lead(t, u)
            /\ st[u] = "queued" /\ st'[u] = "running" => vt[u] <= vt[t]
            /\ st[u] = "running" /\ st'[u] # "running" =>
                  Lead(t, u)' < Lead(t, u) \/ vt'[u] > vt'[t]

\* While a task waits in the DSQ no other task is served before it that is behind it,
\* every run uses up some of the other task's lead or puts it behind, and nothing gives
\* lead back: not the lag a sleeper keeps, a re-enqueue or an unlocked store of
\* vtime_now, but only cognis_enable, with which a task joins at the front.
OvertakingBounded == [][OvertakingStep]_vars

\* Every task task_dl has put into a DSQ gets a CPU, however often other tasks
\* sleep, wake with lag (vtime_min) and are queued again, and although CPUs store
\* vtime_now in cognis_running without a lock.
NoStarvation == \A t \in Tasks : st[t] = "queued" ~> st[t] = "running"

=============================================================================
