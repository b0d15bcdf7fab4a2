------------------------------ MODULE CognisDsq ------------------------------
(***************************************************************************)
(* The kernel-side core of Cognis (main.bpf.c): idle-CPU placement, the    *)
(* CPU -> LLC -> node -> shared hierarchy of dispatch queues (DSQs) that   *)
(* cognis_enqueue fills, and cognis_dispatch with its steal chain that     *)
(* empties them.  CPUs run concurrently.  What the kernel does under one   *)
(* acquisition of a run-queue (rq) lock is split where the code reads      *)
(* shared state first and acts on it later:                                *)
(*   - cognis_enqueue chooses a target DSQ from its depth, then inserts;   *)
(*   - cognis_dispatch peeks at DSQ heads, then moves from the chosen one; *)
(*   - each steal_remote_* scans victims, then moves from the best one.    *)
(* Deadlines (task_dl) are abstract ranks, chosen when a task is inserted; *)
(* slices, statistics and the user-space fallback are left out.            *)
(***************************************************************************)
EXTENDS Integers, FiniteSets

CONSTANTS
    CPUs,             \* the CPUs, natural numbers (scan order of steal_remote_cpu)
    NrLlcs, NrNodes,  \* nr_llcs, nr_nodes of the exported topology
    LlcOf, NodeOf,    \* cpu_llc_idx_map, cpu_node_idx_map
    LlcNode,          \* llc_node_idx_map
    Tasks,            \* tasks managed by the scheduler
    Allowed,          \* p->cpus_ptr of every task
    Kthreads,         \* the tasks with PF_KTHREAD
    ServerMode,       \* --mode server
    HasSelectCpuAnd,  \* the kernel provides scx_bpf_select_cpu_and()
    RtCpus,           \* the CPUs that RT/DL work or ksoftirqd may occupy
    Deadlines         \* ranks task_dl may return

Llcs == 0 .. NrLlcs - 1
Nodes == 0 .. NrNodes - 1

ASSUME TopologyAssumption ==
    /\ CPUs \subseteq Nat /\ IsFiniteSet(CPUs) /\ CPUs # {}
    /\ NrLlcs \in Nat \ {0} /\ NrNodes \in Nat \ {0}
    /\ LlcOf \in [CPUs -> Llcs] /\ NodeOf \in [CPUs -> Nodes]
    /\ LlcNode \in [Llcs -> Nodes]

ASSUME TaskAssumption ==
    /\ IsFiniteSet(Tasks)
    /\ Allowed \in [Tasks -> SUBSET CPUs]
    /\ \A t \in Tasks : Allowed[t] # {}
    /\ Kthreads \subseteq Tasks
    /\ Tasks \cap {"none", "idle", "rt", "sched"} = {}

ASSUME ModeAssumption ==
    /\ ServerMode \in BOOLEAN /\ HasSelectCpuAnd \in BOOLEAN
    /\ RtCpus \subseteq CPUs
    /\ Deadlines \subseteq Nat \ {0} /\ Deadlines # {}

\* BpfProfile::from_opts: sticky placement is a desktop feature, and server
\* mode disables synchronous wakeups.
StickyTasks == ~ServerMode
NoWakeSync == ServerMode

-----------------------------------------------------------------------------
\* DSQ identifiers: cpu_to_dsq, llc_to_dsq, node_to_dsq and SHARED_DSQ.
CpuDsq(c) == <<"cpu", c>>
LlcDsq(l) == <<"llc", l>>
NodeDsq(n) == <<"node", n>>
SharedDsq == <<"shared", 0>>
NoDsq == <<"none", 0>>

Dsqs == {CpuDsq(c) : c \in CPUs} \cup {LlcDsq(l) : l \in Llcs}
          \cup {NodeDsq(n) : n \in Nodes} \cup {SharedDsq}

\* Mutant: cognis_dispatch does not look at the shared DSQ.
TiersUnshared(c) == {CpuDsq(c), LlcDsq(LlcOf[c])}
                      \cup (IF NrNodes > 1 THEN {NodeDsq(NodeOf[c])} ELSE {})

\* The queues cognis_dispatch serves on c before it steals.
Tiers(c) == {CpuDsq(c), LlcDsq(LlcOf[c]), SharedDsq}
              \cup (IF NrNodes > 1 THEN {NodeDsq(NodeOf[c])} ELSE {})

\* Order in which the tiers are compared and retried.
Width(d) == CASE d[1] = "cpu" -> 1 [] d[1] = "llc" -> 2
              [] d[1] = "node" -> 3 [] OTHER -> 4

AtLeastOne(n) == IF n < 1 THEN 1 ELSE n

\* cpus_per_llc / cpus_per_node, halved in server mode, never below one.
SpillThreshold(domains) ==
    LET perDomain == AtLeastOne((Cardinality(CPUs) + domains - 1) \div domains)
    IN  IF ServerMode THEN AtLeastOne(perDomain \div 2) ELSE perDomain

CpuSpillThreshold == 1
LlcSpillThreshold == SpillThreshold(NrLlcs)
NodeSpillThreshold == SpillThreshold(NrNodes)

-----------------------------------------------------------------------------
VARIABLES
    st,        \* st[t]: "asleep"; woken and on its way to ops.enqueue ("direct":
               \* select_cpu dispatched it, "selected": select_cpu found no idle
               \* CPU, "unselected": select_cpu was skipped); or "on"
    home,      \* home[t]: scx_bpf_task_cpu(p)
    dsq,       \* dsq[d]: the tasks queued in DSQ d
    dl,        \* dl[t]: p->scx.dsq_vtime while t is queued, 0 otherwise
    local,     \* local[c]: the kernel's local DSQ of CPU c
    curr,      \* curr[c]: the running task, "idle", "rt", or "sched" between two
    idleMask,  \* the kernel's idle cpumask
    kicked,    \* idle CPUs with a pending reschedule
    enq,       \* enq[c]: cognis_enqueue under c's rq lock, target DSQ chosen
    disp       \* disp[c]: cognis_dispatch under c's rq lock: the stage reached
               \* and the DSQ it is about to move from; seen: the tiers whose
               \* peek was not NULL

vars == <<st, home, dsq, dl, local, curr, idleMask, kicked, enq, disp>>

NoEnq == [task |-> "none", dsq |-> NoDsq]
NoDisp == [stage |-> 0, best |-> NoDsq, seen |-> {}]

TypeOK ==
    /\ st \in [Tasks -> {"asleep", "direct", "selected", "unselected", "on"}]
    /\ home \in [Tasks -> CPUs]
    /\ dsq \in [Dsqs -> SUBSET Tasks]
    /\ dl \in [Tasks -> Deadlines \cup {0}]
    /\ local \in [CPUs -> SUBSET Tasks]
    /\ curr \in [CPUs -> Tasks \cup {"idle", "rt", "sched"}]
    /\ idleMask \subseteq CPUs
    /\ kicked \subseteq CPUs
    /\ enq \in [CPUs -> [task : Tasks \cup {"none"}, dsq : Dsqs \cup {NoDsq}]]
    /\ disp \in [CPUs -> [stage : 0 .. 6, best : Dsqs \cup {NoDsq},
                          seen : SUBSET Dsqs]]

\* The scheduler is attached: every task has joined, none has run yet.
Init ==
    /\ st = [t \in Tasks |-> "asleep"]
    /\ home \in {h \in [Tasks -> CPUs] : \A t \in Tasks : h[t] \in Allowed[t]}
    /\ dsq = [d \in Dsqs |-> {}]
    /\ dl = [t \in Tasks |-> 0]
    /\ local = [c \in CPUs |-> {}]
    /\ curr = [c \in CPUs |-> "idle"]
    /\ idleMask = CPUs
    /\ kicked = {}
    /\ enq = [c \in CPUs |-> NoEnq]
    /\ disp = [c \in CPUs |-> NoDisp]

-----------------------------------------------------------------------------
(* Helpers on the state. *)

Pinned(t) == Cardinality(Allowed[t]) = 1

\* No handler is executing under c's rq lock.
RqFree(c) == enq[c].task = "none" /\ disp[c].stage = 0

Queued(t) == \E d \in Dsqs : t \in dsq[d]

\* The head of d has an earlier deadline than the head of e (is_deadline_min).
Earlier(d, e) == \E t \in dsq[d] : \A u \in dsq[e] : dl[t] < dl[u]

\* is_remote_head_better, for two non-empty victims.
RemoteHeadBetter(d, e) ==
    Earlier(d, e) \/ (~Earlier(e, d) /\ Cardinality(dsq[d]) > Cardinality(dsq[e]))

\* A task at the head of d may run on c.
HeadAllows(d, c) ==
    \E t \in dsq[d] : c \in Allowed[t] /\ \A u \in dsq[d] : dl[t] <= dl[u]

\* The tasks of d that scx_bpf_dsq_move_to_local may put on c.
Eligible(d, c) == {t \in dsq[d] : c \in Allowed[t]}

\* Mutant: the reschedule of an idle CPU is forgotten.
KickForgotten(c) == UNCHANGED kicked

\* An idle CPU that gets work is rescheduled: by wakeup_preempt in the kernel,
\* and by scx_bpf_kick_cpu(prev_cpu, SCX_KICK_IDLE) at the end of cognis_enqueue.
KickIdle(c) == kicked' = IF curr[c] = "idle" THEN kicked \cup {c} ELSE kicked

-----------------------------------------------------------------------------
(* Wakeup: ops.select_cpu, then ops.enqueue under the rq lock of the CPU. *)

\* The kernel skips ops.select_cpu for a task with one allowed CPU and, because of
\* SCX_OPS_ALLOW_QUEUED_WAKEUP, for one that is still being switched out of its CPU.
WakeUnselected(t) ==
    /\ st[t] = "asleep"
    /\ st' = [st EXCEPT ![t] = "unselected"]
    /\ UNCHANGED <<home, dsq, dl, local, curr, idleMask, kicked, enq, disp>>

\* cognis_select_cpu claims an idle CPU and dispatches the task to it.
SelectIdle(t, i) ==
    /\ st[t] = "asleep" /\ ~Pinned(t)
    /\ i \in idleMask \cap Allowed[t]
    /\ st' = [st EXCEPT ![t] = "direct"]
    /\ home' = [home EXCEPT ![t] = i]
    /\ idleMask' = idleMask \ {i}
    /\ UNCHANGED <<dsq, dl, local, curr, kicked, enq, disp>>

\* A synchronous wakeup: the kernel's idle selection hands the wakee to the
\* waker's own CPU while other CPUs are idle.
SelectSync(t, w) ==
    /\ st[t] = "asleep" /\ ~Pinned(t) /\ ~NoWakeSync
    /\ w \in Allowed[t] /\ curr[w] \in Tasks /\ local[w] = {} /\ idleMask # {}
    /\ st' = [st EXCEPT ![t] = "direct"]
    /\ home' = [home EXCEPT ![t] = w]
    /\ UNCHANGED <<dsq, dl, local, curr, idleMask, kicked, enq, disp>>

\* No idle CPU: cognis_select_cpu returns prev_cpu.
SelectBusy(t) ==
    /\ st[t] = "asleep" /\ ~Pinned(t)
    /\ idleMask \cap Allowed[t] = {}
    /\ st' = [st EXCEPT ![t] = "selected"]
    /\ UNCHANGED <<home, dsq, dl, local, curr, idleMask, kicked, enq, disp>>

Wake(t) ==
    \/ WakeUnselected(t)
    \/ \E i \in CPUs : SelectIdle(t, i) \/ SelectSync(t, i)
    \/ SelectBusy(t)

\* A task that select_cpu dispatched reaches the local DSQ of its CPU.
EnqSelected(c, t) ==
    /\ RqFree(c) /\ home[t] = c /\ st[t] = "direct"
    /\ st' = [st EXCEPT ![t] = "on"]
    /\ local' = [local EXCEPT ![c] = @ \cup {t}]
    /\ KickIdle(c)
    /\ UNCHANGED <<home, dsq, dl, curr, idleMask, enq, disp>>

-----------------------------------------------------------------------------
(* cognis_enqueue(p, enq_flags) for a task p whose CPU is c. *)

\* task_should_migrate
CanMigrate(selected, running) == ~selected /\ (~StickyTasks \/ ~running)

\* pick_idle_cpu(p, prev_cpu, 0): the idle CPUs it may return.
PickIdle(t, c) ==
    IF Pinned(t) THEN idleMask \cap Allowed[t] \cap {c}
    ELSE IF HasSelectCpuAnd THEN idleMask \cap Allowed[t] ELSE {}

\* Mutant: the private tier is used up to its threshold inclusive.
OverflowDsqDeep(c) ==
    IF Cardinality(dsq[CpuDsq(c)]) <= CpuSpillThreshold THEN CpuDsq(c)
    ELSE IF Cardinality(dsq[LlcDsq(LlcOf[c])]) < LlcSpillThreshold
      THEN LlcDsq(LlcOf[c])
    ELSE SharedDsq

\* Mutant: the LLC tier is never left.
OverflowDsqNarrow(c) ==
    IF Cardinality(dsq[CpuDsq(c)]) < CpuSpillThreshold THEN CpuDsq(c)
    ELSE LlcDsq(LlcOf[c])

\* overflow_dsq
OverflowDsq(c) ==
    IF Cardinality(dsq[CpuDsq(c)]) < CpuSpillThreshold THEN CpuDsq(c)
    ELSE IF Cardinality(dsq[LlcDsq(LlcOf[c])]) < LlcSpillThreshold
      THEN LlcDsq(LlcOf[c])
    ELSE IF NrNodes > 1 /\ Cardinality(dsq[NodeDsq(NodeOf[c])]) < NodeSpillThreshold
      THEN NodeDsq(NodeOf[c])
    ELSE SharedDsq

\* cpu_under_rt_pressure
RtBusy(c) == curr[c] = "rt"

TargetDsq(c, selected, running) ==
    IF CanMigrate(selected, running) /\ RtBusy(c) THEN SharedDsq ELSE OverflowDsq(c)

\* Mutant: the task goes to the local DSQ of the CPU that executes ops.enqueue.
StayLocalWaker(c, t) ==
    /\ t \in Kthreads \/ (StickyTasks /\ ~RtBusy(c))
    /\ \E waker \in CPUs :
         local' = [local EXCEPT ![waker] = @ \cup {t}] /\ KickIdle(waker)
    /\ UNCHANGED <<home, idleMask, enq>>

\* Kernel threads, and on a desktop tasks with a very short average runtime,
\* go straight to the local DSQ of prev_cpu.
StayLocal(c, t) ==
    /\ t \in Kthreads \/ (StickyTasks /\ ~RtBusy(c))
    /\ local' = [local EXCEPT ![c] = @ \cup {t}]
    /\ KickIdle(c)
    /\ UNCHANGED <<home, idleMask, enq>>

\* Move directly to an idle CPU, which is kicked.
MoveToIdle(c, t, selected, running) ==
    /\ t \notin Kthreads /\ CanMigrate(selected, running)
    /\ \E i \in PickIdle(t, c) :
         /\ idleMask' = idleMask \ {i}
         /\ home' = [home EXCEPT ![t] = i]
         /\ local' = [local EXCEPT ![i] = @ \cup {t}]
         /\ kicked' = kicked \cup {i}
    /\ UNCHANGED enq

\* No idle CPU: choose the deferred tier; the insertion is a later step.
Defer(c, t, selected, running) ==
    /\ t \notin Kthreads
    /\ CanMigrate(selected, running) => PickIdle(t, c) = {}
    /\ enq' = [enq EXCEPT ![c] = [task |-> t, dsq |-> TargetDsq(c, selected, running)]]
    /\ UNCHANGED <<home, local, idleMask, kicked>>

\* The exit for a task without a task_ctx is left out: cognis_init_task refuses a task
\* for which it cannot create one.
Enqueue(c, t, selected, running) ==
    \/ StayLocal(c, t)
    \/ MoveToIdle(c, t, selected, running)
    \/ Defer(c, t, selected, running)

\* ops.enqueue of a woken task that was not dispatched by select_cpu.
EnqWoken(c, t) ==
    /\ RqFree(c) /\ home[t] = c /\ st[t] \in {"selected", "unselected"}
    /\ st' = [st EXCEPT ![t] = "on"]
    /\ Enqueue(c, t, st[t] = "selected", FALSE)
    /\ UNCHANGED <<dsq, dl, curr, disp>>

\* A change of the nice value of a queued task dequeues it; ops.enqueue follows without
\* ops.select_cpu.  Affinities are constant.
Requeue(c, t) ==
    /\ RqFree(c) /\ home[t] = c /\ Queued(t)
    /\ dsq' = [d \in Dsqs |-> dsq[d] \ {t}]
    /\ dl' = [dl EXCEPT ![t] = 0]
    /\ st' = [st EXCEPT ![t] = "unselected"]
    /\ UNCHANGED <<home, local, curr, idleMask, kicked, enq, disp>>

\* The slice of the running task is over and another task is in the local DSQ:
\* put_prev_task_scx calls ops.enqueue for it.
Yield(c) ==
    /\ RqFree(c) /\ curr[c] \in Tasks /\ local[c] # {}
    /\ curr' = [curr EXCEPT ![c] = "sched"]
    /\ Enqueue(c, curr[c], FALSE, TRUE)
    /\ UNCHANGED <<st, dsq, dl, disp>>

\* scx_bpf_dsq_insert_vtime into the target chosen before, then the kick.
EnqInsert(c) ==
    /\ enq[c].task \in Tasks
    /\ dsq' = [dsq EXCEPT ![enq[c].dsq] = @ \cup {enq[c].task}]
    /\ \E v \in Deadlines : dl' = [dl EXCEPT ![enq[c].task] = v]
    /\ enq' = [enq EXCEPT ![c] = NoEnq]
    /\ KickIdle(c)
    /\ UNCHANGED <<st, home, local, curr, idleMask, disp>>

-----------------------------------------------------------------------------
(* cognis_dispatch(cpu, prev) *)

\* Earliest head among the own tiers; the narrower tier wins a tie.
IsBestTier(d, seen) ==
    \A e \in seen : ~Earlier(e, d) /\ (Width(e) < Width(d) => Earlier(d, e))

\* Called when c needs a task and its local DSQ is empty: after a block, an RT
\* task or a kick, or at the end of the running task's slice.
Peek(c) ==
    /\ RqFree(c) /\ local[c] = {} /\ curr[c] \in Tasks \cup {"sched"}
    /\ LET seen == {d \in Tiers(c) : dsq[d] # {}} IN
         \E b \in seen \cup {NoDsq} :
           /\ IF seen = {} THEN b = NoDsq ELSE b \in seen /\ IsBestTier(b, seen)
           /\ disp' = [disp EXCEPT ![c] = [stage |-> 1, best |-> b, seen |-> seen]]
    /\ UNCHANGED <<st, home, dsq, dl, local, curr, idleMask, kicked, enq>>

\* The victims of the steal functions, in the order cognis_dispatch calls them:
\* CPUs of the same LLC, all CPUs, LLCs of the same node, nodes, all LLCs.  CPUs that
\* share a cache (cpus_share_cache) are those of one LLC of the exported topology.
Victims(c, stage) ==
    IF stage \in {2, 3} THEN
        {CpuDsq(v) : v \in {v \in CPUs \ {c} :
            /\ stage = 2 => LlcOf[v] = LlcOf[c]
            /\ HeadAllows(CpuDsq(v), c)}}
    ELSE IF stage \in {4, 6} THEN
        {LlcDsq(l) : l \in {l \in Llcs \ {LlcOf[c]} :
            /\ stage = 4 => LlcNode[l] = NodeOf[c]
            /\ dsq[LlcDsq(l)] # {}}}
    ELSE
        {NodeDsq(n) : n \in {n \in Nodes \ {NodeOf[c]} : dsq[NodeDsq(n)] # {}}}

\* Position of a victim in its scan: CPUs in index order, LLCs and nodes in
\* rotation from the domain of c.
ScanOrder(c, d) ==
    CASE d[1] = "cpu" -> d[2]
      [] d[1] = "llc" -> (d[2] - LlcOf[c] + NrLlcs) % NrLlcs
      [] OTHER        -> (d[2] - NodeOf[c] + NrNodes) % NrNodes

\* What the scan keeps: the best head, the first one scanned among equals.
IsBestVictim(d, c, victims) ==
    \A e \in victims \ {d} :
        \/ RemoteHeadBetter(d, e)
        \/ ~RemoteHeadBetter(e, d) /\ ScanOrder(c, d) < ScanOrder(c, e)

\* move_to_local: the first task of d that may run on c goes to its local DSQ.
MoveToLocal(c, d) ==
    /\ \E u \in Eligible(d, c) :
         /\ \A w \in Eligible(d, c) : dl[u] <= dl[w]
         /\ dsq' = [dsq EXCEPT ![d] = @ \ {u}]
         /\ dl' = [dl EXCEPT ![u] = 0]
         /\ home' = [home EXCEPT ![u] = c]
         /\ local' = [local EXCEPT ![c] = @ \cup {u}]
    /\ disp' = [disp EXCEPT ![c] = NoDisp]
    /\ UNCHANGED <<st, curr, idleMask, kicked, enq>>

\* Scan of the next steal function that has a victim.
NextSteal(c) ==
    /\ \E k \in disp[c].stage + 1 .. 6 :
         /\ \A j \in disp[c].stage + 1 .. k - 1 : Victims(c, j) = {}
         /\ \E d \in Victims(c, k) :
              /\ IsBestVictim(d, c, Victims(c, k))
              /\ disp' = [disp EXCEPT ![c] =
                            [stage |-> k, best |-> d, seen |-> {}]]
    /\ UNCHANGED <<st, home, dsq, dl, local, curr, idleMask, kicked, enq>>

\* Nothing to run: the CPU goes idle, or the slice of prev is replenished.
NothingFound(c) ==
    /\ \A k \in disp[c].stage + 1 .. 6 : Victims(c, k) = {}
    /\ disp' = [disp EXCEPT ![c] = NoDisp]
    /\ IF curr[c] = "sched"
         THEN /\ curr' = [curr EXCEPT ![c] = "idle"]
              /\ idleMask' = idleMask \cup {c}
         ELSE UNCHANGED <<curr, idleMask>>
    /\ UNCHANGED <<st, home, dsq, dl, local, kicked, enq>>

\* The tier the first successful move_to_local of the own-tier part takes from:
\* the best one, then the others that were seen, narrower first.
OwnMoveFrom(c, d) ==
    /\ d \in disp[c].seen /\ Eligible(d, c) # {}
    /\ \/ d = disp[c].best
       \/ /\ Eligible(disp[c].best, c) = {}
          /\ \A e \in disp[c].seen : Eligible(e, c) # {} => Width(d) <= Width(e)

MoveOwn(c) ==
    /\ disp[c].stage = 1
    /\ \E d \in disp[c].seen : OwnMoveFrom(c, d) /\ MoveToLocal(c, d)

MoveStolen(c) ==
    /\ disp[c].stage > 1
    /\ Eligible(disp[c].best, c) # {}
    /\ MoveToLocal(c, disp[c].best)

\* Mutant: only the best tier is tried before stealing.
StageEmptyBest(c) ==
    \/ disp[c].stage = 1 /\ \A d \in disp[c].seen \cap {disp[c].best} : Eligible(d, c) = {}
    \/ disp[c].stage > 1 /\ Eligible(disp[c].best, c) = {}

\* The moves of the current stage found no task c may run.
StageEmpty(c) ==
    \/ disp[c].stage = 1 /\ \A d \in disp[c].seen : Eligible(d, c) = {}
    \/ disp[c].stage > 1 /\ Eligible(disp[c].best, c) = {}

Steal(c) == StageEmpty(c) /\ NextSteal(c)

GiveUp(c) == StageEmpty(c) /\ NothingFound(c)

-----------------------------------------------------------------------------
(* The rest of a CPU's life: the kernel's side. *)

Pick(c) ==
    /\ RqFree(c) /\ curr[c] = "sched"
    /\ \E t \in local[c] :
         /\ curr' = [curr EXCEPT ![c] = t]
         /\ local' = [local EXCEPT ![c] = @ \ {t}]
    /\ UNCHANGED <<st, home, dsq, dl, idleMask, kicked, enq, disp>>

Block(c) ==
    /\ RqFree(c) /\ curr[c] \in Tasks
    /\ st' = [st EXCEPT ![curr[c]] = "asleep"]
    /\ curr' = [curr EXCEPT ![c] = "sched"]
    /\ UNCHANGED <<home, dsq, dl, local, idleMask, kicked, enq, disp>>

IdleWake(c) ==
    /\ RqFree(c) /\ curr[c] = "idle" /\ c \in kicked
    /\ curr' = [curr EXCEPT ![c] = "sched"]
    /\ kicked' = kicked \ {c}
    /\ idleMask' = idleMask \ {c}
    /\ UNCHANGED <<st, home, dsq, dl, local, enq, disp>>

\* RT work preempts: a task with slice left returns to the local DSQ.
RtStart(c) ==
    /\ c \in RtCpus /\ RqFree(c) /\ curr[c] # "rt"
    /\ local' = IF curr[c] \in Tasks
                  THEN [local EXCEPT ![c] = @ \cup {curr[c]}] ELSE local
    /\ curr' = [curr EXCEPT ![c] = "rt"]
    /\ kicked' = kicked \ {c}
    /\ idleMask' = idleMask \ {c}
    /\ UNCHANGED <<st, home, dsq, dl, enq, disp>>

RtStop(c) ==
    /\ RqFree(c) /\ curr[c] = "rt"
    /\ curr' = [curr EXCEPT ![c] = "sched"]
    /\ UNCHANGED <<st, home, dsq, dl, local, idleMask, kicked, enq, disp>>

-----------------------------------------------------------------------------
Next ==
    \/ \E t \in Tasks : Wake(t)
    \/ \E c \in CPUs, t \in Tasks :
         EnqSelected(c, t) \/ EnqWoken(c, t) \/ Requeue(c, t)
    \/ \E c \in CPUs :
         \/ EnqInsert(c) \/ Yield(c)
         \/ Peek(c) \/ MoveOwn(c) \/ MoveStolen(c) \/ Steal(c) \/ GiveUp(c)
         \/ Pick(c) \/ Block(c) \/ IdleWake(c) \/ RtStart(c) \/ RtStop(c)

Spec == Init /\ [][Next]_vars

\* A handler that has started finishes, and a CPU that waits for its own rq lock
\* (a queued spinlock) gets it.  Nothing makes a task block, wake up or change
\* its properties, and nothing ends RT work.
CpuFairness ==
    \A c \in CPUs :
        /\ WF_vars(EnqInsert(c))
        /\ WF_vars(MoveOwn(c) \/ MoveStolen(c) \/ Steal(c) \/ GiveUp(c))
        /\ SF_vars(Peek(c) \/ Pick(c))
        /\ SF_vars(IdleWake(c))

FairSpec == Spec /\ CpuFairness

-----------------------------------------------------------------------------
(* Properties *)

\* No lost wakeup: the CPU a waiting task belongs to is never idle without a
\* pending reschedule, whether the task is in one of the DSQs or in the CPU's
\* local DSQ.  A CPU may only go idle after cognis_dispatch has tried every tier
\* that holds such a task, whatever other CPUs do between its peeks and its moves
\* and whatever tasks pinned elsewhere stand in front.
HomeAwake ==
    \A t \in Tasks, c \in CPUs :
        (t \in local[c] \/ (Queued(t) /\ home[t] = c))
            => curr[c] # "idle" \/ c \in kicked

\* cpu_spill_threshold: "Keep at most one queued task in the scheduler-owned
\* per-CPU DSQ", although the depth is read before the insertion.
CpuTierShallow ==
    \A c \in CPUs : \A t, u \in dsq[CpuDsq(c)] : t = u

LlcCpus(l) == {c \in CPUs : LlcOf[c] = l}
NodeCpus(n) == {c \in CPUs : NodeOf[c] = n}

\* The depth check of overflow_dsq races with the insertions of the other CPUs of
\* the domain: an LLC or node DSQ may exceed its spill threshold, but by less
\* than one task per CPU of its domain.
SpillBounded ==
    /\ \A l \in Llcs : Cardinality(dsq[LlcDsq(l)])
                         <= LlcSpillThreshold - 1 + Cardinality(LlcCpus(l))
    /\ \A n \in Nodes : Cardinality(dsq[NodeDsq(n)])
                         <= NodeSpillThreshold - 1 + Cardinality(NodeCpus(n))

\* A CPU that has waiting tasks of its own and is not taken by RT work runs a
\* task: cognis_dispatch always finds one, even when thieves empty the queue it
\* chose or its head may not run there.
HomeProgress ==
    \A c \in CPUs :
        (\E t \in Tasks : Queued(t) /\ home[t] = c) ~>
            (\/ curr[c] \in Tasks \cup {"rt"}
             \/ ~\E t \in Tasks : Queued(t) /\ home[t] = c)

\* Task t is queued, about to be queued by an enqueue in progress, or running.
Placed(t) ==
    Queued(t) \/ \E c \in CPUs : t \in local[c] \/ curr[c] = t \/ enq[c].task = t

\* The tasks the scheduler still has, woken ones on their way to ops.enqueue included.
Awake == {t \in Tasks : st[t] \notin {"asleep", "on"} \/ Placed(t)}

Running == [c \in CPUs |-> IF curr[c] \in Tasks THEN curr[c] ELSE "none"]

Sched == INSTANCE TaskScheduler WITH awake <- Awake, running <- Running

\* Through all the queues, steals, requeues and preemptions no task is lost, none
\* is run twice, and none leaves its affinity mask, also when a thief takes it from
\* a queue between another CPU's peek and its move.
ImplementsScheduler == Sched!Spec

-----------------------------------------------------------------------------
(* The inductive invariant behind HomeAwake, CpuTierShallow and SpillBounded. *)

\* A task is in one place only: on its way to ops.enqueue or asleep, in one
\* enqueue, in one DSQ, in one local DSQ, or running on one CPU.
OnePlace ==
    \A t \in Tasks :
        /\ \A d \in Dsqs : t \in dsq[d] =>
              /\ st[t] = "on"
              /\ \A e \in Dsqs : t \in dsq[e] => e = d
              /\ \A c \in CPUs : t \notin local[c] /\ curr[c] # t /\ enq[c].task # t
        /\ \A c \in CPUs : t \in local[c] =>
              /\ st[t] = "on"
              /\ \A b \in CPUs : /\ t \in local[b] => b = c
                                /\ curr[b] # t /\ enq[b].task # t
        /\ \A c \in CPUs : curr[c] = t =>
              /\ st[t] = "on"
              /\ \A b \in CPUs : (curr[b] = t => b = c) /\ enq[b].task # t
        /\ \A c \in CPUs : enq[c].task = t => st[t] = "on"

\* A task belongs to a CPU it may run on: it runs there, or waits in the local
\* DSQ or in a tier of that CPU.
HomeOK ==
    \A t \in Tasks :
        /\ home[t] \in Allowed[t]
        /\ \A c \in CPUs : t \in local[c] \/ curr[c] = t => home[t] = c
        /\ \A d \in Dsqs : t \in dsq[d] => d \in Tiers(home[t])

\* The idle mask names idle CPUs only, and a CPU in cognis_dispatch is not idle,
\* has an empty local DSQ and no enqueue in progress.  A steal has a victim.
CpuOK ==
    \A c \in CPUs :
        /\ c \in idleMask => curr[c] = "idle"
        /\ disp[c].stage # 0 => /\ local[c] = {} /\ enq[c].task = "none"
                                /\ curr[c] \in Tasks \cup {"sched"}
        /\ disp[c].stage > 1 => disp[c].best \in Dsqs

\* The target chosen by an enqueue in progress is a tier of the task's CPU; the
\* private tier is chosen only while it is empty, and it stays empty.
EnqOK ==
    \A c \in CPUs : enq[c].task \in Tasks =>
        /\ home[enq[c].task] = c
        /\ enq[c].dsq \in Tiers(c)
        /\ enq[c].dsq = CpuDsq(c) => dsq[CpuDsq(c)] = {}

\* cognis_dispatch on c has seen every tier that holds a task of c, and reaches
\* the steal functions only when there is none.
DispOK ==
    \A c \in CPUs, t \in Tasks, d \in Dsqs :
        (disp[c].stage # 0 /\ t \in dsq[d] /\ home[t] = c)
            => disp[c].stage = 1 /\ d \in disp[c].seen

IndInv ==
    /\ TypeOK /\ OnePlace /\ HomeOK /\ CpuOK /\ EnqOK /\ DispOK
    /\ HomeAwake /\ CpuTierShallow

\* The enqueues that have chosen DSQ d and not inserted yet.
Pending(d) == {c \in CPUs : enq[c].task \in Tasks /\ enq[c].dsq = d}

\* Depth and pending insertions together stay within the bound: every pending
\* insertion is of another CPU of the domain, and the last of them to choose d
\* saw a depth below the threshold.
DepthOK(d, threshold) ==
    Cardinality(dsq[d]) + Cardinality(Pending(d))
        <= threshold - 1 + Cardinality({c \in CPUs : d \in Tiers(c)})

SpillOK ==
    /\ \A l \in Llcs : DepthOK(LlcDsq(l), LlcSpillThreshold)
    /\ \A n \in Nodes : DepthOK(NodeDsq(n), NodeSpillThreshold)
=============================================================================
